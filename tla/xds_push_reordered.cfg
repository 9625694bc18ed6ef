SPECIFICATION FairSpec
CONSTANTS
  j1 = j1
  j2 = j2
  r1 = r1
  r2 = r2
  e1 = e1
  e2 = e2
  NoRoute = NoRoute
  Jobs <- OneJob
  Services <- OneService
  Endpoints <- TwoEndpoints
  Requests <- OneRequest
  MaxChanges = 1
  MaxRestarts = 0
  MaxListErrs = 0
  ScanRepeats = 0
PROPERTY
  CacheConverges
