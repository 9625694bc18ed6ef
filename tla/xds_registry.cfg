SPECIFICATION FairSpec
CONSTANTS
  j1 = j1
  j2 = j2
  r1 = r1
  r2 = r2
  e1 = e1
  e2 = e2
  NoRoute = NoRoute
  Jobs <- TwoJobs
  Services <- TwoServices
  Endpoints <- TwoEndpoints
  Requests <- OneRequest
  MaxChanges = 2
  MaxRestarts = 1
  MaxListErrs = 1
  ScanRepeats = 1
INVARIANTS
  TypeOK
  LatestSnapshotIsRegistry
PROPERTIES
  RegistryConverges
  ReplaceAllIsExact
