SPECIFICATION FairRoutingSpec
CONSTANTS
  j1 = j1
  w1 = w1
  d1 = d1
  p1 = p1
  NoPort = NoPort
  NoRoute = NoRoute
  Jobs <- OneJob
  Workers <- OneWorker
  Deletes <- OneDelete
  Ports <- OnePort
  Services <- OneService
  ServiceOf <- SameService
  ReclaimCount = 1
  SlowHandlers = FALSE
  Faulty = {"register", "unregister"}
  DockerErrs = {}
  MaxFaults = 1
  MaxCrashes = 1
  MaxMishaps = 1
  MaxAttempts = 2
  DeadMaxLen = 2
  ListLimit = 1
  NoRequest = NoRequest
  r1 = r1
  Requests <- OneRequest
  MaxRestarts = 1
  MaxListErrs = 1
  ScanRepeats = 0

  
PROPERTY
  ReadyIsRouted
