SPECIFICATION Spec
CONSTANTS
  j1 = j1
  j2 = j2
  w1 = w1
  w2 = w2
  d1 = d1
  d2 = d2
  p1 = p1
  p2 = p2
  NoPort = NoPort
  Jobs <- OneJob
  Workers <- OneWorker
  Deletes <- NoDeletes
  Ports <- OnePort
  Services <- OneService
  ServiceOf <- SameService
  ReclaimCount = 1
  SlowHandlers = TRUE
  Faulty <- RemoteCalls
  DockerErrs = {"transient", "permanent"}
  MaxFaults = 1
  MaxCrashes = 1
  MaxAttempts = 2
  DeadMaxLen = 2
  ListLimit = 1
INVARIANT
  ReadyIsReachable
