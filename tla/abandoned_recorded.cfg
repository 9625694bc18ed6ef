SPECIFICATION Spec
CONSTANTS
  j1 = j1
  j2 = j2
  w1 = w1
  w2 = w2
  d1 = d1
  d2 = d2
  p1 = p1
  p2 = p2
  NoPort = NoPort
  Jobs <- OneJob
  Workers <- OneWorker
  Deletes <- OneDelete
  Ports <- OnePort
  Services <- OneService
  ServiceOf <- SameService
  ReclaimCount = 2
  SlowHandlers = TRUE
  Faulty = {"get", "put", "enqueue", "ack"}
  DockerErrs = {"transient", "permanent", "teardown"}
  MaxFaults = 1
  MaxCrashes = 0
  MaxAttempts = 1
  DeadMaxLen = 2
  ListLimit = 1
INVARIANT
  AbandonedIsRecorded
