SPECIFICATION Spec
CHECK_DEADLOCK FALSE
CONSTANTS
  j1 = j1
  j2 = j2
  c1 = c1
  c2 = c2
  t1 = t1
  t2 = t2
  p1 = p1
  p2 = p2
  p3 = p3
  NoPort = NoPort
  NoCall = NoCall
  Jobs <- OneJob
  JobOf <- SameJob
  Provisions <- TwoProvisions
  Teardowns <- NoTeardowns
  Ports <- ThreePorts
  CmdErrs = {"daemon", "other"}
  TeardownsOverlap = FALSE
  MaxErrs = 0
  MaxDeaths = 0
  MaxStops = 0
INVARIANT DuplicateNameIsReused
