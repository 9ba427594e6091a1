CONSTANTS
  p1 = p1
  p2 = p2
  MaxRequests = 3
  Procs = {p1, p2}
  OwnerOf <- FirstIsOther
  Drains = {d}
  Callers = {c}
  NoHolder = NoHolder
  AskOf <- SomeAsks
  Scope = {p1}
  ListLimit = 2
  ProviderFaults = {"invalid", "not_started", "ambiguous"}
  MaxFaults = 2
  MaxControls = 1
SPECIFICATION FairSpec
CHECK_DEADLOCK FALSE
INVARIANTS WaitIsAnswerable RequestsInv
PROPERTIES DecidedOnce DoubtNotRepeated ReleasesServed
