CONSTANTS
  p1 = p1
  p2 = p2
  MaxRequests = 4
  Procs = {p1, p2}
  OwnerOf <- LastIsOther
  Drains = {d}
  Callers = {}
  NoHolder = NoHolder
  AskOf <- LabelledSecond
  Scope = {}
  ListLimit = 4
  ProviderFaults = {"ambiguous"}
  MaxFaults = 1
  MaxControls = 0
SPECIFICATION FairSpec
PROPERTIES NeighbourServed
CHECK_DEADLOCK FALSE
