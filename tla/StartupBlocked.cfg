CONSTANTS
  Ops = {o}
  Caps = {c}
  CapsOf <- AllCaps
  Metered = {o}
  Reconcilers = {o}
  Uses = 1
  Phases <- OnePhase
  NoPhase = NoPhase
  MaxPhases = 1
  MaxConsumes = 0
  MaxRevokes = 0
  MaxResourceRevokes = 0
  MaxFaults = 0
  MaxCrashes = 1
SPECIFICATION LiveSpec
PROPERTIES Reopens
CHECK_DEADLOCK FALSE
