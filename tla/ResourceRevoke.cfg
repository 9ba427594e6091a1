CONSTANTS
  Ops = {o}
  Caps = {c}
  CapsOf <- AllCaps
  Metered = {}
  Reconcilers = {}
  Uses = 1
  Phases <- OnePhase
  NoPhase = NoPhase
  MaxPhases = 1
  MaxConsumes = 0
  MaxRevokes = 0
  MaxResourceRevokes = 1
  MaxFaults = 0
  MaxCrashes = 0
SPECIFICATION Spec
INVARIANTS ResourceStaysRevoked
CHECK_DEADLOCK FALSE
