CONSTANTS
  Ops = {o, n}
  Caps = {c}
  CapsOf <- AllCaps
  Metered = {o}
  Reconcilers = {o}
  Uses = 2
  Phases <- TouchingPhases
  NoPhase = NoPhase
  MaxPhases = 2
  MaxConsumes = 1
  MaxRevokes = 1
  MaxResourceRevokes = 1
  MaxFaults = 1
  MaxCrashes = 1
SPECIFICATION Spec
CHECK_DEADLOCK FALSE
INVARIANTS AuthorityInv EffectsAreCharged
