CONSTANTS
  Ops = {o}
  Caps = {c, d}
  CapsOf <- AllCaps
  Metered = {o}
  Reconcilers = {o}
  Uses = 2
  Phases <- ThreePhases
  NoPhase = NoPhase
  MaxPhases = 2
  MaxConsumes = 0
  MaxRevokes = 1
  MaxResourceRevokes = 1
  MaxFaults = 2
  MaxCrashes = 2
SPECIFICATION LiveSpec
CHECK_DEADLOCK FALSE
INVARIANTS EffectsAreEvidenced RecoveryDischarges
PROPERTIES Recovers
