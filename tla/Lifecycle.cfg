CONSTANTS
  Procs = {r, a, b}
  Root = r
  NoProc = NoProc
  Workers = {w1, w2}
  NoWorker = NoWorker
  MaxQuanta = 2
  MaxHost = 1
  MaxSignals = 1
  MaxCrashes = 1
  MaxFaults = 1
SPECIFICATION Spec
SYMMETRY Sym
CHECK_DEADLOCK FALSE
INVARIANTS IInv NoStrandedParent ExitedHasNoLiveDescendants ReservationsExact
PROPERTIES TerminalIsFinal FencedTokenStaysFenced HostGateHeld
