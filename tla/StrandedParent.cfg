CONSTANTS
  Procs = {r, a}
  Root = r
  NoProc = NoProc
  Workers = {w1, w2}
  NoWorker = NoWorker
  MaxQuanta = 2
  MaxHost = 0
  MaxSignals = 0
  MaxCrashes = 0
  MaxFaults = 1
SPECIFICATION FairSpec
PROPERTY TerminalChildWakesParent
CHECK_DEADLOCK FALSE
