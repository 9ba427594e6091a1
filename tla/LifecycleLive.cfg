CONSTANTS
  Procs = {r, a}
  Root = r
  NoProc = NoProc
  Workers = {w1, w2}
  NoWorker = NoWorker
  MaxQuanta = 2
  MaxHost = 1
  MaxSignals = 1
  MaxCrashes = 1
  MaxFaults = 1
SPECIFICATION FairSpec
PROPERTIES RunningIsLeft LimitKillWakesParent
CHECK_DEADLOCK FALSE
