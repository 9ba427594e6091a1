CONSTANTS
  Procs = {p, q}
  NoProc = NoProc
  Threads = {t, u}
  NoThread = NoThread
  Stripes = {s}
  StripeOf <- OneStripe
  MaxRetries = 0
  MaxCancels = 1
  MaxFaults = 0
  MaxCrashes = 0
SPECIFICATION FairSpec
PROPERTY PhasesAttempted
CHECK_DEADLOCK FALSE
