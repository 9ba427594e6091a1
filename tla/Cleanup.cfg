CONSTANTS
  Procs = {p, q}
  NoProc = NoProc
  Threads = {t, u}
  NoThread = NoThread
  Stripes = {s}
  StripeOf <- OneStripe
  MaxRetries = 1
  MaxCancels = 1
  MaxFaults = 2
  MaxCrashes = 1
SPECIFICATION FairSpec
CHECK_DEADLOCK FALSE
INVARIANTS MarkedIsDone RowsInv
PROPERTIES MarksStand CleanupEnds
