SPECIFICATION Spec
CONSTANTS
  Tasks = {t1}
  Runs = {r1, r2}
  NoRun = NoRun
  MaxFaults = 0
INVARIANTS
  RunnerNotScheduled
