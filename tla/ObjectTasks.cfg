SPECIFICATION FairSpec
CONSTANTS
  Tasks = {t1}
  Runs = {r1, r2}
  NoRun = NoRun
  MaxFaults = 3
INVARIANTS TasksInv ToldOnce
PROPERTIES FirstOutcomeStands WaitIsServed OutcomeIsTold
