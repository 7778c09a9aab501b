SPECIFICATION FairSpec
CONSTANTS
  k1 = k1
  k2 = k2
  Tasks = {1, 2, 3}
  Controllers = {k1, k2}
  Complexity <- TwoHigh
  MaxTasks = 3
  Funded <- OneOfEachShape
  MaxConcurrent = 2
  MaxRepairs = 1
  MaxCrashes = 1
INVARIANTS FrontiersSound WorkSound StaleFactsHarmless
 
CHECK_DEADLOCK FALSE
