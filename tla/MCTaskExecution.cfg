\* Several tasks per Run, no redelivery: the evidence of one task.
SPECIFICATION Spec
CONSTANTS
  w1 = w1  w2 = w2
  r1 = r1  r2 = r2
  Workers = {w1, w2}
  Reconcilers = {r1, r2}
  MaxAttempts = 3
  MaxGenerations = 3
  LeaseTicks = 1
  Redelivery = FALSE
  SingleTask = FALSE
SYMMETRY Symmetry
INVARIANTS TypeOK  NoSpuriousCorruption PublishedOnce
 
CHECK_DEADLOCK FALSE
