\* The broker may deliver any message again, under the fairness of clocks
\* and time limits: what fencing still guarantees.
SPECIFICATION FairSpec
CONSTANTS
  w1 = w1  w2 = w2
  r1 = r1
  Workers = {w1, w2}
  Reconcilers = {r1}
  MaxAttempts = 2
  MaxGenerations = 2
  LeaseTicks = 2
  Redelivery = TRUE
  SingleTask = TRUE
INVARIANTS SucceededEvidenceHasCommit
PROPERTIES FencingContract ActiveLeaseSettles
CHECK_DEADLOCK FALSE
