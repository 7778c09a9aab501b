SPECIFICATION FairSpec
CONSTANTS
  c1 = c1
  c2 = c2
  t1 = t1
  t2 = t2
  Callers = {c1, c2}
  Tasks = {t1, t2}
  MaxAttempts = 5
  MaxFaults = 3
  MaxHuman = 2
INVARIANTS PublicationSound
PROPERTIES  EventuallyPublished
CHECK_DEADLOCK FALSE
