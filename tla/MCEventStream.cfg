SPECIFICATION FairSpec
CONSTANTS
  MaxEvents = 4
  MaxAttempts = 2
  BatchLimit = 2
  PageSize = 2
  MaxScan = 3
  MaxTimeline = 2
  MaxWire = 1
  MaxFaults = 1
  MaxReads = 1
INVARIANTS PageTruthful 
PROPERTIES EventuallyShown
CHECK_DEADLOCK FALSE
