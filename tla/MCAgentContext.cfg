SPECIFICATION ContextSpec
CONSTANTS
  Scope <- MCScope
  Python <- MCPython
  Versions <- MCVersions
  TaskTerms <- MCTaskTerms
  PathTerms <- MCPathTerms
  MaxFiles = 2
  MaxFileChars = 5
  MaxTotalChars = 7
  MaxUnits = 6
  MaxIndexFiles = 1
  MaxDependencyFiles = 1
  MaxRegions = 2
  MaxGroups = 1
  MaxSingle = 3
  MaxTurn = 6
  Envelope = 1
  MinPreview = 2
  Sizes = {4}
  MaxListed = 3
  MaxSlices = 2
  MaxCalls = 2
  MaxLateWrites = 1
INVARIANTS PacketSound HiddenIsKnown 
CHECK_DEADLOCK FALSE
