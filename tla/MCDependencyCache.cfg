SPECIFICATION CacheSpec
CONSTANTS
  a = a
  b = b
  Actors = {a, b}
  Trees <- MCTrees
  Commands = {"NODE"}
  Limit = 1
  MaxRequests = 3
  MaxEdits = 1
  MaxFaults = 1
SYMMETRY Symmetry
INVARIANTS MountMatchesManifest  EverythingOwned
CHECK_DEADLOCK FALSE
