SPECIFICATION Spec
CONSTANTS
  ChunkSize = 2
  MaxDepth = 3
  MaxFields = 8
  Cases <- Unlocated
  Containers = {"list", "set", "map"}
INVARIANT
  ErrorPathIsWhereItFailed
CHECK_DEADLOCK FALSE
