SPECIFICATION Spec
CONSTANTS
  ChunkSize = 2
  MaxDepth = 3
  MaxFields = 8
  Cases <- Misread
  Containers = {"list", "set", "map"}
INVARIANT
  ReadsWhatWasWritten
CHECK_DEADLOCK FALSE
