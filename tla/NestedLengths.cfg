SPECIFICATION Spec
CONSTANTS
  ChunkSize = 2
  Cases <- Disagreements
  MaxPos = 200
  Method <- Tree
INVARIANT
  AnnouncedLength
CHECK_DEADLOCK FALSE
