SPECIFICATION Spec
CONSTANTS
  ChunkSize = 2
  Cases <- GoodCases
  MaxPos = 110
  Method <- Tree
INVARIANTS
  TypeOK
  AnnouncedLength
PROPERTIES
  StreamsTheEncoding
  PendingMeansFull
CHECK_DEADLOCK FALSE
