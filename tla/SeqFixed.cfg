SPECIFICATION Spec
CONSTANTS
  Items <- FixedItems
  None = None
  FixedSize = TRUE
  Alignment = 4
  EnableIndex = TRUE
  ChunkSize = 1
  Base = 2
  MaxPos = 22
  MaxElements = 3
INVARIANTS
  TypeOK
  ElementsInPlace
  ReadyMeansWritten
  BusyOnlyWhileUnsent
  IndexLeadsToMarkers
PROPERTY
  PendingMeansFull
