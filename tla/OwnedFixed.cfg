SPECIFICATION OwnedSpec
CONSTANTS
  Items <- FixedItems
  None = None
  FixedSize = TRUE
  Alignment = 4
  EnableIndex = TRUE
  ChunkSize = 1
  Base = 2
  MaxPos = 24
  MaxElements = 3
  MaxInputs = 1
INVARIANTS
  OneElementHeld
  ReadyIsWhole
PROPERTIES
  StreamsTheEncoding
  EventuallyReady
