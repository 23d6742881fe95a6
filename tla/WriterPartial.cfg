SPECIFICATION FairSpec
CONSTANTS
  Values <- AnyValues
  None = None
  Header <- ZebinHeader
  Base = 1
  MaxPos = 9
INVARIANTS
  TypeOK
  CountsAddUp
PROPERTIES
  StreamsTheArchive
  WriteAllIsAll
  WriteAllReturns
  EventuallyFinished
