SPECIFICATION Spec
CONSTANTS
  ChunkSize = 2
  MaxDepth = 3
  MaxFields = 8
  Cases <- GoodCases
  Containers = {"list", "set", "map"}
INVARIANTS
  ReadsWhatWasWritten
  NestingIsTheLimit
  LengthIsNoticed
  ErrorPathIsWhereItFailed
  IteratorIsTheRest
  CollectedIsEverything
CHECK_DEADLOCK FALSE
