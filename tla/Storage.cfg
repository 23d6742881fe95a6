SPECIFICATION Spec
CONSTANTS
  Sinks <- MCSinks
  Byte = {0, 1, 9}
  Old = 9
  Aligns = {1, 2, 4}
  WriterFails = TRUE
  MaxTaken = 6
  MaxRequest = 3
INVARIANTS
  TypeOK
  HoldsWhatItTook
  PosCountsTaken
  NothingElseTouched
  WrittenIsTheEnd
  PosTellsOfFailure
