SPECIFICATION OneShotSpec
CONSTANTS
  Sinks <- MCSinks
  Byte = {0, 1, 9}
  Old = 9
  Aligns = {1}
  WriterFails = TRUE
  MaxTaken = 0
  MaxRequest = 0
  Header <- MCHeader
  Bodies <- MCBodies
INVARIANT
  OkMeansWhole
CHECK_DEADLOCK FALSE
