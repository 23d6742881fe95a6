SPECIFICATION Spec
CONSTANTS
  Segment = {a, b}
  Cap = 2
  MaxDepth = 2
  Alloc = TRUE
  MaxFrames = 5
INVARIANTS
  TypeOK
  DepthIsTheLevel
  PathIsThePlace
  FirstErrorIsKept
