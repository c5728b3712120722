SPECIFICATION Spec
CONSTANTS
  NInodes = 4
  NBlocks = 6
  NSlots = 3
  MaxSize = 2
  MaxCrashes = 0
  BigFile = TRUE
  a = a
  b = b
  x = x
  y = y
  NoChunk = NoChunk
  Names = {a, b}
  Chunks = {x, y}
  Clip <- IdentityClip
SYMMETRY Symmetry
INVARIANTS
  FailureIsClean
