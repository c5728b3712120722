SPECIFICATION Spec
CONSTANTS
  NInodes = 3
  NBlocks = 4
  NSlots = 4
  MaxSize = 1
  MaxCrashes = 1
  BigFile = FALSE
  a = a
  b = b
  x = x
  y = y
  NoChunk = NoChunk
  Names = {a, b}
  Chunks = {x, y}
  Clip <- IdentityClip
SYMMETRY Symmetry
CONSTRAINT NotTorn
INVARIANTS
  LinksSound
  SingleLink
  NoSharedBlocks
  DirsSound
  NamesFormTree
  NoLeak
  WriteOutcome
PROPERTIES
  NothingLost
  FilesUntouched
