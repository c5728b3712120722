SPECIFICATION Spec
CONSTANTS
  MaxLines = 3
  BufSize = 7
  MaxLen = 2
  Blocks = {1, 2, 3}
  Files = {f}
  Stored <- StoredFiles
  Given <- Forms
  NULL = NULL
  NoName = NoName
  NoFile = NoFile
INVARIANTS LinesInv NothingToLose
PROPERTY OrderKept
CHECK_DEADLOCK FALSE
