SPECIFICATION EnvSpec
CONSTANTS
  EnvMax = 3
  KeyMax = 2
  ValMax = 3
  Keys = {A, B, E, L}
  KeyLen <- Lengths
  LongKeys = {L1, L2}
  Vals = {0, 1, 2, 3}
  Empty = E
  CutKey = L
  NoFile = NoFile
INVARIANTS EnvInv RestartKeeps
