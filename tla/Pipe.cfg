SPECIFICATION Spec
CONSTANTS
  N = 2
  NPipes = 1
  FirstFd = 1
  MaxFds = 3
  Procs = 2
  Readers = {1}
  Writers = {0}
  Dups = {1}
  Exits = {1}
  DupTo = {0}
  MaxLen = 2
  MaxBytes = 3
  MaxFail = 1
CONSTRAINT NoRefLost
INVARIANTS RingInv InOrder SleepsOnlyIfMissed RefsExact
PROPERTY OnlyKillWakesAtEof
CHECK_DEADLOCK FALSE
