SPECIFICATION Spec
CONSTANTS
  NPages = 8
  TablePages = 1
  FilePages = {0}
  BssPages = {1}
  StackPage = 2
  RegionPage = 3
  HeapPages = {4}
  MaxRegions = 2
  MaxTasks = 1
INVARIANT BssStartsZero
CHECK_DEADLOCK FALSE
