SPECIFICATION Spec
CONSTANTS
  NPages = 7
  TablePages = 1
  FilePages = {0}
  BssPages = {}
  StackPage = 2
  RegionPage = 3
  HeapPages = {4}
  MaxRegions = 2
  MaxTasks = 2
VIEW UntilBypassed
INVARIANTS SharingInv PrivateUnlessBypassed FaultsResolved
CHECK_DEADLOCK FALSE
