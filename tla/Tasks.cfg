SPECIFICATION Spec
CONSTANTS
  MaxTasks = 3
  MaxPid = 3
  Sigs = {2, 9}
  Handlers = {"fn"}
INVARIANTS TasksInv ContinuesWhereStopped ChildNeverRuns NoHandlerRuns
PROPERTIES StatusOnce BlockedForEver MainRunsAgain
CHECK_DEADLOCK FALSE
