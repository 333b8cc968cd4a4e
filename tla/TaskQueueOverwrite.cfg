SPECIFICATION Spec
CONSTANTS
  NTasks = 1
  ProjectOf <- MCOneProject
  MaxRetry = 1
  Concurrency = 2
  PageSize = 30
  StoreFaults = FALSE
  OpenMayFail = FALSE
  MayAbort = FALSE
  MaxExecs = 1
  MaxCancels = 0
  MaxStops = 0
  MaxDeletes = 0
CHECK_DEADLOCK FALSE
INVARIANTS FinalStateIsTerminal
