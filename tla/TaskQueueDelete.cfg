SPECIFICATION Spec
CONSTANTS
  NTasks = 2
  ProjectOf <- MCProjectOf
  MaxRetry = 1
  Concurrency = 1
  PageSize = 30
  StoreFaults = FALSE
  OpenMayFail = FALSE
  MayAbort = FALSE
  MaxExecs = 1
  MaxCancels = 0
  MaxStops = 0
  MaxDeletes = 1
CHECK_DEADLOCK FALSE
PROPERTIES DeleteSparesOthers ImplementsContract
