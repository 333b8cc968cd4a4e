SPECIFICATION FairSpec
CONSTANTS
  NTasks = 1
  ProjectOf <- MCOneProject
  MaxRetry = 1
  Concurrency = 2
  PageSize = 30
  StoreFaults = TRUE
  OpenMayFail = TRUE
  MayAbort = TRUE
  MaxExecs = 3
  MaxCancels = 2
  MaxStops = 2
  MaxDeletes = 0
CHECK_DEADLOCK FALSE
INVARIANTS TypeOK NoLostTask CompletedIsTrue ActiveIsRunning ReadersAreCancelled BlankIsExplained
PROPERTIES EveryTaskSettles SettledTasksGoQuiet ImplementsContract
