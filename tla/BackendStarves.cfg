\* A task added while the worker is busy; nobody leaves, nothing raises.
SPECIFICATION FairSpec
CONSTANTS
  Task = {t1, t2}
  TaskLists <- MCSingleLists
  MaxTasks = 2
  Queriers = {}
  MayExit = FALSE
  RunMayRaise = FALSE
PROPERTY TasksRun
CHECK_DEADLOCK FALSE
