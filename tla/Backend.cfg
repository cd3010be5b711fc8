\* Threads add tasks and query, the broker may leave, run_tasks may raise.
SPECIFICATION FairSpec
CONSTANTS
  Task = {t1, t2}
  TaskLists <- MCTaskLists
  MaxTasks = 3
  Queriers = {q1, q2}
  MayExit = TRUE
  RunMayRaise = TRUE
INVARIANT TypeOK
INVARIANT Conservation
INVARIANT AnswerMatches
PROPERTY PipeSpec
PROPERTY WakeupRunsAll
CHECK_DEADLOCK FALSE
