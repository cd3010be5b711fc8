------------------------------ MODULE Backend -------------------------------
(***************************************************************************)
(* The background process of backends/: the ProcessManager in the broker's  *)
(* process (add_tasks, query, __enter__, __exit__) and the ProcessWorker    *)
(* loop in its own process.  They share the list `tasks', the list `status' *)
(* and two condition variables.                                             *)
(*                                                                          *)
(* What happens while task_condition's lock is held by a manager thread is  *)
(* one step: those sections never block.  The worker's section is several   *)
(* steps, because status is also written by threads without that lock; the  *)
(* lock is held exactly when wpc is in Holding.  status[QUERY] and          *)
(* status[RESPONSE] are both status[1] in the code, so they are one         *)
(* variable here, `slot'.                                                   *)
(***************************************************************************)
EXTENDS Naturals, Sequences

CONSTANTS Task,         \* what add_tasks is given: rows of the tree, table operations
          TaskLists,    \* the argument lists add_tasks may be called with
          MaxTasks,     \* bound: tasks submitted in a behaviour
          Queriers,     \* handler threads that may call query, once each
          MayExit,      \* TRUE if the broker may leave the manager's context
          RunMayRaise   \* TRUE if run_tasks may raise (a database error)

ASSUME BackendAssumption == /\ TaskLists \subseteq Seq(Task)
                            /\ MaxTasks \in Nat
                            /\ MayExit \in BOOLEAN
                            /\ RunMayRaise \in BOOLEAN

VARIABLES log,      \* every task ever submitted, in order (history)
          tasks,    \* the shared task list
          batch,    \* the worker's local `consumed_tasks'
          done,     \* tasks that run_tasks has returned from, in order (history)
          running,  \* status[RUNNING]
          slot,     \* status[QUERY], which is also status[RESPONSE]
          wpc,      \* where the worker is
          wrunning, \* the worker's local `running'
          query,    \* the worker's local `query'
          mpc,      \* where the main thread is with __enter__ and __exit__
          qpc,      \* where each querier is in ProcessManager.query
          result    \* what each querier's call returned

taskVars == <<log, tasks, batch, done>>
vars == <<log, tasks, batch, done, running, slot, wpc, wrunning, query, mpc, qpc, result>>

None == <<"none">>
Query(q) == <<"query", q>>
Response(q) == <<"response", q>>
Slot == {None} \cup {Query(q) : q \in Queriers} \cup {Response(q) : q \in Queriers}

WorkerPc == {"new", "check", "acquire", "waiting", "notified", "awake", "read",
             "copied", "took", "respond", "signal", "work", "stopped", "crashed"}
MainPc == {"new", "up", "flagged", "joining", "stopped"}
QuerierPc == {"idle", "posted", "waiting", "notified", "read", "returned"}

\* The worker owns task_condition's lock.
Holding == {"awake", "read", "copied", "took"}
NoTaskLock == TRUE              \* mutant: add_tasks does not take the lock
TaskLockFree == wpc \notin Holding

\* Some thread is inside `with self.query_lock'.
NoQueryLock == TRUE             \* mutant: query does not take query_lock
QueryLockFree == \A q \in Queriers : qpc[q] \in {"idle", "returned"}

\* task_condition.notify(): wakes the worker if it waits, and is lost otherwise.
NotifiedWorker == IF wpc = "waiting" THEN "notified" ELSE wpc

Init == /\ log = <<>> /\ tasks = <<>> /\ batch = <<>> /\ done = <<>>
        /\ running = FALSE
        /\ slot = None
        /\ wpc = "new"
        /\ wrunning = FALSE
        /\ query = None
        /\ mpc = "new"
        /\ qpc = [q \in Queriers |-> "idle"]
        /\ result = [q \in Queriers |-> None]

-----------------------------------------------------------------------------
(* ProcessManager, in the broker's process *)

\* mutant: the process is not started.
EnterUnstarted == /\ mpc = "new"
                  /\ mpc' = "up"
                  /\ running' = TRUE
                  /\ UNCHANGED <<taskVars, slot, wpc, wrunning, query, qpc, result>>

\* __enter__: the flag, then process.start(); the worker has run nothing yet.
Enter == /\ mpc = "new"
         /\ mpc' = "up"
         /\ running' = TRUE
         /\ wpc' = "check"
         /\ UNCHANGED <<taskVars, slot, wrunning, query, qpc, result>>

\* add_tasks(*new), by any handler thread.
AddTasks(new) == /\ mpc # "new"
                 /\ TaskLockFree
                 /\ Len(log) + Len(new) <= MaxTasks
                 /\ tasks' = tasks \o new
                 /\ log' = log \o new
                 /\ wpc' = NotifiedWorker
                 /\ UNCHANGED <<batch, done, running, slot, wrunning, query, mpc, qpc, result>>

\* query: take query_lock, store the query, notify the worker.
PostQuery(q) == /\ mpc # "new"
                /\ qpc[q] = "idle"
                /\ QueryLockFree
                /\ TaskLockFree
                /\ slot' = Query(q)
                /\ wpc' = NotifiedWorker
                /\ qpc' = [qpc EXCEPT ![q] = "posted"]
                /\ UNCHANGED <<taskVars, running, wrunning, query, mpc, result>>

\* ... then take response_condition and wait, without looking at the slot first.
AwaitResponse(q) == /\ qpc[q] = "posted"
                    /\ qpc' = [qpc EXCEPT ![q] = "waiting"]
                    /\ UNCHANGED <<taskVars, running, slot, wpc, wrunning, query, mpc, result>>

\* ... woken: read the slot, and wait again if it is empty.
ReadResponse(q) == /\ qpc[q] = "notified"
                   /\ IF slot = None
                      THEN /\ qpc' = [qpc EXCEPT ![q] = "waiting"]
                           /\ UNCHANGED result
                      ELSE /\ qpc' = [qpc EXCEPT ![q] = "read"]
                           /\ result' = [result EXCEPT ![q] = slot]
                   /\ UNCHANGED <<taskVars, running, slot, wpc, wrunning, query, mpc>>

\* ... then clear the slot and release both locks.
ReturnResponse(q) == /\ qpc[q] = "read"
                     /\ slot' = None
                     /\ qpc' = [qpc EXCEPT ![q] = "returned"]
                     /\ UNCHANGED <<taskVars, running, wpc, wrunning, query, mpc, result>>

\* __exit__: the flag is cleared without task_condition's lock ...
ExitFlag == /\ MayExit
            /\ mpc = "up"
            /\ mpc' = "flagged"
            /\ running' = FALSE
            /\ UNCHANGED <<taskVars, slot, wpc, wrunning, query, qpc, result>>

\* ... the worker is notified ...
ExitNotify == /\ mpc = "flagged"
              /\ TaskLockFree
              /\ mpc' = "joining"
              /\ wpc' = NotifiedWorker
              /\ UNCHANGED <<taskVars, running, slot, wrunning, query, qpc, result>>

\* ... and process.join() returns once the process has ended.
Join == /\ mpc = "joining"
        /\ wpc \in {"stopped", "crashed"}
        /\ mpc' = "stopped"
        /\ UNCHANGED <<taskVars, running, slot, wpc, wrunning, query, qpc, result>>

-----------------------------------------------------------------------------
(* ProcessWorker.__init__, in the worker's process *)

\* while self.status[RUNNING]
CheckRunning == /\ wpc = "check"
                /\ wpc' = IF running THEN "acquire" ELSE "stopped"
                /\ UNCHANGED <<taskVars, running, slot, wrunning, query, mpc, qpc, result>>

\* with self.task_condition: wait(), whatever is pending already.
WaitForTask == /\ wpc = "acquire"
               /\ wpc' = "waiting"
               /\ UNCHANGED <<taskVars, running, slot, wrunning, query, mpc, qpc, result>>

\* The lock is taken back and status is read, element by element.
ReadRunning == /\ wpc = "notified"
               /\ wpc' = "awake"
               /\ wrunning' = running
               /\ UNCHANGED <<taskVars, running, slot, query, mpc, qpc, result>>

ReadQuery == /\ wpc = "awake"
             /\ wpc' = "read"
             /\ query' = slot
             /\ UNCHANGED <<taskVars, running, slot, wrunning, mpc, qpc, result>>

\* consumed_tasks = list(self.tasks) ...
CopyTasks == /\ wpc = "read"
             /\ wpc' = "copied"
             /\ batch' = tasks
             /\ UNCHANGED <<log, tasks, done, running, slot, wrunning, query, mpc, qpc, result>>

\* mutant: `if' instead of `while'.
PopOne == /\ wpc = "copied"
          /\ wpc' = "took"
          /\ tasks' = IF tasks = <<>> THEN tasks ELSE SubSeq(tasks, 1, Len(tasks) - 1)
          /\ UNCHANGED <<log, batch, done, running, slot, wrunning, query, mpc, qpc, result>>

\* ... while self.tasks: self.tasks.pop()
PopTasks == /\ wpc = "copied"
            /\ wpc' = "took"
            /\ tasks' = <<>>
            /\ UNCHANGED <<log, batch, done, running, slot, wrunning, query, mpc, qpc, result>>

\* mutant: tasks alone do not end the inner loop.
AfterTakeQueryOnly == IF query # None THEN "respond" ELSE IF ~wrunning THEN "work" ELSE "waiting"

\* if query or consumed_tasks or not running: break
AfterTake == IF query # None THEN "respond"
             ELSE IF batch # <<>> \/ ~wrunning THEN "work"
             ELSE "waiting"

\* status[QUERY] = None, then leave the inner loop or wait again.
ClearQuery == /\ wpc = "took"
              /\ slot' = None
              /\ wpc' = AfterTake
              /\ UNCHANGED <<taskVars, running, wrunning, query, mpc, qpc, result>>

\* status[RESPONSE] = self.query(*query); a stale response unpacked as the
\* arguments of a query is a TypeError, which nothing catches.
Respond == /\ wpc = "respond"
           /\ \/ \E q \in Queriers : /\ query = Query(q)
                                     /\ slot' = Response(q)
                                     /\ wpc' = "signal"
              \/ \E q \in Queriers : /\ query = Response(q)
                                     /\ wpc' = "crashed"
                                     /\ UNCHANGED slot
           /\ UNCHANGED <<taskVars, running, wrunning, query, mpc, qpc, result>>

\* with self.response_condition: notify()
SignalResponse == /\ wpc = "signal"
                  /\ \A q \in Queriers : qpc[q] # "read"
                  /\ wpc' = "work"
                  /\ qpc' = [q \in Queriers |->
                               IF qpc[q] = "waiting" THEN "notified" ELSE qpc[q]]
                  /\ UNCHANGED <<taskVars, running, slot, wrunning, query, mpc, result>>

\* if consumed_tasks: self.run_tasks(*consumed_tasks)
RunTasks == /\ wpc = "work"
            /\ wpc' = "check"
            /\ done' = done \o batch
            /\ batch' = <<>>
            /\ UNCHANGED <<log, tasks, running, slot, wrunning, query, mpc, qpc, result>>

\* run_tasks raises and ends the process: only interrupts are caught.
RunTasksRaises == /\ RunMayRaise
                  /\ wpc = "work"
                  /\ batch # <<>>
                  /\ wpc' = "crashed"
                  /\ UNCHANGED <<taskVars, running, slot, wrunning, query, mpc, qpc, result>>

WorkerStep == \/ CheckRunning \/ WaitForTask \/ ReadRunning \/ ReadQuery
              \/ CopyTasks \/ PopTasks \/ ClearQuery \/ Respond
              \/ SignalResponse \/ RunTasks \/ RunTasksRaises

QuerierStep(q) == PostQuery(q) \/ AwaitResponse(q) \/ ReadResponse(q) \/ ReturnResponse(q)

MainStep == Enter \/ ExitFlag \/ ExitNotify \/ Join

Next == \/ WorkerStep
        \/ MainStep
        \/ \E new \in TaskLists : AddTasks(new)
        \/ \E q \in Queriers : QuerierStep(q)

\* The operating system runs both processes; whether anyone adds a task, asks
\* or leaves is up to the callers, but a call that has begun goes on.
Fairness == /\ WF_vars(WorkerStep)
            /\ WF_vars(Enter \/ ExitNotify \/ Join)
            /\ \A q \in Queriers : WF_vars(AwaitResponse(q) \/ ReadResponse(q) \/ ReturnResponse(q))

Spec == Init /\ [][Next]_vars
FairSpec == Spec /\ Fairness

-----------------------------------------------------------------------------
(* Properties *)

\* The variables keep their types: the worker is at a known place, which it
\* takes when the broker enters the manager, and the shared slot holds nothing,
\* a query or a response (backends/manager.py, backends/worker.py).
TypeOK == /\ log \in Seq(Task) /\ tasks \in Seq(Task)
          /\ batch \in Seq(Task) /\ done \in Seq(Task)
          /\ running \in BOOLEAN /\ wrunning \in BOOLEAN
          /\ slot \in Slot /\ query \in Slot
          /\ wpc \in WorkerPc /\ mpc \in MainPc
          /\ qpc \in [Queriers -> QuerierPc]
          /\ result \in [Queriers -> Slot]
          /\ wpc = "new" <=> mpc = "new"

\* The tasks that only the worker has: between the copy and the pops they are
\* still in the shared list too.
Taken == IF wpc = "copied" THEN <<>> ELSE batch

(***************************************************************************)
(* No task is dropped, run twice or reordered between add_tasks and         *)
(* run_tasks, however many threads add while the worker copies and then     *)
(* empties the list (worker.py 45-60, manager.py 52-55).                    *)
(***************************************************************************)
Conservation == log = done \o Taken \o tasks

(***************************************************************************)
(* A query that returns has the answer to that query, although queries and  *)
(* answers travel in the same slot (manager.py 15-26, worker.py 7-9, 55-58). *)
(***************************************************************************)
AnswerMatches == \A q \in Queriers : qpc[q] \in {"read", "returned"} => result[q] = Response(q)

(***************************************************************************)
(* The background process is a FIFO pipe (TaskPipe): the batch is taken     *)
(* when the shared list is emptied.                                         *)
(***************************************************************************)
Pipe == INSTANCE TaskPipe WITH batch <- Taken
PipeSpec == Pipe!Spec

(***************************************************************************)
(* Once the worker has been woken, everything submitted so far is run,      *)
(* unless the process dies (worker.py 46-62).                               *)
(***************************************************************************)
WakeupRunsAll == \A n \in 1..MaxTasks :
  (wpc = "notified" /\ Len(log) >= n) ~> (Len(done) >= n \/ wpc = "crashed")

(***************************************************************************)
(* README.md 76: "retaining happens as quickly as possible": a submitted    *)
(* task is run without waiting for another one to be submitted (worker.py   *)
(* 44-60).                                                                  *)
(***************************************************************************)
TasksRun == \A n \in 1..MaxTasks : (Len(log) >= n) ~> (Len(done) >= n)
=============================================================================
