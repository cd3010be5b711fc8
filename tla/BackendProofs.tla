--------------------------- MODULE BackendProofs ----------------------------
(***************************************************************************)
(* Proofs about Backend for any number of tasks, argument lists and         *)
(* querying threads.                                                        *)
(***************************************************************************)
EXTENDS Backend, SequenceTheorems, TLAPS

USE DEF taskVars

(***************************************************************************)
(* The variables keep their types: the worker is always at a known place    *)
(* and the shared slot holds nothing, a query or a response.                *)
(***************************************************************************)
THEOREM BackendType == Spec => []TypeOK
<1>1. Init => TypeOK
  <2> SUFFICES ASSUME Init PROVE TypeOK
    OBVIOUS
  <2>1. <<>> \in Seq(Task)
    OBVIOUS
  <2>2. None \in Slot
    BY DEF Slot
  <2>3. running \in BOOLEAN /\ wrunning \in BOOLEAN
    BY DEF Init
  <2> QED BY <2>1, <2>2, <2>3 DEF Init, TypeOK, WorkerPc, MainPc, QuerierPc
<1>2. TypeOK /\ [Next]_vars => TypeOK'
  <2> SUFFICES ASSUME TypeOK, [Next]_vars PROVE TypeOK'
    OBVIOUS
  <2> USE DEF TypeOK, WorkerPc, MainPc, QuerierPc
  <2>1. CASE WorkerStep
    <3>1. CASE CheckRunning BY <3>1 DEF CheckRunning
    <3>2. CASE WaitForTask BY <3>2 DEF WaitForTask
    <3>3. CASE ReadRunning BY <3>3 DEF ReadRunning
    <3>4. CASE ReadQuery BY <3>4 DEF ReadQuery
    <3>5. CASE CopyTasks BY <3>5 DEF CopyTasks
    <3>6. CASE PopTasks BY <3>6 DEF PopTasks
    <3>7. CASE ClearQuery BY <3>7 DEF ClearQuery, AfterTake, Slot
    <3>8. CASE Respond BY <3>8 DEF Respond, Slot
    <3>9. CASE SignalResponse BY <3>9 DEF SignalResponse
    <3>10. CASE RunTasks BY <3>10 DEF RunTasks
    <3>11. CASE RunTasksRaises BY <3>11 DEF RunTasksRaises
    <3> QED BY <2>1, <3>1, <3>2, <3>3, <3>4, <3>5, <3>6, <3>7, <3>8, <3>9, <3>10, <3>11
             DEF WorkerStep
  <2>2. CASE MainStep
    <3>1. CASE Enter
      <4>1. running' \in BOOLEAN BY <3>1 DEF Enter
      <4> QED BY <3>1, <4>1 DEF Enter
    <3>2. CASE ExitFlag
      <4>1. running' \in BOOLEAN BY <3>2 DEF ExitFlag
      <4> QED BY <3>2, <4>1 DEF ExitFlag
    <3>3. CASE ExitNotify BY <3>3 DEF ExitNotify, NotifiedWorker
    <3>4. CASE Join BY <3>4 DEF Join
    <3> QED BY <2>2, <3>1, <3>2, <3>3, <3>4 DEF MainStep
  <2>3. ASSUME NEW new \in TaskLists, AddTasks(new) PROVE TypeOK'
    <3>1. new \in Seq(Task)
      BY BackendAssumption
    <3> QED BY <2>3, <3>1 DEF AddTasks, NotifiedWorker
  <2>4. ASSUME NEW q \in Queriers, QuerierStep(q) PROVE TypeOK'
    <3>1. CASE PostQuery(q) BY <3>1 DEF PostQuery, NotifiedWorker, Slot
    <3>2. CASE AwaitResponse(q) BY <3>2 DEF AwaitResponse
    <3>3. CASE ReadResponse(q) BY <3>3 DEF ReadResponse
    <3>4. CASE ReturnResponse(q) BY <3>4 DEF ReturnResponse, Slot
    <3> QED BY <2>4, <3>1, <3>2, <3>3, <3>4 DEF QuerierStep
  <2>5. CASE UNCHANGED vars
    BY <2>5 DEF vars
  <2> QED BY <2>1, <2>2, <2>3, <2>4, <2>5 DEF Next
<1> QED BY <1>1, <1>2, PTL DEF Spec

-----------------------------------------------------------------------------
(***************************************************************************)
(* The copy is made before the shared list is emptied, so between the two   *)
(* the tasks are in both places; at all other times when the worker is not  *)
(* about to run a batch, it holds none.                                     *)
(***************************************************************************)
BatchInv == /\ mpc = "new" => wpc = "new"
            /\ wpc = "copied" => batch = tasks
            /\ wpc \in {"new", "check", "acquire", "waiting", "notified",
                        "awake", "read", "stopped"} => batch = <<>>

TaskInv == TypeOK /\ BatchInv /\ Conservation

\* Lists of tasks may be joined in any order.
LEMMA TasksAssociate ==
  ASSUME NEW s \in Seq(Task), NEW t \in Seq(Task), NEW u \in Seq(Task)
  PROVE  (s \o t) \o u = s \o (t \o u)
BY ConcatAssociative

(***************************************************************************)
(* TaskInv is inductive: the lock keeps add_tasks out while the worker      *)
(* copies and empties the list.                                             *)
(***************************************************************************)
LEMMA TaskInvStep == TaskInv /\ TypeOK' /\ [Next]_vars => BatchInv' /\ Conservation'
<1> SUFFICES ASSUME TaskInv, TypeOK', [Next]_vars PROVE BatchInv' /\ Conservation'
  OBVIOUS
<1> USE DEF TaskInv
<1>1. ASSUME UNCHANGED taskVars, BatchInv', Taken' = Taken PROVE BatchInv' /\ Conservation'
  BY <1>1 DEF Conservation
<1>2. CASE WorkerStep
  <2>1. CASE CheckRunning BY <2>1, <1>1 DEF CheckRunning, BatchInv, Taken
  <2>2. CASE WaitForTask BY <2>2, <1>1 DEF WaitForTask, BatchInv, Taken
  <2>3. CASE ReadRunning BY <2>3, <1>1 DEF ReadRunning, BatchInv, Taken
  <2>4. CASE ReadQuery BY <2>4, <1>1 DEF ReadQuery, BatchInv, Taken
  <2>5. CASE CopyTasks BY <2>5 DEF CopyTasks, BatchInv, Conservation, Taken
  <2>6. CASE PopTasks
    <3>1. Taken = <<>> /\ Taken' = tasks /\ tasks' = <<>>
      BY <2>6 DEF PopTasks, BatchInv, Taken
    <3>2. done \o Taken \o tasks = done \o tasks
      BY <3>1, ConcatEmptySeq DEF TypeOK
    <3>3. done \o tasks \o <<>> = done \o tasks
      BY ConcatEmptySeq, ConcatProperties DEF TypeOK
    <3>4. Conservation'
      BY <2>6, <3>1, <3>2, <3>3 DEF PopTasks, Conservation
    <3> QED BY <2>6, <3>4 DEF PopTasks, BatchInv
  <2>7. CASE ClearQuery BY <2>7, <1>1 DEF ClearQuery, AfterTake, BatchInv, Taken
  <2>8. CASE Respond BY <2>8, <1>1 DEF Respond, BatchInv, Taken
  <2>9. CASE SignalResponse BY <2>9, <1>1 DEF SignalResponse, BatchInv, Taken
  <2>10. CASE RunTasks
    <3>1. Taken = batch /\ Taken' = <<>> /\ tasks' = tasks
      BY <2>10 DEF RunTasks, Taken
    <3>2. done' \o <<>> = done \o batch
      BY <2>10, ConcatEmptySeq, ConcatProperties DEF RunTasks, TypeOK
    <3>3. Conservation'
      BY <2>10, <3>1, <3>2 DEF RunTasks, Conservation
    <3> QED BY <2>10, <3>3 DEF RunTasks, BatchInv
  <2>11. CASE RunTasksRaises BY <2>11, <1>1 DEF RunTasksRaises, BatchInv, Taken
  <2> QED BY <1>2, <2>1, <2>2, <2>3, <2>4, <2>5, <2>6, <2>7, <2>8, <2>9, <2>10, <2>11
           DEF WorkerStep
<1>3. CASE MainStep
  <2>1. CASE Enter BY <2>1, <1>1 DEF Enter, BatchInv, Taken
  <2>2. CASE ExitFlag BY <2>2, <1>1 DEF ExitFlag, BatchInv, Taken
  <2>3. CASE ExitNotify BY <2>3, <1>1 DEF ExitNotify, NotifiedWorker, BatchInv, Taken
  <2>4. CASE Join BY <2>4, <1>1 DEF Join, BatchInv, Taken
  <2> QED BY <1>3, <2>1, <2>2, <2>3, <2>4 DEF MainStep
<1>4. ASSUME NEW new \in TaskLists, AddTasks(new) PROVE BatchInv' /\ Conservation'
  <2>1. new \in Seq(Task) /\ Taken \in Seq(Task)
    BY BackendAssumption DEF TypeOK, Taken
  <2>2. wpc # "copied" /\ wpc' # "copied" /\ Taken' = Taken
    BY <1>4 DEF AddTasks, TaskLockFree, Holding, NotifiedWorker, Taken
  <2>3. (done \o Taken \o tasks) \o new = done \o Taken \o (tasks \o new)
    <3>1. PICK s \in Seq(Task), t \in Seq(Task) : s = done \o Taken /\ t = tasks
      BY <2>1, ConcatProperties DEF TypeOK
    <3>2. (s \o t) \o new = s \o (t \o new)
      BY <2>1, TasksAssociate
    <3> QED BY <3>1, <3>2
  <2>4. Conservation'
    BY <1>4, <2>2, <2>3 DEF AddTasks, Conservation
  <2> QED BY <1>4, <2>2, <2>4 DEF AddTasks, BatchInv, NotifiedWorker
<1>5. ASSUME NEW q \in Queriers, QuerierStep(q) PROVE BatchInv' /\ Conservation'
  BY <1>5, <1>1 DEF QuerierStep, PostQuery, AwaitResponse, ReadResponse, ReturnResponse,
     NotifiedWorker, BatchInv, Taken
<1>6. CASE UNCHANGED vars
  BY <1>6, <1>1 DEF vars, BatchInv, Taken
<1> QED BY <1>2, <1>3, <1>4, <1>5, <1>6 DEF Next

\* TaskInv holds in every reachable state: no task is lost or repeated.
THEOREM TaskInvariance == Spec => []TaskInv
<1>1. Init => BatchInv /\ Conservation
  <2> SUFFICES ASSUME Init PROVE BatchInv /\ Conservation
    OBVIOUS
  <2>1. <<>> \o <<>> \o <<>> = <<>>
    BY ConcatEmptySeq, EmptySeq
  <2> QED BY <2>1 DEF Init, BatchInv, Conservation, Taken
<1> QED BY <1>1, BackendType, TaskInvStep, PTL DEF Spec, TaskInv

(***************************************************************************)
(* No task is dropped, repeated or reordered between add_tasks and          *)
(* run_tasks, for every number of adding threads and every list of tasks.   *)
(***************************************************************************)
THEOREM TasksConserved == Spec => []Conservation
BY TaskInvariance, PTL DEF TaskInv

-----------------------------------------------------------------------------
(***************************************************************************)
(* The two processes implement the abstract FIFO pipe: add_tasks submits,   *)
(* emptying the shared list takes the batch, run_tasks runs it, and every   *)
(* other step of either process leaves the pipe as it is.                   *)
(***************************************************************************)
THEOREM BackendIsPipe == Spec => PipeSpec
<1>1. Init => Pipe!Init
  BY DEF Init, Pipe!Init, Taken
<1>2. TaskInv /\ [Next]_vars => [Pipe!Next]_(Pipe!pipeVars)
  <2> SUFFICES ASSUME TaskInv, [Next]_vars
               PROVE  Pipe!Next \/ UNCHANGED <<log, tasks, Taken, done>>
    BY DEF Pipe!pipeVars
  <2> USE DEF TaskInv
  <2>1. CASE WorkerStep
    <3>1. CASE CopyTasks BY <3>1 DEF CopyTasks, BatchInv, Taken
    <3>2. CASE PopTasks BY <3>2 DEF PopTasks, BatchInv, Taken, Pipe!Next, Pipe!Take
    <3>3. CASE RunTasks
      <4>1. Taken = batch /\ Taken' = <<>>
        BY <3>3 DEF RunTasks, Taken
      <4>2. CASE batch = <<>>
        <5>1. done \o batch = done
          BY <4>2, ConcatEmptySeq DEF TypeOK
        <5> QED BY <3>3, <4>1, <4>2, <5>1 DEF RunTasks
      <4>3. CASE batch # <<>>
        BY <3>3, <4>1, <4>3 DEF RunTasks, Pipe!Next, Pipe!Run
      <4> QED BY <4>2, <4>3
    <3>4. CASE CheckRunning BY <3>4 DEF CheckRunning, Taken
    <3>5. CASE WaitForTask BY <3>5 DEF WaitForTask, Taken
    <3>6. CASE ReadRunning BY <3>6 DEF ReadRunning, Taken
    <3>7. CASE ReadQuery BY <3>7 DEF ReadQuery, Taken
    <3>8. CASE ClearQuery BY <3>8 DEF ClearQuery, AfterTake, Taken
    <3>9. CASE Respond BY <3>9 DEF Respond, Taken
    <3>10. CASE SignalResponse BY <3>10 DEF SignalResponse, Taken
    <3>11. CASE RunTasksRaises BY <3>11 DEF RunTasksRaises, Taken
    <3> QED BY <2>1, <3>1, <3>2, <3>3, <3>4, <3>5, <3>6, <3>7, <3>8, <3>9, <3>10, <3>11
             DEF WorkerStep
  <2>2. CASE MainStep
    <3>1. CASE Enter BY <3>1 DEF Enter, BatchInv, Taken
    <3>2. CASE ExitFlag BY <3>2 DEF ExitFlag, Taken
    <3>3. CASE ExitNotify BY <3>3 DEF ExitNotify, NotifiedWorker, Taken
    <3>4. CASE Join BY <3>4 DEF Join, Taken
    <3> QED BY <2>2, <3>1, <3>2, <3>3, <3>4 DEF MainStep
  <2>3. ASSUME NEW new \in TaskLists, AddTasks(new) PROVE Pipe!Next
    <3>1. Taken' = Taken
      BY <2>3 DEF AddTasks, TaskLockFree, Holding, NotifiedWorker, Taken
    <3>2. Pipe!Submit(new)
      BY <2>3, <3>1 DEF AddTasks, Pipe!Submit
    <3> QED BY <3>2 DEF Pipe!Next
  <2>4. ASSUME NEW q \in Queriers, QuerierStep(q) PROVE UNCHANGED <<log, tasks, Taken, done>>
    BY <2>4 DEF QuerierStep, PostQuery, AwaitResponse, ReadResponse, ReturnResponse,
       TaskLockFree, Holding, NotifiedWorker, Taken
  <2>5. CASE UNCHANGED vars
    BY <2>5 DEF vars, Taken
  <2> QED BY <2>1, <2>2, <2>3, <2>4, <2>5 DEF Next
<1> QED BY <1>1, <1>2, TaskInvariance, PTL DEF Spec, PipeSpec, Pipe!Spec

-----------------------------------------------------------------------------
(***************************************************************************)
(* Why one slot is enough for queries and answers as long as the worker     *)
(* lives: at most one thread is inside query; the worker holds a query only *)
(* of a thread that still waits; and a thread has been notified only after  *)
(* its own answer was stored, which since then can only have been cleared.  *)
(***************************************************************************)
Inside == {"posted", "waiting", "notified", "read"}
Asking == {"posted", "waiting"}

QueryInv ==
  /\ \A q, r \in Queriers : qpc[q] \in Inside /\ qpc[r] \in Inside => q = r
  /\ \A q \in Queriers : slot = Query(q) => qpc[q] \in Asking
  /\ \A q \in Queriers : wpc \in {"read", "copied", "took", "respond"} /\ query = Query(q)
                           => qpc[q] \in Asking
  /\ wpc = "signal" => \E q \in Queriers : slot = Response(q) /\ qpc[q] \in Asking
  /\ \A q \in Queriers : qpc[q] = "notified" => slot \in {None, Response(q)}
  /\ AnswerMatches

\* QueryInv is an invariant: one step per action.
LEMMA QueryInvStep == TypeOK /\ QueryInv /\ [Next]_vars => QueryInv'
<1> SUFFICES ASSUME TypeOK, QueryInv, [Next]_vars PROVE QueryInv'
  OBVIOUS
<1> USE DEF TypeOK, QueryInv, AnswerMatches, Inside, Asking, Query, Response, None
<1>1. CASE WorkerStep
  <2>1. CASE CheckRunning BY <2>1 DEF CheckRunning
  <2>2. CASE WaitForTask BY <2>2 DEF WaitForTask
  <2>3. CASE ReadRunning BY <2>3 DEF ReadRunning
  <2>4. CASE ReadQuery BY <2>4 DEF ReadQuery
  <2>5. CASE CopyTasks BY <2>5 DEF CopyTasks
  <2>6. CASE PopTasks BY <2>6 DEF PopTasks
  <2>7. CASE ClearQuery BY <2>7 DEF ClearQuery, AfterTake
  <2>8. CASE Respond BY <2>8 DEF Respond
  <2>9. CASE SignalResponse BY <2>9 DEF SignalResponse
  <2>10. CASE RunTasks BY <2>10 DEF RunTasks
  <2>11. CASE RunTasksRaises BY <2>11 DEF RunTasksRaises
  <2> QED BY <1>1, <2>1, <2>2, <2>3, <2>4, <2>5, <2>6, <2>7, <2>8, <2>9, <2>10, <2>11
           DEF WorkerStep
<1>2. CASE MainStep
  <2>1. CASE Enter BY <2>1 DEF Enter
  <2>2. CASE ExitFlag BY <2>2 DEF ExitFlag
  <2>3. CASE ExitNotify BY <2>3 DEF ExitNotify, NotifiedWorker
  <2>4. CASE Join BY <2>4 DEF Join
  <2> QED BY <1>2, <2>1, <2>2, <2>3, <2>4 DEF MainStep
<1>3. ASSUME NEW new \in TaskLists, AddTasks(new) PROVE QueryInv'
  BY <1>3 DEF AddTasks, NotifiedWorker
<1>4. ASSUME NEW q \in Queriers, QuerierStep(q) PROVE QueryInv'
  <2>1. CASE PostQuery(q)
    BY <2>1 DEF PostQuery, QueryLockFree, TaskLockFree, Holding, NotifiedWorker
  <2>2. CASE AwaitResponse(q) BY <2>2 DEF AwaitResponse
  <2>3. CASE ReadResponse(q)
    <3>1. /\ qpc[q] = "notified" /\ slot \in {None, Response(q)}
          /\ UNCHANGED <<slot, wpc, query>>
      BY <2>3 DEF ReadResponse
    <3>2. CASE slot = None
      <4>1. qpc' = [qpc EXCEPT ![q] = "waiting"] /\ result' = result
        BY <2>3, <3>2 DEF ReadResponse
      <4> QED BY <3>1, <4>1
    <3>3. CASE slot = Response(q)
      <4>1. qpc' = [qpc EXCEPT ![q] = "read"] /\ result' = [result EXCEPT ![q] = slot]
        BY <2>3, <3>3 DEF ReadResponse
      <4> QED BY <3>1, <3>3, <4>1
    <3> QED BY <3>1, <3>2, <3>3
  <2>4. CASE ReturnResponse(q) BY <2>4 DEF ReturnResponse
  <2> QED BY <1>4, <2>1, <2>2, <2>3, <2>4 DEF QuerierStep
<1>5. CASE UNCHANGED vars
  BY <1>5 DEF vars
<1> QED BY <1>1, <1>2, <1>3, <1>4, <1>5 DEF Next

(***************************************************************************)
(* However many threads query and whatever else the worker does, a query    *)
(* that returns returns its own answer (manager.py 15-26).                  *)
(***************************************************************************)
THEOREM AnswersMatch == Spec => []AnswerMatches
<1>1. Init => QueryInv
  BY DEF Init, QueryInv, AnswerMatches, Inside, Asking, Query, Response, None
<1>2. QueryInv => AnswerMatches
  BY DEF QueryInv
<1> QED BY <1>1, <1>2, BackendType, QueryInvStep, PTL DEF Spec
=============================================================================
