------------------------------ MODULE TaskPipe ------------------------------
(***************************************************************************)
(* What the background process promises to the code that gives it tasks:   *)
(* a FIFO pipe.  Tasks are submitted in lists, taken in one batch with      *)
(* everything that is pending, and the batch is run.  Nothing is dropped,   *)
(* repeated or reordered on the way.  Backend implements this.              *)
(***************************************************************************)
EXTENDS Naturals, Sequences

CONSTANTS Task,       \* what add_tasks is given: rows of the tree, table operations
          TaskLists,  \* the argument lists add_tasks may be called with
          MaxTasks    \* bound: tasks submitted in a behaviour

VARIABLES log,    \* every task ever submitted, in order (history)
          tasks,  \* the shared task list
          batch,  \* consumed_tasks, local to the worker
          done    \* tasks that run_tasks has returned from, in order (history)

pipeVars == <<log, tasks, batch, done>>

Init == log = <<>> /\ tasks = <<>> /\ batch = <<>> /\ done = <<>>

Submit(new) == /\ Len(log) + Len(new) <= MaxTasks
               /\ log' = log \o new
               /\ tasks' = tasks \o new
               /\ UNCHANGED <<batch, done>>

Take == /\ batch = <<>>
        /\ batch' = tasks
        /\ tasks' = <<>>
        /\ UNCHANGED <<log, done>>

Run == /\ batch # <<>>
       /\ done' = done \o batch
       /\ batch' = <<>>
       /\ UNCHANGED <<log, tasks>>

Next == (\E new \in TaskLists : Submit(new)) \/ Take \/ Run

Spec == Init /\ [][Next]_pipeVars
=============================================================================
