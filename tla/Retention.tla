----------------------------- MODULE Retention ------------------------------
(***************************************************************************)
(* How retained rows get to the database and back: handler threads give     *)
(* their rows to the background process and write them into the tree, the   *)
(* TreeWorker turns each batch into one DELETE and one bulk INSERT, and a   *)
(* broker that starts loads the table into its tree.  The background        *)
(* process is the abstract pipe that Backend implements.                    *)
(***************************************************************************)
EXTENDS Publishing

CONSTANTS MaxRows,     \* bound: rows given to the background process
          MaxCrashes   \* bound: times the broker and its worker die

ASSUME RetentionAssumption == MaxRows \in Nat /\ MaxCrashes \in Nat

VARIABLES log,      \* rows given to the background process, in order (history)
          tasks,    \* its task list
          batch,    \* the rows its worker is running
          done,     \* the rows of all batches run, in order (history)
          deleted,  \* the DELETE of the batch has been committed
          db,       \* the table of tree.Message, by topic
          torn,     \* topics deleted by a batch that did not finish (history)
          revived,  \* topics a batch first created and then deleted (history)
          crashes   \* history

pipeVars == <<log, tasks, batch, done>>
vars == <<pubVars, pipeVars, deleted, db, torn, revived, crashes>>

Pipe == INSTANCE TaskPipe WITH Task <- Row, TaskLists <- Seq(Row), MaxTasks <- MaxRows

\* mutant: nothing is loaded.
PreloadNothing(table) == [t \in Topics |-> Absent]

\* preload builds a leaf for every record, and nothing else.
Preloaded(table) == [t \in Topics |-> table[t]]

Init == /\ PublishingInit
        /\ Pipe!Init
        /\ deleted = FALSE
        /\ db = Initial
        /\ torn = {}
        /\ revived = {}
        /\ crashes = 0

-----------------------------------------------------------------------------
(* Broker.publish, in the thread of a publish packet *)

Publish(p, r) == /\ Begin(p, r)
                 /\ UNCHANGED <<pipeVars, deleted, db, torn, revived, crashes>>

Prepare(p) == /\ MakeRows(p) \/ WalkRaises(p) \/ WriteLeaf(p) \/ PutRows(p)
              /\ UNCHANGED <<pipeVars, deleted, db, torn, revived, crashes>>

Submit(p) == /\ AddTasks(p)
             /\ Pipe!Submit(rows[p])
             /\ UNCHANGED <<deleted, db, torn, revived, crashes>>

-----------------------------------------------------------------------------
(* TreeWorker.run_tasks, in the background process *)

TakeBatch == /\ Pipe!Take
             /\ tasks # <<>>
             /\ UNCHANGED <<pubVars, deleted, db, torn, revived, crashes>>

Deletes(b) == {t \in Topics : \E i \in DOMAIN b : b[i].topic = t /\ b[i].data = Empty}

\* mutant: an empty row is written too.
CreatedAny(b, t) == {i \in DOMAIN b : b[i].topic = t}

\* bulk_create with update_conflicts: for each topic, the last record wins.
Created(b, t) == {i \in DOMAIN b : b[i].topic = t /\ b[i].data # Empty}

\* mutant: ignore_conflicts, the first record wins.
FirstCreated(b, t) == b[CHOOSE i \in Created(b, t) : \A j \in Created(b, t) : i <= j].data
LastCreated(b, t) == b[CHOOSE i \in Created(b, t) : \A j \in Created(b, t) : j <= i].data

\* The creates come after the deletes, whatever the order of the rows was.
Revived(b) == {t \in Deletes(b) : /\ Created(b, t) # {}
                                  /\ \E i \in DOMAIN b : /\ b[i] = [topic |-> t, data |-> Empty]
                                                         /\ \A j \in Created(b, t) : j < i}

\* objects.filter(topic__in=delete_list).delete(), a transaction of its own ...
DeleteRows == /\ batch # <<>>
              /\ ~deleted
              /\ deleted' = TRUE
              /\ db' = [t \in Topics |-> IF t \in Deletes(batch) THEN Absent ELSE db[t]]
              /\ UNCHANGED <<pubVars, pipeVars, torn, revived, crashes>>

\* ... and objects.bulk_create(create_list), which ends the batch.
CreateRows == /\ deleted
              /\ deleted' = FALSE
              /\ db' = [t \in Topics |-> IF Created(batch, t) # {} THEN LastCreated(batch, t)
                                         ELSE db[t]]
              /\ torn' = torn \ RowTopics(batch)
              /\ revived' = (revived \ RowTopics(batch)) \cup Revived(batch)
              /\ Pipe!Run
              /\ UNCHANGED <<pubVars, crashes>>

\* Both processes are killed and the broker is started again: threads, tasks
\* and the batch are gone, and __enter__ preloads the tree.
Crash == /\ crashes < MaxCrashes
         /\ crashes' = crashes + 1
         /\ tree' = Preloaded(db)
         /\ ppc' = [p \in Publishers |-> "idle"]
         /\ todo' = [p \in Publishers |-> <<>>]
         /\ log' = done /\ tasks' = <<>> /\ batch' = <<>>
         /\ deleted' = FALSE
         /\ torn' = IF deleted THEN torn \cup Deletes(batch) ELSE torn
         /\ contended' = {} /\ revived' = {}
         /\ UNCHANGED <<req, walked, rows, published, done, db>>

Next == \/ \E p \in Publishers : \/ Prepare(p) \/ Submit(p)
                                 \/ \E r \in Requests : Publish(p, r)
        \/ TakeBatch \/ DeleteRows \/ CreateRows \/ Crash

Spec == Init /\ [][Next]_vars

-----------------------------------------------------------------------------
(* Properties *)

\* The variables keep their types; a batch is under way when its deletes are.
TypeOK == /\ PublishingTypeOK
          /\ log \in Seq(Row) /\ tasks \in Seq(Row)
          /\ batch \in Seq(Row) /\ done \in Seq(Row)
          /\ deleted \in BOOLEAN
          /\ deleted => batch # <<>>
          /\ db \in [Topics -> Data \cup {Absent}]
          /\ torn \subseteq Topics /\ revived \subseteq Topics
          /\ crashes \in 0..MaxCrashes

About(t) == {i \in DOMAIN done : done[i].topic = t}
LastRun(t) == done[CHOOSE i \in About(t) : \A j \in About(t) : j <= i].data

(***************************************************************************)
(* Whatever the batches are, a topic whose last row that was run carries    *)
(* data has that data in the database, after crashes too, unless a batch    *)
(* that deletes the topic died half-way (tree/manager.py 26-50).            *)
(***************************************************************************)
LastCreateStored == ~deleted => \A t \in Topics :
  About(t) # {} /\ LastRun(t) # Empty => db[t] = LastRun(t) \/ t \in torn

AtRest == /\ tasks = <<>> /\ batch = <<>>
          /\ \A p \in Publishers : ppc[p] = "idle"

(***************************************************************************)
(* When nothing is under way the database holds what the tree in memory     *)
(* does, so that a restart gives subscribers what they had: README.md 18,   *)
(* "this message will be retained in the database for any interested        *)
(* clients" (tree/manager.py 26-50, 60-83).  Excepted are topics that two   *)
(* threads published at once and those a batch created and then deleted.    *)
(***************************************************************************)
DatabaseCurrent == AtRest => \A t \in Topics \ (contended \cup revived) : Visible(db[t]) = Visible(tree[t])
=============================================================================
