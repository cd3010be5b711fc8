----------------------------- MODULE Publishing -----------------------------
(***************************************************************************)
(* What a handler thread does in Broker.publish up to the broadcast queue:  *)
(* TreeManager.process_message makes the rows by walking over the shared    *)
(* tree, gives them to the background process and writes them into the      *)
(* tree, row by row and without a lock.  Every publish packet has a thread  *)
(* of its own.  Delivery and Retention add what the rows lead to.           *)
(***************************************************************************)
EXTENDS Rows

CONSTANTS Publishers,    \* handler threads that publish
          Requests,      \* what they may publish
          MaxPublishes,  \* bound: publishes in a behaviour
          Initial        \* the tree that was preloaded

\* A dictionary of topics is finite, and preload finds no empty records.
ASSUME PublishingAssumption ==
  /\ IsFiniteSet(Topics) /\ Empty \notin Data /\ Absent \notin Data
  /\ Match \in [Filters -> SUBSET Topics]
  /\ Wild \subseteq Filters
  /\ Requests \subseteq PlainRequests \cup SpreadRequests \cup GraftRequests
  /\ MaxPublishes \in Nat
  /\ Initial \in [Topics -> Data \cup {Absent}]

VARIABLES tree,      \* TreeManager.tree, by topic
          ppc,       \* where each publishing thread is
          req,       \* its request
          walked,    \* the keys its walk over the tree began with
          rows,      \* the rows it has made
          todo,      \* those it has not yet written into the tree
          contended, \* topics whose last publishes overlapped (history)
          published  \* publishes begun (history)

threadVars == <<ppc, req, walked, rows, todo, contended, published>>
pubVars == <<tree, threadVars>>

PublisherPc == {"idle", "walk", "tasks", "retain", "put"}
NoRequest == [kind |-> "none"]

PublishingInit == /\ tree = Initial
                  /\ ppc = [p \in Publishers |-> "idle"]
                  /\ req = [p \in Publishers |-> NoRequest]
                  /\ walked = [p \in Publishers |-> {}]
                  /\ rows = [p \in Publishers |-> <<>>]
                  /\ todo = [p \in Publishers |-> <<>>]
                  /\ contended = {}
                  /\ published = 0

\* A retained message is one for the tree manager; any other is a single row.
Begin(p, r) == /\ ppc[p] = "idle"
               /\ published < MaxPublishes
               /\ published' = published + 1
               /\ req' = [req EXCEPT ![p] = r]
               /\ ppc' = [ppc EXCEPT ![p] = IF r.retain THEN "walk" ELSE "put"]
               /\ walked' = [walked EXCEPT ![p] = IF Walks(r) THEN Known(tree, r.filter) ELSE {}]
               /\ rows' = [rows EXCEPT ![p] =
                             IF r.retain THEN <<>> ELSE <<[topic |-> r.topic, data |-> r.data]>>]
               /\ todo' = [todo EXCEPT ![p] = <<>>]
               /\ UNCHANGED <<tree, contended>>

\* The topics of rows that other threads have made and not yet put: nothing
\* orders the writes, the tasks and the puts of one thread with the other's.
UnderWay(p) == {t \in Topics : \E q \in Publishers \ {p} :
                                 ppc[q] \in {"tasks", "retain"} /\ t \in RowTopics(rows[q])}

\* A key was added to the node while a dictionary iterator was on it.
Disturbed(p) == walked[p] # {} /\ Known(tree, req[p].filter) # walked[p]

MakeRows(p) == /\ ppc[p] = "walk"
               /\ ~Disturbed(p)
               /\ \E rs \in RowLists(req[p], walked[p]) :
                    /\ rows' = [rows EXCEPT ![p] = rs]
                    /\ todo' = [todo EXCEPT ![p] = rs]
                    /\ contended' = (contended \ RowTopics(rs)) \cup (RowTopics(rs) \cap UnderWay(p))
               /\ ppc' = [ppc EXCEPT ![p] = "tasks"]
               /\ UNCHANGED <<tree, req, walked, published>>

\* RuntimeError: the thread ends, and the publish with it.
WalkRaises(p) == /\ ppc[p] = "walk"
                 /\ Disturbed(p)
                 /\ ppc' = [ppc EXCEPT ![p] = "idle"]
                 /\ UNCHANGED <<tree, req, walked, rows, todo, contended, published>>

\* retain_rows: self.add_tasks(*rows) comes first ...
AddTasks(p) == /\ ppc[p] = "tasks"
               /\ ppc' = [ppc EXCEPT ![p] = "retain"]
               /\ UNCHANGED <<tree, req, walked, rows, todo, contended, published>>

\* mutant: an empty row leaves the leaf as it is.
WrittenFilled(row) == IF row.data = Empty THEN tree ELSE [tree EXCEPT ![row.topic] = row.data]

\* ... then branch.leaf = data, row by row.
Written(row) == [tree EXCEPT ![row.topic] = row.data]

WriteLeaf(p) == /\ ppc[p] = "retain"
                /\ todo[p] # <<>>
                /\ tree' = Written(Head(todo[p]))
                /\ todo' = [todo EXCEPT ![p] = Tail(@)]
                /\ UNCHANGED <<ppc, req, walked, rows, contended, published>>

\* self.broadcast_queue.put(rows)
PutRows(p) == /\ ppc[p] \in {"retain", "put"}
              /\ todo[p] = <<>>
              /\ ppc' = [ppc EXCEPT ![p] = "idle"]
              /\ UNCHANGED <<tree, req, walked, rows, todo, contended, published>>

\* Part of TypeOK of the modules that extend this one.
PublishingTypeOK == /\ tree \in [Topics -> Leaf]
                    /\ ppc \in [Publishers -> PublisherPc]
                    /\ req \in [Publishers -> Requests \cup {NoRequest}]
                    /\ walked \in [Publishers -> SUBSET Topics]
                    /\ rows \in [Publishers -> Seq(Row)]
                    /\ todo \in [Publishers -> Seq(Row)]
                    /\ contended \subseteq Topics
                    /\ published \in 0..MaxPublishes

\* What a subscriber can tell of a leaf.
Visible(leaf) == IF leaf \in Data THEN leaf ELSE Empty
=============================================================================
