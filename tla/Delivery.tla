------------------------------ MODULE Delivery ------------------------------
(***************************************************************************)
(* From a publish to the queues of the subscribed clients: the handler      *)
(* threads that run Broker.publish, the tree in memory, broadcast_queue,    *)
(* the main loop, and the handler threads that run Broker.subscribe and     *)
(* Broker.unsubscribe.                                                      *)
(*                                                                          *)
(* A subscription s is a client, by its id, and a filter without "#".       *)
(* Every message carries its filter as its topic and a client's queue is    *)
(* only appended to here, so the queue is kept as one sequence per          *)
(* subscription.  What the main loop does under subscription_lock is one    *)
(* step: nothing else reads or writes the subscriptions then.  Who is in    *)
(* Broker.clients may change between any two look-ups (see Sessions).       *)
(***************************************************************************)
EXTENDS Publishing

CONSTANTS Clients,
          MaxSubscribes, \* bound: subscribe packets per subscription
          MaySync,       \* the values the sync flag of a subscribe may have
          Unreadable     \* payloads that are not UTF-8: stringify raises

ASSUME DeliveryAssumption == /\ MaxSubscribes \in Nat /\ MaySync \subseteq BOOLEAN
                             /\ Unreadable \subseteq Data

Subs == Clients \X Filters

VARIABLES queue,    \* broadcast_queue
          current,  \* the rows the main loop has taken; <<>> if none
          reached,  \* the subscriptions each list of rows was processed for (history)
          subs,     \* Broker.subscriptions
          spc,      \* where the thread that handles a subscribe packet is
          seen,     \* the keys its snapshot began with
          snap,     \* the leaves it has read
          inbox,    \* the messages queued for each subscription
          sent,     \* every list of rows put on broadcast_queue (history)
          passing,  \* topics published without being retained (history)
          since,    \* how many of those were processed when s was registered (history)
          mark,     \* how many messages were queued then (history)
          asked     \* subscribe packets so far (history)

subVars == <<subs, spc, seen, snap, since, mark, asked>>
vars == <<pubVars, queue, sent, passing, current, reached, subVars, inbox>>

Processed == Len(sent) - Len(queue) - (IF current = <<>> THEN 0 ELSE 1)

\* create_messages_for_subscriptions for one filter: the data of the last row
\* of each topic it matches.
UpdateData(f, rs) ==
  [t \in RowTopics(rs) \cap Match[f] |->
     rs[CHOOSE i \in DOMAIN rs : /\ rs[i].topic = t
                                 /\ \A j \in DOMAIN rs : rs[j].topic = t => j <= i].data]
Concerns(f, rs) == RowTopics(rs) \cap Match[f] # {}
\* mutant: empty rows are left out.
FilledUpdate(f, rs) == [kind |-> "update",
                        data |-> [t \in Filled(UpdateData(f, rs)) |-> UpdateData(f, rs)[t]]]
Update(f, rs) == [kind |-> "update", data |-> UpdateData(f, rs)]

\* mutant: empty leaves are kept.
SyncAll(leaves) == [kind |-> "sync", data |-> leaves]

\* filter_tree_with_topic keeps the leaves that are not empty.
Sync(leaves) == [kind |-> "sync", data |-> [t \in Filled(leaves) |-> leaves[t]]]

Init == /\ PublishingInit
        /\ queue = <<>> /\ current = <<>> /\ reached = <<>> /\ subs = {}
        /\ spc = [s \in Subs |-> "idle"]
        /\ seen = [s \in Subs |-> {}]
        /\ snap = [s \in Subs |-> <<>>]
        /\ inbox = [s \in Subs |-> <<>>]
        /\ sent = <<>>
        /\ passing = {}
        /\ since = [s \in Subs |-> 0]
        /\ mark = [s \in Subs |-> 0]
        /\ asked = [s \in Subs |-> 0]

-----------------------------------------------------------------------------
(* Broker.publish, in the thread of a publish packet *)

Prepare(p) == /\ MakeRows(p) \/ WalkRaises(p) \/ AddTasks(p) \/ WriteLeaf(p)
              /\ UNCHANGED <<queue, sent, passing, current, reached, subVars, inbox>>

Publish(p, r) == /\ Begin(p, r)
                 /\ UNCHANGED <<queue, sent, passing, current, reached, subVars, inbox>>

Put(p) == /\ PutRows(p)
          /\ queue' = Append(queue, rows[p])
          /\ sent' = Append(sent, rows[p])
          /\ passing' = IF req[p].retain THEN passing ELSE passing \cup RowTopics(rows[p])
          /\ UNCHANGED <<current, reached, subVars, inbox>>

-----------------------------------------------------------------------------
(* Broker.main_loop *)

\* mutant: the newest list first.
GetNewest == /\ current = <<>>
             /\ queue # <<>>
             /\ current' = queue[Len(queue)]
             /\ queue' = SubSeq(queue, 1, Len(queue) - 1)
             /\ reached' = IF current' = <<>> THEN Append(reached, {}) ELSE reached
             /\ UNCHANGED <<pubVars, sent, passing, subVars, inbox>>

\* rows = broadcast_queue.get(block=True); an empty list is skipped.
GetRows == /\ current = <<>>
           /\ queue # <<>>
           /\ current' = Head(queue)
           /\ queue' = Tail(queue)
           /\ reached' = IF Head(queue) = <<>> THEN Append(reached, {}) ELSE reached
           /\ UNCHANGED <<pubVars, sent, passing, subVars, inbox>>

\* build_message_data makes JSON of the rows for a wildcard filter.
Raises(rs) == \E s \in subs : /\ s[2] \in Wild
                              /\ \E t \in RowTopics(rs) \cap Match[s[2]] :
                                   UpdateData(s[2], rs)[t] \in Unreadable

\* process_outgoing_rows(rows) under subscription_lock: all messages are made first,
\* so one that raises is the end of all; an id that is not in clients is left out.
ProcessRows == /\ current # <<>>
               /\ \E told \in IF Raises(current) THEN {{}} ELSE SUBSET subs :
                    /\ inbox' = [s \in Subs |-> IF s \in told /\ Concerns(s[2], current)
                                                THEN Append(inbox[s], Update(s[2], current))
                                                ELSE inbox[s]]
                    /\ reached' = Append(reached, told)
               /\ current' = <<>>
               /\ UNCHANGED <<pubVars, queue, sent, passing, subVars>>

-----------------------------------------------------------------------------
(* Broker.subscribe and unsubscribe, in the thread of their packet *)

\* TreeManager.get_message looks a static topic up, and walks over the keys of
\* a node for a wildcard: there is nothing to walk over without that node.
Subscribe(s, sync) ==
  LET keys == IF s[2] \in Wild THEN Known(tree, s[2]) ELSE Match[s[2]]
  IN /\ spc[s] = "idle"
     /\ asked[s] < MaxSubscribes
     /\ asked' = [asked EXCEPT ![s] = @ + 1]
     /\ spc' = [spc EXCEPT ![s] = IF ~sync THEN "register"
                                  ELSE IF keys = {} THEN "queue" ELSE "snapshot"]
     /\ seen' = [seen EXCEPT ![s] = keys]
     /\ snap' = [snap EXCEPT ![s] = <<>>]
     /\ UNCHANGED <<pubVars, queue, sent, passing, current, reached, subs, since, mark, inbox>>

\* A key was added to the node while a dictionary iterator was on it.
Overtaken(s) == s[2] \in Wild /\ Known(tree, s[2]) # seen[s]

\* from_tree_item makes JSON of the leaves of a wildcard filter.
Garbled(s) == s[2] \in Wild /\ \E t \in DOMAIN snap[s] : snap[s][t] \in Unreadable

ReadLeaf(s) == /\ spc[s] = "snapshot"
               /\ ~Overtaken(s)
               /\ \E t \in seen[s] \ DOMAIN snap[s] :
                    snap' = [snap EXCEPT ![s] = [u \in DOMAIN @ \cup {t} |->
                                                   IF u = t THEN tree[t] ELSE @[u]]]
               /\ UNCHANGED <<pubVars, queue, sent, passing, current, reached, subs, spc, seen, since, mark, asked, inbox>>

EndSnapshot(s) == /\ spc[s] = "snapshot"
                  /\ ~Overtaken(s)
                  /\ DOMAIN snap[s] = seen[s] /\ ~Garbled(s)
                  /\ spc' = [spc EXCEPT ![s] = "queue"]
                  /\ UNCHANGED <<pubVars, queue, sent, passing, current, reached, subs, seen, snap, since, mark, asked, inbox>>

\* RuntimeError, or UnicodeDecodeError when all is read, ends the thread: there is no
\* answer and no subscription.
SnapshotRaises(s) == /\ spc[s] = "snapshot"
                     /\ Overtaken(s) \/ (DOMAIN snap[s] = seen[s] /\ Garbled(s))
                     /\ spc' = [spc EXCEPT ![s] = "dead"]
                     /\ UNCHANGED <<pubVars, queue, sent, passing, current, reached, subs, seen, snap, since, mark, asked, inbox>>

\* client.queue_message(message), before the subscription is registered.
QueueSync(s) == /\ spc[s] = "queue"
                /\ inbox' = [inbox EXCEPT ![s] = Append(@, Sync(snap[s]))]
                /\ spc' = [spc EXCEPT ![s] = "register"]
                /\ UNCHANGED <<pubVars, queue, sent, passing, current, reached, subs, seen, snap, since, mark, asked>>

\* with subscription_lock: (subscriptions << topic)[client.id] = qos
Register(s) == /\ spc[s] = "register"
               /\ subs' = subs \cup {s}
               /\ spc' = [spc EXCEPT ![s] = "idle"]
               /\ IF s \in subs
                  THEN UNCHANGED <<since, mark>>
                  ELSE /\ since' = [since EXCEPT ![s] = Processed]
                       /\ mark' = [mark EXCEPT ![s] = Len(inbox[s])]
               /\ UNCHANGED <<pubVars, queue, sent, passing, current, reached, seen, snap, asked, inbox>>

Unsubscribe(s) == /\ s \in subs
                  /\ subs' = subs \ {s}
                  /\ UNCHANGED <<pubVars, queue, sent, passing, current, reached, spc, seen, snap, since, mark, asked, inbox>>

PublisherStep(p) == Prepare(p) \/ Put(p)
SubscriberStep(s) == \/ ReadLeaf(s) \/ EndSnapshot(s) \/ SnapshotRaises(s)
                     \/ QueueSync(s) \/ Register(s)
MainStep == GetRows \/ ProcessRows

Next == \/ \E p \in Publishers : PublisherStep(p) \/ \E r \in Requests : Publish(p, r)
        \/ \E s \in Subs : \/ SubscriberStep(s)
                           \/ Unsubscribe(s)
                           \/ \E sync \in MaySync : Subscribe(s, sync)
        \/ MainStep

\* Threads run; whether a client sends anything is its own affair.
Fairness == /\ \A p \in Publishers : WF_vars(PublisherStep(p))
            /\ \A s \in Subs : WF_vars(SubscriberStep(s))
            /\ WF_vars(MainStep)

Spec == Init /\ [][Next]_vars
FairSpec == Spec /\ Fairness

-----------------------------------------------------------------------------
(* Properties *)

\* A message has topics of its filter, and a sync answer only leaves with data.
MessageOK(f, m) == /\ DOMAIN m.data \subseteq Match[f]
                   /\ \A t \in DOMAIN m.data :
                        m.data[t] \in Data \cup (IF m.kind = "sync" THEN {} ELSE {Empty})

Message == [kind : {"update", "sync"},
            data : UNION {[T -> Data \cup {Empty}] : T \in SUBSET Topics}]
Snapshot == UNION {[T -> Leaf] : T \in SUBSET Topics}

\* The variables keep their types: rows have known topics, a thread is at a
\* known place, a message carries data for topics of its own filter.
TypeOK == /\ PublishingTypeOK
          /\ queue \in Seq(Seq(Row)) /\ current \in Seq(Row) /\ sent \in Seq(Seq(Row))
          /\ reached \in Seq(SUBSET Subs)
          /\ passing \subseteq Topics
          /\ subs \subseteq Subs
          /\ spc \in [Subs -> {"idle", "snapshot", "queue", "register", "dead"}]
          /\ seen \in [Subs -> SUBSET Topics]
          /\ snap \in [Subs -> Snapshot]
          /\ inbox \in [Subs -> Seq(Message)]
          /\ since \in [Subs -> Nat] /\ mark \in [Subs -> Nat]
          /\ asked \in [Subs -> 0..MaxSubscribes]
          /\ \A s \in Subs : /\ seen[s] \subseteq Match[s[2]]
                             /\ DOMAIN snap[s] \subseteq seen[s]
                             /\ \A i \in DOMAIN inbox[s] : MessageOK(s[2], inbox[s][i])
                             /\ since[s] \in 0..Processed
                             /\ mark[s] \in 0..Len(inbox[s])

\* The updates s was sent since it was registered, and the lists of rows that
\* were processed for it since then and concern it, by their positions.
Told(s) == {k \in mark[s] + 1 .. Len(inbox[s]) : inbox[s][k].kind = "update"}
Due(s) == {i \in since[s] + 1 .. Processed : Concerns(s[2], sent[i]) /\ s \in reached[i]}

(***************************************************************************)
(* From the moment it is registered, a subscription is sent one update for  *)
(* every list of rows put on the queue that concerns it, in the order they  *)
(* were put, and nothing else: no gap, no repetition, whatever other        *)
(* threads publish, subscribe and unsubscribe (broker.py 71-80, 95-111,     *)
(* 131-145).  A list is left out only if its client was not among the       *)
(* clients (104-105) or if it was given up for all of them (77-80).         *)
(***************************************************************************)
GapFree == \A s \in subs : \E at \in [Due(s) -> Told(s)] :
  /\ \A k \in Told(s) : \E i \in Due(s) : at[i] = k
  /\ \A i, j \in Due(s) : i < j => at[i] < at[j]
  /\ \A i \in Due(s) : inbox[s][at[i]] = Update(s[2], sent[i])

\* What a client that follows s takes the leaf of t to be: a sync answer
\* replaces everything, an update the topics it has.
View(s, t) ==
  LET about == {i \in DOMAIN inbox[s] : \/ inbox[s][i].kind = "sync"
                                        \/ t \in DOMAIN inbox[s][i].data}
      last == CHOOSE i \in about : \A j \in about : j <= i
  IN IF about = {} THEN Absent
     ELSE IF t \in DOMAIN inbox[s][last].data THEN inbox[s][last].data[t]
     ELSE Empty

Touched(s, t) == \E i \in since[s] + 1 .. Len(sent) : t \in RowTopics(sent[i])
Quiet == queue = <<>> /\ current = <<>> /\ \A p \in Publishers : ppc[p] = "idle"
UpToDate(s, t) == View(s, t) = Visible(tree[t])

\* A sync answer was queued for s after it was registered: the client has
\* subscribed again, and what it is sent then may be older than an update.
Resynced(s) == \E i \in mark[s] + 1 .. Len(inbox[s]) : inbox[s][i].kind = "sync"

\* The last list of rows about t was processed for s, or is yet to be.
LastReached(s, t) ==
  \A i \in since[s] + 1 .. Processed :
    (\A j \in i..Len(sent) : t \in RowTopics(sent[j]) <=> j = i) => s \in reached[i]

\* The topics whose retained value s has been told.
Followed(s) == {t \in Match[s[2]] \ (contended \cup passing) :
                  Touched(s, t) /\ LastReached(s, t) /\ ~Resynced(s)}

(***************************************************************************)
(* When nothing is under way, a subscriber's view of a topic that was       *)
(* published since it was registered is what the tree retains               *)
(* (README.md 34: "If any of the `is_on` topics change, the mote-broker     *)
(* will send the client an update"; broker.py 113-121), except for topics   *)
(* that two threads published at once, that were not retained, or whose     *)
(* last list of rows did not reach it.                                      *)
(***************************************************************************)
ViewCurrent == Quiet => \A s \in subs : \A t \in Followed(s) : UpToDate(s, t)

(***************************************************************************)
(* The same as an eventual property: once clients stop publishing, every    *)
(* subscriber ends up with the retained value of every topic published      *)
(* since it was registered whose last list of rows reached it: the main     *)
(* loop outlives a list that raises (broker.py 71-80).                      *)
(***************************************************************************)
EventuallyCurrent == <>[](\A s \in subs : \A t \in Followed(s) : UpToDate(s, t))

Synced(s) == \E i \in DOMAIN inbox[s] : inbox[s][i].kind = "sync"

(***************************************************************************)
(* README.md 24, 34: the answer to a sync subscription contains "all the    *)
(* relevant retained messages" and every change is sent as an update: when  *)
(* nothing is under way a client that subscribed with sync knows what the   *)
(* tree retains (broker.py 123-134).                                        *)
(***************************************************************************)
SyncComplete == Quiet => \A s \in subs : Synced(s) => \A t \in Match[s[2]] : UpToDate(s, t)
=============================================================================
