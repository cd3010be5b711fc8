--------------------------- MODULE DeliveryProofs ---------------------------
(***************************************************************************)
(* Proofs about Delivery for any topics, filters, requests, publishers and  *)
(* clients.                                                                 *)
(***************************************************************************)
EXTENDS Delivery, PublishingProofs

\* What the main loop has not processed is the end of what was put.
Fetched == Len(sent) - Len(queue)
QueueInv == /\ Processed \in Nat /\ Fetched \in Nat /\ Len(reached) = Processed
            /\ \A i \in 1..Len(queue) : queue[i] = sent[Fetched + i]
            /\ current # <<>> => current = sent[Fetched]

\* When no thread holds a topic, the tree has what was put last about it.
TreeInv == \A t \in Topics \ (contended \cup passing) : (\A p \in Publishers : ~Holds(p, t)) =>
  \A i \in DOMAIN sent :
    /\ t \in RowTopics(sent[i])
    /\ \A j \in DOMAIN sent : t \in RowTopics(sent[j]) => j <= i
    => tree[t] = LastData(sent[i], t)

DeliveryInv == TypeOK /\ PubInv /\ QueueInv /\ GapFree /\ TreeInv

\* GapFree, for one subscription.
InStep(s, at) == /\ at \in [Due(s) -> Told(s)]
                 /\ \A k \in Told(s) : \E i \in Due(s) : at[i] = k
                 /\ \A i, j \in Due(s) : i < j => at[i] < at[j]
                 /\ \A i \in Due(s) : inbox[s][at[i]] = Update(s[2], sent[i])
Complete(s) == \E at : InStep(s, at)

\* GapFree says it of every subscription (broker.py 71-80).
LEMMA GapFreeComplete ==
  /\ GapFree <=> \A s \in subs : Complete(s)
  /\ GapFree' <=> \A s \in subs' : Complete(s)'
BY DEF GapFree, Complete, InStep

-----------------------------------------------------------------------------
(* Messages *)

\* An update has the last row of each topic (broker.py 113-121).
LEMMA UpdateIs ==
  ASSUME NEW f, NEW rs
  PROVE  UpdateData(f, rs) = [t \in RowTopics(rs) \cap Match[f] |-> LastData(rs, t)]
BY DEF UpdateData, LastData, LastAt

\* What it has of one topic.
LEMMA UpdateOfTopic ==
  ASSUME NEW f, NEW rs, NEW t
  PROVE  /\ t \in DOMAIN Update(f, rs).data <=> t \in RowTopics(rs) \cap Match[f]
         /\ t \in RowTopics(rs) \cap Match[f] => Update(f, rs).data[t] = LastData(rs, t)
<1>1. Update(f, rs).data = UpdateData(f, rs)
  BY DEF Update
<1>2. Update(f, rs).data = [u \in RowTopics(rs) \cap Match[f] |-> LastData(rs, u)]
  BY <1>1, UpdateIs
<1> QED BY <1>2

\* Both kinds of message carry data for topics of their filter.
LEMMA UpdateType ==
  ASSUME NEW f \in Filters, NEW rs \in Seq(Row)
  PROVE  Update(f, rs) \in Message /\ MessageOK(f, Update(f, rs)) /\ Update(f, rs).kind = "update"
<1> DEFINE T == RowTopics(rs) \cap Match[f]
<1>1. T \in SUBSET Topics
  BY PublishingAssumption
<1>2. \A t \in T : LastData(rs, t) \in Data \cup {Empty}
  BY LastDataType
<1>3. UpdateData(f, rs) \in [T -> Data \cup {Empty}]
  BY <1>2, UpdateIs
<1> HIDE DEF T
<1>4. Update(f, rs) = [kind |-> "update", data |-> UpdateData(f, rs)]
  BY DEF Update
<1>5. Update(f, rs) \in Message
  BY <1>1, <1>3, <1>4 DEF Message
<1>6. MessageOK(f, Update(f, rs))
  BY <1>3, <1>4 DEF MessageOK, T
<1> QED BY <1>4, <1>5, <1>6

\* A sync answer has the leaves of the snapshot that hold data
\* (tree/manager.py 93-105).
LEMMA SyncType ==
  ASSUME NEW f \in Filters, NEW leaves \in Snapshot, DOMAIN leaves \subseteq Match[f]
  PROVE  Sync(leaves) \in Message /\ MessageOK(f, Sync(leaves)) /\ Sync(leaves).kind = "sync"
<1> DEFINE T == Filled(leaves)
           fn == [t \in T |-> leaves[t]]
<1>1. T \in SUBSET Topics /\ T \subseteq Match[f]
  BY DEF Snapshot, Filled
<1>2. fn \in [T -> Data \cup {Empty}] /\ \A t \in T : fn[t] \in Data
  BY DEF Filled
<1>3. Sync(leaves) = [kind |-> "sync", data |-> fn]
  BY DEF Sync
<1> HIDE DEF T, fn
<1>4. Sync(leaves) \in Message
  BY <1>1, <1>2, <1>3 DEF Message
<1>5. MessageOK(f, Sync(leaves))
  BY <1>1, <1>2, <1>3 DEF MessageOK
<1> QED BY <1>3, <1>4, <1>5

\* Queueing a message of its filter for a subscription.
LEMMA Queued ==
  ASSUME NEW f, NEW box \in Seq(Message), NEW m \in Message, MessageOK(f, m),
         \A i \in DOMAIN box : MessageOK(f, box[i])
  PROVE  /\ Append(box, m) \in Seq(Message) /\ Len(Append(box, m)) = Len(box) + 1
         /\ DOMAIN Append(box, m) = 1..Len(box) + 1 /\ DOMAIN box = 1..Len(box) /\ Len(box) \in Nat
         /\ \A i \in 1..Len(box) : Append(box, m)[i] = box[i]
         /\ Append(box, m)[Len(box) + 1] = m
         /\ \A i \in DOMAIN Append(box, m) : MessageOK(f, Append(box, m)[i])
<1>1. /\ Append(box, m) \in Seq(Message) /\ Len(Append(box, m)) = Len(box) + 1
      /\ \A i \in 1..Len(box) : Append(box, m)[i] = box[i]
      /\ Append(box, m)[Len(box) + 1] = m
  BY AppendProperties
<1>2. /\ DOMAIN Append(box, m) = 1..Len(box) + 1 /\ DOMAIN box = 1..Len(box) /\ Len(box) \in Nat
  BY <1>1, LenProperties
<1>3. ASSUME NEW i \in 1..Len(box) + 1 PROVE MessageOK(f, Append(box, m)[i])
  <2>1. i \in 1..Len(box) \/ i = Len(box) + 1
    BY <1>2
  <2> QED BY <2>1, <1>1, <1>2
<1> QED BY <1>1, <1>2, <1>3

-----------------------------------------------------------------------------
(* What steps elsewhere leave alone *)

\* Threads of packets leave broadcast_queue and what was taken from it alone.
LEMMA QueueKept ==
  ASSUME QueueInv, UNCHANGED <<queue, sent, current, reached>>
  PROVE  QueueInv' /\ Processed' = Processed
BY DEF QueueInv, Processed, Fetched

\* A subscription that is owed nothing new and was told nothing new.
LEMMA CompleteKept ==
  ASSUME NEW s, Complete(s), Due(s)' = Due(s), Told(s)' = Told(s),
         \A k \in Told(s) : inbox'[s][k] = inbox[s][k],
         \A i \in Due(s) : sent'[i] = sent[i]
  PROVE  Complete(s)'
<1>1. PICK at : InStep(s, at)
  BY DEF Complete
<1>2. at \in [Due(s)' -> Told(s)']
  BY <1>1 DEF InStep
<1>3. \A i \in Due(s) : inbox'[s][at[i]] = Update(s[2], sent'[i])
  <2>1. \A i \in Due(s) : at[i] \in Told(s) /\ inbox[s][at[i]] = Update(s[2], sent[i])
    BY <1>1 DEF InStep
  <2> QED BY <2>1
<1>4. InStep(s, at)'
  BY <1>1, <1>2, <1>3 DEF InStep
<1> QED BY <1>4 DEF Complete

\* The other threads do not change what a subscription is due or was told.
LEMMA GapFreeKept ==
  ASSUME GapFree, UNCHANGED <<queue, sent, current, reached, since, mark, inbox>>, subs' \subseteq subs
  PROVE  GapFree'
<1>1. ASSUME NEW s \in subs' PROVE Complete(s)'
  <2>1. Due(s)' = Due(s) /\ Told(s)' = Told(s)
    BY DEF Due, Told, Processed
  <2>2. Complete(s)
    BY GapFreeComplete
  <2> QED BY <2>1, <2>2, CompleteKept
<1> QED BY <1>1, GapFreeComplete

\* Threads of subscribe packets only read the tree (broker.py 123-145).
LEMMA TreeKept ==
  ASSUME TreeInv, UNCHANGED <<pubVars, sent, passing>>
  PROVE  TreeInv'
BY DEF TreeInv, Holds, pubVars, threadVars

-----------------------------------------------------------------------------
(* The steps *)

\* A snapshot begins empty.
LEMMA NothingRead == <<>> \in Snapshot /\ DOMAIN <<>> = {}
<1>1. <<>> \in Snapshot
  <2>1. <<>> \in [1..0 -> Leaf]
    BY EmptySeq, LenProperties
  <2>2. 1..0 \in SUBSET Topics
    OBVIOUS
  <2> QED BY <2>1, <2>2 DEF Snapshot
<1>2. DOMAIN <<>> = {}
  OBVIOUS
<1> QED BY <1>1, <1>2

\* The broker starts with nothing queued and nobody subscribed.
LEMMA DeliveryInit == Init => DeliveryInv
<1> SUFFICES ASSUME Init PROVE DeliveryInv
  OBVIOUS
<1> USE DEF Init
<1>1. PubInv
  BY PubInvInit
<1>2. QueueInv /\ Processed = 0
  BY DEF QueueInv, Processed, Fetched
<1>3. TypeOK
  <2>1. PublishingTypeOK
    BY <1>1 DEF PubInv
  <2>2. <<>> \in Snapshot
    BY NothingRead
  <2>3. /\ snap \in [Subs -> Snapshot] /\ seen \in [Subs -> SUBSET Topics]
        /\ inbox \in [Subs -> Seq(Message)]
    BY <2>2
  <2>4. asked \in [Subs -> 0..MaxSubscribes]
    BY DeliveryAssumption
  <2> QED BY <1>2, <2>1, <2>3, <2>4 DEF TypeOK
<1>4. GapFree
  BY DEF GapFree
<1>5. TreeInv
  BY DEF TreeInv
<1> QED BY <1>1, <1>2, <1>3, <1>4, <1>5 DEF DeliveryInv

\* A thread makes and writes its rows: nobody is told yet, and who holds a topic
\* after the step is answerable for its leaf.
LEMMA PublishingStep ==
  ASSUME DeliveryInv, NEW p \in Publishers, Prepare(p) \/ \E r \in Requests : Publish(p, r)
  PROVE  DeliveryInv'
<1>1. TypeOK /\ PubInv /\ QueueInv /\ GapFree /\ TreeInv
  BY DEF DeliveryInv
<1>2. UNCHANGED <<queue, sent, passing, current, reached, subs, spc, seen, snap, since, mark, asked, inbox>>
  BY DEF Prepare, Publish, subVars
<1>3. PubInv'
  BY <1>1, BeginStep, MakeRowsStep, MoveStep, WriteLeafStep DEF Prepare, Publish
<1>4. QueueInv' /\ Processed' = Processed
  BY <1>1, <1>2, QueueKept
<1>5. TypeOK'
  <2>1. PublishingTypeOK'
    BY <1>3 DEF PubInv
  <2> QED BY <1>1, <1>2, <1>4, <2>1 DEF TypeOK
<1>6. GapFree'
  BY <1>1, <1>2, GapFreeKept
<1>7. TreeInv'
  <2> SUFFICES ASSUME NEW t \in Topics, t \notin contended', t \notin passing',
                      \A q \in Publishers : ~Holds(q, t)', NEW i \in DOMAIN sent',
                      t \in RowTopics(sent'[i]),
                      \A j \in DOMAIN sent' : t \in RowTopics(sent'[j]) => j <= i
               PROVE  tree'[t] = LastData(sent'[i], t)
    BY DEF TreeInv
  <2>1. /\ t \notin contended /\ tree'[t] = tree[t]
        /\ \A q \in Publishers : ~Holds(q, t)
    BY <1>1, Unheld DEF Prepare, Publish
  <2> QED BY <1>1, <1>2, <2>1 DEF TreeInv
<1> QED BY <1>3, <1>4, <1>5, <1>6, <1>7 DEF DeliveryInv

\* Steps of a subscribe thread that are its own affair.
LEMMA OwnStep ==
  ASSUME DeliveryInv, NEW s \in Subs,
         \/ \E sync \in MaySync : Subscribe(s, sync)
         \/ ReadLeaf(s) \/ EndSnapshot(s) \/ SnapshotRaises(s)
  PROVE  DeliveryInv'
<1>1. TypeOK /\ PubInv /\ QueueInv /\ GapFree /\ TreeInv
  BY DEF DeliveryInv
<1>2. UNCHANGED <<pubVars, queue, sent, passing, current, reached, subs, since, mark, inbox>>
  BY DEF Subscribe, ReadLeaf, EndSnapshot, SnapshotRaises
<1>3. PubInv'
  BY <1>1, <1>2, PubInvKept
<1>4. QueueInv' /\ Processed' = Processed
  BY <1>1, <1>2, QueueKept
<1>5. GapFree'
  BY <1>1, <1>2, GapFreeKept
<1>6. TreeInv'
  BY <1>1, <1>2, TreeKept
<1>7. TypeOK'
  <2>1. PublishingTypeOK'
    BY <1>3 DEF PubInv
  <2>2. s[2] \in Filters /\ Match[s[2]] \in SUBSET Topics /\ tree \in [Topics -> Leaf]
    BY <1>1, PublishingAssumption DEF Subs, TypeOK, PublishingTypeOK
  <2>3. SUFFICES /\ spc' \in [Subs -> {"idle", "snapshot", "queue", "register", "dead"}]
                 /\ seen' \in [Subs -> SUBSET Topics] /\ snap' \in [Subs -> Snapshot]
                 /\ asked' \in [Subs -> 0..MaxSubscribes]
                 /\ \A r \in Subs : seen'[r] \subseteq Match[r[2]] /\ DOMAIN snap'[r] \subseteq seen'[r]
    BY <1>1, <1>2, <1>4, <2>1 DEF TypeOK
  <2>4. CASE \E sync \in MaySync : Subscribe(s, sync)
    <3>1. PICK sync \in MaySync : Subscribe(s, sync)
      BY <2>4
    <3> DEFINE keys == IF s[2] \in Wild THEN Known(tree, s[2]) ELSE Match[s[2]]
    <3>2. keys \subseteq Match[s[2]] /\ keys \in SUBSET Topics
      BY <2>2 DEF Known
    <3>3. /\ seen' = [seen EXCEPT ![s] = keys] /\ snap' = [snap EXCEPT ![s] = <<>>]
          /\ asked[s] < MaxSubscribes /\ asked' = [asked EXCEPT ![s] = @ + 1]
          /\ spc' = [spc EXCEPT ![s] = IF ~sync THEN "register"
                                       ELSE IF keys = {} THEN "queue" ELSE "snapshot"]
      BY <3>1 DEF Subscribe
    <3> HIDE DEF keys
    <3>4. <<>> \in Snapshot /\ DOMAIN <<>> = {}
      BY NothingRead
    <3>5. spc' \in [Subs -> {"idle", "snapshot", "queue", "register", "dead"}]
      BY <1>1, <3>3 DEF TypeOK
    <3>6. asked' \in [Subs -> 0..MaxSubscribes]
      BY <1>1, <3>3, DeliveryAssumption DEF TypeOK
    <3>7. seen' \in [Subs -> SUBSET Topics] /\ snap' \in [Subs -> Snapshot]
      BY <1>1, <3>2, <3>3, <3>4 DEF TypeOK
    <3>8. \A r \in Subs : seen'[r] \subseteq Match[r[2]] /\ DOMAIN snap'[r] \subseteq seen'[r]
      BY <1>1, <3>2, <3>3, <3>4 DEF TypeOK
    <3> QED BY <3>5, <3>6, <3>7, <3>8
  <2>5. CASE ReadLeaf(s)
    <3>1. UNCHANGED <<spc, seen, asked>>
      BY <2>5 DEF ReadLeaf
    <3>2. PICK t \in seen[s] \ DOMAIN snap[s] :
            snap' = [snap EXCEPT ![s] = [u \in DOMAIN snap[s] \cup {t} |->
                                           IF u = t THEN tree[t] ELSE snap[s][u]]]
      BY <2>5, <1>1 DEF ReadLeaf, TypeOK
    <3> DEFINE fn == [u \in DOMAIN snap[s] \cup {t} |-> IF u = t THEN tree[t] ELSE snap[s][u]]
    <3>3. DOMAIN fn \subseteq seen[s] /\ seen[s] \subseteq Topics
      BY <1>1, <3>2 DEF TypeOK
    <3>4. fn \in Snapshot
      <4>1. PICK T \in SUBSET Topics : snap[s] \in [T -> Leaf]
        BY <1>1 DEF TypeOK, Snapshot
      <4>2. T \cup {t} \in SUBSET Topics /\ fn \in [T \cup {t} -> Leaf]
        BY <4>1, <2>2, <3>2, <3>3
      <4> QED BY <4>2 DEF Snapshot
    <3> HIDE DEF fn
    <3>5. snap' = [snap EXCEPT ![s] = fn]
      BY <3>2 DEF fn
    <3>6. snap' \in [Subs -> Snapshot] /\ \A r \in Subs : DOMAIN snap'[r] \subseteq seen[r]
      BY <1>1, <3>3, <3>4, <3>5 DEF TypeOK
    <3> QED BY <1>1, <3>1, <3>6 DEF TypeOK
  <2>6. CASE EndSnapshot(s) \/ SnapshotRaises(s)
    <3>1. UNCHANGED <<seen, snap, asked>>
      BY <2>6 DEF EndSnapshot, SnapshotRaises
    <3>2. spc' \in [Subs -> {"idle", "snapshot", "queue", "register", "dead"}]
      BY <1>1, <2>6 DEF EndSnapshot, SnapshotRaises, TypeOK
    <3> QED BY <1>1, <3>1, <3>2 DEF TypeOK
  <2> QED BY <2>4, <2>5, <2>6
<1> QED BY <1>3, <1>4, <1>5, <1>6, <1>7 DEF DeliveryInv

\* A subscription ends; one that begins is owed nothing yet.
LEMMA RegisterStep ==
  ASSUME DeliveryInv, NEW s \in Subs, Register(s) \/ Unsubscribe(s)
  PROVE  DeliveryInv'
<1>1. TypeOK /\ PubInv /\ QueueInv /\ GapFree /\ TreeInv
  BY DEF DeliveryInv
<1>2. UNCHANGED <<pubVars, queue, sent, passing, current, reached, seen, snap, asked, inbox>>
  BY DEF Register, Unsubscribe
<1>3. PubInv'
  BY <1>1, <1>2, PubInvKept
<1>4. QueueInv' /\ Processed' = Processed /\ Processed \in Nat
  BY <1>1, <1>2, QueueKept DEF QueueInv
<1>5. TreeInv'
  BY <1>1, <1>2, TreeKept
<1>6. PublishingTypeOK'
  BY <1>3 DEF PubInv
<1>7. CASE Unsubscribe(s) \/ s \in subs
  <2>1. UNCHANGED <<since, mark>> /\ subs' \subseteq subs
    BY <1>7 DEF Register, Unsubscribe
  <2>2. GapFree'
    BY <1>1, <1>2, <2>1, GapFreeKept
  <2>3. spc' \in [Subs -> {"idle", "snapshot", "queue", "register", "dead"}]
    BY <1>1 DEF Register, Unsubscribe, TypeOK
  <2>4. TypeOK'
    BY <1>1, <1>2, <1>4, <1>6, <2>1, <2>3 DEF TypeOK
  <2> QED BY <1>3, <1>4, <1>5, <2>2, <2>4 DEF DeliveryInv
<1>8. CASE Register(s) /\ s \notin subs
  <2>1. /\ subs' = subs \cup {s} /\ spc' = [spc EXCEPT ![s] = "idle"]
        /\ since' = [since EXCEPT ![s] = Processed]
        /\ mark' = [mark EXCEPT ![s] = Len(inbox[s])]
    BY <1>8 DEF Register
  <2>2. Len(inbox[s]) \in Nat
    BY <1>1, LenProperties DEF TypeOK
  <2>3. /\ since'[s] = Processed /\ mark'[s] = Len(inbox[s])
        /\ \A r \in Subs \ {s} : since'[r] = since[r] /\ mark'[r] = mark[r]
    BY <1>1, <2>1 DEF TypeOK
  <2>4. TypeOK'
    <3>1. /\ since' \in [Subs -> Nat] /\ mark' \in [Subs -> Nat] /\ subs' \subseteq Subs
          /\ spc' \in [Subs -> {"idle", "snapshot", "queue", "register", "dead"}]
      BY <1>1, <1>4, <2>1, <2>2 DEF TypeOK
    <3>2. \A r \in Subs : since'[r] \in 0..Processed /\ mark'[r] \in 0..Len(inbox[r])
      <4>1. TAKE r \in Subs
      <4>2. since[r] \in 0..Processed /\ mark[r] \in 0..Len(inbox[r])
        BY <1>1 DEF TypeOK
      <4>3. CASE r = s
        BY <1>4, <2>2, <2>3, <4>3
      <4>4. CASE r # s
        BY <2>3, <4>2, <4>4
      <4> QED BY <4>3, <4>4
    <3> QED BY <1>1, <1>2, <1>4, <1>6, <3>1, <3>2 DEF TypeOK
  <2>5. GapFree'
    <3>1. ASSUME NEW r \in subs' PROVE Complete(r)'
      <4>1. CASE r = s
        <5>1. Due(s)' = {} /\ Told(s)' = {}
          BY <1>2, <1>4, <2>2, <2>3 DEF Due, Told
        <5>2. InStep(s, [i \in {} |-> 0])'
          BY <5>1 DEF InStep
        <5> QED BY <4>1, <5>2 DEF Complete
      <4>2. CASE r # s
        <5>1. r \in subs /\ r \in Subs \ {s}
          BY <1>1, <2>1, <3>1, <4>2 DEF TypeOK
        <5>2. Due(r)' = Due(r) /\ Told(r)' = Told(r)
          BY <1>2, <1>4, <2>3, <5>1 DEF Due, Told
        <5>3. Complete(r)
          BY <1>1, <5>1, GapFreeComplete
        <5> QED BY <1>2, <5>2, <5>3, CompleteKept
      <4> QED BY <4>1, <4>2
    <3> QED BY <3>1, GapFreeComplete
  <2> QED BY <1>3, <1>4, <1>5, <2>4, <2>5 DEF DeliveryInv
<1> QED BY <1>7, <1>8

\* A sync answer is not an update.
LEMMA QueueSyncStep ==
  ASSUME DeliveryInv, NEW s \in Subs, QueueSync(s)
  PROVE  DeliveryInv'
<1>1. TypeOK /\ PubInv /\ QueueInv /\ GapFree /\ TreeInv
  BY DEF DeliveryInv
<1>2. UNCHANGED <<pubVars, queue, sent, passing, current, reached, subs, seen, snap, since, mark, asked>>
  BY DEF QueueSync
<1>3. PubInv'
  BY <1>1, <1>2, PubInvKept
<1>4. QueueInv' /\ Processed' = Processed
  BY <1>1, <1>2, QueueKept
<1>5. TreeInv'
  BY <1>1, <1>2, TreeKept
<1>6. PublishingTypeOK'
  BY <1>3 DEF PubInv
<1>7. PICK m : m = Sync(snap[s])
  OBVIOUS
<1>8. m \in Message /\ MessageOK(s[2], m) /\ m.kind = "sync"
  <2>1. s[2] \in Filters /\ snap[s] \in Snapshot /\ DOMAIN snap[s] \subseteq Match[s[2]]
    BY <1>1 DEF Subs, TypeOK
  <2> QED BY <1>7, <2>1, SyncType
<1>9. inbox[s] \in Seq(Message) /\ \A i \in DOMAIN inbox[s] : MessageOK(s[2], inbox[s][i])
  BY <1>1 DEF TypeOK
<1>10. inbox' = [inbox EXCEPT ![s] = Append(inbox[s], m)]
  BY <1>1, <1>7 DEF QueueSync, TypeOK
<1>11. inbox'[s] = Append(inbox[s], m) /\ \A r \in Subs \ {s} : inbox'[r] = inbox[r]
  BY <1>1, <1>10 DEF TypeOK
<1>12. /\ inbox'[s] \in Seq(Message) /\ Len(inbox'[s]) = Len(inbox[s]) + 1 /\ Len(inbox[s]) \in Nat
       /\ \A i \in 1..Len(inbox[s]) : inbox'[s][i] = inbox[s][i]
       /\ inbox'[s][Len(inbox[s]) + 1] = m
       /\ \A i \in DOMAIN inbox'[s] : MessageOK(s[2], inbox'[s][i])
  BY <1>8, <1>9, <1>11, Queued
<1>13. TypeOK'
  <2>1. /\ inbox' \in [Subs -> Seq(Message)]
        /\ spc' \in [Subs -> {"idle", "snapshot", "queue", "register", "dead"}]
    BY <1>1, <1>10, <1>11, <1>12 DEF TypeOK, QueueSync
  <2>2. ASSUME NEW r \in Subs
        PROVE  /\ \A i \in DOMAIN inbox'[r] : MessageOK(r[2], inbox'[r][i])
               /\ mark[r] \in 0..Len(inbox'[r])
    <3>1. mark[r] \in 0..Len(inbox[r]) /\ \A i \in DOMAIN inbox[r] : MessageOK(r[2], inbox[r][i])
      BY <1>1 DEF TypeOK
    <3>2. CASE r = s
      BY <1>12, <3>1, <3>2
    <3>3. CASE r # s
      BY <1>11, <3>1, <3>3
    <3> QED BY <3>2, <3>3
  <2> QED BY <1>1, <1>2, <1>4, <1>6, <2>1, <2>2 DEF TypeOK
<1>14. GapFree'
  <2>1. ASSUME NEW r \in subs' PROVE Complete(r)'
    <3>1. r \in subs /\ r \in Subs /\ Complete(r)
      BY <1>1, <1>2, <2>1, GapFreeComplete DEF TypeOK
    <3>2. Due(r)' = Due(r)
      BY <1>2, <1>4 DEF Due
    <3>3. Told(r)' = Told(r) /\ \A k \in Told(r) : inbox'[r][k] = inbox[r][k]
      <4>1. CASE r # s
        BY <1>2, <1>11, <3>1, <4>1 DEF Told
      <4>2. CASE r = s
        <5>1. mark[s] \in Nat /\ mark'[s] = mark[s] /\ m.kind # "update"
          BY <1>1, <1>2, <1>8 DEF TypeOK
        <5>2. \A k \in mark[s] + 1 .. Len(inbox[s]) : inbox'[s][k] = inbox[s][k]
          BY <1>12, <5>1
        <5>3. DOMAIN inbox'[s] = 1..Len(inbox[s]) + 1 /\ DOMAIN inbox[s] = 1..Len(inbox[s])
          BY <1>12
        <5>4. \A k \in Told(s) : k \in mark[s] + 1 .. Len(inbox[s])
          BY <5>1, <5>3 DEF Told
        <5>5. Told(s)' \subseteq Told(s)
          BY <1>12, <5>1, <5>2, <5>3 DEF Told
        <5>6. Told(s) \subseteq Told(s)'
          BY <1>12, <5>1, <5>2, <5>3 DEF Told
        <5> QED BY <4>2, <5>2, <5>4, <5>5, <5>6
      <4> QED BY <4>1, <4>2
    <3> QED BY <1>2, <3>1, <3>2, <3>3, CompleteKept
  <2> QED BY <2>1, GapFreeComplete
<1> QED BY <1>3, <1>4, <1>5, <1>13, <1>14 DEF DeliveryInv

\* What Append does to a queue of lists of rows.
LEMMA ListAppended ==
  ASSUME NEW lists \in Seq(Seq(Row)), NEW rs \in Seq(Row)
  PROVE  /\ Append(lists, rs) \in Seq(Seq(Row)) /\ Len(lists) \in Nat
         /\ Len(Append(lists, rs)) = Len(lists) + 1
         /\ DOMAIN Append(lists, rs) = 1..Len(lists) + 1 /\ DOMAIN lists = 1..Len(lists)
         /\ \A i \in 1..Len(lists) : Append(lists, rs)[i] = lists[i]
         /\ Append(lists, rs)[Len(lists) + 1] = rs
<1>1. /\ Append(lists, rs) \in Seq(Seq(Row)) /\ Len(Append(lists, rs)) = Len(lists) + 1
      /\ \A i \in 1..Len(lists) : Append(lists, rs)[i] = lists[i]
      /\ Append(lists, rs)[Len(lists) + 1] = rs
  BY AppendProperties
<1>2. Len(lists) \in Nat /\ DOMAIN lists = 1..Len(lists)
      /\ DOMAIN Append(lists, rs) = 1..Len(lists) + 1
  BY <1>1, LenProperties
<1> QED BY <1>1, <1>2

\* Where the main loop is in what was put.
LEMMA Positions ==
  ASSUME TypeOK, QueueInv
  PROVE  /\ Len(sent) \in Nat /\ Len(queue) \in Nat /\ Fetched \in 0..Len(sent)
         /\ Processed \in 0..Fetched /\ Len(sent) = Fetched + Len(queue)
         /\ current = <<>> => Processed = Fetched
         /\ current # <<>> => Processed = Fetched - 1
<1>1. PICK n \in Nat, m \in Nat : n = Len(sent) /\ m = Len(queue)
  BY LenProperties DEF TypeOK
<1>2. Fetched = n - m /\ n - m \in Nat
  BY <1>1 DEF QueueInv, Fetched
<1>3. /\ current = <<>> => Processed = n - m
      /\ current # <<>> => Processed = n - m - 1
  BY <1>1 DEF Processed
<1>4. Processed \in Nat
  BY DEF QueueInv
<1>5. n - m \in 0..n /\ n = n - m + m
  BY <1>1, <1>2
<1>6. Processed \in 0..n - m
  BY <1>1, <1>2, <1>3, <1>4
<1> QED BY <1>1, <1>2, <1>3, <1>5, <1>6

\* The rows are put: they are the last about their topics, and the tree has them
\* unless they were not retained.
LEMMA PutStep ==
  ASSUME DeliveryInv, NEW p \in Publishers, Put(p)
  PROVE  DeliveryInv'
<1>1. TypeOK /\ PubInv /\ QueueInv /\ GapFree /\ TreeInv
  BY DEF DeliveryInv
<1>2. /\ PutRows(p) /\ queue' = Append(queue, rows[p]) /\ sent' = Append(sent, rows[p])
      /\ UNCHANGED <<current, reached, subs, spc, seen, snap, since, mark, asked, inbox>>
  BY DEF Put, subVars
<1>3. PubInv' /\ UNCHANGED <<tree, req, walked, rows, todo, contended, published>>
  BY <1>1, <1>2, MoveStep DEF PutRows
<1>4. PublishingTypeOK'
  BY <1>3 DEF PubInv
<1>5. rows[p] \in Seq(Row) /\ queue \in Seq(Seq(Row)) /\ sent \in Seq(Seq(Row))
  BY <1>1 DEF TypeOK, PublishingTypeOK
<1>6. PICK n \in Nat, m \in Nat : n = Len(sent) /\ m = Len(queue)
  BY <1>5, LenProperties
<1>7. /\ queue' \in Seq(Seq(Row)) /\ Len(queue') = m + 1
      /\ \A i \in 1..m : queue'[i] = queue[i]
      /\ queue'[m + 1] = rows[p]
  BY <1>2, <1>5, <1>6, ListAppended
<1>8. /\ sent' \in Seq(Seq(Row)) /\ Len(sent') = n + 1
      /\ DOMAIN sent' = 1..n + 1 /\ DOMAIN sent = 1..n
      /\ \A i \in 1..n : sent'[i] = sent[i]
      /\ sent'[n + 1] = rows[p]
  BY <1>2, <1>5, <1>6, ListAppended
<1>9. /\ Fetched = n - m /\ n - m \in 0..n /\ Processed \in 0..n - m
      /\ current # <<>> => n - m \in 1..n
  <2>1. Fetched = n - m
    BY <1>6 DEF Fetched
  <2>2. Fetched \in 0..n /\ Processed \in 0..Fetched /\ (current # <<>> => Processed = Fetched - 1)
    BY <1>1, <1>6, Positions
  <2> QED BY <1>6, <2>1, <2>2
<1>10. Fetched' = n - m
  BY <1>6, <1>7, <1>8 DEF Fetched
<1>11. Processed' = Processed
  BY <1>2, <1>6, <1>7, <1>8 DEF Processed
<1>12. QueueInv'
  <2>1. \A i \in 1..m : queue[i] = sent[n - m + i]
    BY <1>1, <1>6, <1>9 DEF QueueInv
  <2>2. \A i \in 1..m : n - m + i \in 1..n
    BY <1>6, <1>9
  <2>3. ASSUME NEW i \in 1..m + 1 PROVE queue'[i] = sent'[n - m + i]
    <3>1. CASE i \in 1..m
      BY <3>1, <2>1, <2>2, <1>7, <1>8
    <3>2. CASE i = m + 1
      <4>1. n - m + i = n + 1
        BY <3>2, <1>6
      <4> QED BY <3>2, <4>1, <1>7, <1>8
    <3> QED BY <3>1, <3>2, <1>6
  <2>4. current' # <<>> => current' = sent'[n - m]
    BY <1>1, <1>2, <1>8, <1>9 DEF QueueInv
  <2>5. Processed' \in Nat /\ Fetched' \in Nat
    BY <1>9, <1>10, <1>11
  <2>6. Len(reached') = Processed'
    BY <1>1, <1>2, <1>11 DEF QueueInv
  <2> QED BY <1>7, <1>10, <2>3, <2>4, <2>5, <2>6 DEF QueueInv
<1>13. TypeOK'
  <2>1. passing' \subseteq Topics
    <3>1. RowTopics(rows[p]) \subseteq Topics
      <4>1. \A i \in DOMAIN rows[p] : rows[p][i] \in Row
        BY <1>5, LenProperties, ElementOfSeq
      <4> QED BY <4>1 DEF RowTopics, Row
    <3> QED BY <3>1, <1>1 DEF Put, TypeOK
  <2> QED BY <1>1, <1>2, <1>4, <1>7, <1>8, <1>11, <2>1 DEF TypeOK
<1>14. GapFree'
  <2>1. ASSUME NEW s \in subs' PROVE Complete(s)'
    <3>1. s \in subs /\ s \in Subs /\ Complete(s) /\ since[s] \in Nat
      BY <1>1, <1>2, <2>1, GapFreeComplete DEF TypeOK
    <3>2. Told(s)' = Told(s)
      BY <1>2 DEF Told
    <3>3. ASSUME NEW i \in since[s] + 1 .. Processed PROVE i \in 1..n /\ sent'[i] = sent[i]
      <4>1. i \in 1..n
        BY <1>6, <1>9, <3>1
      <4> QED BY <4>1, <1>8
    <3>4. Due(s)' = Due(s)
      BY <1>2, <1>11, <3>3 DEF Due
    <3> QED BY <1>2, <3>1, <3>2, <3>3, <3>4, CompleteKept DEF Due
  <2> QED BY <2>1, GapFreeComplete
<1>15. TreeInv'
  <2> SUFFICES ASSUME NEW t \in Topics, t \notin contended', t \notin passing',
                      \A q \in Publishers : ~Holds(q, t)', NEW i \in DOMAIN sent',
                      t \in RowTopics(sent'[i]),
                      \A j \in DOMAIN sent' : t \in RowTopics(sent'[j]) => j <= i
               PROVE  tree'[t] = LastData(sent'[i], t)
    BY DEF TreeInv
  <2>1. t \in Topics \ contended /\ t \notin passing
    BY <1>3 DEF Put
  <2>2. CASE t \in RowTopics(rows[p])
    <3>1. ppc[p] = "retain"
      BY <1>1, <1>2, <2>2 DEF Put, PutRows, PubInv, RequestInv
    <3>2. tree[t] = LastData(rows[p], t)
      BY <1>1, <1>2, <2>1, <2>2, <3>1, UnheldAfterPut
    <3>3. i = n + 1
      <4>1. n + 1 \in DOMAIN sent' /\ sent'[n + 1] = rows[p] /\ i \in 1..n + 1
        BY <1>8
      <4>2. n + 1 <= i
        BY <2>2, <4>1
      <4> QED BY <1>6, <4>1, <4>2
    <3> QED BY <1>3, <1>8, <3>2, <3>3
  <2>3. CASE t \notin RowTopics(rows[p])
    <3>1. \A q \in Publishers : ~Holds(q, t)
      BY <1>1, <1>2, <2>1, <2>3, UnheldAfterPut
    <3>2. i \in DOMAIN sent /\ sent'[i] = sent[i]
      BY <1>6, <1>8, <2>3
    <3>3. \A j \in DOMAIN sent : t \in RowTopics(sent[j]) => j <= i
      BY <1>6, <1>8
    <3>4. tree[t] = LastData(sent[i], t)
      BY <1>1, <2>1, <3>1, <3>2, <3>3 DEF TreeInv
    <3> QED BY <1>3, <3>2, <3>4
  <2> QED BY <2>2, <2>3
<1> QED BY <1>3, <1>12, <1>13, <1>14, <1>15 DEF DeliveryInv

\* The main loop takes the next list; an empty one concerns nobody.
LEMMA GetRowsStep ==
  ASSUME DeliveryInv, GetRows
  PROVE  DeliveryInv'
<1>1. TypeOK /\ PubInv /\ QueueInv /\ GapFree /\ TreeInv
  BY DEF DeliveryInv
<1>2. /\ current = <<>> /\ queue # <<>> /\ current' = Head(queue) /\ queue' = Tail(queue)
      /\ UNCHANGED <<pubVars, sent, passing, subs, spc, seen, snap, since, mark, asked, inbox>>
  BY DEF GetRows, subVars
<1>2a. reached' = IF current' = <<>> THEN Append(reached, {}) ELSE reached
  BY <1>2 DEF GetRows
<1>3. PubInv'
  BY <1>1, <1>2, PubInvKept
<1>4. TreeInv'
  BY <1>1, <1>2, TreeKept
<1>5. queue \in Seq(Seq(Row))
  BY <1>1 DEF TypeOK
<1>6. PICK n \in Nat, m \in Nat \ {0} : n = Len(sent) /\ m = Len(queue)
  BY <1>1, <1>2, <1>5, LenProperties, EmptySeq DEF TypeOK
<1>7. /\ Head(queue) \in Seq(Row) /\ Tail(queue) \in Seq(Seq(Row)) /\ Len(Tail(queue)) = m - 1
      /\ \A i \in 1..m - 1 : Tail(queue)[i] = queue[i + 1]
  BY <1>2, <1>5, <1>6, HeadTailProperties
<1>8. Head(queue) = queue[1]
  BY <1>2, <1>5
<1>9. /\ Fetched = n - m /\ n - m \in Nat /\ Processed = n - m
      /\ \A i \in 1..m : queue[i] = sent[n - m + i]
  <2>1. Fetched = n - m
    BY <1>6 DEF Fetched
  <2>2. Fetched \in Nat /\ Processed = Fetched
    BY <1>1, <1>2, Positions
  <2> QED BY <1>1, <1>6, <2>1, <2>2 DEF QueueInv
<1>10. Len(sent') = n /\ Len(queue') = m - 1
  BY <1>2, <1>6, <1>7
<1>11. Fetched' = n - m + 1
  BY <1>6, <1>10 DEF Fetched
<1>12. /\ current' # <<>> => Processed' = n - m
       /\ current' = <<>> => Processed' = n - m + 1
  BY <1>6, <1>10 DEF Processed
<1>13. current' = sent[n - m + 1]
  BY <1>2, <1>6, <1>8, <1>9
<1>13a. /\ reached' \in Seq(SUBSET Subs) /\ Len(reached) = n - m
        /\ \A i \in 1..n - m : reached'[i] = reached[i]
        /\ current' = <<>> => Len(reached') = n - m + 1
        /\ current' # <<>> => Len(reached') = n - m
  <2>1. reached \in Seq(SUBSET Subs) /\ Len(reached) = n - m
    BY <1>1, <1>9 DEF TypeOK, QueueInv
  <2>2. {} \in SUBSET Subs
    OBVIOUS
  <2>3. /\ Append(reached, {}) \in Seq(SUBSET Subs) /\ Len(Append(reached, {})) = n - m + 1
        /\ \A i \in 1..n - m : Append(reached, {})[i] = reached[i]
    BY <2>1, <2>2, AppendProperties
  <2> QED BY <1>2a, <2>1, <2>3
<1>13b. Len(reached') = Processed'
  BY <1>12, <1>13a
<1>14. QueueInv'
  <2>1. \A i \in 1..m - 1 : queue'[i] = sent[n - m + 1 + i]
    <3>1. TAKE i \in 1..m - 1
    <3>2. i + 1 \in 1..m /\ n - m + (i + 1) = n - m + 1 + i
      BY <1>6
    <3> QED BY <3>2, <1>2, <1>7, <1>9
  <2>2. Processed' \in Nat /\ Fetched' \in Nat
    BY <1>6, <1>9, <1>11, <1>12
  <2> QED BY <1>2, <1>10, <1>11, <1>13, <1>13b, <2>1, <2>2 DEF QueueInv
<1>15. Processed' \in Nat /\ Processed <= Processed' /\ Processed \in Nat
  BY <1>6, <1>9, <1>12
<1>16. TypeOK'
  <2>1. PublishingTypeOK'
    BY <1>3 DEF PubInv
  <2>2. \A s \in Subs : since[s] \in 0..Processed'
    BY <1>1, <1>15 DEF TypeOK
  <2> QED BY <1>1, <1>2, <1>7, <1>13a, <2>1, <2>2 DEF TypeOK
<1>17. GapFree'
  <2>1. ASSUME NEW s \in subs' PROVE Complete(s)'
    <3>1. s \in subs /\ s \in Subs /\ Complete(s) /\ since[s] \in 0..Processed
      BY <1>1, <1>2, <2>1, GapFreeComplete DEF TypeOK
    <3>2. Told(s)' = Told(s)
      BY <1>2 DEF Told
    <3>3. Due(s)' = Due(s)
      <4>0. \A i \in since[s] + 1 .. Processed : reached'[i] = reached[i]
        BY <1>9, <1>13a, <3>1
      <4>1. CASE Processed' = Processed
        BY <1>2, <4>0, <4>1 DEF Due
      <4>2. CASE current' = <<>>
        <5>1. ~Concerns(s[2], sent[n - m + 1])
          <6>1. DOMAIN <<>> = {} /\ sent[n - m + 1] = <<>>
            BY <1>13, <4>2
          <6> QED BY <6>1 DEF Concerns, RowTopics
        <5>2. Processed = n - m /\ Processed' = n - m + 1
          BY <1>9, <1>12, <4>2
        <5>3. \A i : i \in since[s] + 1 .. Processed' <=>
                       i \in since[s] + 1 .. Processed \/ i = n - m + 1
          BY <1>6, <1>9, <3>1, <5>2
        <5>4. since'[s] = since[s] /\ sent' = sent
          BY <1>2
        <5> QED BY <4>0, <5>1, <5>3, <5>4 DEF Due
      <4> QED BY <1>9, <1>12, <4>1, <4>2
    <3> QED BY <1>2, <3>1, <3>2, <3>3, CompleteKept
  <2> QED BY <2>1, GapFreeComplete
<1> QED BY <1>3, <1>4, <1>14, <1>16, <1>17 DEF DeliveryInv

\* The main loop sends the list it has taken to whom it concerns: the next one
\* due becomes the last one told.
LEMMA ProcessRowsStep ==
  ASSUME DeliveryInv, ProcessRows
  PROVE  DeliveryInv'
<1>1. TypeOK /\ PubInv /\ QueueInv /\ GapFree /\ TreeInv
  BY DEF DeliveryInv
<1>2. /\ current # <<>> /\ current' = <<>>
      /\ UNCHANGED <<pubVars, queue, sent, passing, subs, spc, seen, snap, since, mark, asked>>
  BY DEF ProcessRows, subVars
<1>3. PubInv'
  BY <1>1, <1>2, PubInvKept
<1>4. TreeInv'
  BY <1>1, <1>2, TreeKept
<1>5. PICK k \in Nat : k = Processed
  BY <1>1 DEF QueueInv
<1>6. Fetched = k + 1 /\ Fetched \in 0..Len(sent) /\ current = sent[k + 1] /\ current \in Seq(Row)
  BY <1>1, <1>2, <1>5, Positions DEF QueueInv, TypeOK
<1>7. Fetched' = Fetched
  BY <1>2 DEF Fetched
<1>8. Processed' = k + 1
  <2>1. Processed' = Fetched'
    <3>1. Len(sent') \in Nat /\ Len(queue') \in Nat
      BY <1>1, <1>2, LenProperties DEF TypeOK
    <3> QED BY <1>2, <3>1 DEF Processed, Fetched
  <2> QED BY <1>6, <1>7, <2>1
<1>8a. PICK told \in SUBSET subs :
         /\ inbox' = [s \in Subs |-> IF s \in told /\ Concerns(s[2], current)
                                     THEN Append(inbox[s], Update(s[2], current))
                                     ELSE inbox[s]]
         /\ reached' = Append(reached, told)
  BY DEF ProcessRows
<1>8b. /\ reached' \in Seq(SUBSET Subs) /\ Len(reached') = k + 1
       /\ \A i \in 1..k : reached'[i] = reached[i]
       /\ reached'[k + 1] = told
  <2>1. reached \in Seq(SUBSET Subs) /\ Len(reached) = k /\ told \in SUBSET Subs
    BY <1>1, <1>5 DEF TypeOK, QueueInv
  <2> QED BY <1>8a, <2>1, AppendProperties
<1>9. QueueInv'
  BY <1>1, <1>2, <1>5, <1>6, <1>7, <1>8, <1>8b DEF QueueInv
<1>10. ASSUME NEW s \in Subs
       PROVE  /\ inbox'[s] = IF s \in told /\ Concerns(s[2], current)
                             THEN Append(inbox[s], Update(s[2], current)) ELSE inbox[s]
              /\ inbox[s] \in Seq(Message) /\ Len(inbox[s]) \in Nat
              /\ s[2] \in Filters /\ mark[s] \in 0..Len(inbox[s]) /\ since[s] \in 0..k
              /\ \A i \in DOMAIN inbox[s] : MessageOK(s[2], inbox[s][i])
  BY <1>1, <1>5, <1>8a, LenProperties DEF TypeOK, Subs
<1>11. ASSUME NEW s \in Subs, s \in told, Concerns(s[2], current)
       PROVE  /\ inbox'[s] \in Seq(Message) /\ Len(inbox'[s]) = Len(inbox[s]) + 1
              /\ \A i \in 1..Len(inbox[s]) : inbox'[s][i] = inbox[s][i]
              /\ inbox'[s][Len(inbox[s]) + 1] = Update(s[2], current)
              /\ \A i \in DOMAIN inbox'[s] : MessageOK(s[2], inbox'[s][i])
  <2>1. Update(s[2], current) \in Message /\ MessageOK(s[2], Update(s[2], current))
    BY <1>6, <1>10, UpdateType
  <2>2. /\ inbox'[s] = Append(inbox[s], Update(s[2], current)) /\ inbox[s] \in Seq(Message)
        /\ \A i \in DOMAIN inbox[s] : MessageOK(s[2], inbox[s][i])
    BY <1>10, <1>11
  <2> QED BY <2>1, <2>2, Queued
<1>12. TypeOK'
  <2>1. PublishingTypeOK'
    BY <1>3 DEF PubInv
  <2>2. ASSUME NEW s \in Subs
        PROVE  /\ inbox'[s] \in Seq(Message) /\ mark[s] \in 0..Len(inbox'[s])
               /\ \A i \in DOMAIN inbox'[s] : MessageOK(s[2], inbox'[s][i])
    <3>1. CASE s \in told /\ Concerns(s[2], current)
      BY <3>1, <1>10, <1>11
    <3>2. CASE ~(s \in told /\ Concerns(s[2], current))
      <4>1. inbox'[s] = inbox[s]
        BY <3>2, <1>10
      <4> QED BY <4>1, <1>10
    <3> QED BY <3>1, <3>2
  <2>3. inbox' \in [Subs -> Seq(Message)]
    <3>1. inbox' = [s \in Subs |-> inbox'[s]]
      BY <1>8a
    <3> QED BY <2>2, <3>1
  <2>4. \A s \in Subs : since[s] \in 0..k + 1
    BY <1>5, <1>10
  <2>5. current' \in Seq(Row)
    BY <1>2
  <2> QED BY <1>1, <1>2, <1>8, <1>8b, <2>1, <2>2, <2>3, <2>4, <2>5 DEF TypeOK
<1>13. GapFree'
  <2>1. ASSUME NEW s \in subs' PROVE Complete(s)'
    <3>1. s \in subs /\ s \in Subs
      BY <1>1, <1>2, <2>1 DEF TypeOK
    <3>2. Complete(s)
      BY <1>1, <3>1, GapFreeComplete
    <3>3. since[s] \in 0..k /\ mark[s] \in 0..Len(inbox[s]) /\ Len(inbox[s]) \in Nat
      BY <1>10, <3>1
    <3>4. \A i : i \in since[s] + 1 .. Processed' <=> i \in since[s] + 1 .. Processed \/ i = k + 1
      BY <1>5, <1>8, <3>3
    <3>4a. \A i \in since[s] + 1 .. Processed : reached'[i] = reached[i]
      BY <1>5, <1>8b, <3>3
    <3>5. CASE ~(s \in told /\ Concerns(s[2], current))
      <4>1. inbox'[s] = inbox[s]
        BY <1>10, <3>1, <3>5
      <4>2. Due(s)' = Due(s)
        BY <1>2, <1>6, <1>8b, <3>4, <3>4a, <3>5 DEF Due
      <4>3. Told(s)' = Told(s)
        BY <1>2, <4>1 DEF Told
      <4> QED BY <1>2, <3>2, <4>1, <4>2, <4>3, CompleteKept
    <3>6. CASE s \in told /\ Concerns(s[2], current)
      <4>1. PICK at : InStep(s, at)
        BY <3>2 DEF Complete
      <4>2. PICK l \in Nat : l = Len(inbox[s])
        BY <3>3
      <4>3. /\ Len(inbox'[s]) = l + 1 /\ \A i \in 1..l : inbox'[s][i] = inbox[s][i]
            /\ inbox'[s][l + 1] = Update(s[2], current)
        BY <1>11, <3>1, <3>6, <4>2
      <4>4. Due(s)' = Due(s) \cup {k + 1}
        BY <1>2, <1>6, <1>8b, <3>4, <3>4a, <3>6 DEF Due
      <4>5. Told(s)' = Told(s) \cup {l + 1} /\ \A j \in Told(s) : j \in 1..l
        <5>1. Update(s[2], current).kind = "update"
          BY DEF Update
        <5>2. \A j : j \in mark[s] + 1 .. l + 1 <=> j \in mark[s] + 1 .. l \/ j = l + 1
          BY <3>3, <4>2
        <5>3. \A j \in mark[s] + 1 .. l : j \in 1..l /\ inbox'[s][j] = inbox[s][j]
          BY <3>3, <4>2, <4>3
        <5> QED BY <1>2, <4>2, <4>3, <5>1, <5>2, <5>3 DEF Told
      <4>6. \A i \in Due(s) : i \in Nat /\ i < k + 1 /\ at[i] \in Told(s)
        BY <1>5, <3>3, <4>1 DEF Due, InStep
      <4>7a. PICK next : next = [i \in Due(s) \cup {k + 1} |-> IF i = k + 1 THEN l + 1 ELSE at[i]]
        OBVIOUS
      <4>7. /\ next[k + 1] = l + 1
            /\ \A i \in Due(s) : next[i] = at[i] /\ next[i] \in 1..l
        BY <4>5, <4>6, <4>7a
      <4>8. next \in [Due(s) \cup {k + 1} -> Told(s) \cup {l + 1}]
        BY <4>6, <4>7a
      <4>9. \A j \in Told(s)' : \E i \in Due(s)' : next[i] = j
        <5>1. \A j \in Told(s) : \E i \in Due(s) : at[i] = j
          BY <4>1 DEF InStep
        <5> QED BY <5>1, <4>4, <4>5, <4>7
      <4>10. \A i, j \in Due(s)' : i < j => next[i] < next[j]
        <5>1. \A i, j \in Due(s) : i < j => at[i] < at[j]
          BY <4>1 DEF InStep
        <5>2. ASSUME NEW i \in Due(s)', NEW j \in Due(s)', i < j PROVE next[i] < next[j]
          <6>1. i \in Due(s)
            BY <4>4, <4>6, <5>2
          <6>2. CASE j = k + 1
            BY <6>1, <6>2, <4>2, <4>7
          <6>3. CASE j \in Due(s)
            BY <6>1, <6>3, <5>1, <5>2, <4>7
          <6> QED BY <6>2, <6>3, <4>4, <5>2
        <5> QED BY <5>2
      <4>11. \A i \in Due(s)' : inbox'[s][next[i]] = Update(s[2], sent'[i])
        <5>1. \A i \in Due(s) : inbox[s][at[i]] = Update(s[2], sent[i])
          BY <4>1 DEF InStep
        <5>2. ASSUME NEW i \in Due(s)' PROVE inbox'[s][next[i]] = Update(s[2], sent'[i])
          <6>1. CASE i = k + 1
            BY <6>1, <1>2, <1>6, <4>3, <4>7
          <6>2. CASE i \in Due(s)
            BY <6>2, <1>2, <4>3, <4>7, <5>1
          <6> QED BY <6>1, <6>2, <4>4, <5>2
        <5> QED BY <5>2
      <4>12. InStep(s, next)'
        <5>1. next \in [Due(s)' -> Told(s)']
          BY <4>4, <4>5, <4>8
        <5> QED BY <5>1, <4>9, <4>10, <4>11 DEF InStep
      <4> QED BY <4>12 DEF Complete
    <3> QED BY <3>5, <3>6
  <2> QED BY <2>1, GapFreeComplete
<1> QED BY <1>3, <1>4, <1>9, <1>12, <1>13 DEF DeliveryInv

\* Every step of the broker keeps the invariant.
LEMMA DeliveryStep == DeliveryInv /\ [Next]_vars => DeliveryInv'
<1> SUFFICES ASSUME DeliveryInv, [Next]_vars PROVE DeliveryInv'
  OBVIOUS
<1>1. ASSUME NEW p \in Publishers, PublisherStep(p) PROVE DeliveryInv'
  BY <1>1, PublishingStep, PutStep DEF PublisherStep
<1>2. ASSUME NEW p \in Publishers, NEW r \in Requests, Publish(p, r) PROVE DeliveryInv'
  BY <1>2, PublishingStep
<1>3. ASSUME NEW s \in Subs, SubscriberStep(s) PROVE DeliveryInv'
  BY <1>3, OwnStep, QueueSyncStep, RegisterStep DEF SubscriberStep
<1>4. ASSUME NEW s \in Subs, Unsubscribe(s) PROVE DeliveryInv'
  BY <1>4, RegisterStep
<1>5. ASSUME NEW s \in Subs, NEW sync \in MaySync, Subscribe(s, sync) PROVE DeliveryInv'
  BY <1>5, OwnStep
<1>6. CASE MainStep
  BY <1>6, GetRowsStep, ProcessRowsStep DEF MainStep
<1>7. CASE UNCHANGED vars
  <2>1. UNCHANGED <<pubVars, queue, sent, passing, current, reached, subs, spc, seen, snap, since, mark, asked, inbox>>
    BY <1>7 DEF vars, subVars
  <2>2. TypeOK /\ PubInv /\ QueueInv /\ GapFree /\ TreeInv
    BY DEF DeliveryInv
  <2>3. PubInv'
    BY <2>1, <2>2, PubInvKept
  <2>4. QueueInv' /\ Processed' = Processed
    BY <2>1, <2>2, QueueKept
  <2>5. GapFree'
    BY <2>1, <2>2, GapFreeKept
  <2>6. TreeInv'
    BY <2>1, <2>2, TreeKept
  <2>7. TypeOK'
    BY <2>1, <2>2, <2>3, <2>4 DEF TypeOK, PubInv
  <2> QED BY <2>3, <2>4, <2>5, <2>6, <2>7 DEF DeliveryInv
<1> QED BY <1>1, <1>2, <1>3, <1>4, <1>5, <1>6, <1>7 DEF Next

(***************************************************************************)
(* What the view of a subscriber comes to when nothing is under way: the    *)
(* last update it was told of a topic is the last list of rows about it,    *)
(* which is what the tree has (broker.py 71-80, 113-121).                   *)
(***************************************************************************)
LEMMA ViewIsTree == DeliveryInv => ViewCurrent
<1> SUFFICES ASSUME DeliveryInv, Quiet, NEW s \in subs, NEW t \in Followed(s)
             PROVE  UpToDate(s, t)
  BY DEF ViewCurrent
<1>1. TypeOK /\ PubInv /\ QueueInv /\ GapFree /\ TreeInv
  BY DEF DeliveryInv
<1>2. /\ t \in Match[s[2]] /\ t \notin contended /\ t \notin passing
      /\ Touched(s, t) /\ LastReached(s, t) /\ ~Resynced(s)
  BY DEF Followed
<1>3. s \in Subs /\ s[2] \in Filters /\ t \in Topics
  BY <1>1, <1>2, PublishingAssumption DEF TypeOK, Subs
<1>4. PICK n \in Nat : n = Len(sent) /\ Processed = n
  <2>1. queue = <<>> /\ current = <<>>
    BY DEF Quiet
  <2>2. Len(queue) = 0
    BY <2>1
  <2> QED BY <1>1, <2>1, <2>2, Positions DEF Fetched
<1>5. since[s] \in 0..n /\ mark[s] \in 0..Len(inbox[s]) /\ inbox[s] \in Seq(Message)
  BY <1>1, <1>3, <1>4 DEF TypeOK
<1>6. DOMAIN sent = 1..n /\ DOMAIN inbox[s] = 1..Len(inbox[s]) /\ Len(inbox[s]) \in Nat
  BY <1>1, <1>4, <1>5, LenProperties DEF TypeOK
<1>7. PICK last \in 1..n : /\ t \in RowTopics(sent[last]) /\ last > since[s]
                           /\ \A j \in 1..n : t \in RowTopics(sent[j]) => j <= last
  <2> DEFINE S == {i \in 1..n : t \in RowTopics(sent[i])}
  <2>1. PICK i \in since[s] + 1 .. n : t \in RowTopics(sent[i])
    BY <1>2, <1>4 DEF Touched
  <2>2. i \in S /\ i > since[s]
    BY <1>5, <2>1
  <2>3. S \subseteq 1..n /\ S # {}
    BY <2>2
  <2> HIDE DEF S
  <2>4. PICK x \in S : \A y \in S : y <= x
    BY <2>3, Greatest
  <2>5. x \in 1..n /\ i <= x
    BY <2>2, <2>3, <2>4
  <2>6. x > since[s]
    BY <2>2, <2>3, <2>5, <1>5
  <2>7. t \in RowTopics(sent[x]) /\ \A j \in 1..n : t \in RowTopics(sent[j]) => j <= x
    BY <2>4 DEF S
  <2> QED BY <2>5, <2>6, <2>7
<1>8. tree[t] = LastData(sent[last], t)
  <2>1. \A p \in Publishers : ~Holds(p, t)
    BY DEF Quiet, Holds
  <2> QED BY <1>1, <1>2, <1>3, <1>6, <1>7, <2>1 DEF TreeInv
<1>9. Visible(tree[t]) = tree[t]
  <2>1. sent[last] \in Seq(Row)
    BY <1>1, <1>4, <1>7, ElementOfSeq DEF TypeOK
  <2>2. tree[t] \in Data \cup {Empty}
    BY <2>1, <1>7, <1>8, LastDataType
  <2> QED BY <2>2 DEF Visible
<1>10. PICK at : InStep(s, at)
  BY <1>1, GapFreeComplete DEF Complete
<1>11. last \in Due(s)
  <2>1. last \in since[s] + 1 .. n
    BY <1>5, <1>7
  <2>2. \A j \in last..n : t \in RowTopics(sent[j]) <=> j = last
    BY <1>7
  <2>3. s \in reached[last]
    BY <1>2, <1>4, <2>1, <2>2 DEF LastReached
  <2> QED BY <1>2, <1>4, <1>7, <2>1, <2>3 DEF Due, Concerns
<1>12. PICK k \in Told(s) : k = at[last] /\ inbox[s][k] = Update(s[2], sent[last])
  BY <1>10, <1>11 DEF InStep
<1>13. k \in DOMAIN inbox[s] /\ k > mark[s]
  BY <1>5, <1>6, <1>12 DEF Told
<1>14. t \in DOMAIN inbox[s][k].data /\ inbox[s][k].data[t] = LastData(sent[last], t)
  <2>1. inbox[s][k] = Update(s[2], sent[last])
    BY <1>12
  <2>2. t \in RowTopics(sent[last]) \cap Match[s[2]]
    BY <1>2, <1>7
  <2> QED BY <2>1, <2>2, UpdateOfTopic
<1>15. ASSUME NEW j \in DOMAIN inbox[s], inbox[s][j].kind = "sync" \/ t \in DOMAIN inbox[s][j].data
       PROVE  j <= k
  <2> SUFFICES ASSUME k < j PROVE FALSE
    BY <1>6, <1>13
  <2>1. j \in mark[s] + 1 .. Len(inbox[s])
    BY <1>5, <1>6, <1>13
  <2>2. inbox[s][j].kind = "update"
    <3>1. inbox[s][j] \in Message
      BY <1>5, <1>6, <1>15, ElementOfSeq
    <3>2. inbox[s][j].kind # "sync"
      BY <1>2, <2>1 DEF Resynced
    <3> QED BY <3>1, <3>2 DEF Message
  <2>3. PICK i \in Due(s) : at[i] = j
    BY <1>10, <2>1, <2>2 DEF InStep, Told
  <2>4. inbox[s][j] = Update(s[2], sent[i])
    BY <1>10, <2>3 DEF InStep
  <2>5. t \in RowTopics(sent[i])
    <3>1. t \in DOMAIN Update(s[2], sent[i]).data
      BY <1>15, <2>2, <2>4
    <3> QED BY <3>1, UpdateOfTopic
  <2>6. i \in 1..n
    BY <1>4, <1>5 DEF Due
  <2>7. i <= last
    BY <1>7, <2>5, <2>6
  <2>8. i < last => j < k
    BY <1>10, <1>11, <1>12, <2>3 DEF InStep
  <2>9. i = last => j = k
    BY <1>12, <2>3
  <2> QED BY <1>6, <1>7, <1>13, <2>6, <2>7, <2>8, <2>9
<1> DEFINE about == {i \in DOMAIN inbox[s] : \/ inbox[s][i].kind = "sync"
                                             \/ t \in DOMAIN inbox[s][i].data}
<1>16. k \in about /\ \A j \in about : j <= k
  BY <1>13, <1>14, <1>15
<1>17. about # {} /\ (CHOOSE i \in about : \A j \in about : j <= i) = k
  <2>1. \A i \in about : i \in Nat
    BY <1>6
  <2>2. \A i \in about : (\A j \in about : j <= i) => i = k
    BY <1>16, <2>1
  <2> HIDE DEF about
  <2> QED BY <1>16, <2>2
<1>18. View(s, t) = inbox[s][k].data[t]
  BY <1>14, <1>17 DEF View
<1> QED BY <1>8, <1>9, <1>14, <1>18 DEF UpToDate

-----------------------------------------------------------------------------
(* Theorems *)

(***************************************************************************)
(* The invariant holds in every behaviour, for any clients, filters,        *)
(* threads, requests and bounds.                                            *)
(***************************************************************************)
THEOREM DeliveryInvariance == Spec => []DeliveryInv
<1>1. Init => DeliveryInv
  BY DeliveryInit
<1>2. DeliveryInv /\ [Next]_vars => DeliveryInv'
  BY DeliveryStep
<1> QED BY <1>1, <1>2, PTL DEF Spec

\* Type correctness of the broker's publish and subscribe paths: every message
\* queued for a client has topics of its filter (broker.py 113-145).
THEOREM DeliveryType == Spec => []TypeOK
<1>1. DeliveryInv => TypeOK
  BY DEF DeliveryInv
<1> QED BY <1>1, DeliveryInvariance, PTL

(***************************************************************************)
(* A registered subscription is sent every list of rows that concerns it,   *)
(* once and in the order of the queue, but for those that pass over its     *)
(* client, which is not among the clients then, or were given up for all    *)
(* (broker.py 71-80, 95-111, 131-145).                                      *)
(***************************************************************************)
THEOREM GapFreeAlways == Spec => []GapFree
<1>1. DeliveryInv => GapFree
  BY DEF DeliveryInv
<1> QED BY <1>1, DeliveryInvariance, PTL

(***************************************************************************)
(* When nothing is under way, what a subscriber was told of a topic since   *)
(* it was registered is what the tree retains (broker.py 71-80, 113-121;    *)
(* tree/manager.py 60-83).                                                  *)
(***************************************************************************)
THEOREM ViewCurrentAlways == Spec => []ViewCurrent
<1>1. DeliveryInv => ViewCurrent
  BY ViewIsTree
<1> QED BY <1>1, DeliveryInvariance, PTL
=============================================================================
