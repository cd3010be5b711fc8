--------------------------- MODULE RetentionProofs ---------------------------
(***************************************************************************)
(* Proofs about Retention for any topics, filters, requests, publishers and *)
(* bounds.                                                                  *)
(***************************************************************************)
EXTENDS Retention, PublishingProofs

\* The rows the database does not have yet, in the order they will be run.
Pending == batch \o tasks

\* What the database will have of a topic once they are run; of one that a
\* batch created and then deleted only a later row decides.
Stored(t) == IF t \in RowTopics(Pending) THEN LastData(Pending, t) ELSE db[t]
Decided(t) == t \in RowTopics(Pending) \/ t \notin revived

\* Between the two transactions of a batch its deletes are in the database.
DeletedInv == deleted => batch # <<>> /\ \A t \in Deletes(batch) : db[t] = Absent

\* Without a thread that holds a topic, the database is to have what the tree
\* has; a thread that has given its rows decides what the database is to have.
StoreInv == \A t \in Topics \ contended : Decided(t) =>
  /\ (\A p \in Publishers : ~Holds(p, t)) => Visible(Stored(t)) = Visible(tree[t])
  /\ \A p \in Publishers : ppc[p] = "retain" /\ t \in RowTopics(rows[p]) =>
       Visible(Stored(t)) = LastData(rows[p], t)

\* LastCreateStored, between the two transactions too.
CreatesInv == \A t \in RowTopics(done) : LastData(done, t) # Empty =>
  \/ db[t] = LastData(done, t)
  \/ t \in torn
  \/ deleted /\ t \in Deletes(batch)

RetentionInv == TypeOK /\ PubInv /\ DeletedInv /\ StoreInv /\ CreatesInv

-----------------------------------------------------------------------------
(* What a batch does *)

\* The topics of rows are known ones.
LEMMA RowTopicsType == ASSUME NEW rs \in Seq(Row) PROVE RowTopics(rs) \subseteq Topics
<1>1. \A i \in DOMAIN rs : rs[i] \in Row
  BY LenProperties, ElementOfSeq
<1> QED BY <1>1 DEF RowTopics, Row

\* The topics of a batch are those it creates or deletes.
LEMMA BatchTopics ==
  ASSUME NEW b \in Seq(Row), NEW t \in Topics
  PROVE  /\ t \in Deletes(b) \/ t \in Revived(b) \/ Created(b, t) # {} => t \in RowTopics(b)
         /\ Revived(b) \subseteq Deletes(b)
BY DEF Deletes, Revived, Created, RowTopics

\* A topic that is created gets data (tree/manager.py 44-50).
LEMMA CreatedType ==
  ASSUME NEW b \in Seq(Row), NEW t, Created(b, t) # {}
  PROVE  LastCreated(b, t) \in Data
<1> DEFINE S == Created(b, t)
<1>1. Len(b) \in Nat /\ DOMAIN b = 1..Len(b)
  BY LenProperties
<1>2. S \subseteq 1..Len(b) /\ S # {}
  BY <1>1 DEF Created
<1>3. PICK k \in S : \A j \in S : j <= k
  BY <1>1, <1>2, Greatest
<1> DEFINE x == CHOOSE i \in S : \A j \in S : j <= i
<1>4. x \in S
  BY <1>3
<1>5. x \in DOMAIN b /\ b[x].data # Empty
  BY <1>4 DEF Created
<1>6. b[x] \in Row
  BY <1>1, <1>5, ElementOfSeq
<1>7. LastCreated(b, t) = b[x].data
  BY DEF LastCreated
<1> QED BY <1>5, <1>6, <1>7 DEF Row

\* A topic whose last row carries data is created with that data; one whose last
\* row is empty is deleted, and not created unless it is revived.
LEMMA BatchLast ==
  ASSUME NEW b \in Seq(Row), NEW t \in RowTopics(b)
  PROVE  /\ t \in Topics
         /\ LastData(b, t) # Empty => Created(b, t) # {} /\ LastCreated(b, t) = LastData(b, t)
         /\ LastData(b, t) = Empty => /\ t \in Deletes(b)
                                      /\ t \notin Revived(b) => Created(b, t) = {}
<1>1. PICK k \in DOMAIN b : b[k].topic = t /\ \A j \in DOMAIN b : b[j].topic = t => j <= k
  BY LastExists
<1>2. LastData(b, t) = b[k].data /\ b[k] \in Row
  BY <1>1, LastIs, LenProperties, ElementOfSeq
<1>3. DOMAIN b \subseteq Nat
  BY LenProperties
<1>4. t \in Topics
  BY <1>1, <1>2 DEF Row
<1>5. ASSUME LastData(b, t) # Empty
      PROVE  Created(b, t) # {} /\ LastCreated(b, t) = LastData(b, t)
  <2>1. k \in Created(b, t)
    BY <1>1, <1>2, <1>5 DEF Created
  <2>2. \A j \in Created(b, t) : j \in Nat /\ j <= k
    BY <1>1, <1>3 DEF Created
  <2>3. \A i \in Created(b, t) : (\A j \in Created(b, t) : j <= i) => i = k
    BY <2>1, <2>2
  <2>4. (CHOOSE i \in Created(b, t) : \A j \in Created(b, t) : j <= i) = k
    BY <2>1, <2>2, <2>3
  <2> QED BY <1>2, <2>1, <2>4 DEF LastCreated
<1>6. ASSUME LastData(b, t) = Empty PROVE t \in Deletes(b)
  BY <1>1, <1>2, <1>4, <1>6 DEF Deletes
<1>7. ASSUME LastData(b, t) = Empty, Created(b, t) # {} PROVE t \in Revived(b)
  <2>1. b[k] = [topic |-> t, data |-> Empty]
    BY <1>1, <1>2, <1>7 DEF Row
  <2>2. ASSUME NEW j \in Created(b, t) PROVE j < k
    <3>1. j \in DOMAIN b /\ b[j].topic = t /\ b[j].data # Empty
      BY DEF Created
    <3>2. j # k /\ j <= k
      BY <3>1, <1>1, <1>2, <1>7
    <3> QED BY <3>1, <3>2, <1>3
  <2> QED BY <1>6, <1>7, <2>1, <2>2 DEF Revived
<1> QED BY <1>4, <1>5, <1>6, <1>7

-----------------------------------------------------------------------------
(* What is pending *)

\* The topic is decided by the rows, whoever they are with.
LEMMA StoredKept ==
  ASSUME NEW t, UNCHANGED <<batch, tasks, db, revived>>
  PROVE  Stored(t)' = Stored(t) /\ Decided(t)' = Decided(t)
BY DEF Stored, Decided, Pending

\* Data that a row can carry is what a subscriber sees.
LEMMA VisibleData == ASSUME NEW d \in Data \cup {Empty} PROVE Visible(d) = d
BY DEF Visible

\* A thread that has given its rows and still has them after a step was there
\* before it.
LEMMA RetainKept ==
  ASSUME PubInv, NEW p \in Publishers,
         \/ \E r \in Requests : Begin(p, r)
         \/ MakeRows(p) \/ WalkRaises(p) \/ WriteLeaf(p) \/ PutRows(p),
         NEW q \in Publishers, ppc'[q] = "retain",
         NEW t \in Topics, t \in RowTopics(rows'[q]), t \notin contended'
  PROVE  ppc[q] = "retain" /\ rows'[q] = rows[q] /\ t \notin contended
<1>0. PublishingTypeOK
  BY DEF PubInv
<1>1. CASE \E r \in Requests : Begin(p, r)
  <2>1. PICK r \in Requests : Begin(p, r)
    BY <1>1
  <2>2. q # p
    BY <2>1, <1>0 DEF Begin, PublishingTypeOK
  <2> QED BY <2>1, <2>2, <1>0 DEF Begin, PublishingTypeOK
<1>2. CASE MakeRows(p)
  <2>1. PICK rs : /\ rows' = [rows EXCEPT ![p] = rs]
                  /\ contended' = (contended \ RowTopics(rs)) \cup (RowTopics(rs) \cap UnderWay(p))
    BY <1>2 DEF MakeRows
  <2>2. ppc' = [ppc EXCEPT ![p] = "tasks"]
    BY <1>2 DEF MakeRows
  <2>3. q # p
    BY <2>2, <1>0 DEF PublishingTypeOK
  <2>4. ppc[q] = "retain" /\ rows'[q] = rows[q]
    BY <2>1, <2>2, <2>3, <1>0 DEF PublishingTypeOK
  <2>5. t \in UnderWay(p)
    BY <2>3, <2>4 DEF UnderWay
  <2> QED BY <2>1, <2>4, <2>5
<1>3. CASE WalkRaises(p) \/ WriteLeaf(p) \/ PutRows(p)
  <2>1. UNCHANGED <<rows, contended>>
    BY <1>3 DEF WalkRaises, WriteLeaf, PutRows
  <2>2. ppc' = ppc \/ ppc' = [ppc EXCEPT ![p] = "idle"]
    BY <1>3 DEF WalkRaises, WriteLeaf, PutRows
  <2> QED BY <2>1, <2>2, <1>0 DEF PublishingTypeOK
<1> QED BY <1>1, <1>2, <1>3

-----------------------------------------------------------------------------
(* The steps *)

\* The database is preloaded when the broker starts (tree/manager.py 60-76).
LEMMA RetentionInit == Init => RetentionInv
<1> SUFFICES ASSUME Init PROVE RetentionInv
  OBVIOUS
<1> USE DEF Init, Pipe!Init
<1>1. PubInv
  BY PubInvInit
<1>2. TypeOK
  <2>1. PublishingTypeOK
    BY <1>1 DEF PubInv
  <2>2. db \in [Topics -> Data \cup {Absent}] /\ 0 \in 0..MaxCrashes
    BY PublishingAssumption, RetentionAssumption
  <2>3. <<>> \in Seq(Row)
    BY EmptySeq
  <2> QED BY <2>1, <2>2, <2>3 DEF TypeOK
<1>3. DeletedInv
  BY DEF DeletedInv
<1>4. StoreInv
  <2>1. RowTopics(Pending) = {}
    BY EmptySeq, ConcatEmptySeq, LenProperties DEF Pending, RowTopics
  <2>2. \A t \in Topics : Stored(t) = tree[t]
    BY <2>1 DEF Stored, PublishingInit
  <2>3. \A p \in Publishers : ppc[p] = "idle"
    BY DEF PublishingInit
  <2> QED BY <2>2, <2>3 DEF StoreInv
<1>5. CreatesInv
  BY EmptySeq, LenProperties DEF CreatesInv, RowTopics
<1> QED BY <1>1, <1>2, <1>3, <1>4, <1>5 DEF RetentionInv

\* Threads of publishes do not touch the database.
LEMMA DatabaseKept ==
  ASSUME DeletedInv, CreatesInv, UNCHANGED <<batch, done, deleted, db, torn>>
  PROVE  DeletedInv' /\ CreatesInv'
<1>1. DeletedInv'
  BY DEF DeletedInv, Deletes
<1>2. CreatesInv'
  BY DEF CreatesInv, Deletes
<1> QED BY <1>1, <1>2

\* A publish begins, makes its rows and writes them: what the database will have
\* stays, and so does the tree of every topic that nobody holds.
LEMMA PublishStep ==
  ASSUME RetentionInv, NEW p \in Publishers,
         \/ \E r \in Requests : Begin(p, r)
         \/ MakeRows(p) \/ WalkRaises(p) \/ WriteLeaf(p) \/ PutRows(p),
         UNCHANGED <<pipeVars, deleted, db, torn, revived, crashes>>
  PROVE  RetentionInv'
<1> USE DEF pipeVars
<1>0. TypeOK /\ PubInv /\ DeletedInv /\ StoreInv /\ CreatesInv
  BY DEF RetentionInv
<1>1. PubInv'
  BY <1>0, BeginStep, MakeRowsStep, MoveStep, WriteLeafStep
<1>2. TypeOK'
  BY <1>0, <1>1 DEF TypeOK, PubInv
<1>3. DeletedInv' /\ CreatesInv'
  BY <1>0, DatabaseKept
<1>4. StoreInv'
  <2>1. ASSUME NEW t \in Topics, t \notin contended', Decided(t)',
               \A q \in Publishers : ~Holds(q, t)'
        PROVE  Visible(Stored(t)') = Visible(tree'[t])
    <3>1. Stored(t)' = Stored(t) /\ Decided(t)
      BY <2>1, StoredKept
    <3>2. CASE ~PutRows(p)
      <4>1. /\ t \notin contended /\ tree'[t] = tree[t]
            /\ \A q \in Publishers : ~Holds(q, t)
        BY <1>0, <2>1, <3>2, Unheld
      <4> QED BY <1>0, <3>1, <4>1 DEF StoreInv
    <3>3. CASE PutRows(p)
      <4>1. UNCHANGED <<tree, contended>>
        BY <3>3 DEF PutRows
      <4>2. t \in Topics \ contended
        BY <2>1, <4>1
      <4>3. CASE ppc[p] = "retain" /\ t \in RowTopics(rows[p])
        <5>1. tree[t] = LastData(rows[p], t)
          BY <1>0, <2>1, <3>3, <4>2, <4>3, UnheldAfterPut
        <5>2. Visible(Stored(t)) = tree[t]
          BY <1>0, <3>1, <4>2, <4>3, <5>1 DEF StoreInv
        <5>3. rows[p] \in Seq(Row)
          BY <1>0 DEF PubInv, PublishingTypeOK
        <5>4. tree[t] \in Data \cup {Empty}
          BY <4>3, <5>1, <5>3, LastDataType
        <5> QED BY <3>1, <4>1, <5>2, <5>4, VisibleData
      <4>4. CASE ~(ppc[p] = "retain" /\ t \in RowTopics(rows[p]))
        <5>1. \A q \in Publishers : ~Holds(q, t)
          BY <1>0, <2>1, <3>3, <4>2, <4>4, UnheldAfterPut
        <5> QED BY <1>0, <3>1, <4>1, <4>2, <5>1 DEF StoreInv
      <4> QED BY <4>3, <4>4
    <3> QED BY <3>2, <3>3
  <2>2. ASSUME NEW t \in Topics, t \notin contended', Decided(t)',
               NEW q \in Publishers, ppc'[q] = "retain", t \in RowTopics(rows'[q])
        PROVE  Visible(Stored(t)') = LastData(rows'[q], t)
    <3>1. Stored(t)' = Stored(t) /\ Decided(t)
      BY <2>2, StoredKept
    <3>2. ppc[q] = "retain" /\ rows'[q] = rows[q] /\ t \notin contended
      BY <1>0, <2>2, RetainKept
    <3> QED BY <1>0, <2>2, <3>1, <3>2 DEF StoreInv
  <2> QED BY <2>1, <2>2 DEF StoreInv
<1> QED BY <1>1, <1>2, <1>3, <1>4 DEF RetentionInv

\* Lists of rows may be joined in any order.
LEMMA RowsAssociate ==
  ASSUME NEW r \in Seq(Row), NEW s \in Seq(Row), NEW u \in Seq(Row)
  PROVE  (r \o s) \o u = r \o (s \o u)
BY ConcatAssociative

\* A thread gives its rows to the background process: from here on they decide
\* what the database will have of their topics.
LEMMA SubmitStep ==
  ASSUME RetentionInv, NEW p \in Publishers, Submit(p)
  PROVE  RetentionInv'
<1>0. TypeOK /\ PubInv /\ DeletedInv /\ StoreInv /\ CreatesInv
  BY DEF RetentionInv
<1>1. /\ AddTasks(p)
      /\ log' = log \o rows[p] /\ tasks' = tasks \o rows[p]
      /\ UNCHANGED <<batch, done, deleted, db, torn, revived, crashes>>
  BY DEF Submit, Pipe!Submit
<1>2. /\ ppc[p] = "tasks" /\ ppc' = [ppc EXCEPT ![p] = "retain"]
      /\ UNCHANGED <<tree, rows, contended>>
  BY <1>1 DEF AddTasks
<1>3. /\ rows[p] \in Seq(Row) /\ tasks \in Seq(Row) /\ batch \in Seq(Row)
      /\ ppc \in [Publishers -> PublisherPc]
  BY <1>0 DEF TypeOK, PublishingTypeOK
<1>4. PubInv'
  BY <1>0, <1>1, MoveStep
<1>5. TypeOK'
  <2>1. log' \in Seq(Row) /\ tasks' \in Seq(Row)
    BY <1>0, <1>1, ConcatProperties DEF TypeOK, PublishingTypeOK
  <2> QED BY <1>0, <1>1, <1>4, <2>1 DEF TypeOK, PubInv
<1>6. DeletedInv' /\ CreatesInv'
  BY <1>0, <1>1, DatabaseKept
<1>7. Pending \in Seq(Row) /\ Pending' = Pending \o rows[p]
  <2>1. (batch \o tasks) \o rows[p] = batch \o (tasks \o rows[p])
    BY <1>3, RowsAssociate
  <2>2. Pending \in Seq(Row)
    BY <1>3, ConcatProperties DEF Pending
  <2>3. Pending' = batch \o (tasks \o rows[p])
    BY <1>1 DEF Pending
  <2> QED BY <2>1, <2>2, <2>3 DEF Pending
<1>8. ASSUME NEW t \in Topics
      PROVE  \/ t \in RowTopics(rows[p]) /\ Stored(t)' = LastData(rows[p], t)
             \/ t \notin RowTopics(rows[p]) /\ Stored(t)' = Stored(t) /\ Decided(t)' = Decided(t)
  <2>1. /\ RowTopics(Pending') = RowTopics(Pending) \cup RowTopics(rows[p])
        /\ t \in RowTopics(rows[p]) => LastData(Pending', t) = LastData(rows[p], t)
        /\ t \in RowTopics(Pending) \ RowTopics(rows[p]) => LastData(Pending', t) = LastData(Pending, t)
    BY <1>3, <1>7, LastOfConcat
  <2>2. db' = db /\ revived' = revived
    BY <1>1
  <2>3. /\ RowTopics(Pending)' = RowTopics(Pending')
        /\ LastData(Pending, t)' = LastData(Pending', t)
    OBVIOUS
  <2>4. Stored(t)' = IF t \in RowTopics(Pending') THEN LastData(Pending', t) ELSE db[t]
    BY <2>2, <2>3 DEF Stored
  <2>5. Decided(t)' <=> t \in RowTopics(Pending') \/ t \notin revived
    BY <2>2, <2>3 DEF Decided
  <2> QED BY <2>1, <2>4, <2>5 DEF Stored, Decided
<1>9. StoreInv'
  <2>1. ASSUME NEW t \in Topics \ contended', Decided(t)', \A q \in Publishers : ~Holds(q, t)'
        PROVE  Visible(Stored(t)') = Visible(tree'[t])
    <3>1. t \notin RowTopics(rows[p])
      BY <1>2, <1>3, <2>1 DEF Holds, RowTopics
    <3>2. Stored(t)' = Stored(t) /\ Decided(t)
      BY <1>8, <2>1, <3>1
    <3>3. ASSUME NEW q \in Publishers, Holds(q, t) PROVE FALSE
      <4>1. q # p
        BY <3>1, <3>3 DEF Holds
      <4>2. ppc'[q] = ppc[q]
        BY <1>2, <1>3, <4>1
      <4> QED BY <1>2, <2>1, <3>3, <4>2 DEF Holds, RowTopics
    <3> QED BY <1>0, <1>2, <2>1, <3>2, <3>3 DEF StoreInv
  <2>2. ASSUME NEW t \in Topics \ contended', Decided(t)',
               NEW q \in Publishers, ppc'[q] = "retain", t \in RowTopics(rows[q])
        PROVE  Visible(Stored(t)') = LastData(rows[q], t)
    <3>1. CASE q = p
      <4>1. Stored(t)' = LastData(rows[p], t)
        BY <1>8, <2>2, <3>1
      <4>2. LastData(rows[p], t) \in Data \cup {Empty}
        BY <1>3, <2>2, <3>1, LastDataType
      <4> QED BY <3>1, <4>1, <4>2, VisibleData
    <3>2. CASE q # p
      <4>1. ppc[q] = "retain"
        BY <1>2, <1>3, <2>2, <3>2
      <4>2. t \notin RowTopics(rows[p])
        BY <1>0, <1>2, <2>2, <3>2, <4>1 DEF PubInv, AloneInv, Holds
      <4>3. Stored(t)' = Stored(t) /\ Decided(t)
        BY <1>8, <2>2, <4>2
      <4> QED BY <1>0, <1>2, <2>2, <4>1, <4>3 DEF StoreInv
    <3> QED BY <3>1, <3>2
  <2>3. rows' = rows
    BY <1>2
  <2> QED BY <2>1, <2>2, <2>3 DEF StoreInv
<1> QED BY <1>4, <1>5, <1>6, <1>9 DEF RetentionInv

\* Steps of the worker leave the threads and the tree alone: only what it does
\* to a topic that is decided matters.
LEMMA WorkerKeeps ==
  ASSUME StoreInv, UNCHANGED pubVars,
         \A t \in Topics : Decided(t)' => Decided(t) /\ Visible(Stored(t)') = Visible(Stored(t))
  PROVE  StoreInv'
<1> USE DEF pubVars, threadVars
<1>0. UNCHANGED <<tree, ppc, rows, contended>>
  OBVIOUS
<1>1. ASSUME NEW t \in Topics, t \notin contended', Decided(t)',
             \A p \in Publishers : ~Holds(p, t)'
      PROVE  Visible(Stored(t)') = Visible(tree'[t])
  <2>1. \A p \in Publishers : ~Holds(p, t)
    BY <1>0, <1>1 DEF Holds, RowTopics
  <2> QED BY <1>0, <1>1, <2>1 DEF StoreInv
<1>2. ASSUME NEW t \in Topics, t \notin contended', Decided(t)',
             NEW p \in Publishers, ppc'[p] = "retain", t \in RowTopics(rows'[p])
      PROVE  Visible(Stored(t)') = LastData(rows'[p], t)
  <2>1. ppc[p] = "retain" /\ rows'[p] = rows[p] /\ t \in RowTopics(rows[p]) /\ t \notin contended
    BY <1>0, <1>2
  <2> QED BY <1>2, <2>1 DEF StoreInv
<1> QED BY <1>1, <1>2 DEF StoreInv

\* The worker takes everything that is pending (backends/worker.py 44-54).
LEMMA TakeStep ==
  ASSUME RetentionInv, TakeBatch
  PROVE  RetentionInv'
<1>0. TypeOK /\ PubInv /\ DeletedInv /\ StoreInv /\ CreatesInv
  BY DEF RetentionInv
<1>1. /\ batch = <<>> /\ batch' = tasks /\ tasks' = <<>>
      /\ UNCHANGED <<pubVars, log, done, deleted, db, torn, revived, crashes>>
  BY DEF TakeBatch, Pipe!Take
<1>2. ~deleted
  BY <1>0, <1>1 DEF TypeOK
<1>3. PubInv'
  BY <1>0, <1>1, PubInvKept
<1>4. TypeOK'
  BY <1>0, <1>1, <1>2, <1>3, EmptySeq DEF TypeOK, PubInv
<1>5. DeletedInv' /\ CreatesInv'
  BY <1>0, <1>1, <1>2 DEF DeletedInv, CreatesInv
<1>6. Pending' = Pending
  BY <1>0, <1>1, ConcatEmptySeq DEF Pending, TypeOK
<1>7. \A t \in Topics : Stored(t)' = Stored(t) /\ Decided(t)' = Decided(t)
  BY <1>1, <1>6 DEF Stored, Decided
<1>8. StoreInv'
  BY <1>0, <1>1, <1>7, WorkerKeeps
<1> QED BY <1>3, <1>4, <1>5, <1>8 DEF RetentionInv

\* The deletes of a batch only take records of topics that have a row pending.
LEMMA DeleteStep ==
  ASSUME RetentionInv, DeleteRows
  PROVE  RetentionInv'
<1>0. TypeOK /\ PubInv /\ DeletedInv /\ StoreInv /\ CreatesInv
  BY DEF RetentionInv
<1>1. /\ batch # <<>> /\ ~deleted /\ deleted' = TRUE
      /\ db' = [t \in Topics |-> IF t \in Deletes(batch) THEN Absent ELSE db[t]]
      /\ UNCHANGED <<pubVars, log, tasks, batch, done, torn, revived, crashes>>
  BY DEF DeleteRows, pipeVars
<1>2. batch \in Seq(Row) /\ tasks \in Seq(Row) /\ db \in [Topics -> Data \cup {Absent}]
  BY <1>0 DEF TypeOK
<1>3. PubInv'
  BY <1>0, <1>1, PubInvKept
<1>4. TypeOK'
  <2>1. db' \in [Topics -> Data \cup {Absent}]
    BY <1>1, <1>2
  <2> QED BY <1>0, <1>1, <1>3, <2>1 DEF TypeOK, PubInv
<1>5. Deletes(batch) \subseteq Topics /\ Deletes(batch)' = Deletes(batch)
  BY <1>1 DEF Deletes
<1>6. DeletedInv'
  BY <1>1, <1>5 DEF DeletedInv
<1>7. CreatesInv'
  <2>1. ASSUME NEW t \in RowTopics(done), LastData(done, t) # Empty
        PROVE  db'[t] = LastData(done, t) \/ t \in torn \/ t \in Deletes(batch)
    <3>1. t \in Topics
      BY <1>0, RowTopicsType DEF TypeOK
    <3>2. db[t] = LastData(done, t) \/ t \in torn
      BY <1>0, <1>1, <2>1 DEF CreatesInv
    <3> QED BY <1>1, <3>1, <3>2
  <2> QED BY <1>1, <1>5, <2>1 DEF CreatesInv
<1>8. StoreInv'
  <2>1. ASSUME NEW t \in Topics PROVE Stored(t)' = Stored(t) /\ Decided(t)' = Decided(t)
    <3>1. Pending' = Pending /\ revived' = revived
      BY <1>1 DEF Pending
    <3>2. RowTopics(batch) \subseteq RowTopics(Pending)
      BY <1>2, LastOfConcat DEF Pending
    <3>3. t \notin RowTopics(Pending) => db'[t] = db[t]
      BY <1>1, <1>2, <3>2, BatchTopics
    <3> QED BY <3>1, <3>3 DEF Stored, Decided
  <2> QED BY <1>0, <1>1, <2>1, WorkerKeeps
<1> QED BY <1>3, <1>4, <1>6, <1>7, <1>8 DEF RetentionInv

\* The creates of a batch end it.  A topic with a later row that is pending stays
\* decided by that row; of any other the database gets what the last row of the
\* batch says, unless it was created and then deleted (tree/manager.py 26-50).
LEMMA CreateStep ==
  ASSUME RetentionInv, CreateRows
  PROVE  RetentionInv'
<1>0. TypeOK /\ PubInv /\ DeletedInv /\ StoreInv /\ CreatesInv
  BY DEF RetentionInv
<1>1. /\ deleted /\ ~deleted' /\ deleted' \in BOOLEAN
      /\ db' = [t \in Topics |-> IF Created(batch, t) # {} THEN LastCreated(batch, t) ELSE db[t]]
      /\ torn' = torn \ RowTopics(batch)
      /\ revived' = (revived \ RowTopics(batch)) \cup Revived(batch)
      /\ done' = done \o batch /\ batch' = <<>>
      /\ UNCHANGED <<pubVars, log, tasks, crashes>>
  BY DEF CreateRows, Pipe!Run
<1>2. /\ batch \in Seq(Row) /\ tasks \in Seq(Row) /\ done \in Seq(Row)
      /\ db \in [Topics -> Data \cup {Absent}]
  BY <1>0 DEF TypeOK
<1>3. PubInv'
  BY <1>0, <1>1, PubInvKept
<1>4. TypeOK'
  <2>1. db' \in [Topics -> Data \cup {Absent}]
    <3>1. \A t \in Topics : Created(batch, t) # {} => LastCreated(batch, t) \in Data
      BY <1>2, CreatedType
    <3> QED BY <1>1, <1>2, <3>1
  <2>2. revived' \subseteq Topics /\ torn' \subseteq Topics
    BY <1>0, <1>1 DEF TypeOK, Revived, Deletes
  <2>3. done' \in Seq(Row) /\ batch' \in Seq(Row)
    BY <1>1, <1>2, ConcatProperties, EmptySeq
  <2> QED BY <1>0, <1>1, <1>3, <2>1, <2>2, <2>3 DEF TypeOK, PubInv
<1>5. DeletedInv'
  BY <1>1 DEF DeletedInv
<1>6. ASSUME NEW t \in Topics, t \notin RowTopics(batch)
      PROVE  /\ db'[t] = db[t] /\ t \notin Deletes(batch)
             /\ t \in torn' <=> t \in torn
             /\ t \in revived' <=> t \in revived
  <2>1. t \notin Deletes(batch) /\ t \notin Revived(batch) /\ Created(batch, t) = {}
    BY <1>2, <1>6, BatchTopics
  <2> QED BY <1>1, <1>6, <2>1
<1>7. CreatesInv'
  <2>1. ASSUME NEW t \in RowTopics(done'), LastData(done', t) # Empty
        PROVE  db'[t] = LastData(done', t) \/ t \in torn'
    <3>1. /\ RowTopics(done') = RowTopics(done) \cup RowTopics(batch)
          /\ t \in RowTopics(batch) => LastData(done', t) = LastData(batch, t)
          /\ t \in RowTopics(done) \ RowTopics(batch) => LastData(done', t) = LastData(done, t)
      BY <1>1, <1>2, LastOfConcat
    <3>2. CASE t \in RowTopics(batch)
      <4>1. t \in Topics /\ Created(batch, t) # {} /\ LastCreated(batch, t) = LastData(batch, t)
        BY <1>2, <2>1, <3>1, <3>2, BatchLast
      <4> QED BY <1>1, <3>1, <3>2, <4>1
    <3>3. CASE t \notin RowTopics(batch)
      <4>1. t \in RowTopics(done) /\ LastData(done', t) = LastData(done, t)
        BY <2>1, <3>1, <3>3
      <4>2. t \in Topics
        BY <1>2, <4>1, RowTopicsType
      <4>3. db'[t] = db[t] /\ t \notin Deletes(batch) /\ (t \in torn' <=> t \in torn)
        BY <1>6, <3>3, <4>2
      <4>4. db[t] = LastData(done, t) \/ t \in torn
        BY <1>0, <2>1, <4>1, <4>3 DEF CreatesInv
      <4> QED BY <4>1, <4>3, <4>4
    <3> QED BY <3>2, <3>3
  <2> QED BY <2>1 DEF CreatesInv
<1>8. /\ Pending' = tasks
      /\ RowTopics(Pending) = RowTopics(batch) \cup RowTopics(tasks)
  <2>1. Pending' = <<>> \o tasks
    BY <1>1 DEF Pending
  <2> QED BY <1>2, <2>1, ConcatEmptySeq, LastOfConcat DEF Pending
<1>9. ASSUME NEW t \in Topics
      PROVE  /\ Stored(t)' = IF t \in RowTopics(tasks) THEN LastData(tasks, t) ELSE db'[t]
             /\ Decided(t)' <=> t \in RowTopics(tasks) \/ t \notin revived'
  <2>1. RowTopics(Pending)' = RowTopics(tasks) /\ LastData(Pending, t)' = LastData(tasks, t)
    BY <1>8
  <2> QED BY <2>1 DEF Stored, Decided
<1>10. ASSUME NEW t \in Topics, Decided(t)'
       PROVE  Decided(t) /\ Visible(Stored(t)') = Visible(Stored(t))
  <2>1. /\ t \in RowTopics(tasks) => LastData(Pending, t) = LastData(tasks, t)
        /\ t \in RowTopics(batch) \ RowTopics(tasks) => LastData(Pending, t) = LastData(batch, t)
    BY <1>2, LastOfConcat DEF Pending
  <2>2. CASE t \in RowTopics(tasks)
    BY <1>8, <1>9, <2>1, <2>2 DEF Stored, Decided
  <2>3. CASE t \notin RowTopics(tasks) /\ t \notin RowTopics(batch)
    <3>1. db'[t] = db[t] /\ t \notin revived' /\ t \notin revived
      BY <1>6, <1>9, <1>10, <2>3
    <3> QED BY <1>8, <1>9, <2>3, <3>1 DEF Stored, Decided
  <2>4. CASE t \notin RowTopics(tasks) /\ t \in RowTopics(batch)
    <3>1. Stored(t) = LastData(batch, t) /\ Decided(t)
      BY <1>8, <2>1, <2>4 DEF Stored, Decided
    <3>2. Stored(t)' = db'[t] /\ t \notin Revived(batch)
      BY <1>1, <1>9, <1>10, <2>4
    <3>3. CASE LastData(batch, t) # Empty
      <4>1. Created(batch, t) # {} /\ LastCreated(batch, t) = LastData(batch, t)
        BY <1>2, <2>4, <3>3, BatchLast
      <4> QED BY <1>1, <3>1, <3>2, <4>1
    <3>4. CASE LastData(batch, t) = Empty
      <4>1. t \in Deletes(batch) /\ Created(batch, t) = {}
        BY <1>2, <2>4, <3>2, <3>4, BatchLast
      <4>2. db'[t] = Absent
        BY <1>0, <1>1, <4>1 DEF DeletedInv
      <4> QED BY <3>1, <3>2, <3>4, <4>2, PublishingAssumption DEF Visible
    <3> QED BY <3>3, <3>4
  <2> QED BY <2>2, <2>3, <2>4
<1>11. StoreInv'
  BY <1>0, <1>1, <1>10, WorkerKeeps
<1> QED BY <1>3, <1>4, <1>5, <1>7, <1>11 DEF RetentionInv

\* Everything in memory is gone, and the tree is what the database has
\* (tree/manager.py 60-76).
LEMMA CrashStep ==
  ASSUME RetentionInv, Crash
  PROVE  RetentionInv'
<1>0. TypeOK /\ PubInv /\ DeletedInv /\ StoreInv /\ CreatesInv
  BY DEF RetentionInv
<1>1. /\ tree' = [t \in Topics |-> db[t]]
      /\ ppc' = [p \in Publishers |-> "idle"] /\ todo' = [p \in Publishers |-> <<>>]
      /\ log' = done /\ tasks' = <<>> /\ batch' = <<>> /\ deleted' = FALSE
      /\ torn' = IF deleted THEN torn \cup Deletes(batch) ELSE torn
      /\ contended' = {} /\ revived' = {}
      /\ UNCHANGED <<req, walked, rows, published, done, db>>
  BY DEF Crash, Preloaded
<1>2. db \in [Topics -> Data \cup {Absent}] /\ done \in Seq(Row)
  BY <1>0 DEF TypeOK
<1>3. PubInv'
  <2>1. tree' \in [Topics -> Leaf]
    BY <1>1, <1>2 DEF Leaf
  <2> QED BY <1>0, <1>1, <2>1, RestartStep
<1>4. TypeOK'
  <2>1. crashes' \in 0..MaxCrashes
    BY <1>0, RetentionAssumption DEF Crash, TypeOK
  <2>2. torn' \subseteq Topics /\ revived' \subseteq Topics
    BY <1>0, <1>1 DEF TypeOK, Deletes
  <2> QED BY <1>1, <1>2, <1>3, <2>1, <2>2, EmptySeq DEF TypeOK, PubInv
<1>5. DeletedInv'
  BY <1>1 DEF DeletedInv
<1>6. CreatesInv'
  <2>1. ASSUME NEW t \in RowTopics(done), LastData(done, t) # Empty
        PROVE  db[t] = LastData(done, t) \/ t \in torn'
    BY <1>0, <1>1, <2>1 DEF CreatesInv
  <2> QED BY <1>1, <2>1 DEF CreatesInv
<1>7. StoreInv'
  <2>1. RowTopics(Pending)' = {}
    BY <1>1, EmptySeq, ConcatEmptySeq, LenProperties DEF Pending, RowTopics
  <2>2. \A t \in Topics : Stored(t)' = tree'[t]
    BY <1>1, <2>1 DEF Stored
  <2> QED BY <1>1, <2>2 DEF StoreInv
<1> QED BY <1>3, <1>4, <1>5, <1>6, <1>7 DEF RetentionInv

\* Every step keeps the invariant.
LEMMA RetentionStep == RetentionInv /\ [Next]_vars => RetentionInv'
<1> SUFFICES ASSUME RetentionInv, [Next]_vars PROVE RetentionInv'
  OBVIOUS
<1>1. ASSUME NEW p \in Publishers, NEW r \in Requests, Publish(p, r) PROVE RetentionInv'
  BY <1>1, PublishStep DEF Publish
<1>2. ASSUME NEW p \in Publishers, Prepare(p) PROVE RetentionInv'
  BY <1>2, PublishStep DEF Prepare
<1>3. ASSUME NEW p \in Publishers, Submit(p) PROVE RetentionInv'
  BY <1>3, SubmitStep
<1>4. CASE TakeBatch BY <1>4, TakeStep
<1>5. CASE DeleteRows BY <1>5, DeleteStep
<1>6. CASE CreateRows BY <1>6, CreateStep
<1>7. CASE Crash BY <1>7, CrashStep
<1>8. CASE UNCHANGED vars
  <2>1. UNCHANGED <<pubVars, batch, tasks, done, log, deleted, db, torn, revived, crashes>>
    BY <1>8 DEF vars, pipeVars
  <2>2. TypeOK /\ PubInv /\ DeletedInv /\ StoreInv /\ CreatesInv
    BY DEF RetentionInv
  <2>3. PubInv'
    BY <2>1, <2>2, PubInvKept
  <2>4. TypeOK'
    BY <2>1, <2>2, <2>3 DEF TypeOK, PubInv
  <2>5. DeletedInv' /\ CreatesInv'
    BY <2>1, <2>2, DatabaseKept
  <2>6. StoreInv'
    BY <2>1, <2>2, StoredKept, WorkerKeeps
  <2> QED BY <2>3, <2>4, <2>5, <2>6 DEF RetentionInv
<1> QED BY <1>1, <1>2, <1>3, <1>4, <1>5, <1>6, <1>7, <1>8 DEF Next

\* The last row that was run is the same whichever way its position is named.
LEMMA LastRunIs ==
  ASSUME done \in Seq(Row), NEW t
  PROVE  /\ About(t) # {} <=> t \in RowTopics(done)
         /\ t \in RowTopics(done) => LastRun(t) = LastData(done, t)
<1>1. About(t) # {} <=> t \in RowTopics(done)
  BY DEF About, RowTopics
<1>2. ASSUME t \in RowTopics(done) PROVE LastRun(t) = LastData(done, t)
  <2>1. PICK k \in DOMAIN done : /\ done[k].topic = t
                                 /\ \A j \in DOMAIN done : done[j].topic = t => j <= k
    BY <1>2, LastExists
  <2>2. DOMAIN done \subseteq Nat
    BY LenProperties
  <2>3. k \in About(t) /\ \A j \in About(t) : j <= k
    BY <2>1 DEF About
  <2>4. \A i \in About(t) : (\A j \in About(t) : j <= i) => i = k
    BY <2>2, <2>3 DEF About
  <2>5. (CHOOSE i \in About(t) : \A j \in About(t) : j <= i) = k
    BY <2>3, <2>4
  <2>6. LastData(done, t) = done[k].data
    BY <2>1, LastIs
  <2> QED BY <2>5, <2>6 DEF LastRun
<1> QED BY <1>1, <1>2

-----------------------------------------------------------------------------
(* Theorems *)

(***************************************************************************)
(* The invariant holds in every behaviour, for any topics, threads,         *)
(* requests and bounds.                                                     *)
(***************************************************************************)
THEOREM RetentionInvariance == Spec => []RetentionInv
<1>1. Init => RetentionInv
  BY RetentionInit
<1>2. RetentionInv /\ [Next]_vars => RetentionInv'
  BY RetentionStep
<1> QED BY <1>1, <1>2, PTL DEF Spec

\* Type correctness of the tree, the pipe and the table; a batch is under way
\* when its deletes are (tree/manager.py 26-50).
THEOREM RetentionType == Spec => []TypeOK
<1>1. RetentionInv => TypeOK
  BY DEF RetentionInv
<1> QED BY <1>1, RetentionInvariance, PTL

(***************************************************************************)
(* However rows are batched and wherever the broker dies, a topic whose     *)
(* last row that was run carries data has that data in the database, unless *)
(* a batch that deletes it died half-way (tree/manager.py 26-50).           *)
(***************************************************************************)
THEOREM LastCreateStoredAlways == Spec => []LastCreateStored
<1>1. RetentionInv => LastCreateStored
  <2> SUFFICES ASSUME RetentionInv, ~deleted, NEW t \in Topics,
                      About(t) # {}, LastRun(t) # Empty
               PROVE  db[t] = LastRun(t) \/ t \in torn
    BY DEF LastCreateStored
  <2>1. done \in Seq(Row) /\ CreatesInv
    BY DEF RetentionInv, TypeOK
  <2>2. t \in RowTopics(done) /\ LastRun(t) = LastData(done, t)
    BY <2>1, LastRunIs
  <2> QED BY <2>1, <2>2 DEF CreatesInv
<1> QED BY <1>1, RetentionInvariance, PTL

(***************************************************************************)
(* When nothing is under way the database has what the tree in memory has,  *)
(* so that a restart gives subscribers what they had (tree/manager.py       *)
(* 26-50, 60-83).                                                           *)
(***************************************************************************)
THEOREM DatabaseCurrentAlways == Spec => []DatabaseCurrent
<1>1. RetentionInv => DatabaseCurrent
  <2> SUFFICES ASSUME RetentionInv, AtRest, NEW t \in Topics, t \notin contended, t \notin revived
               PROVE  Visible(db[t]) = Visible(tree[t])
    BY DEF DatabaseCurrent
  <2>1. RowTopics(Pending) = {}
    BY EmptySeq, ConcatEmptySeq, LenProperties DEF AtRest, Pending, RowTopics
  <2>2. Stored(t) = db[t] /\ Decided(t)
    BY <2>1 DEF Stored, Decided
  <2>3. \A p \in Publishers : ~Holds(p, t)
    BY DEF AtRest, Holds
  <2> QED BY <2>2, <2>3 DEF RetentionInv, StoreInv
<1> QED BY <1>1, RetentionInvariance, PTL
=============================================================================
