-------------------------- MODULE PublishingProofs --------------------------
(***************************************************************************)
(* Lemmas about rows and about the threads that publish, for any topics,    *)
(* requests and publishers.  DeliveryProofs and RetentionProofs build on    *)
(* them.                                                                    *)
(***************************************************************************)
EXTENDS Publishing, SequenceTheorems, FiniteSetTheorems, FunctionTheorems,
        WellFoundedInduction, TLAPS

-----------------------------------------------------------------------------
(* Sequences of rows *)

\* The data of the last row about a topic.
LastAt(rs, t) == CHOOSE i \in DOMAIN rs : /\ rs[i].topic = t
                                          /\ \A j \in DOMAIN rs : rs[j].topic = t => j <= i
LastData(rs, t) == rs[LastAt(rs, t)].data

\* A list of rows that one request makes has each topic once.
Distinct(rs) == \A i, j \in DOMAIN rs : rs[i].topic = rs[j].topic => i = j

\* A set of numbers that is not empty has a least one; with Greatest, it is what
\* "the last row about a topic" (tree/manager.py 26-50, broker.py 113-121) needs.
LEMMA Least ==
  ASSUME NEW T, T \subseteq Nat, T # {}
  PROVE  \E x \in T : \A y \in T : x <= y
<1>1. IsWellFoundedOn(OpToRel(<, Nat), Nat)
  BY NatLessThanWellFounded
<1>2. PICK x \in T : \A y \in T : ~ (<<y, x>> \in OpToRel(<, Nat))
  BY <1>1, WFMin
<1>3. \A y \in T : ~(y < x)
  BY <1>2 DEF OpToRel
<1> QED BY <1>3

\* A set of positions in a sequence that is not empty has a last one.
LEMMA Greatest ==
  ASSUME NEW n \in Nat, NEW S, S \subseteq 1..n, S # {}
  PROVE  \E x \in S : \A y \in S : y <= x
<1> DEFINE T == {n - x : x \in S}
<1>1. T \subseteq Nat /\ T # {}
  <2>1. \A x \in 1..n : n - x \in Nat
    OBVIOUS
  <2>2. PICK x \in S : TRUE
    OBVIOUS
  <2>3. n - x \in T
    BY <2>2
  <2> QED BY <2>1, <2>3
<1> HIDE DEF T
<1>2. PICK m \in T : \A k \in T : m <= k
  BY <1>1, Least
<1> USE DEF T
<1>3. PICK x \in S : m = n - x
  OBVIOUS
<1>4. \A y \in S : n - x <= n - y
  BY <1>2, <1>3
<1> QED BY <1>3, <1>4

\* A topic that has a row has a last one.
LEMMA LastExists ==
  ASSUME NEW rs \in Seq(Row), NEW t \in RowTopics(rs)
  PROVE  \E k \in DOMAIN rs : /\ rs[k].topic = t
                              /\ \A j \in DOMAIN rs : rs[j].topic = t => j <= k
<1> DEFINE S == {k \in DOMAIN rs : rs[k].topic = t}
<1>1. Len(rs) \in Nat /\ S \subseteq 1..Len(rs)
  BY LenProperties
<1>2. S # {}
  BY DEF RowTopics
<1>3. PICK k \in S : \A j \in S : j <= k
  BY <1>1, <1>2, Greatest
<1> QED BY <1>3

\* LastData is the data of the last row, whichever way its position is named.
LEMMA LastIs ==
  ASSUME NEW rs \in Seq(Row), NEW t, NEW k \in DOMAIN rs, rs[k].topic = t,
         \A j \in DOMAIN rs : rs[j].topic = t => j <= k
  PROVE  LastAt(rs, t) = k /\ LastData(rs, t) = rs[k].data
<1>1. DOMAIN rs \subseteq Nat
  BY LenProperties
<1>2. \A i \in DOMAIN rs :
        (rs[i].topic = t /\ \A j \in DOMAIN rs : rs[j].topic = t => j <= i) => i = k
  BY <1>1
<1>3. LastAt(rs, t) = k
  BY <1>2 DEF LastAt
<1> QED BY <1>3 DEF LastData

\* The last row about a topic is a row.
LEMMA LastDataType ==
  ASSUME NEW rs \in Seq(Row), NEW t \in RowTopics(rs)
  PROVE  /\ LastAt(rs, t) \in DOMAIN rs
         /\ rs[LastAt(rs, t)].topic = t
         /\ LastData(rs, t) \in Data \cup {Empty}
<1>1. PICK k \in DOMAIN rs : /\ rs[k].topic = t
                             /\ \A j \in DOMAIN rs : rs[j].topic = t => j <= k
  BY LastExists
<1>2. LastAt(rs, t) = k /\ LastData(rs, t) = rs[k].data
  BY <1>1, LastIs
<1>3. rs[k] \in Row
  BY <1>1, LenProperties, ElementOfSeq
<1> QED BY <1>1, <1>2, <1>3 DEF Row

\* Of two sequences one after the other, the last row about a topic is that of
\* the second one, if it has one: batches add up (tree/manager.py 26-50).
LEMMA LastOfConcat ==
  ASSUME NEW r \in Seq(Row), NEW s \in Seq(Row), NEW t
  PROVE  /\ RowTopics(r \o s) = RowTopics(r) \cup RowTopics(s)
         /\ t \in RowTopics(s) => LastData(r \o s, t) = LastData(s, t)
         /\ t \in RowTopics(r) \ RowTopics(s) => LastData(r \o s, t) = LastData(r, t)
<1> DEFINE rs == r \o s
<1>0. rs \in Seq(Row)
  BY ConcatProperties
<1>1. /\ rs \in Seq(Row) /\ DOMAIN rs = 1..Len(r) + Len(s)
      /\ Len(r) \in Nat /\ Len(s) \in Nat
      /\ DOMAIN r = 1..Len(r) /\ DOMAIN s = 1..Len(s)
  BY LenProperties, ConcatProperties
<1>2. \A i \in 1..Len(r) : i \in DOMAIN rs /\ rs[i] = r[i]
  BY <1>1, ConcatProperties
<1>3. \A i \in 1..Len(s) : Len(r) + i \in DOMAIN rs /\ rs[Len(r) + i] = s[i]
  <2>1. TAKE i \in 1..Len(s)
  <2>2. Len(r) + i \in 1..Len(r) + Len(s) /\ ~(Len(r) + i <= Len(r)) /\ Len(r) + i - Len(r) = i
    BY <1>1
  <2> QED BY <2>2, <1>1, ConcatProperties
<1>4. \A j \in DOMAIN rs : \/ j \in 1..Len(r)
                           \/ j - Len(r) \in 1..Len(s) /\ rs[j] = s[j - Len(r)]
  <2>1. TAKE j \in DOMAIN rs
  <2>2. CASE j <= Len(r)
    BY <2>2, <1>1
  <2>3. CASE ~(j <= Len(r))
    BY <2>3, <1>1, ConcatProperties
  <2> QED BY <2>2, <2>3
<1> HIDE DEF rs
<1>5. RowTopics(rs) = RowTopics(r) \cup RowTopics(s)
  <2>1. ASSUME NEW u \in RowTopics(rs) PROVE u \in RowTopics(r) \cup RowTopics(s)
    <3>1. PICK j \in DOMAIN rs : u = rs[j].topic
      BY <2>1 DEF RowTopics
    <3>2. CASE j \in 1..Len(r)
      BY <3>1, <3>2, <1>1, <1>2 DEF RowTopics
    <3>3. CASE j - Len(r) \in 1..Len(s) /\ rs[j] = s[j - Len(r)]
      BY <3>1, <3>3, <1>1 DEF RowTopics
    <3> QED BY <3>2, <3>3, <1>4
  <2>2. ASSUME NEW u \in RowTopics(r) PROVE u \in RowTopics(rs)
    BY <2>2, <1>1, <1>2 DEF RowTopics
  <2>3. ASSUME NEW u \in RowTopics(s) PROVE u \in RowTopics(rs)
    <3>1. PICK i \in 1..Len(s) : u = s[i].topic
      BY <2>3, <1>1 DEF RowTopics
    <3> QED BY <3>1, <1>3 DEF RowTopics
  <2> QED BY <2>1, <2>2, <2>3
<1>6. ASSUME t \in RowTopics(s) PROVE LastData(rs, t) = LastData(s, t)
  <2>1. PICK k \in DOMAIN s : s[k].topic = t /\ \A j \in DOMAIN s : s[j].topic = t => j <= k
    BY <1>6, LastExists
  <2>2. Len(r) + k \in DOMAIN rs /\ rs[Len(r) + k] = s[k]
    BY <2>1, <1>1, <1>3
  <2>3. \A j \in DOMAIN rs : rs[j].topic = t => j <= Len(r) + k
    BY <2>1, <1>1, <1>4
  <2>4. LastData(rs, t) = rs[Len(r) + k].data
    <3>1. PICK x \in DOMAIN rs : x = Len(r) + k
      BY <2>2
    <3>2. rs[x].topic = t /\ \A j \in DOMAIN rs : rs[j].topic = t => j <= x
      BY <2>1, <2>2, <2>3, <3>1
    <3>3. LastData(rs, t) = rs[x].data
      BY <1>0, <3>2, LastIs
    <3> QED BY <3>1, <3>3
  <2>5. LastData(s, t) = s[k].data
    BY <2>1, LastIs
  <2> QED BY <2>2, <2>4, <2>5
<1>7. ASSUME t \in RowTopics(r) \ RowTopics(s) PROVE LastData(rs, t) = LastData(r, t)
  <2>1. PICK k \in DOMAIN r : r[k].topic = t /\ \A j \in DOMAIN r : r[j].topic = t => j <= k
    BY <1>7, LastExists
  <2>2. k \in DOMAIN rs /\ rs[k] = r[k]
    BY <2>1, <1>1, <1>2
  <2>3. ASSUME NEW j \in DOMAIN rs, rs[j].topic = t PROVE j <= k
    <3>1. CASE j \in 1..Len(r)
      BY <3>1, <2>3, <2>1, <1>1, <1>2
    <3>2. CASE j - Len(r) \in 1..Len(s) /\ rs[j] = s[j - Len(r)]
      <4>1. s[j - Len(r)].topic \in RowTopics(s)
        BY <3>2, <1>1 DEF RowTopics
      <4>2. t \in RowTopics(s)
        BY <3>2, <2>3, <4>1
      <4> QED BY <4>2, <1>7
    <3> QED BY <3>1, <3>2, <1>4
  <2>4. LastData(rs, t) = rs[k].data
    <3>1. k \in DOMAIN rs /\ rs[k].topic = t
      BY <2>1, <2>2
    <3> QED BY <1>0, <2>3, <3>1, LastIs
  <2>5. LastData(r, t) = r[k].data
    BY <2>1, LastIs
  <2> QED BY <2>2, <2>4, <2>5
<1> QED BY <1>5, <1>6, <1>7 DEF rs

-----------------------------------------------------------------------------
(* The rows of a request *)

\* Whatever order the dictionaries have, a request becomes rows of known topics,
\* each topic once (protocols/get_applicable_rows.py 8-66, flatten_message.py
\* 9-65): the rows are finitely many, as their topics are.
LEMMA RowsOfRequest ==
  ASSUME NEW r \in Requests, NEW keys \in SUBSET Topics, NEW rs \in RowLists(r, keys)
  PROVE  rs \in Seq(Row) /\ Distinct(rs)
<1> DEFINE R == IF r.kind = "graft" THEN FlattenedRows(r, keys) ELSE ApplicableRows(r, keys)
<1>1. R \subseteq Row /\ \A x, y \in R : x.topic = y.topic => x = y
  <2>1. r \in PlainRequests \cup SpreadRequests \cup GraftRequests
    BY PublishingAssumption
  <2>2. CASE r \in PlainRequests
    <3>1. PICK retain \in BOOLEAN, t \in Topics, d \in Data \cup {Empty} : r = Plain(retain, t, d)
      BY <2>2 DEF PlainRequests
    <3>2. R = {[topic |-> t, data |-> d]}
      BY <3>1 DEF Plain, ApplicableRows
    <3> QED BY <3>2 DEF Row
  <2>3. CASE r \in SpreadRequests
    <3>1. PICK f \in Filters, d \in Data \cup {Empty} : r = Spread(f, d)
      BY <2>3 DEF SpreadRequests
    <3>2. R = {[topic |-> t, data |-> d] : t \in keys}
      BY <3>1 DEF Spread, ApplicableRows
    <3> QED BY <3>2 DEF Row
  <2>4. CASE r \in GraftRequests
    <3>1. PICK f \in Filters, mirror \in BOOLEAN,
               fn \in UNION {[T -> Data \cup {Empty}] : T \in SUBSET Topics} : r = Graft(f, fn, mirror)
      BY <2>4 DEF GraftRequests
    <3>2. PICK T \in SUBSET Topics : fn \in [T -> Data \cup {Empty}]
      OBVIOUS
    <3>3. R = {[topic |-> t, data |-> fn[t]] : t \in T}
              \cup (IF mirror THEN {[topic |-> t, data |-> Empty] : t \in keys \ T} ELSE {})
      BY <3>1, <3>2 DEF Graft, FlattenedRows
    <3>4. \A x \in R : /\ x \in Row
                       /\ \/ x.topic \in T /\ x = [topic |-> x.topic, data |-> fn[x.topic]]
                          \/ x.topic \notin T /\ x = [topic |-> x.topic, data |-> Empty]
      BY <3>2, <3>3 DEF Row
    <3> QED BY <3>4
  <2> QED BY <2>1, <2>2, <2>3, <2>4
<1>2. rs \in [1..Cardinality(R) -> R]
      /\ \A i, j \in 1..Cardinality(R) : i # j => rs[i] # rs[j]
  BY DEF RowLists, SetToSeqs
<1> HIDE DEF R
<1>3. IsFiniteSet(R)
  <2> DEFINE f == [x \in R |-> x.topic]
  <2>1. f \in Injection(R, Topics)
    BY <1>1 DEF Injection, IsInjective, Row
  <2> QED BY <2>1, PublishingAssumption, FS_Injection
<1>4. Cardinality(R) \in Nat
  BY <1>3, FS_CardinalityType
<1>5. rs \in Seq(Row)
  <2>1. rs \in [1..Cardinality(R) -> Row]
    BY <1>1, <1>2
  <2> QED BY <2>1, <1>4, SeqDef
<1>6. DOMAIN rs = 1..Cardinality(R) /\ \A i \in DOMAIN rs : rs[i] \in R
  BY <1>2
<1>7. Distinct(rs)
  <2>1. ASSUME NEW i \in DOMAIN rs, NEW j \in DOMAIN rs, rs[i].topic = rs[j].topic PROVE i = j
    BY <2>1, <1>1, <1>2, <1>6
  <2> QED BY <2>1 DEF Distinct
<1> QED BY <1>5, <1>7

\* Where a topic occurs once its row is the last one about it.
LEMMA DistinctLast ==
  ASSUME NEW rs \in Seq(Row), Distinct(rs), NEW i \in DOMAIN rs
  PROVE  LastData(rs, rs[i].topic) = rs[i].data
<1>1. \A j \in DOMAIN rs : rs[j].topic = rs[i].topic => j <= i
  BY LenProperties DEF Distinct
<1> QED BY <1>1, LastIs

-----------------------------------------------------------------------------
(* The threads *)

\* A thread that publishes has a request, and takes the way its request asks for.
RequestInv == \A p \in Publishers :
  /\ ppc[p] # "idle" => req[p] \in Requests
  /\ ppc[p] \in {"walk", "tasks", "retain"} => req[p].retain
  /\ ppc[p] = "put" => ~req[p].retain

\* What is left to write are the last rows of the list.
Left(p) == Len(rows[p]) - Len(todo[p])
RowsOK(p) ==
  /\ Distinct(rows[p])
  /\ ppc[p] = "tasks" => todo[p] = rows[p]
  /\ ppc[p] = "retain" => /\ Left(p) \in Nat
                          /\ \A i \in 1..Len(todo[p]) : todo[p][i] = rows[p][Left(p) + i]
RowsInv == \A p \in Publishers : RowsOK(p)

\* A topic that is not contended is in the hands of one thread at most ...
Holds(p, t) == ppc[p] \in {"tasks", "retain"} /\ t \in RowTopics(rows[p])
AloneInv == \A t \in Topics \ contended : \A p, q \in Publishers :
              Holds(p, t) /\ Holds(q, t) => p = q

\* ... so that the tree has the rows that thread has written.
WrittenInv == \A p \in Publishers : ppc[p] = "retain" =>
  \A i \in 1..Left(p) : rows[p][i].topic \notin contended =>
    tree[rows[p][i].topic] = rows[p][i].data

PubInv == PublishingTypeOK /\ RequestInv /\ RowsInv /\ AloneInv /\ WrittenInv

\* Nothing is being published when the broker starts.
LEMMA PubInvInit == PublishingInit => PubInv
<1> SUFFICES ASSUME PublishingInit PROVE PubInv
  OBVIOUS
<1> USE DEF PublishingInit
<1>1. PublishingTypeOK
  BY PublishingAssumption DEF PublishingTypeOK, PublisherPc, Leaf
<1>2. RequestInv
  BY DEF RequestInv
<1>3. RowsInv
  BY DEF RowsInv, RowsOK, Distinct
<1>4. AloneInv
  BY DEF AloneInv, Holds
<1>5. WrittenInv
  BY DEF WrittenInv
<1> QED BY <1>1, <1>2, <1>3, <1>4, <1>5 DEF PubInv

\* A thread whose own variables a step leaves alone.
LEMMA RowsKept ==
  ASSUME NEW q \in Publishers, RowsOK(q),
         ppc'[q] = ppc[q], rows'[q] = rows[q], todo'[q] = todo[q]
  PROVE  RowsOK(q)'
<1>1. Distinct(rows[q])'
  BY DEF RowsOK, Distinct
<1>2. Left(q)' = Left(q)
  BY DEF Left
<1> QED BY <1>1, <1>2 DEF RowsOK

\* Broker.publish begins: the request is retained, or is a single row.
LEMMA BeginStep ==
  ASSUME PubInv, NEW p \in Publishers, NEW r \in Requests, Begin(p, r)
  PROVE  PubInv'
<1> USE DEF Begin
<1>0. PublishingTypeOK /\ RequestInv /\ RowsInv /\ AloneInv /\ WrittenInv
  BY DEF PubInv
<1>1. /\ r.retain \in BOOLEAN
      /\ ~r.retain => [topic |-> r.topic, data |-> r.data] \in Row
      /\ Walks(r) => Known(tree, r.filter) \subseteq Topics
  <2>1. r \in PlainRequests \cup SpreadRequests \cup GraftRequests
    BY PublishingAssumption
  <2>2. CASE r \in PlainRequests
    BY <2>2 DEF PlainRequests, Plain, Row, Walks
  <2>3. CASE r \in SpreadRequests
    <3>1. PICK f \in Filters, d \in Data \cup {Empty} : r = Spread(f, d)
      BY <2>3 DEF SpreadRequests
    <3>2. r.retain = TRUE /\ r.filter = f
      BY <3>1 DEF Spread
    <3>3. Match[f] \subseteq Topics
      BY PublishingAssumption
    <3> QED BY <3>2, <3>3 DEF Known
  <2>4. CASE r \in GraftRequests
    <3>1. PICK f \in Filters, mirror \in BOOLEAN,
               fn \in UNION {[T -> Data \cup {Empty}] : T \in SUBSET Topics} : r = Graft(f, fn, mirror)
      BY <2>4 DEF GraftRequests
    <3>2. r.retain = TRUE /\ r.filter = f
      BY <3>1 DEF Graft
    <3>3. Match[f] \subseteq Topics
      BY PublishingAssumption
    <3> QED BY <3>2, <3>3 DEF Known
  <2> QED BY <2>1, <2>2, <2>3, <2>4
<1>2. PublishingTypeOK'
  <2>1. ppc' \in [Publishers -> PublisherPc]
    BY <1>0 DEF PublishingTypeOK, PublisherPc
  <2>2. req' \in [Publishers -> Requests \cup {NoRequest}]
    BY <1>0 DEF PublishingTypeOK
  <2>3. walked' \in [Publishers -> SUBSET Topics]
    BY <1>0, <1>1 DEF PublishingTypeOK
  <2>4. rows' \in [Publishers -> Seq(Row)]
    BY <1>0, <1>1 DEF PublishingTypeOK
  <2>5. todo' \in [Publishers -> Seq(Row)]
    BY <1>0 DEF PublishingTypeOK
  <2>6. published' \in 0..MaxPublishes
    BY <1>0, PublishingAssumption DEF PublishingTypeOK
  <2> QED BY <2>1, <2>2, <2>3, <2>4, <2>5, <2>6, <1>0 DEF PublishingTypeOK
<1>3. \A q \in Publishers \ {p} : /\ ppc'[q] = ppc[q] /\ req'[q] = req[q]
                                  /\ rows'[q] = rows[q] /\ todo'[q] = todo[q]
  BY <1>0 DEF PublishingTypeOK
<1>4. /\ ppc'[p] = (IF r.retain THEN "walk" ELSE "put") /\ req'[p] = r
      /\ rows'[p] = IF r.retain THEN <<>> ELSE <<[topic |-> r.topic, data |-> r.data]>>
  BY <1>0 DEF PublishingTypeOK
<1>5. RequestInv'
  BY <1>0, <1>1, <1>3, <1>4 DEF RequestInv
<1>6. RowsInv'
  <2>1. Distinct(rows[p])'
    BY <1>4 DEF Distinct
  <2>2. ppc'[p] \notin {"tasks", "retain"}
    BY <1>1, <1>4
  <2>3. \A q \in Publishers \ {p} : RowsOK(q)'
    BY <1>0, <1>3, RowsKept DEF RowsInv
  <2>4. RowsOK(p)'
    BY <2>1, <2>2 DEF RowsOK
  <2> QED BY <2>3, <2>4 DEF RowsInv
<1>7. AloneInv'
  BY <1>0, <1>1, <1>3, <1>4 DEF AloneInv, Holds
<1>8. WrittenInv'
  BY <1>0, <1>1, <1>3, <1>4 DEF WrittenInv, Left
<1> QED BY <1>2, <1>5, <1>6, <1>7, <1>8 DEF PubInv

\* The rows are made: from here on the thread holds their topics, and none of
\* them is contended unless another thread holds it too.
LEMMA MakeRowsStep ==
  ASSUME PubInv, NEW p \in Publishers, MakeRows(p)
  PROVE  PubInv'
<1>0. PublishingTypeOK /\ RequestInv /\ RowsInv /\ AloneInv /\ WrittenInv
  BY DEF PubInv
<1>1. PICK rs \in RowLists(req[p], walked[p]) :
        /\ rows' = [rows EXCEPT ![p] = rs]
        /\ todo' = [todo EXCEPT ![p] = rs]
        /\ contended' = (contended \ RowTopics(rs)) \cup (RowTopics(rs) \cap UnderWay(p))
  BY DEF MakeRows
<1>2. ppc[p] = "walk" /\ ppc' = [ppc EXCEPT ![p] = "tasks"] /\ UNCHANGED <<tree, req, walked, published>>
  BY DEF MakeRows
<1>3. rs \in Seq(Row) /\ Distinct(rs)
  <2>1. req[p] \in Requests /\ walked[p] \in SUBSET Topics
    BY <1>0, <1>2 DEF RequestInv, PublishingTypeOK
  <2> QED BY <2>1, RowsOfRequest
<1>4. \A q \in Publishers \ {p} : /\ ppc'[q] = ppc[q] /\ rows'[q] = rows[q] /\ todo'[q] = todo[q]
  BY <1>0, <1>1, <1>2 DEF PublishingTypeOK
<1>5. ppc'[p] = "tasks" /\ rows'[p] = rs /\ todo'[p] = rs
  BY <1>0, <1>1, <1>2 DEF PublishingTypeOK
<1>6. PublishingTypeOK'
  <2>1. ppc' \in [Publishers -> PublisherPc]
    BY <1>0, <1>2 DEF PublishingTypeOK, PublisherPc
  <2>2. rows' \in [Publishers -> Seq(Row)]
    BY <1>0, <1>1, <1>3 DEF PublishingTypeOK
  <2>3. todo' \in [Publishers -> Seq(Row)]
    BY <1>0, <1>1, <1>3 DEF PublishingTypeOK
  <2>4. contended' \subseteq Topics
    BY <1>0, <1>1 DEF PublishingTypeOK, UnderWay
  <2> QED BY <2>1, <2>2, <2>3, <2>4, <1>0, <1>2 DEF PublishingTypeOK
<1>7. RequestInv'
  BY <1>0, <1>2, <1>4, <1>5 DEF RequestInv
<1>8. RowsInv'
  <2>1. \A q \in Publishers \ {p} : RowsOK(q)'
    BY <1>0, <1>4, RowsKept DEF RowsInv
  <2>2. Distinct(rows[p])'
    BY <1>3, <1>5 DEF Distinct
  <2>3. RowsOK(p)'
    BY <1>5, <2>2 DEF RowsOK
  <2> QED BY <2>1, <2>3 DEF RowsInv
<1>9. ASSUME NEW q \in Publishers \ {p}, NEW t
      PROVE  /\ Holds(q, t)' <=> Holds(q, t)
             /\ Holds(q, t) /\ t \in Topics => t \in UnderWay(p)
  <2>1. RowTopics(rows[q])' = RowTopics(rows[q])
    BY <1>4 DEF RowTopics
  <2> QED BY <2>1, <1>4 DEF Holds, UnderWay
<1>10. \A t : Holds(p, t)' => t \in RowTopics(rs)
  BY <1>5 DEF Holds, RowTopics
<1>11. AloneInv'
  <2>1. ASSUME NEW t \in Topics, t \notin contended', NEW q \in Publishers \ {p}, Holds(q, t)
        PROVE  t \notin contended /\ t \notin RowTopics(rs)
    BY <2>1, <1>1, <1>9
  <2>2. ASSUME NEW t \in Topics, t \notin contended', NEW q \in Publishers, NEW r \in Publishers,
               Holds(q, t)', Holds(r, t)'
        PROVE  q = r
    <3>1. CASE q # p
      <4>1. Holds(q, t) /\ t \notin contended /\ t \notin RowTopics(rs)
        BY <3>1, <2>1, <2>2, <1>9
      <4>2. r # p /\ Holds(r, t)
        BY <4>1, <2>2, <1>9, <1>10
      <4> QED BY <4>1, <4>2, <1>0 DEF AloneInv
    <3>2. CASE r # p
      <4>1. Holds(r, t) /\ t \notin contended /\ t \notin RowTopics(rs)
        BY <3>2, <2>1, <2>2, <1>9
      <4>2. q # p /\ Holds(q, t)
        BY <4>1, <2>2, <1>9, <1>10
      <4> QED BY <4>1, <4>2, <1>0 DEF AloneInv
    <3> QED BY <3>1, <3>2
  <2> QED BY <2>2 DEF AloneInv
<1>12. WrittenInv'
  <2>1. ASSUME NEW q \in Publishers, ppc'[q] = "retain", NEW i \in 1..Left(q)',
               rows'[q][i].topic \notin contended'
        PROVE  tree'[rows'[q][i].topic] = rows'[q][i].data
    <3>1. q # p /\ ppc[q] = "retain"
      BY <2>1, <1>4, <1>5
    <3>2. i \in 1..Left(q) /\ rows'[q] = rows[q]
      BY <2>1, <3>1, <1>4 DEF Left
    <3>3. i \in DOMAIN rows[q] /\ rows[q][i] \in Row
      <4>1. Left(q) \in Nat /\ rows[q] \in Seq(Row) /\ todo[q] \in Seq(Row)
        BY <3>1, <1>0 DEF RowsInv, RowsOK, PublishingTypeOK
      <4> QED BY <4>1, <3>2, LenProperties, ElementOfSeq DEF Left
    <3>4. Holds(q, rows[q][i].topic) /\ rows[q][i].topic \in Topics
      BY <3>1, <3>3 DEF Holds, RowTopics, Row
    <3>5. rows[q][i].topic \notin contended
      BY <2>1, <3>1, <3>2, <3>4, <1>1, <1>9
    <3> QED BY <3>1, <3>2, <3>5, <1>0, <1>2 DEF WrittenInv
  <2> QED BY <2>1 DEF WrittenInv
<1> QED BY <1>6, <1>7, <1>8, <1>11, <1>12 DEF PubInv

\* Steps of one thread that move it on with its rows as they are: the walk
\* raises, the tasks are added, the rows are put.
LEMMA MoveStep ==
  ASSUME PubInv, NEW p \in Publishers, WalkRaises(p) \/ AddTasks(p) \/ PutRows(p)
  PROVE  PubInv'
<1>0. PublishingTypeOK /\ RequestInv /\ RowsInv /\ AloneInv /\ WrittenInv
  BY DEF PubInv
<1>1. UNCHANGED <<tree, req, walked, rows, todo, contended, published>>
  BY DEF WalkRaises, AddTasks, PutRows
<1>2. PICK w \in {"idle", "retain"} : /\ ppc' = [ppc EXCEPT ![p] = w]
                                      /\ w = "retain" => ppc[p] = "tasks"
  BY DEF WalkRaises, AddTasks, PutRows
<1>3. ppc'[p] = w /\ \A q \in Publishers \ {p} : ppc'[q] = ppc[q]
  BY <1>0, <1>2 DEF PublishingTypeOK
<1>4. PublishingTypeOK'
  BY <1>0, <1>1, <1>2 DEF PublishingTypeOK, PublisherPc
<1>5. RequestInv'
  BY <1>0, <1>1, <1>2, <1>3 DEF RequestInv
<1>6. w = "retain" => Left(p) = 0 /\ todo[p] = rows[p]
  <2>1. w = "retain" => todo[p] = rows[p]
    BY <1>0, <1>2 DEF RowsInv, RowsOK
  <2>2. Len(rows[p]) \in Nat
    BY <1>0, LenProperties DEF PublishingTypeOK
  <2> QED BY <2>1, <2>2 DEF Left
<1>7. RowsInv'
  <2>1. \A q \in Publishers \ {p} : RowsOK(q)'
    BY <1>0, <1>1, <1>3, RowsKept DEF RowsInv
  <2>2. Distinct(rows[p])'
    BY <1>0, <1>1 DEF RowsInv, RowsOK, Distinct
  <2>3. RowsOK(p)'
    <3>1. Left(p)' = Left(p) /\ Len(todo[p]) \in Nat
      BY <1>0, <1>1, LenProperties DEF Left, PublishingTypeOK
    <3> QED BY <1>1, <1>2, <1>3, <1>6, <2>2, <3>1 DEF RowsOK
  <2> QED BY <2>1, <2>3 DEF RowsInv
<1>8. AloneInv'
  <2>1. \A q \in Publishers : \A t \in Topics : Holds(q, t)' => Holds(q, t)
    <3> TAKE q \in Publishers
    <3> TAKE t \in Topics
    <3>2. RowTopics(rows[q])' = RowTopics(rows[q])
      BY <1>1 DEF RowTopics
    <3> QED BY <3>2, <1>2, <1>3 DEF Holds
  <2> QED BY <2>1, <1>0, <1>1 DEF AloneInv
<1>9. WrittenInv'
  BY <1>0, <1>1, <1>2, <1>3, <1>6 DEF WrittenInv, Left
<1> QED BY <1>4, <1>5, <1>7, <1>8, <1>9 DEF PubInv

\* A row is written: it is the next one of its thread, and no other thread has
\* written its topic unless the topic is contended.
LEMMA WriteLeafStep ==
  ASSUME PubInv, NEW p \in Publishers, WriteLeaf(p)
  PROVE  PubInv'
<1>0. PublishingTypeOK /\ RequestInv /\ RowsInv /\ AloneInv /\ WrittenInv
  BY DEF PubInv
<1>1. /\ ppc[p] = "retain" /\ todo[p] # <<>>
      /\ todo' = [todo EXCEPT ![p] = Tail(todo[p])]
      /\ UNCHANGED <<ppc, req, walked, rows, contended, published>>
  BY <1>0 DEF WriteLeaf, PublishingTypeOK
<1>2. /\ rows[p] \in Seq(Row) /\ todo[p] \in Seq(Row)
      /\ Len(rows[p]) \in Nat /\ Len(todo[p]) \in Nat \ {0}
      /\ DOMAIN rows[p] = 1..Len(rows[p])
  BY <1>0, <1>1, LenProperties, EmptySeq DEF PublishingTypeOK
<1>3. /\ Distinct(rows[p]) /\ Left(p) \in Nat
      /\ \A i \in 1..Len(todo[p]) : todo[p][i] = rows[p][Left(p) + i]
  BY <1>0, <1>1 DEF RowsInv, RowsOK
<1>3a. PICK n \in Nat, m \in Nat \ {0} : n = Len(rows[p]) /\ m = Len(todo[p])
  BY <1>2
<1>3b. Left(p) = n - m /\ DOMAIN rows[p] = 1..n
  BY <1>2, <1>3a DEF Left
<1>4. PICK k \in DOMAIN rows[p] : k = Left(p) + 1 /\ Head(todo[p]) = rows[p][k]
  <2>1. Head(todo[p]) = todo[p][1]
    BY <1>1, <1>2
  <2>2. Left(p) + 1 \in DOMAIN rows[p]
    <3>1. n - m \in Nat /\ n \in Nat /\ m \in Nat \ {0}
      BY <1>3, <1>3a, <1>3b
    <3>2. n - m + 1 \in 1..n
      BY <3>1
    <3> QED BY <3>2, <1>3b
  <2> QED BY <2>1, <2>2, <1>2, <1>3
<1>5. rows[p][k] \in Row
  BY <1>2, ElementOfSeq
<1>6. tree' = [tree EXCEPT ![rows[p][k].topic] = rows[p][k].data]
  BY <1>1, <1>4 DEF WriteLeaf, Written
<1>7. /\ Tail(todo[p]) \in Seq(Row) /\ Len(Tail(todo[p])) = Len(todo[p]) - 1
      /\ \A i \in 1..Len(todo[p]) - 1 : Tail(todo[p])[i] = todo[p][i + 1]
  BY <1>1, <1>2, HeadTailProperties
<1>8. todo'[p] = Tail(todo[p]) /\ \A q \in Publishers \ {p} : todo'[q] = todo[q]
  BY <1>0, <1>1 DEF PublishingTypeOK
<1>9. Left(p)' = k
  <2>1. Len(rows[p])' = n /\ Len(todo[p])' = m - 1
    BY <1>1, <1>3a, <1>7, <1>8
  <2> QED BY <2>1, <1>3a, <1>3b, <1>4 DEF Left
<1>10. PublishingTypeOK'
  <2>1. todo' \in [Publishers -> Seq(Row)]
    BY <1>0, <1>1, <1>7 DEF PublishingTypeOK
  <2>2. tree' \in [Topics -> Leaf]
    BY <1>0, <1>5, <1>6 DEF PublishingTypeOK, Row, Leaf
  <2> QED BY <2>1, <2>2, <1>0, <1>1 DEF PublishingTypeOK
<1>11. RequestInv'
  BY <1>0, <1>1 DEF RequestInv
<1>12. RowsInv'
  <2>1. \A q \in Publishers \ {p} : RowsOK(q)'
    BY <1>0, <1>1, <1>8, RowsKept DEF RowsInv
  <2>2. Distinct(rows[p])'
    BY <1>1, <1>3 DEF Distinct
  <2>3. \A i \in 1..Len(todo[p]) - 1 : todo'[p][i] = rows[p][k + i]
    <3>1. TAKE i \in 1..Len(todo[p]) - 1
    <3>2. i \in 1..m - 1 /\ i + 1 \in 1..m /\ Left(p) + (i + 1) = k + i
      <4>1. i \in 1..m - 1 /\ m \in Nat /\ Left(p) \in Nat /\ k = Left(p) + 1
        BY <1>3, <1>3a, <1>4
      <4> QED BY <4>1
    <3> QED BY <3>2, <1>3, <1>3a, <1>7, <1>8
  <2>4. Left(p)' \in Nat
    BY <1>2, <1>9
  <2>5. RowsOK(p)'
    BY <1>1, <1>2, <1>7, <1>8, <1>9, <2>2, <2>3, <2>4 DEF RowsOK
  <2> QED BY <2>1, <2>5 DEF RowsInv
<1>13. AloneInv'
  <2>1. ASSUME NEW q \in Publishers, NEW t PROVE Holds(q, t)' <=> Holds(q, t)
    <3>1. RowTopics(rows[q])' = RowTopics(rows[q])
      BY <1>1 DEF RowTopics
    <3> QED BY <3>1, <1>1 DEF Holds
  <2> QED BY <2>1, <1>0, <1>1 DEF AloneInv
<1>14. WrittenInv'
  <2>1. ASSUME NEW q \in Publishers, ppc[q] = "retain", NEW i \in 1..Left(q)',
               rows[q][i].topic \notin contended
        PROVE  tree'[rows[q][i].topic] = rows[q][i].data
    <3>1. CASE q = p
      <4>1. i \in DOMAIN rows[p] /\ rows[p][i] \in Row
        BY <3>1, <1>2, <1>9, ElementOfSeq
      <4>2. CASE i = k
        BY <3>1, <4>1, <4>2, <1>0, <1>6 DEF PublishingTypeOK, Row
      <4>3. CASE i # k
        <5>1. rows[p][i].topic # rows[p][k].topic
          BY <4>1, <4>3, <1>3 DEF Distinct
        <5>2. i \in 1..Left(p)
          BY <3>1, <4>3, <1>3, <1>4, <1>9
        <5>3. tree'[rows[p][i].topic] = tree[rows[p][i].topic]
          BY <5>1, <4>1, <1>0, <1>6 DEF PublishingTypeOK, Row
        <5> QED BY <5>2, <5>3, <2>1, <3>1, <1>0 DEF WrittenInv
      <4> QED BY <4>2, <4>3
    <3>2. CASE q # p
      <4>1. i \in 1..Left(q) /\ Left(q) \in Nat
        BY <3>2, <2>1, <1>0, <1>1, <1>8 DEF Left, RowsInv, RowsOK
      <4>2. i \in DOMAIN rows[q] /\ rows[q][i] \in Row
        <5>1. rows[q] \in Seq(Row) /\ todo[q] \in Seq(Row)
          BY <1>0 DEF PublishingTypeOK
        <5>2. Len(rows[q]) \in Nat /\ Len(todo[q]) \in Nat /\ DOMAIN rows[q] = 1..Len(rows[q])
          BY <5>1, LenProperties
        <5>3. i \in 1..Len(rows[q])
          BY <5>2, <4>1 DEF Left
        <5> QED BY <5>1, <5>2, <5>3, ElementOfSeq
      <4>3. Holds(q, rows[q][i].topic) /\ rows[q][i].topic \in Topics
        BY <4>2, <2>1 DEF Holds, RowTopics, Row
      <4>4. Holds(p, rows[p][k].topic)
        BY <1>1 DEF Holds, RowTopics
      <4>5. rows[q][i].topic # rows[p][k].topic
        BY <4>3, <4>4, <3>2, <2>1, <1>0 DEF AloneInv
      <4>6. tree'[rows[q][i].topic] = tree[rows[q][i].topic]
        BY <4>5, <4>3, <1>0, <1>6 DEF PublishingTypeOK
      <4> QED BY <4>1, <4>6, <2>1, <1>0 DEF WrittenInv
    <3> QED BY <3>1, <3>2
  <2>2. \A q \in Publishers : ppc'[q] = ppc[q] /\ rows'[q] = rows[q]
    BY <1>1
  <2> QED BY <2>1, <2>2, <1>1 DEF WrittenInv
<1> QED BY <1>10, <1>11, <1>12, <1>13, <1>14 DEF PubInv

\* The broker is started again: all its threads are gone.
LEMMA RestartStep ==
  ASSUME PubInv, tree' \in [Topics -> Leaf],
         ppc' = [p \in Publishers |-> "idle"], todo' = [p \in Publishers |-> <<>>],
         contended' = {}, UNCHANGED <<req, walked, rows, published>>
  PROVE  PubInv'
<1>0. PublishingTypeOK /\ RowsInv
  BY DEF PubInv
<1>1. PublishingTypeOK'
  BY <1>0 DEF PublishingTypeOK, PublisherPc
<1>2. RowsInv'
  <2>1. ASSUME NEW p \in Publishers PROVE Distinct(rows[p])'
    BY <1>0 DEF RowsInv, RowsOK, Distinct
  <2> QED BY <2>1 DEF RowsInv, RowsOK
<1>3. RequestInv' /\ AloneInv' /\ WrittenInv'
  BY DEF RequestInv, AloneInv, WrittenInv, Holds
<1> QED BY <1>1, <1>2, <1>3 DEF PubInv

\* Steps of others do not concern the threads.
LEMMA PubInvKept == PubInv /\ UNCHANGED pubVars => PubInv'
<1> SUFFICES ASSUME PubInv, UNCHANGED pubVars PROVE PubInv'
  OBVIOUS
<1> USE DEF pubVars, threadVars
<1>0. PublishingTypeOK /\ RequestInv /\ RowsInv /\ AloneInv /\ WrittenInv
  BY DEF PubInv
<1>1. PublishingTypeOK'
  BY <1>0 DEF PublishingTypeOK
<1>2. RequestInv'
  BY <1>0 DEF RequestInv
<1>3. RowsInv'
  BY <1>0, RowsKept DEF RowsInv
<1>4. AloneInv'
  BY <1>0 DEF AloneInv, Holds, RowTopics
<1>5. WrittenInv'
  BY <1>0 DEF WrittenInv, Left
<1> QED BY <1>1, <1>2, <1>3, <1>4, <1>5 DEF PubInv

\* A topic that is in nobody's hands after a step of the threads, other than
\* the last one, was in nobody's hands before and has kept its leaf.
LEMMA Unheld ==
  ASSUME PubInv, NEW p \in Publishers,
         \/ \E r \in Requests : Begin(p, r)
         \/ MakeRows(p) \/ WalkRaises(p) \/ AddTasks(p) \/ WriteLeaf(p),
         NEW t \in Topics, t \notin contended', \A q \in Publishers : ~Holds(q, t)'
  PROVE  /\ t \notin contended /\ tree'[t] = tree[t]
         /\ \A q \in Publishers : ~Holds(q, t)
<1>0. PublishingTypeOK /\ RowsInv
  BY DEF PubInv
<1>1. CASE \E r \in Requests : Begin(p, r)
  <2>1. PICK r \in Requests : Begin(p, r)
    BY <1>1
  <2>2. ASSUME NEW q \in Publishers, Holds(q, t) PROVE FALSE
    <3>1. q # p
      BY <2>1, <2>2 DEF Begin, Holds
    <3>2. ppc'[q] = ppc[q] /\ rows'[q] = rows[q]
      BY <1>0, <2>1, <3>1 DEF Begin, PublishingTypeOK
    <3> QED BY <2>2, <3>2 DEF Holds, RowTopics
  <2> QED BY <2>1, <2>2 DEF Begin
<1>2. CASE MakeRows(p)
  <2>1. PICK rs : /\ rows' = [rows EXCEPT ![p] = rs]
                  /\ contended' = (contended \ RowTopics(rs)) \cup (RowTopics(rs) \cap UnderWay(p))
    BY <1>2 DEF MakeRows
  <2>2. ppc[p] = "walk" /\ ppc' = [ppc EXCEPT ![p] = "tasks"] /\ tree' = tree
    BY <1>2 DEF MakeRows
  <2>3. t \notin RowTopics(rs)
    <3>1. ppc'[p] = "tasks" /\ rows'[p] = rs
      BY <1>0, <2>1, <2>2 DEF PublishingTypeOK
    <3> QED BY <3>1 DEF Holds, RowTopics
  <2>4. ASSUME NEW q \in Publishers, Holds(q, t) PROVE FALSE
    <3>1. q # p
      BY <2>2, <2>4 DEF Holds
    <3>2. ppc'[q] = ppc[q] /\ rows'[q] = rows[q]
      BY <1>0, <2>1, <2>2, <3>1 DEF PublishingTypeOK
    <3> QED BY <2>4, <3>2 DEF Holds, RowTopics
  <2> QED BY <2>1, <2>2, <2>3, <2>4
<1>3. CASE WalkRaises(p) \/ AddTasks(p)
  <2>1. UNCHANGED <<tree, rows, contended>>
    BY <1>3 DEF WalkRaises, AddTasks
  <2>2. \A q \in Publishers : ppc[q] \in {"tasks", "retain"} => ppc'[q] \in {"tasks", "retain"}
    BY <1>0, <1>3 DEF WalkRaises, AddTasks, PublishingTypeOK
  <2> QED BY <2>1, <2>2 DEF Holds, RowTopics
<1>4. CASE WriteLeaf(p)
  <2>1. UNCHANGED <<ppc, rows, contended>> /\ ppc[p] = "retain" /\ todo[p] # <<>>
    BY <1>4 DEF WriteLeaf
  <2>2. \A q \in Publishers : ~Holds(q, t)
    BY <2>1 DEF Holds, RowTopics
  <2>3. Head(todo[p]).topic \in RowTopics(rows[p])
    <3>1. /\ rows[p] \in Seq(Row) /\ todo[p] \in Seq(Row)
          /\ Left(p) \in Nat /\ \A i \in 1..Len(todo[p]) : todo[p][i] = rows[p][Left(p) + i]
      BY <1>0, <2>1 DEF PublishingTypeOK, RowsInv, RowsOK
    <3>2. PICK n \in Nat, m \in Nat \ {0} : n = Len(rows[p]) /\ m = Len(todo[p])
      BY <2>1, <3>1, LenProperties, EmptySeq
    <3>3. n - m \in Nat /\ Left(p) = n - m
      BY <3>1, <3>2 DEF Left
    <3>4. n - m + 1 \in 1..n /\ 1 \in 1..m
      <4>1. n \in Nat /\ m \in Nat \ {0} /\ n - m \in Nat
        BY <3>2, <3>3
      <4> QED BY <4>1
    <3>5. n - m + 1 \in DOMAIN rows[p] /\ todo[p][1] = rows[p][n - m + 1]
      BY <3>1, <3>2, <3>3, <3>4, LenProperties
    <3>6. Head(todo[p]) = todo[p][1]
      BY <2>1, <3>1
    <3> QED BY <3>5, <3>6 DEF RowTopics
  <2>4. t # Head(todo[p]).topic
    BY <2>1, <2>2, <2>3 DEF Holds
  <2>5. tree' = [tree EXCEPT ![Head(todo[p]).topic] = Head(todo[p]).data]
    BY <1>4 DEF WriteLeaf, Written
  <2>6. tree'[t] = tree[t]
    BY <2>4, <2>5, <1>0 DEF PublishingTypeOK
  <2> QED BY <2>1, <2>2, <2>6
<1> QED BY <1>1, <1>2, <1>3, <1>4

\* A thread that puts its rows has written them all: of a topic that is not
\* contended the tree has the last of them.
LEMMA UnheldAfterPut ==
  ASSUME PubInv, NEW p \in Publishers, PutRows(p),
         NEW t \in Topics \ contended, \A q \in Publishers : ~Holds(q, t)'
  PROVE  IF ppc[p] = "retain" /\ t \in RowTopics(rows[p])
         THEN tree[t] = LastData(rows[p], t)
         ELSE \A q \in Publishers : ~Holds(q, t)
<1>0. PublishingTypeOK /\ RowsInv /\ WrittenInv
  BY DEF PubInv
<1>1. CASE ppc[p] = "retain" /\ t \in RowTopics(rows[p])
  <2>1. rows[p] \in Seq(Row) /\ Distinct(rows[p]) /\ todo[p] = <<>>
    BY <1>0 DEF PutRows, PublishingTypeOK, RowsInv, RowsOK
  <2>2. PICK i \in DOMAIN rows[p] : rows[p][i].topic = t
    BY <1>1 DEF RowTopics
  <2>3. Left(p) = Len(rows[p]) /\ DOMAIN rows[p] = 1..Len(rows[p])
    BY <2>1, LenProperties, EmptySeq DEF Left
  <2>4. tree[t] = rows[p][i].data
    BY <1>0, <1>1, <2>2, <2>3 DEF WrittenInv
  <2>5. LastData(rows[p], t) = rows[p][i].data
    BY <2>1, <2>2, DistinctLast
  <2> QED BY <1>1, <2>4, <2>5
<1>2. CASE ~(ppc[p] = "retain" /\ t \in RowTopics(rows[p]))
  <2>1. rows' = rows /\ ppc[p] \in {"retain", "put"} /\ ppc' = [ppc EXCEPT ![p] = "idle"]
    BY DEF PutRows
  <2>2. ASSUME NEW q \in Publishers, Holds(q, t) PROVE FALSE
    <3>1. q # p
      BY <1>2, <2>1, <2>2 DEF Holds
    <3>2. ppc'[q] = ppc[q]
      BY <1>0, <2>1, <3>1 DEF PublishingTypeOK
    <3> QED BY <2>1, <2>2, <3>2 DEF Holds, RowTopics
  <2> QED BY <1>2, <2>2
<1> QED BY <1>1, <1>2
=============================================================================
