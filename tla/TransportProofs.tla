-------------------------- MODULE TransportProofs ---------------------------
(***************************************************************************)
(* Proofs about Transport for any threads and packets: the messages of      *)
(* different threads do not mix in the frames under way, also where sends   *)
(* fail, and wherever no read over TCP is short, the reader finds the       *)
(* packets as they were written until one, or a frame, was cut short.  What *)
(* recursive functions compute is proved by induction, from the least       *)
(* number for which it would not hold.                                      *)
(***************************************************************************)
EXTENDS Transport, SequenceTheorems, WellFoundedInduction, TLAPS

ControlOps == {"PING", "PONG", "TEXT", "CLOSE"}
Frames == {Data(w, first, fin, from, n) :
             w \in Writers, first \in BOOLEAN, fin \in BOOLEAN, from \in Nat, n \in 1..OutSize}
          \cup {Control(op, n) : op \in ControlOps, n \in Nat}

\* Where a frame of data ends in the stream.
End(f) == f.from + RecvLength(f.length)

\* The data frames of fs take the stream from one position to another; a message
\* is begun before the first one, or is unfinished after the last one.
DataIn(fs) == {k \in DOMAIN fs : fs[k].op \in DataOps}
Chain(fs, from, begun, to, unfinished, failed) ==
  /\ DataIn(fs) = {} => from = to /\ begun = unfinished
  /\ \A k \in DataIn(fs) : (\A j \in DataIn(fs) : k <= j) => Follows(fs[k], from, begun, failed)
  /\ \A j, k \in DataIn(fs) : j < k /\ (\A i \in DataIn(fs) : i <= j \/ k <= i) =>
       Follows(fs[k], End(fs[j]), Unfinished(fs[j]), failed)
  /\ \A k \in DataIn(fs) : (\A j \in DataIn(fs) : j <= k) =>
       End(fs[k]) = to /\ Unfinished(fs[k]) = unfinished

\* The last packet in the stream is the only one that may still be sent.
Latest == written[Len(written)]
Position == IF written = <<>> THEN 0 ELSE Latest.start + sent[Latest.by]
LeftOpen == IF written # <<>> /\ sent[Latest.by] < Size(packets[Latest.by]) THEN {Latest.by} ELSE {}

TypeInv == /\ kind \in {"tcp", "websocket"} /\ open \in BOOLEAN /\ astray \in BOOLEAN
           /\ within = {} \/ \E w \in Writers : within = {w}
           /\ packets \in [Writers -> Payloads \cup LargePackets]
           /\ pc \in [Writers -> {"start", "send", "done", "failed"}]
           /\ sent \in [Writers -> Nat]
           /\ written \in Seq([by : Writers, start : Nat])
           /\ frames \in Seq(Frames)

WrittenInv ==
  /\ \A i, j \in DOMAIN written : written[i].by = written[j].by => i = j
  /\ \A i \in DOMAIN written : sent[written[i].by] # 0
  /\ \A w \in Writers : pc[w] = "start" => sent[w] = 0
  /\ \A v, w \in Writers : pc[v] = "send" /\ pc[w] = "send" => v = w
  /\ \A w \in Writers : pc[w] = "send" /\ sent[w] # 0 => written # <<>> /\ Latest.by = w
  /\ \A w \in Writers : sent[w] <= Size(packets[w])
  /\ \A w \in Writers : pc[w] = "done" <=> sent[w] = Size(packets[w])

\* What is under way continues what was received, unless a recv was short.
Flows(from, begun) == /\ Chain(frames, from, begun, Position, LeftOpen, Failed)
                      /\ ~astray => from = received /\ begun = within
FrameInv == /\ kind = "tcp" => frames = <<>>
            /\ kind = "websocket" => \E from, begun : Flows(from, begun)

TransportInv == TypeInv /\ WrittenInv /\ FrameInv

-----------------------------------------------------------------------------
(* Induction, for sets: from the least number that is not in the set *)

\* The least-number principle.
LEMMA LeastNumber ==
  ASSUME NEW T \in SUBSET Nat, T # {}
  PROVE  \E m \in T : \A k \in T : m <= k
<1>1. IsWellFoundedOn({pair \in Nat \X Nat : pair[1] < pair[2]}, Nat)
  BY NatLessThanWellFounded DEF OpToRel
<1>2. PICK R : R = {pair \in Nat \X Nat : pair[1] < pair[2]}
  OBVIOUS
<1>3. PICK m \in T : \A k \in T : ~(<<k, m>> \in R)
  BY <1>1, <1>2, WFMin
<1>4. \A k \in T : ~(k < m)
  BY <1>2, <1>3
<1> QED BY <1>4

\* A set that has a number whenever it has the smaller ones has every number.
LEMMA Induction ==
  ASSUME NEW G, \A m \in Nat : (\A k \in 0..m - 1 : k \in G) => m \in G
  PROVE  Nat \subseteq G
<1> DEFINE T == {m \in Nat : m \notin G}
<1>1. ASSUME T # {} PROVE FALSE
  <2>1. PICK m \in T : \A k \in T : m <= k
    BY <1>1, LeastNumber
  <2>2. \A k \in 0..m - 1 : k \in G
    BY <2>1
  <2> QED BY <2>1, <2>2
<1> QED BY <1>1

-----------------------------------------------------------------------------
(* Sums *)

\* f has the sum of the sizes from each place on.
Sums(sizes, f) == f = [i \in 1..Len(sizes) + 1 |-> IF i > Len(sizes) THEN 0
                                                 ELSE sizes[i] + f[i + 1]]

\* There is such a function, so Sum is what it says.
LEMMA SumsExist == ASSUME NEW s \in Seq(Nat) PROVE \E f : Sums(s, f)
<1>1. PICK n \in Nat : n = Len(s)
  BY LenProperties
<1> DEFINE Body(f, i) == IF i > n THEN 0 ELSE s[i] + f[i + 1]
           Good(m) == \E f : f = [i \in n + 1 - m..n + 1 |-> Body(f, i)]
           G == {m \in Nat : m <= n => Good(m)}
<1>2. ASSUME NEW m \in Nat, \A k \in 0..m - 1 : k \in G PROVE m \in G
  <2> SUFFICES ASSUME m <= n PROVE Good(m)
    OBVIOUS
  <2>1. CASE m = 0
    <3>1. PICK f : f = [i \in n + 1..n + 1 |-> 0]
      OBVIOUS
    <3>2. f = [i \in n + 1 - m..n + 1 |-> Body(f, i)]
      BY <2>1, <3>1
    <3> QED BY <3>2
  <2>2. CASE m # 0
    <3>1. m - 1 \in 0..m - 1 /\ m - 1 <= n
      BY <2>2
    <3>2. Good(m - 1)
      <4> HIDE DEF Good
      <4> QED BY <1>2, <3>1
    <3>3. PICK l \in Nat : l = n + 1 - m /\ l <= n /\ n + 1 - (m - 1) = l + 1
      BY <2>2
    <3>4. PICK f : f = [i \in l + 1..n + 1 |-> Body(f, i)]
      BY <3>2, <3>3
    <3>5. PICK g : g = [i \in l..n + 1 |-> IF i = l THEN s[i] + f[i + 1] ELSE f[i]]
      OBVIOUS
    <3>6. ASSUME NEW i \in l..n + 1 PROVE g[i] = Body(g, i)
      <4>1. CASE i = l
        BY <4>1, <3>3, <3>5
      <4>2. CASE i # l
        <5>1. i \in l + 1..n + 1 /\ g[i] = f[i]
          BY <4>2, <3>5
        <5>2. f[i] = Body(f, i)
          BY <5>1, <3>4
        <5>3. i <= n => g[i + 1] = f[i + 1]
          BY <5>1, <3>5
        <5> QED BY <5>1, <5>2, <5>3
      <4> QED BY <4>1, <4>2
    <3>7. g = [i \in l..n + 1 |-> Body(g, i)]
      BY <3>5, <3>6
    <3> QED BY <3>3, <3>7
  <2> QED BY <2>1, <2>2
<1>3. Good(n)
  <2> HIDE DEF Good
  <2>1. Nat \subseteq G
    <3> HIDE DEF G
    <3> QED BY <1>2, Induction
  <2> QED BY <2>1
<1>4. n + 1 - n = 1
  OBVIOUS
<1> QED BY <1>1, <1>3, <1>4 DEF Sums

\* Sum is the first of the sums.
LEMMA SumIsFirst ==
  ASSUME NEW s \in Seq(Nat)
  PROVE  \E f : Sums(s, f) /\ Sum(s) = f[1]
<1> DEFINE f == CHOOSE f : Sums(s, f)
<1>1. Sums(s, f)
  BY SumsExist
<1>2. Sum(s) = f[1]
  BY DEF Sum, Sums
<1> QED BY <1>1, <1>2

\* The sizes of the reads of a packet add up as they are taken off the front
\* (base_packet.py 36-39).
LEMMA SumLaw ==
  ASSUME NEW s \in Seq(Nat)
  PROVE  /\ Sum(s) \in Nat
         /\ s = <<>> => Sum(s) = 0
         /\ s # <<>> => /\ Head(s) \in Nat /\ Tail(s) \in Seq(Nat)
                        /\ Sum(s) = Head(s) + Sum(Tail(s))
<1>1. PICK n \in Nat : n = Len(s) /\ s \in [1..n -> Nat]
  BY LenProperties
<1>2. PICK f : Sums(s, f) /\ Sum(s) = f[1]
  BY SumIsFirst
<1>3. \A i \in 1..n + 1 : f[i] = IF i > n THEN 0 ELSE s[i] + f[i + 1]
  BY <1>1, <1>2 DEF Sums
<1>4. \A i \in 1..n + 1 : f[i] \in Nat
  <2> DEFINE G == {m \in Nat : m <= n => f[n + 1 - m] \in Nat}
  <2>1. ASSUME NEW m \in Nat, \A k \in 0..m - 1 : k \in G PROVE m \in G
    <3> SUFFICES ASSUME m <= n PROVE f[n + 1 - m] \in Nat
      OBVIOUS
    <3>1. CASE m = 0
      BY <3>1, <1>3
    <3>2. CASE m # 0
      <4>1. m - 1 \in 0..m - 1 /\ m - 1 <= n /\ n + 1 - (m - 1) = n + 1 - m + 1
        BY <3>2
      <4>2. f[n + 1 - m + 1] \in Nat
        BY <2>1, <4>1
      <4>3. PICK i \in 1..n : i = n + 1 - m
        BY <3>2
      <4>4. f[i] = s[i] + f[i + 1]
        BY <4>3, <1>3
      <4>5. s[i] \in Nat /\ f[i + 1] \in Nat
        BY <4>2, <4>3, <1>1
      <4> QED BY <4>3, <4>4, <4>5
    <3> QED BY <3>1, <3>2
  <2>2. Nat \subseteq G
    <3> HIDE DEF G
    <3> QED BY <2>1, Induction
  <2> SUFFICES ASSUME NEW i \in 1..n + 1 PROVE f[i] \in Nat
    OBVIOUS
  <2>3. n + 1 - i \in Nat /\ n + 1 - i <= n /\ n + 1 - (n + 1 - i) = i
    OBVIOUS
  <2> QED BY <2>2, <2>3
<1>5. s = <<>> => Sum(s) = 0
  BY <1>1, <1>2, <1>3
<1>6. ASSUME s # <<>>
      PROVE  Head(s) \in Nat /\ Tail(s) \in Seq(Nat) /\ Sum(s) = Head(s) + Sum(Tail(s))
  <2>1. n # 0
    BY <1>1, <1>6, EmptySeq
  <2>2. PICK t \in Seq(Nat) : /\ t = Tail(s) /\ Len(t) = n - 1
                              /\ \A i \in 1..n - 1 : t[i] = s[i + 1]
    <3>1. Tail(s) \in Seq(Nat) /\ Len(Tail(s)) = n - 1
      BY <1>1, <1>6, HeadTailProperties
    <3>2. \A i \in 1..Len(Tail(s)) : Tail(s)[i] = s[i + 1]
      BY <1>1, <1>6, HeadTailProperties
    <3> QED BY <3>1, <3>2
  <2>3. PICK g : Sums(t, g) /\ Sum(t) = g[1]
    BY SumIsFirst
  <2>4. \A i \in 1..n : g[i] = IF i > n - 1 THEN 0 ELSE t[i] + g[i + 1]
    BY <2>2, <2>3, <2>1 DEF Sums
  <2> DEFINE G == {m \in Nat : m < n => g[n - m] = f[n - m + 1]}
  <2>5. ASSUME NEW m \in Nat, \A k \in 0..m - 1 : k \in G PROVE m \in G
    <3> SUFFICES ASSUME m < n PROVE g[n - m] = f[n - m + 1]
      OBVIOUS
    <3>1. CASE m = 0
      BY <3>1, <1>3, <2>1, <2>4
    <3>2. CASE m # 0
      <4>1. m - 1 \in 0..m - 1 /\ m - 1 < n /\ n - (m - 1) = n - m + 1
        BY <3>2
      <4>2. PICK i \in 1..n - 1 : i = n - m
        BY <3>2
      <4>3. g[i + 1] = f[i + 1 + 1]
        BY <2>5, <4>1, <4>2
      <4>4. g[i] = s[i + 1] + g[i + 1]
        BY <2>2, <2>4, <4>2
      <4>5. f[i + 1] = s[i + 1] + f[i + 1 + 1]
        BY <1>3, <4>2
      <4> QED BY <4>2, <4>3, <4>4, <4>5
    <3> QED BY <3>1, <3>2
  <2>6. Nat \subseteq G
    <3> HIDE DEF G
    <3> QED BY <2>5, Induction
  <2>7. g[1] = f[2]
    <3>1. n - 1 \in Nat /\ n - 1 < n /\ n - (n - 1) = 1
      BY <2>1
    <3> QED BY <2>6, <3>1
  <2>8. f[1] = s[1] + f[2]
    BY <1>3, <2>1
  <2>9. Head(s) = s[1] /\ s[1] \in Nat
    BY <1>1, <1>6, <2>1, HeadTailProperties
  <2> QED BY <1>2, <2>2, <2>3, <2>7, <2>8, <2>9
<1>7. Sum(s) \in Nat
  BY <1>2, <1>4
<1> QED BY <1>5, <1>6, <1>7

-----------------------------------------------------------------------------
(* The bytes of a length *)

\* Seven bits, and what is left.
LEMMA SevenBits ==
  ASSUME NEW n \in Nat
  PROVE  /\ n \div 128 \in Nat /\ n % 128 \in 0..127
         /\ \E x \in Nat, y \in 0..127 : n \div 128 = x /\ n % 128 = y /\ n = 128 * x + y
         /\ n >= 128 <=> n \div 128 > 0
         /\ n \div 128 > 0 => n \div 128 \in 0..n - 1
<1>1. PICK q \in Nat : n \div 128 = q /\ n % 128 = n - 128 * q
  OBVIOUS
<1>2. n % 128 \in 0..127
  OBVIOUS
<1>3. PICK r \in 0..127 : r = n % 128 /\ n = 128 * q + r
  BY <1>1, <1>2
<1>4. (n >= 128 <=> q > 0) /\ (q > 0 => q \in 0..n - 1)
  BY <1>3
<1>5. n \div 128 = q /\ n % 128 = r
  BY <1>1, <1>3
<1>6. n \div 128 \in Nat /\ n % 128 \in 0..127
  BY <1>5
<1>7. \E x \in Nat, y \in 0..127 : n \div 128 = x /\ n % 128 = y /\ n = 128 * x + y
  BY <1>3, <1>5
<1>8. n >= 128 <=> n \div 128 > 0
  BY <1>4, <1>5
<1>9. n \div 128 > 0 => n \div 128 \in 0..n - 1
  BY <1>4, <1>5
<1> QED BY <1>6, <1>7, <1>8, <1>9

\* The bytes of n, if f has those of smaller numbers.
ByteStep(f, n) == IF n \div 128 > 0 THEN <<128 + (n % 128)>> \o f[n \div 128]
                                    ELSE <<n % 128>>
UpTo(m, f) == f = [n \in 0..m |-> ByteStep(f, n)]

\* The bytes of the numbers up to m.
LEMMA UpToExists == ASSUME NEW m \in Nat PROVE \E f : UpTo(m, f)
<1> DEFINE G == {n \in Nat : \E f : UpTo(n, f)}
<1>1. ASSUME NEW n \in Nat, \A k \in 0..n - 1 : k \in G PROVE n \in G
  <2>1. PICK g : n # 0 => UpTo(n - 1, g)
    <3>1. n # 0 => n - 1 \in 0..n - 1
      OBVIOUS
    <3> QED BY <1>1, <3>1
  <2>2. PICK f : f = [k \in 0..n |-> IF k < n THEN g[k] ELSE ByteStep(g, n)]
    OBVIOUS
  <2>3. ASSUME NEW k \in 0..n PROVE f[k] = ByteStep(f, k)
    <3>1. k \div 128 > 0 => k \div 128 \in 0..k - 1
      BY SevenBits
    <3>2. k \div 128 > 0 => f[k \div 128] = g[k \div 128]
      BY <2>2, <3>1
    <3>3. ByteStep(f, k) = ByteStep(g, k)
      BY <3>2 DEF ByteStep
    <3>4. CASE k = n
      BY <3>3, <3>4, <2>2
    <3>5. CASE k # n
      <4>1. n # 0 /\ k \in 0..n - 1 /\ k < n
        BY <3>5
      <4>2. g[k] = ByteStep(g, k)
        BY <4>1, <2>1 DEF UpTo
      <4> QED BY <4>1, <4>2, <3>3, <2>2
    <3> QED BY <3>4, <3>5
  <2>4. UpTo(n, f)
    BY <2>2, <2>3 DEF UpTo
  <2> QED BY <2>4
<1>2. Nat \subseteq G
  <2> HIDE DEF G
  <2> QED BY <1>1, Induction
<1> QED BY <1>2

\* They do not depend on m.
LEMMA UpToAgree ==
  ASSUME NEW m \in Nat, NEW n \in 0..m, NEW f, NEW g, UpTo(m, f), UpTo(n, g)
  PROVE  f[n] = g[n]
<1> DEFINE G == {k \in Nat : k <= n => f[k] = g[k]}
<1>1. ASSUME NEW k \in Nat, \A j \in 0..k - 1 : j \in G PROVE k \in G
  <2> SUFFICES ASSUME k <= n PROVE f[k] = g[k]
    OBVIOUS
  <2>1. k \div 128 > 0 => k \div 128 \in 0..k - 1
    BY SevenBits
  <2>2. k \div 128 > 0 => f[k \div 128] = g[k \div 128]
    BY <1>1, <2>1
  <2>3. ByteStep(f, k) = ByteStep(g, k)
    BY <2>2 DEF ByteStep
  <2>4. k \in 0..m /\ k \in 0..n
    OBVIOUS
  <2>5. f[k] = ByteStep(f, k) /\ g[k] = ByteStep(g, k)
    BY <2>4 DEF UpTo
  <2> QED BY <2>3, <2>5
<1>2. Nat \subseteq G
  <2> HIDE DEF G
  <2> QED BY <1>1, Induction
<1> QED BY <1>2

\* There is a function as HeaderBytes says (base_packet.py 44-55).
LEMMA HeaderBytesLaw == \A n \in Nat : HeaderBytes[n] = ByteStep(HeaderBytes, n)
<1> DEFINE Law(f) == f = [n \in Nat |-> IF n \div 128 > 0
                                        THEN <<128 + (n % 128)>> \o f[n \div 128]
                                        ELSE <<n % 128>>]
<1>1. PICK G : G = [m \in Nat |-> CHOOSE f : UpTo(m, f)]
  OBVIOUS
<1>2. \A m \in Nat : UpTo(m, G[m])
  BY <1>1, UpToExists
<1>3. PICK h : h = [n \in Nat |-> G[n][n]]
  OBVIOUS
<1>4. ASSUME NEW n \in Nat PROVE h[n] = ByteStep(h, n)
  <2>1. n \div 128 > 0 => n \div 128 \in 0..n - 1
    BY SevenBits
  <2>2. ASSUME n \div 128 > 0 PROVE h[n \div 128] = G[n][n \div 128]
    <3>1. PICK q \in 0..n : q = n \div 128
      BY <2>1, <2>2
    <3>2. G[n][q] = G[q][q]
      BY <1>2, UpToAgree
    <3> QED BY <3>1, <3>2, <1>3
  <2>3. ByteStep(h, n) = ByteStep(G[n], n)
    BY <2>2 DEF ByteStep
  <2>4. G[n][n] = ByteStep(G[n], n)
    <3>1. UpTo(n, G[n]) /\ n \in 0..n
      BY <1>2
    <3> QED BY <3>1 DEF UpTo
  <2>5. h[n] = G[n][n]
    BY <1>3
  <2> QED BY <2>3, <2>4, <2>5, Zenon
<1>5. Law(h)
  BY <1>3, <1>4 DEF ByteStep
<1>6. Law(HeaderBytes)
  <2>1. HeaderBytes = CHOOSE f : Law(f)
    BY DEF HeaderBytes
  <2> HIDE DEF Law
  <2> QED BY <1>5, <2>1
<1> QED BY <1>6 DEF ByteStep

\* There is at least one, and each says whether another follows.
LEMMA HeaderBytesType ==
  ASSUME NEW n \in Nat
  PROVE  /\ HeaderBytes[n] \in Seq(Nat) /\ Len(HeaderBytes[n]) >= 1
         /\ n < 128 => HeaderBytes[n] = <<n>>
         /\ n >= 128 => HeaderBytes[n] = <<128 + (n % 128)>> \o HeaderBytes[n \div 128]
<1> DEFINE G == {k \in Nat : HeaderBytes[k] \in Seq(Nat) /\ Len(HeaderBytes[k]) >= 1}
<1>1. ASSUME NEW k \in Nat
      PROVE  /\ k < 128 => HeaderBytes[k] = <<k>>
             /\ k >= 128 => HeaderBytes[k] = <<128 + (k % 128)>> \o HeaderBytes[k \div 128]
  <2>1. HeaderBytes[k] = ByteStep(HeaderBytes, k)
    BY HeaderBytesLaw
  <2>2. CASE k < 128
    <3>1. ~(k \div 128 > 0) /\ k % 128 = k
      BY <2>2
    <3> QED BY <2>1, <2>2, <3>1 DEF ByteStep
  <2>3. CASE k >= 128
    <3>1. k \div 128 > 0
      BY <2>3
    <3> QED BY <2>1, <2>3, <3>1 DEF ByteStep
  <2> QED BY <2>2, <2>3
<1>2. ASSUME NEW k \in Nat, \A j \in 0..k - 1 : j \in G PROVE k \in G
  <2>1. CASE k < 128
    <3>1. <<k>> \in Seq(Nat) /\ Len(<<k>>) >= 1
      OBVIOUS
    <3>2. HeaderBytes[k] = <<k>>
      BY <2>1, <1>1
    <3> QED BY <3>1, <3>2, Zenon
  <2>2. CASE k >= 128
    <3>1. PICK q \in 0..k - 1 : q = k \div 128
      BY <2>2, SevenBits
    <3>2. PICK b \in Nat : b = 128 + (k % 128)
      BY SevenBits
    <3>3. PICK s \in Seq(Nat) : s = HeaderBytes[q] /\ Len(s) >= 1
      BY <1>2
    <3>4. <<b>> \in Seq(Nat) /\ Len(<<b>>) = 1
      OBVIOUS
    <3>5. <<b>> \o s \in Seq(Nat) /\ Len(<<b>> \o s) = 1 + Len(s)
      BY <3>4, ConcatProperties
    <3>6. HeaderBytes[k] = <<b>> \o s
      BY <2>2, <1>1, <3>1, <3>2, <3>3
    <3>7. Len(<<b>> \o s) >= 1
      BY <3>3, <3>5, LenProperties
    <3> QED BY <3>5, <3>6, <3>7
  <2> QED BY <2>1, <2>2
<1>3. Nat \subseteq G
  <2> HIDE DEF G
  <2> QED BY <1>2, Induction
<1> QED BY <1>1, <1>3

-----------------------------------------------------------------------------
(* Packets *)

\* What may be left of a packet behind the fields of fixed place.
Extra(p, rest) ==
  IF p.type = "PUBLISH" THEN rest = p.data
  ELSE IF Items(p) = <<>> THEN rest = 0
  ELSE \E n \in Nat : rest = n * Sum(Items(p))

\* A field of a string, of bytes, or left out (packet/types).
LEMMA FieldType ==
  ASSUME NEW n \in Nat, NEW reads \in Seq(Nat), NEW condition \in BOOLEAN
  PROVE  /\ Str(n) \in Seq(Nat) /\ Str(n) # <<>> /\ Str(n)[1] = 2 /\ Len(Str(n)) >= 1
         /\ Bytes(n) \in Seq(Nat)
         /\ Only(condition, reads) \in Seq(Nat)
<1>1. /\ <<2, n>> \in Seq(Nat) /\ <<2>> \in Seq(Nat) /\ <<>> \in Seq(Nat)
      /\ <<2, n>>[1] = 2 /\ <<2>>[1] = 2 /\ Len(<<2, n>>) = 2 /\ Len(<<2>>) = 1
      /\ <<2, n>> # <<>> /\ <<2>> # <<>>
  OBVIOUS
<1>2. Str(n) = <<2, n>> \/ Str(n) = <<2>>
  BY DEF Str
<1>3. PICK long, short : long = <<2, n>> /\ short = <<2>>
  OBVIOUS
<1>3a. /\ long \in Seq(Nat) /\ long # <<>> /\ long[1] = 2 /\ Len(long) >= 1
      /\ short \in Seq(Nat) /\ short # <<>> /\ short[1] = 2 /\ Len(short) >= 1
  BY <1>1, <1>3
<1>3b. Str(n) \in Seq(Nat) /\ Str(n) # <<>> /\ Str(n)[1] = 2 /\ Len(Str(n)) >= 1
  BY <1>2, <1>3, <1>3a
<1>4. Only(condition, reads) = reads \/ Only(condition, reads) = <<>>
  BY DEF Only
<1> QED BY <1>1, <1>3b, <1>4 DEF Bytes

\* Joined fields are fields.
LEMMA Joined == ASSUME NEW s \in Seq(Nat), NEW t \in Seq(Nat) PROVE s \o t \in Seq(Nat)
BY ConcatProperties

\* The fields of a packet are numbers of bytes.
LEMMA FieldsType ==
  ASSUME NEW p \in Packets, NEW qos \in Nat
  PROVE  Fields(p, qos) \in Seq(Nat)
<1>1. p.str \in Nat /\ p.data \in Nat /\ p.type \in Types
  BY DEF Packets
<1>2. /\ <<1, 1, 2>> \in Seq(Nat) /\ <<1, 1>> \in Seq(Nat) /\ <<2>> \in Seq(Nat)
      /\ <<>> \in Seq(Nat)
  OBVIOUS
<1>3. PICK s \in Seq(Nat) : s = Str(p.str)
  BY <1>1, <1>2, FieldType
<1>4. PICK b \in Seq(Nat) : b = Bytes(p.data)
  BY <1>1, <1>2, FieldType
<1>5. CASE p.type = "CONNECT"
  <2>1. PICK x \in BOOLEAN, y \in BOOLEAN, z \in BOOLEAN :
          x = Bit(p.flags, 4) /\ y = Bit(p.flags, 128) /\ z = Bit(p.flags, 64)
    BY DEF Bit
  <2>2. s \o b \in Seq(Nat)
    BY Joined
  <2>3. PICK u \in Seq(Nat) : u = Only(x, s \o b)
    BY <1>1, <2>2, FieldType
  <2>4. PICK v \in Seq(Nat) : v = Only(y, s)
    BY <1>1, FieldType
  <2>5. PICK w \in Seq(Nat) : w = Only(z, s)
    BY <1>1, FieldType
  <2>6. Fields(p, qos) = s \o <<1, 1, 2>> \o s \o u \o v \o w
    BY <1>3, <1>4, <1>5, <2>1, <2>3, <2>4, <2>5 DEF Fields
  <2>7. s \o <<1, 1, 2>> \o s \in Seq(Nat)
    BY <1>2, Joined
  <2>8. s \o <<1, 1, 2>> \o s \o u \o v \in Seq(Nat)
    BY <2>7, Joined
  <2>9. s \o <<1, 1, 2>> \o s \o u \o v \o w \in Seq(Nat)
    BY <2>8, Joined
  <2> QED BY <2>6, <2>9
<1>6. CASE p.type = "PUBLISH"
  <2>1. PICK x \in BOOLEAN : x = (qos > 0)
    <3>1. (qos > 0) \in BOOLEAN
      OBVIOUS
    <3> QED BY <3>1, Zenon
  <2>2. PICK u \in Seq(Nat) : u = Only(x, <<2>>)
    BY <1>1, <1>2, FieldType
  <2>3. Fields(p, qos) = s \o u
    BY <1>3, <1>6, <2>1, <2>2 DEF Fields
  <2> QED BY <2>3, Joined
<1>7. CASE p.type = "CONNACK"
  BY <1>2, <1>7 DEF Fields
<1>8. CASE p.type \in {"PUBACK", "SUBSCRIBE", "UNSUBSCRIBE", "SUBACK"}
  BY <1>2, <1>8 DEF Fields
<1>9. CASE p.type = "PINGREQ"
  BY <1>2, <1>9 DEF Fields
<1> QED BY <1>1, <1>5, <1>6, <1>7, <1>8, <1>9 DEF Types

\* An item of a list takes some bytes.
LEMMA ItemsType ==
  ASSUME NEW p \in Packets
  PROVE  /\ Items(p) \in Seq(Nat)
         /\ Sum(Items(p)) \in Nat
         /\ Items(p) # <<>> => Sum(Items(p)) > 0
<1>1. p.str \in Nat /\ p.type \in Types
  BY DEF Packets
<1>2. <<1>> \in Seq(Nat) /\ <<>> \in Seq(Nat) /\ <<1>>[1] = 1 /\ <<1>> # <<>>
  OBVIOUS
<1>3. PICK s \in Seq(Nat) : s = Str(p.str) /\ s[1] = 2 /\ Len(s) >= 1 /\ s # <<>>
  BY <1>1, <1>2, FieldType
<1>4. s \o <<1>> \in Seq(Nat) /\ s \o <<1>> # <<>> /\ (s \o <<1>>)[1] = 2
  BY <1>2, <1>3, ConcatProperties, EmptySeq
<1>5. PICK t : t = Items(p)
  OBVIOUS
<1>6. t \in {s \o <<1>>, s, <<1>>, <<>>}
  BY <1>3, <1>5 DEF Items
<1>7. t \in Seq(Nat) /\ (t # <<>> => t[1] \in {1, 2})
  BY <1>2, <1>3, <1>4, <1>6
<1>8. ASSUME t # <<>>
      PROVE  Head(t) = t[1] /\ Sum(t) = Head(t) + Sum(Tail(t)) /\ Sum(Tail(t)) \in Nat
  <2>1. Sum(t) = Head(t) + Sum(Tail(t)) /\ Tail(t) \in Seq(Nat)
    BY <1>7, <1>8, SumLaw
  <2>2. Sum(Tail(t)) \in Nat
    BY <2>1, SumLaw
  <2>3. Head(t) = t[1]
    BY <1>7
  <2> QED BY <2>1, <2>2, <2>3
<1>9. Sum(t) \in Nat
  BY <1>7, SumLaw
<1>10. t # <<>> => Sum(t) > 0
  BY <1>7, <1>8
<1> QED BY <1>5, <1>7, <1>9, <1>10

\* The flags say the qos again (packet/flags, base_packet.py 28-34), and the length
\* is that of the fields and of what follows them.
LEMMA PacketType ==
  ASSUME NEW p \in Packets
  PROVE  /\ Fields(p, QosOf(FlagsOf(p))) = Fields(p, p.qos)
         /\ Length(p) \in Nat
         /\ \E extra \in Nat : Extra(p, extra) /\ Length(p) = Sum(Fields(p, p.qos)) + extra
         /\ Len(HeaderBytes[Length(p)]) \in Nat \ {0}
         /\ Size(p) = 1 + Len(HeaderBytes[Length(p)]) + Length(p)
         /\ Size(p) \in Nat \ {0}
<1>1. p.str \in Nat /\ p.data \in Nat /\ p.type \in Types /\ p.qos \in 0..3
  BY DEF Packets
<1>2. Fields(p, QosOf(FlagsOf(p))) = Fields(p, p.qos)
  <2>1. CASE p.type = "PUBLISH"
    <3>1. PICK b \in {0, 1} : FlagsOf(p) = b + 2 * p.qos
      BY <2>1 DEF FlagsOf, PublishFlags
    <3>2. ASSUME NEW q \in 0..3 PROVE ((b + 2 * q) % 8) \div 2 = q
      <4>1. (b + 2 * q) % 8 = b + 2 * q
        OBVIOUS
      <4>2. (b + 2 * q) \div 2 = q
        OBVIOUS
      <4> QED BY <4>1, <4>2
    <3> QED BY <1>1, <3>1, <3>2 DEF QosOf
  <2>2. CASE p.type # "PUBLISH"
    BY <2>2 DEF Fields
  <2> QED BY <2>1, <2>2
<1>3. PICK sum \in Nat : sum = Sum(Fields(p, p.qos))
  <2>1. p.qos \in Nat
    BY <1>1
  <2> QED BY <2>1, FieldsType, SumLaw
<1>4. PICK item \in Nat : item = Sum(Items(p))
  BY ItemsType
<1>5. PICK extra \in Nat : Extra(p, extra) /\ Length(p) = Sum(Fields(p, p.qos)) + extra
  <2> DEFINE e == IF p.type = "PUBLISH" THEN p.data
                  ELSE IF Items(p) = <<>> THEN 0 ELSE p.data * item
  <2>1. e \in Nat
    BY <1>1
  <2>2. Extra(p, e)
    BY <1>1, <1>4 DEF Extra
  <2>3. Length(p) = Sum(Fields(p, p.qos)) + e
    BY <1>4 DEF Length
  <2> QED BY <2>1, <2>2, <2>3
<1>6. Length(p) \in Nat
  BY <1>3, <1>5
<1>7. Len(HeaderBytes[Length(p)]) \in Nat \ {0}
  <2>1. PICK s \in Seq(Nat) : s = HeaderBytes[Length(p)] /\ Len(s) >= 1
    BY <1>6, HeaderBytesType
  <2>2. Len(s) \in Nat
    BY LenProperties
  <2> QED BY <2>1, <2>2
<1>8. Size(p) = 1 + Len(HeaderBytes[Length(p)]) + Length(p)
  BY DEF Size
<1>9. Size(p) \in Nat \ {0}
  BY <1>6, <1>7, <1>8
<1> QED BY <1>2, <1>5, <1>6, <1>7, <1>8, <1>9

-----------------------------------------------------------------------------
(* Frames *)

\* A length of 16 bits (frame.py 88-89).
LEMMA TwoBytes == ASSUME NEW x, NEW y PROVE RecvLength(<<126, x, y>>) = 256 * x + y
BY DEF RecvLength

\* What a frame says of its length is what is read of it, for every fragment
\* that is written (frame.py 60-70, 83-91, handler.py 24).
LEMMA LengthRead == ASSUME NEW n \in 0..OutSize PROVE RecvLength(FrameLength(n)) = n
<1>1. n \in Nat /\ n <= 2040
  BY DEF OutSize
<1>2. CASE n < 126
  <2>1. FrameLength(n) = <<n>>
    BY <1>1, <1>2 DEF FrameLength
  <2>2. <<n>>[1] = n /\ n # 126 /\ n # 127
    BY <1>2
  <2> QED BY <2>1, <2>2 DEF RecvLength
<1>3. CASE n >= 126
  <2>1. PICK q \in 0..7 : n \div 256 = q /\ n % 256 = n - 256 * q
    BY <1>1
  <2>2. PICK high, low : high = (n \div 256) % 256 /\ low = n % 256
    OBVIOUS
  <2>3. q % 256 = q
    OBVIOUS
  <2>4. high = q
    BY <2>1, <2>2, <2>3
  <2>5. low = n - 256 * q
    BY <2>1, <2>2
  <2>6. FrameLength(n) = <<126, high, low>>
    BY <1>1, <1>3, <2>2 DEF FrameLength
  <2>7. RecvLength(FrameLength(n)) = 256 * high + low
    BY <2>6, TwoBytes
  <2>8. 256 * high + low = n
    BY <2>4, <2>5, <1>1
  <2> QED BY <2>7, <2>8
<1> QED BY <1>1, <1>2, <1>3

\* A fragment of a message.
LEMMA DataFrame ==
  ASSUME NEW w \in Writers, NEW first \in BOOLEAN, NEW fin \in BOOLEAN, NEW from \in Nat,
         NEW n \in 1..OutSize
  PROVE  LET f == Data(w, first, fin, from, n)
         IN /\ f \in Frames /\ f.op \in DataOps /\ f.fin = fin /\ f.by = w /\ f.from = from
            /\ f.op = "CONTINUATION" <=> ~first
            /\ End(f) = from + n
<1> DEFINE f == Data(w, first, fin, from, n)
<1>1. /\ f.op = IF first THEN "BYTES" ELSE "CONTINUATION"
      /\ f.fin = fin /\ f.from = from /\ f.by = w /\ f.length = FrameLength(n)
  BY DEF Data
<1>2. n \in 0..OutSize
  BY DEF OutSize
<1>3. RecvLength(f.length) = n
  BY <1>1, <1>2, LengthRead
<1>4. f \in Frames
  BY DEF Frames
<1> QED BY <1>1, <1>3, <1>4 DEF DataOps, End

\* Every frame is a fragment or a control frame, and its type says which.
LEMMA FrameType ==
  ASSUME NEW f \in Frames
  PROVE  /\ f.op \in DataOps => /\ f.fin \in BOOLEAN /\ f.from \in Nat /\ f.by \in Writers
                                /\ RecvLength(f.length) \in Nat
         /\ f.op \in DataOps \cup ControlOps
<1>1. CASE f \in {Control(op, n) : op \in ControlOps, n \in Nat}
  BY <1>1 DEF Control, DataOps, ControlOps
<1>2. ASSUME NEW w \in Writers, NEW first \in BOOLEAN, NEW fin \in BOOLEAN, NEW from \in Nat,
             NEW n \in 1..OutSize, f = Data(w, first, fin, from, n)
      PROVE  /\ f.op \in DataOps /\ f.fin \in BOOLEAN /\ f.from \in Nat /\ f.by \in Writers
             /\ RecvLength(f.length) \in Nat
  <2>1. n \in 0..OutSize /\ n \in Nat
    BY DEF OutSize
  <2>2. /\ f.length = FrameLength(n) /\ f.from = from /\ f.op \in DataOps /\ f.fin = fin
        /\ f.by = w
    BY <1>2 DEF Data, DataOps
  <2> QED BY <2>1, <2>2, LengthRead
<1> QED BY <1>1, <1>2 DEF Frames

\* A control frame is one, whatever it holds.
LEMMA ControlFrame ==
  ASSUME NEW op \in ControlOps, NEW n \in Nat
  PROVE  Control(op, n) \in Frames /\ Control(op, n).op \notin DataOps
<1>1. Control(op, n).op = op
  BY DEF Control
<1> QED BY <1>1 DEF Frames, DataOps, ControlOps

\* A send that fails takes nothing from the frames under way.
LEMMA ChainMore ==
  ASSUME NEW fs, NEW from, NEW begun, NEW to, NEW unfinished, NEW failed, NEW more,
         failed \subseteq more, Chain(fs, from, begun, to, unfinished, failed)
  PROVE  Chain(fs, from, begun, to, unfinished, more)
<1>1. ASSUME NEW f, NEW x, NEW u, Follows(f, x, u, failed) PROVE Follows(f, x, u, more)
  BY <1>1 DEF Follows
<1> QED BY <1>1 DEF Chain

\* A control frame may fall anywhere.
LEMMA ChainControl ==
  ASSUME NEW fs \in Seq(Frames), NEW f \in Frames, f.op \notin DataOps,
         NEW from, NEW begun, NEW to, NEW unfinished, NEW failed,
         Chain(fs, from, begun, to, unfinished, failed)
  PROVE  Chain(Append(fs, f), from, begun, to, unfinished, failed)
<1> DEFINE gs == Append(fs, f)
<1>1. PICK m \in Nat : m = Len(fs)
  BY LenProperties
<1>2. /\ DOMAIN fs = 1..m /\ DOMAIN gs = 1..m + 1
      /\ \A k \in 1..m : gs[k] = fs[k]
      /\ gs[m + 1] = f
  BY <1>1, LenProperties, AppendProperties
<1> HIDE DEF gs
<1>3. DataIn(gs) = DataIn(fs) /\ \A k \in DataIn(fs) : gs[k] = fs[k]
  BY <1>1, <1>2 DEF DataIn
<1>4. Chain(gs, from, begun, to, unfinished, failed)
  BY <1>3 DEF Chain
<1> QED BY <1>4 DEF gs

\* The next fragment takes the stream on.
LEMMA ChainData ==
  ASSUME NEW fs \in Seq(Frames), NEW f \in Frames, f.op \in DataOps,
         NEW from, NEW begun, NEW to, NEW unfinished, NEW failed,
         Chain(fs, from, begun, to, unfinished, failed), Follows(f, to, unfinished, failed)
  PROVE  Chain(Append(fs, f), from, begun, End(f), Unfinished(f), failed)
<1> DEFINE gs == Append(fs, f)
<1>1. PICK m \in Nat : m = Len(fs)
  BY LenProperties
<1>2. /\ DOMAIN fs = 1..m /\ DOMAIN gs = 1..m + 1
      /\ \A k \in 1..m : gs[k] = fs[k]
      /\ gs[m + 1] = f
  BY <1>1, LenProperties, AppendProperties
<1> HIDE DEF gs
<1>3. /\ DataIn(gs) = DataIn(fs) \cup {m + 1}
      /\ DataIn(fs) \subseteq 1..m
      /\ \A k \in DataIn(fs) : gs[k] = fs[k]
  BY <1>1, <1>2 DEF DataIn
<1>4. ASSUME NEW k \in DataIn(gs), \A j \in DataIn(gs) : k <= j
      PROVE  Follows(gs[k], from, begun, failed)
  <2>1. CASE k \in DataIn(fs)
    BY <2>1, <1>3, <1>4 DEF Chain
  <2>2. CASE k = m + 1
    <3>1. DataIn(fs) = {}
      BY <2>2, <1>3, <1>4
    <3>2. from = to /\ begun = unfinished
      BY <3>1 DEF Chain
    <3> QED BY <2>2, <3>2, <1>2
  <2> QED BY <2>1, <2>2, <1>3
<1>5. ASSUME NEW j \in DataIn(gs), NEW k \in DataIn(gs), j < k,
             \A i \in DataIn(gs) : i <= j \/ k <= i
      PROVE  Follows(gs[k], End(gs[j]), Unfinished(gs[j]), failed)
  <2>1. j \in DataIn(fs)
    BY <1>3, <1>5
  <2>2. CASE k \in DataIn(fs)
    BY <2>1, <2>2, <1>3, <1>5 DEF Chain
  <2>3. CASE k = m + 1
    <3>1. \A i \in DataIn(fs) : i <= j
      BY <2>3, <1>3, <1>5
    <3>2. End(fs[j]) = to /\ Unfinished(fs[j]) = unfinished
      BY <2>1, <3>1 DEF Chain
    <3>3. gs[k] = f /\ gs[j] = fs[j]
      BY <2>1, <2>3, <1>2, <1>3
    <3> QED BY <3>2, <3>3, Zenon
  <2> QED BY <2>2, <2>3, <1>3
<1>6. ASSUME NEW k \in DataIn(gs), \A j \in DataIn(gs) : j <= k
      PROVE  End(gs[k]) = End(f) /\ Unfinished(gs[k]) = Unfinished(f)
  <2>1. k = m + 1
    <3>1. m + 1 \in DataIn(gs) /\ k \in 1..m + 1
      BY <1>1, <1>3
    <3>2. m + 1 <= k
      BY <1>6, <3>1
    <3> QED BY <1>1, <3>1, <3>2
  <2> QED BY <2>1, <1>2
<1>7. DataIn(gs) # {}
  BY <1>3
<1>8. Chain(gs, from, begun, End(f), Unfinished(f), failed)
  BY <1>4, <1>5, <1>6, <1>7 DEF Chain
<1> QED BY <1>8 DEF gs

\* Taking the first frame.
LEMMA ChainTail ==
  ASSUME NEW fs \in Seq(Frames), fs # <<>>,
         NEW from, NEW begun, NEW to, NEW unfinished, NEW failed,
         Chain(fs, from, begun, to, unfinished, failed)
  PROVE  /\ Head(fs) \in Frames /\ Tail(fs) \in Seq(Frames)
         /\ Head(fs).op \in DataOps =>
              /\ Follows(Head(fs), from, begun, failed)
              /\ Chain(Tail(fs), End(Head(fs)), Unfinished(Head(fs)), to, unfinished, failed)
         /\ Head(fs).op \notin DataOps => Chain(Tail(fs), from, begun, to, unfinished, failed)
<1> DEFINE gs == Tail(fs)
<1>1. PICK m \in Nat \ {0} : m = Len(fs)
  BY LenProperties, EmptySeq
<1>2. /\ DOMAIN fs = 1..m /\ DOMAIN gs = 1..m - 1
      /\ \A k \in 1..m - 1 : gs[k] = fs[k + 1]
      /\ Head(fs) = fs[1] /\ gs \in Seq(Frames)
  BY <1>1, LenProperties, HeadTailProperties
<1>3. Head(fs) \in Frames
  BY <1>1, <1>2, ElementOfSeq
<1> HIDE DEF gs
<1>4. /\ DataIn(fs) \subseteq 1..m /\ DataIn(gs) \subseteq 1..m - 1
      /\ \A k \in DataIn(gs) : k + 1 \in DataIn(fs) /\ gs[k] = fs[k + 1]
      /\ \A k \in DataIn(fs) : k = 1 \/ k - 1 \in DataIn(gs)
      /\ 1 \in DataIn(fs) <=> Head(fs).op \in DataOps
  BY <1>1, <1>2 DEF DataIn
<1>5. ASSUME NEW j \in DataIn(gs), NEW k \in DataIn(gs), j < k,
             \A i \in DataIn(gs) : i <= j \/ k <= i
      PROVE  Follows(gs[k], End(gs[j]), Unfinished(gs[j]), failed)
  <2>1. j + 1 \in DataIn(fs) /\ k + 1 \in DataIn(fs) /\ j + 1 < k + 1
    BY <1>4, <1>5
  <2>2. \A i \in DataIn(fs) : i <= j + 1 \/ k + 1 <= i
    <3> SUFFICES ASSUME NEW i \in DataIn(fs) PROVE i <= j + 1 \/ k + 1 <= i
      OBVIOUS
    <3>1. i = 1 \/ i - 1 <= j \/ k <= i - 1
      BY <1>4, <1>5
    <3> QED BY <3>1, <1>1, <1>4
  <2>3. Follows(fs[k + 1], End(fs[j + 1]), Unfinished(fs[j + 1]), failed)
    BY <2>1, <2>2 DEF Chain
  <2> QED BY <2>3, <1>4
<1>6. ASSUME NEW k \in DataIn(gs), \A j \in DataIn(gs) : j <= k
      PROVE  End(gs[k]) = to /\ Unfinished(gs[k]) = unfinished
  <2>1. k + 1 \in DataIn(fs) /\ \A j \in DataIn(fs) : j <= k + 1
    BY <1>4, <1>6
  <2>2. End(fs[k + 1]) = to /\ Unfinished(fs[k + 1]) = unfinished
    BY <2>1 DEF Chain
  <2> QED BY <2>2, <1>4
<1>7. ASSUME Head(fs).op \in DataOps
      PROVE  /\ Follows(Head(fs), from, begun, failed)
             /\ Chain(gs, End(Head(fs)), Unfinished(Head(fs)), to, unfinished, failed)
  <2>1. 1 \in DataIn(fs) /\ \A j \in DataIn(fs) : 1 <= j
    BY <1>4, <1>7
  <2>2. Follows(Head(fs), from, begun, failed)
    BY <2>1, <1>2 DEF Chain
  <2>3. ASSUME DataIn(gs) = {} PROVE End(Head(fs)) = to /\ Unfinished(Head(fs)) = unfinished
    <3>1. \A j \in DataIn(fs) : j <= 1
      BY <2>3, <1>4
    <3> QED BY <2>1, <3>1, <1>2 DEF Chain
  <2>4. ASSUME NEW k \in DataIn(gs), \A j \in DataIn(gs) : k <= j
        PROVE  Follows(gs[k], End(Head(fs)), Unfinished(Head(fs)), failed)
    <3>1. k + 1 \in DataIn(fs) /\ 1 < k + 1
      BY <1>4
    <3>2. \A i \in DataIn(fs) : i <= 1 \/ k + 1 <= i
      BY <1>4, <2>4
    <3>3. Follows(fs[k + 1], End(fs[1]), Unfinished(fs[1]), failed)
      BY <2>1, <3>1, <3>2 DEF Chain
    <3> QED BY <3>3, <1>2, <1>4
  <2> QED BY <2>2, <2>3, <2>4, <1>5, <1>6 DEF Chain
<1>8. ASSUME Head(fs).op \notin DataOps PROVE Chain(gs, from, begun, to, unfinished, failed)
  <2>1. \A k \in DataIn(fs) : k - 1 \in DataIn(gs)
    BY <1>4, <1>8
  <2>2. ASSUME DataIn(gs) = {} PROVE from = to /\ begun = unfinished
    BY <2>1, <2>2 DEF Chain
  <2>3. ASSUME NEW k \in DataIn(gs), \A j \in DataIn(gs) : k <= j
        PROVE  Follows(gs[k], from, begun, failed)
    <3>1. k + 1 \in DataIn(fs) /\ \A j \in DataIn(fs) : k + 1 <= j
      BY <1>4, <2>1, <2>3
    <3>2. Follows(fs[k + 1], from, begun, failed)
      BY <3>1 DEF Chain
    <3> QED BY <3>2, <1>4
  <2> QED BY <2>2, <2>3, <1>5, <1>6 DEF Chain
<1> QED BY <1>2, <1>3, <1>7, <1>8 DEF gs

-----------------------------------------------------------------------------
(* Writing *)

USE DEF writing, wires, buffers, reading

\* The last packet is of one of the threads.
LEMMA LatestType ==
  ASSUME TypeInv, written # <<>>
  PROVE  /\ Len(written) \in Nat \ {0} /\ DOMAIN written = 1..Len(written)
         /\ Len(written) \in DOMAIN written
         /\ Latest.by \in Writers /\ Latest.start \in Nat
<1>1. Len(written) \in Nat \ {0} /\ DOMAIN written = 1..Len(written)
  BY LenProperties, EmptySeq DEF TypeInv
<1>2. Len(written) \in DOMAIN written
  BY <1>1
<1>3. written[Len(written)] \in [by : Writers, start : Nat]
  BY <1>2, ElementOfSeq, <1>1 DEF TypeInv
<1> QED BY <1>1, <1>2, <1>3 DEF Latest

\* Sizes are positive, and positions are numbers.
LEMMA PositionType ==
  ASSUME TypeInv
  PROVE  /\ \A w \in Writers : Size(packets[w]) \in Nat \ {0}
         /\ Position \in Nat
<1>1. \A w \in Writers : Size(packets[w]) \in Nat \ {0}
  BY PacketAssumption, PacketType DEF TypeInv
<1>2. Position \in Nat
  <2>1. CASE written = <<>>
    BY <2>1 DEF Position
  <2>2. CASE written # <<>>
    <3>1. Latest.by \in Writers /\ Latest.start \in Nat
      BY <2>2, LatestType
    <3>2. sent[Latest.by] \in Nat
      BY <3>1 DEF TypeInv
    <3> QED BY <2>2, <3>1, <3>2 DEF Position
  <2> QED BY <2>1, <2>2
<1> QED BY <1>1, <1>2

\* Nothing is written yet, and nothing is under way.
LEMMA TransportInit == Init => TransportInv
<1> SUFFICES ASSUME Init PROVE TransportInv
  OBVIOUS
<1> USE DEF Init
<1>1. TypeInv
  <2>1. packets \in [Writers -> Payloads \cup LargePackets]
    OBVIOUS
  <2>2. written \in Seq([by : Writers, start : Nat]) /\ frames \in Seq(Frames)
    BY EmptySeq
  <2> QED BY <2>1, <2>2 DEF TypeInv
<1>2. WrittenInv
  <2>1. \A w \in Writers : Size(packets[w]) \in Nat \ {0}
    BY <1>1, PositionType
  <2> QED BY <2>1 DEF WrittenInv
<1>3. Flows(received, within)
  <2>1. DataIn(frames) = {}
    BY DEF DataIn
  <2>2. Position = 0 /\ LeftOpen = {}
    BY DEF Position, LeftOpen
  <2> QED BY <2>1, <2>2 DEF Chain, Flows
<1> QED BY <1>1, <1>2, <1>3 DEF TransportInv, FrameInv

\* A message without its last fragment is of a thread whose send has failed, for
\* the thread that has the lock.
LEMMA LeftByFailed ==
  ASSUME TypeInv, WrittenInv, NEW w \in Writers, pc[w] = "send"
  PROVE  /\ w \in LeftOpen <=> sent[w] # 0
         /\ LeftOpen \ {w} \subseteq Failed
<1>1. w \in LeftOpen <=> sent[w] # 0
  <2>1. ASSUME w \in LeftOpen PROVE sent[w] # 0
    <3>1. written # <<>> /\ w = Latest.by
      BY <2>1 DEF LeftOpen
    <3> QED BY <3>1, LatestType DEF WrittenInv, Latest
  <2>2. ASSUME sent[w] # 0 PROVE w \in LeftOpen
    <3>1. written # <<>> /\ Latest.by = w /\ sent[w] # Size(packets[w]) /\ sent[w] <= Size(packets[w])
      BY <2>2 DEF WrittenInv
    <3>2. sent[w] \in Nat /\ Size(packets[w]) \in Nat
      BY PositionType DEF TypeInv
    <3>3. sent[w] < Size(packets[w])
      BY <3>1, <3>2
    <3> QED BY <3>1, <3>3 DEF LeftOpen
  <2> QED BY <2>1, <2>2
<1>2. ASSUME NEW v \in LeftOpen, v # w PROVE v \in Failed
  <2>1. written # <<>> /\ v = Latest.by /\ sent[v] < Size(packets[v])
    BY <1>2 DEF LeftOpen
  <2>2. v \in Writers /\ sent[v] # 0
    BY <2>1, LatestType DEF WrittenInv, Latest
  <2>3. sent[v] \in Nat /\ Size(packets[v]) \in Nat
    BY <2>2, PositionType DEF TypeInv
  <2>4. sent[v] # Size(packets[v])
    BY <2>1, <2>3
  <2>5. pc[v] # "start" /\ pc[v] # "done" /\ pc[v] # "send"
    BY <1>2, <2>2, <2>4 DEF WrittenInv
  <2> QED BY <2>2, <2>5 DEF TypeInv, Failed
<1> QED BY <1>1, <1>2

\* n more bytes of a packet of some size, of which x are sent, are in the stream:
\* where it ends, and what is last in it.
SentAs(w, size, x, n) ==
  /\ pc[w] = "send" /\ size = Size(packets[w]) /\ x = sent[w] /\ x + n <= size
  /\ sent' = [sent EXCEPT ![w] = x + n]
  /\ pc' = [pc EXCEPT ![w] = IF x + n = size THEN "done" ELSE "send"]
  /\ x = 0 => /\ DOMAIN written' = 1..Len(written) + 1 /\ Len(written') = Len(written) + 1
              /\ DOMAIN written = 1..Len(written)
              /\ \A i \in 1..Len(written) : written'[i] = written[i]
              /\ written'[Len(written) + 1] = [by |-> w, start |-> Position]
              /\ \A i \in 1..Len(written) : written[i].by # w
  /\ x # 0 => written' = written /\ written # <<>>
  /\ written' \in Seq([by : Writers, start : Nat]) /\ written' # <<>> /\ Latest'.by = w
  /\ x = 0 => Latest'.start = Position
  /\ x # 0 => Latest' = Latest /\ Latest.start \in Nat /\ Position = Latest.start + x
  /\ Position' = Position + n
  /\ LeftOpen' = IF x + n = size THEN {} ELSE {w}

\* The thread that has the lock sends the next bytes of its packet behind all that
\* was sent.
LEMMA SentPlace ==
  ASSUME TypeInv, WrittenInv, NEW w \in Writers, NEW n \in Nat \ {0}, Sent(w, n),
         n <= PacketLeft(w)
  PROVE  \E size \in Nat \ {0}, x \in Nat : x < size /\ SentAs(w, size, x, n)
<1>1. PICK size \in Nat \ {0}, x \in Nat : size = Size(packets[w]) /\ x = sent[w]
  BY PositionType DEF TypeInv
<1>2. x + n <= size /\ x < size /\ (n = size - x <=> x + n = size) /\ PacketLeft(w) = size - x
  <2>1. PacketLeft(w) = size - x
    BY <1>1 DEF PacketLeft
  <2>2. n <= size - x
    BY <2>1
  <2> QED BY <2>1, <2>2
<1>3. Position \in Nat
  BY PositionType
<1>4. StreamEnd = Position
  <2>1. Last(written) = Latest
    BY DEF Last, Latest
  <2> QED BY <2>1 DEF StreamEnd, Position
<1>5. /\ pc[w] = "send"
      /\ sent' = [sent EXCEPT ![w] = x + n]
      /\ written' = IF x = 0 THEN Append(written, [by |-> w, start |-> Position]) ELSE written
      /\ pc' = [pc EXCEPT ![w] = IF x + n = size THEN "done" ELSE "send"]
      /\ packets' = packets
  <2>1. pc' = [pc EXCEPT ![w] = IF n = size - x THEN "done" ELSE "send"]
    BY <1>2 DEF Sent
  <2>2. pc' = [pc EXCEPT ![w] = IF x + n = size THEN "done" ELSE "send"]
    BY <2>1, <1>2
  <2> QED BY <2>2, <1>1, <1>4 DEF Sent
<1>6. PICK m \in Nat : m = Len(written) /\ DOMAIN written = 1..m
  BY LenProperties DEF TypeInv
<1>7. sent'[w] = x + n
  BY <1>5 DEF TypeInv
<1>8. ASSUME written' # <<>>, Latest'.by = w
      PROVE  /\ LeftOpen' = IF x + n = size THEN {} ELSE {w}
             /\ Position' = Latest'.start + (x + n)
  <2>1. sent'[w] < Size(packets'[w]) <=> ~(x + n = size)
    BY <1>1, <1>2, <1>5, <1>7
  <2> QED BY <1>8, <2>1, <1>7 DEF LeftOpen, Position
<1>9. CASE x = 0
  <2>1. \A i \in 1..m : written[i].by # w
    BY <1>1, <1>6, <1>9 DEF WrittenInv
  <2>2. [by |-> w, start |-> Position] \in [by : Writers, start : Nat]
    BY <1>3
  <2>3. /\ written' \in Seq([by : Writers, start : Nat]) /\ Len(written') = m + 1
        /\ DOMAIN written' = 1..m + 1
        /\ \A i \in 1..m : written'[i] = written[i]
        /\ written'[m + 1] = [by |-> w, start |-> Position]
        /\ written' # <<>>
    BY <1>5, <1>6, <1>9, <2>2, AppendProperties, LenProperties DEF TypeInv
  <2>4. Latest' = [by |-> w, start |-> Position]
    BY <2>3 DEF Latest
  <2>5. Latest'.by = w /\ Latest'.start = Position
    BY <2>4
  <2>6. Position' = Position + n /\ LeftOpen' = IF x + n = size THEN {} ELSE {w}
    BY <1>3, <1>8, <1>9, <2>3, <2>5
  <2> QED BY <1>1, <1>2, <1>5, <1>6, <1>9, <2>1, <2>3, <2>5, <2>6 DEF SentAs
<1>10. CASE x # 0
  <2>1. written # <<>> /\ Latest.by = w /\ written' = written
    BY <1>1, <1>5, <1>10 DEF WrittenInv
  <2>2. Latest' = Latest /\ Latest.start \in Nat
    BY <2>1, LatestType DEF Latest
  <2>3. Position = Latest.start + x
    BY <1>1, <2>1 DEF Position
  <2>4. Position' = Latest.start + (x + n) /\ LeftOpen' = IF x + n = size THEN {} ELSE {w}
    BY <1>8, <2>1, <2>2
  <2>5. Position' = Position + n
    BY <2>2, <2>3, <2>4
  <2> QED BY <1>1, <1>2, <1>5, <1>10, <2>1, <2>2, <2>3, <2>4, <2>5 DEF SentAs, TypeInv
<1> QED BY <1>9, <1>10

\* The order of what is written stays as it is.
LEMMA SentKeeps ==
  ASSUME TypeInv, WrittenInv, NEW w \in Writers, NEW n \in Nat \ {0},
         NEW size \in Nat \ {0}, NEW x \in Nat, SentAs(w, size, x, n), packets' = packets
  PROVE  /\ WrittenInv'
         /\ pc' \in [Writers -> {"start", "send", "done", "failed"}]
         /\ sent' \in [Writers -> Nat]
         /\ Failed' = Failed
<1>1. /\ pc[w] = "send" /\ size = Size(packets[w]) /\ x = sent[w] /\ x + n <= size
      /\ sent' = [sent EXCEPT ![w] = x + n]
      /\ pc' = [pc EXCEPT ![w] = IF x + n = size THEN "done" ELSE "send"]
      /\ written' # <<>> /\ Latest'.by = w
  BY DEF SentAs
<1>2. x + n \in Nat /\ x + n # 0
  OBVIOUS
<1>3. /\ sent'[w] = x + n /\ pc'[w] \in {"send", "done"}
      /\ pc'[w] = "done" <=> x + n = size
      /\ \A v \in Writers \ {w} : pc'[v] = pc[v] /\ sent'[v] = sent[v]
  BY <1>1 DEF TypeInv
<1>4. /\ pc' \in [Writers -> {"start", "send", "done", "failed"}]
      /\ sent' \in [Writers -> Nat]
  BY <1>1, <1>2 DEF TypeInv
<1>5. Failed' = Failed
  BY <1>1, <1>3 DEF Failed
<1>6. PICK m \in Nat : m = Len(written) /\ DOMAIN written = 1..m
  BY LenProperties DEF TypeInv
<1>7. /\ \A i, j \in DOMAIN written' : written'[i].by = written'[j].by => i = j
      /\ \A i \in DOMAIN written' : sent'[written'[i].by] # 0
  <2>1. \A i \in 1..m : written[i].by \in Writers /\ sent[written[i].by] # 0
    <3>1. ASSUME NEW i \in 1..m PROVE written[i] \in [by : Writers, start : Nat]
      BY <1>6, ElementOfSeq DEF TypeInv
    <3> QED BY <3>1, <1>6 DEF WrittenInv
  <2>2. \A i \in 1..m : sent'[written[i].by] # 0
    <3> SUFFICES ASSUME NEW i \in 1..m PROVE sent'[written[i].by] # 0
      OBVIOUS
    <3>1. CASE written[i].by = w
      BY <3>1, <1>2, <1>3
    <3>2. CASE written[i].by # w
      BY <3>2, <2>1, <1>3
    <3> QED BY <3>1, <3>2
  <2>3. CASE x = 0
    <3>1. /\ DOMAIN written' = 1..m + 1
          /\ \A i \in 1..m : written'[i] = written[i] /\ written[i].by # w
          /\ written'[m + 1] = [by |-> w, start |-> Position]
      BY <2>3, <1>6 DEF SentAs
    <3>2. written'[m + 1].by = w
      BY <3>1
    <3>3. \A i \in 1..m + 1 : i \in 1..m \/ i = m + 1
      OBVIOUS
    <3>4. ASSUME NEW i \in 1..m + 1, NEW j \in 1..m + 1, written'[i].by = written'[j].by
          PROVE  i = j
      <4>1. CASE i \in 1..m /\ j \in 1..m
        BY <3>1, <3>4, <4>1, <1>6 DEF WrittenInv
      <4>2. CASE ~(i \in 1..m /\ j \in 1..m)
        BY <3>1, <3>2, <3>3, <3>4, <4>2
      <4> QED BY <4>1, <4>2
    <3>5. ASSUME NEW i \in 1..m + 1 PROVE sent'[written'[i].by] # 0
      <4>1. CASE i \in 1..m
        BY <4>1, <3>1, <2>2
      <4>2. CASE i = m + 1
        BY <4>2, <3>2, <1>2, <1>3
      <4> QED BY <4>1, <4>2, <3>3
    <3> QED BY <3>1, <3>4, <3>5
  <2>4. CASE x # 0
    <3>1. written' = written
      BY <2>4 DEF SentAs
    <3> QED BY <3>1, <2>2, <1>6 DEF WrittenInv
  <2> QED BY <2>3, <2>4
<1>8. ASSUME NEW v \in Writers
      PROVE  /\ pc'[v] = "start" => sent'[v] = 0
             /\ pc'[v] = "send" => v = w
             /\ sent'[v] <= Size(packets[v])
             /\ pc'[v] = "done" <=> sent'[v] = Size(packets[v])
  <2>1. CASE v = w
    BY <2>1, <1>1, <1>3
  <2>2. CASE v # w
    BY <2>2, <1>1, <1>3 DEF WrittenInv
  <2> QED BY <2>1, <2>2
<1>9. WrittenInv'
  BY <1>1, <1>7, <1>8 DEF WrittenInv
<1> QED BY <1>4, <1>5, <1>9

\* A thread takes the lock.
LEMMA BeginStep ==
  ASSUME TransportInv, NEW w \in Writers, Begin(w)
  PROVE  TransportInv'
<1>0. TypeInv /\ WrittenInv /\ FrameInv
  BY DEF TransportInv
<1>1. /\ pc[w] = "start" /\ LockFree
      /\ pc' = [pc EXCEPT ![w] = "send"]
      /\ UNCHANGED <<kind, packets, sent, written, open, frames, received, within, astray>>
  BY DEF Begin
<1>2. \A v \in Writers : pc[v] # "send"
  BY <1>1 DEF LockFree
<1>3. /\ \A v \in Writers : pc'[v] = IF v = w THEN "send" ELSE pc[v]
      /\ sent[w] = 0 /\ Size(packets[w]) \in Nat \ {0}
  BY <1>0, <1>1, PositionType DEF TypeInv, WrittenInv
<1>4. TypeInv'
  BY <1>0, <1>1 DEF TypeInv
<1>5. Latest' = Latest /\ Failed' = Failed
  BY <1>1, <1>3 DEF Latest, Failed
<1>6. WrittenInv'
  <2>1. ASSUME NEW v \in Writers
        PROVE  /\ pc'[v] = "start" => sent[v] = 0
               /\ pc'[v] = "send" => v = w
               /\ pc'[v] = "done" <=> sent[v] = Size(packets[v])
    <3>1. CASE v = w
      BY <3>1, <1>3
    <3>2. CASE v # w
      BY <3>2, <1>0, <1>2, <1>3 DEF WrittenInv
    <3> QED BY <3>1, <3>2
  <2> QED BY <2>1, <1>0, <1>1, <1>3, <1>5 DEF WrittenInv
<1>7. FrameInv'
  <2>1. Position' = Position /\ LeftOpen' = LeftOpen
    BY <1>1, <1>5 DEF Position, LeftOpen
  <2>2. ASSUME NEW from, NEW begun, Flows(from, begun) PROVE Flows(from, begun)'
    BY <2>1, <2>2, <1>1, <1>5 DEF Flows
  <2> QED BY <2>2, <1>0, <1>1 DEF FrameInv
<1> QED BY <1>4, <1>6, <1>7 DEF TransportInv

\* Over TCP all of it is sent at once.
LEMMA SendAllStep ==
  ASSUME TransportInv, NEW w \in Writers, SendAll(w)
  PROVE  TransportInv'
<1>0. TypeInv /\ WrittenInv /\ FrameInv
  BY DEF TransportInv
<1>1. PICK n \in Nat \ {0} : n = PacketLeft(w)
  <2>1. pc[w] = "send"
    BY DEF SendAll, Sent
  <2>2. sent[w] <= Size(packets[w]) /\ sent[w] # Size(packets[w])
    BY <2>1, <1>0 DEF WrittenInv
  <2>3. sent[w] \in Nat /\ Size(packets[w]) \in Nat
    BY <1>0, PositionType DEF TypeInv
  <2> QED BY <2>2, <2>3 DEF PacketLeft
<1>2. kind = "tcp" /\ Sent(w, n) /\ UNCHANGED frames
  BY <1>1 DEF SendAll
<1>3. UNCHANGED <<kind, packets, open, within, astray>>
  BY <1>2 DEF Sent
<1>4. PICK size \in Nat \ {0}, x \in Nat : SentAs(w, size, x, n)
  BY <1>0, <1>1, <1>2, SentPlace
<1>5. WrittenInv' /\ pc' \in [Writers -> {"start", "send", "done", "failed"}]
      /\ sent' \in [Writers -> Nat]
  BY <1>0, <1>3, <1>4, SentKeeps
<1>6. written' \in Seq([by : Writers, start : Nat])
  BY <1>4 DEF SentAs
<1>7. TypeInv'
  BY <1>0, <1>2, <1>3, <1>5, <1>6 DEF TypeInv
<1>8. FrameInv'
  BY <1>0, <1>2, <1>3 DEF FrameInv
<1> QED BY <1>5, <1>7, <1>8 DEF TransportInv

\* A fragment: what is left of the packet, or as much as a fragment takes.
LEMMA FragmentSize ==
  ASSUME TypeInv, WrittenInv, NEW w \in Writers, pc[w] = "send"
  PROVE  LET n == IF PacketLeft(w) < OutSize THEN PacketLeft(w) ELSE OutSize
         IN n \in 1..OutSize /\ n <= PacketLeft(w) /\ (Fin(w) <=> n = PacketLeft(w))
<1>1. sent[w] <= Size(packets[w]) /\ sent[w] # Size(packets[w])
  BY DEF WrittenInv
<1>2. sent[w] \in Nat /\ Size(packets[w]) \in Nat
  BY PositionType DEF TypeInv
<1>3. PICK left \in Nat \ {0} : left = PacketLeft(w)
  BY <1>1, <1>2 DEF PacketLeft
<1>4. OutSize = 2040
  BY DEF OutSize
<1>5. CASE left < 2040
  BY <1>3, <1>4, <1>5 DEF Fin
<1>6. CASE left >= 2040
  BY <1>3, <1>4, <1>6 DEF Fin
<1> QED BY <1>5, <1>6

\* n bytes of a packet are sent in f, where the stream is.
Sends(w, size, x, n, f) ==
  /\ kind = "websocket" /\ SentAs(w, size, x, n)
  /\ frames' = Append(frames, f)
  /\ f.op \in DataOps /\ f.from = Position /\ End(f) = Position'
  /\ Follows(f, Position, LeftOpen, Failed) /\ Unfinished(f) = LeftOpen'
  /\ UNCHANGED <<kind, packets, open, flying, controls, reading>>

\* Over a WebSocket the next fragment is sent: it continues the message of the
\* thread that has the lock, and ends it if nothing is left.
LEMMA SendFragmentSends ==
  ASSUME TransportInv, NEW w \in Writers, SendFragment(w)
  PROVE  \E size \in Nat \ {0}, x \in Nat, n \in Nat \ {0}, f \in Frames :
           x < size /\ Sends(w, size, x, n, f)
<1>0. TypeInv /\ WrittenInv /\ FrameInv
  BY DEF TransportInv
<1>1. pc[w] = "send" /\ kind = "websocket"
  BY DEF SendFragment, Sent
<1>2. PICK n \in 1..OutSize : /\ n = IF PacketLeft(w) < OutSize THEN PacketLeft(w) ELSE OutSize
                              /\ n <= PacketLeft(w) /\ (Fin(w) <=> n = PacketLeft(w))
  BY <1>0, <1>1, FragmentSize
<1>3. n \in Nat \ {0}
  BY DEF OutSize
<1>4. /\ Sent(w, n) /\ UNCHANGED flying
      /\ frames' = Append(frames, Data(w, sent[w] = 0, Fin(w), StreamEnd, n))
  BY <1>2 DEF SendFragment
<1>5. PICK size \in Nat \ {0}, x \in Nat : x < size /\ SentAs(w, size, x, n)
  BY <1>0, <1>2, <1>3, <1>4, SentPlace
<1>6. /\ size = Size(packets[w]) /\ x = sent[w] /\ Position' = Position + n
      /\ LeftOpen' = IF x + n = size THEN {} ELSE {w}
  BY <1>5 DEF SentAs
<1>7. PICK first \in BOOLEAN, fin \in BOOLEAN, from \in Nat :
        first = (sent[w] = 0) /\ fin = Fin(w) /\ from = StreamEnd /\ from = Position
  <2>1. (sent[w] = 0) \in BOOLEAN /\ Fin(w) \in BOOLEAN
    BY DEF Fin
  <2>2. StreamEnd = Position /\ Position \in Nat
    <3>1. Last(written) = Latest
      BY DEF Last, Latest
    <3> QED BY <3>1, <1>0, PositionType DEF StreamEnd, Position
  <2> QED BY <2>1, <2>2
<1>8. PICK f : f = Data(w, first, fin, from, n)
  OBVIOUS
<1>9. /\ f \in Frames /\ f.op \in DataOps /\ f.fin = fin /\ f.by = w /\ f.from = from
      /\ f.op = "CONTINUATION" <=> ~first
      /\ End(f) = from + n
  BY ONLY <1>8, n \in 1..OutSize, w \in Writers, DataFrame
<1>10. frames' = Append(frames, f)
  BY <1>4, <1>7, <1>8
<1>11. Follows(f, Position, LeftOpen, Failed)
  <2>1. w \in LeftOpen <=> sent[w] # 0
    BY <1>0, <1>1, LeftByFailed
  <2>2. LeftOpen \ {w} \subseteq Failed
    BY <1>0, <1>1, LeftByFailed
  <2>3. first <=> sent[w] = 0
    BY <1>7
  <2> QED BY <2>1, <2>2, <2>3, <1>7, <1>9 DEF Follows
<1>12. Unfinished(f) = LeftOpen'
  <2>1. fin <=> x + n = size
    <3>1. PacketLeft(w) = size - x
      BY <1>6 DEF PacketLeft
    <3>2. fin <=> n = size - x
      BY <3>1, <1>2, <1>7
    <3>3. n = size - x <=> x + n = size
      BY <1>3
    <3> QED BY <3>2, <3>3
  <2> QED BY <2>1, <1>6, <1>9 DEF Unfinished
<1>13. UNCHANGED <<kind, packets, open, controls, reading>>
  BY <1>4 DEF Sent
<1>14. Sends(w, size, x, n, f)
  BY <1>1, <1>4, <1>5, <1>6, <1>7, <1>9, <1>10, <1>11, <1>12, <1>13 DEF Sends
<1> QED BY <1>3, <1>5, <1>9, <1>14

\* What was sent continues what was under way.
LEMMA SendFragmentStep ==
  ASSUME TransportInv, NEW w \in Writers, SendFragment(w)
  PROVE  TransportInv'
<1>0. TypeInv /\ WrittenInv /\ FrameInv
  BY DEF TransportInv
<1>1. PICK size \in Nat \ {0}, x \in Nat, n \in Nat \ {0}, f \in Frames : Sends(w, size, x, n, f)
  BY SendFragmentSends
<1>2. /\ kind = "websocket" /\ SentAs(w, size, x, n)
      /\ frames' = Append(frames, f)
      /\ f.op \in DataOps /\ End(f) = Position'
      /\ Follows(f, Position, LeftOpen, Failed) /\ Unfinished(f) = LeftOpen'
      /\ UNCHANGED <<kind, packets, open, received, within, astray>>
  BY <1>1 DEF Sends
<1>3. /\ WrittenInv' /\ pc' \in [Writers -> {"start", "send", "done", "failed"}]
      /\ sent' \in [Writers -> Nat] /\ Failed' = Failed
  BY <1>0, <1>2, SentKeeps
<1>4. written' \in Seq([by : Writers, start : Nat])
  BY <1>2 DEF SentAs
<1>5. TypeInv'
  <2>1. frames' \in Seq(Frames)
    BY <1>0, <1>2, AppendProperties DEF TypeInv
  <2> QED BY <2>1, <1>0, <1>2, <1>3, <1>4 DEF TypeInv
<1>6. FrameInv'
  <2>1. PICK from, begun : Flows(from, begun)
    BY <1>0, <1>2 DEF FrameInv
  <2>2. Chain(Append(frames, f), from, begun, End(f), Unfinished(f), Failed)
    BY <2>1, <1>0, <1>2, ChainData DEF Flows, TypeInv
  <2>3. Flows(from, begun)'
    BY <2>1, <2>2, <1>2, <1>3 DEF Flows
  <2> QED BY <2>3, <1>2 DEF FrameInv
<1> QED BY <1>3, <1>5, <1>6 DEF TransportInv

\* A control frame, and the one of close(), say nothing of the messages.
LEMMA ControlStep ==
  ASSUME TransportInv, NEW op \in ControlOps, NEW n \in Nat, open' \in BOOLEAN,
         kind = "websocket", frames' = Append(frames, Control(op, n)),
         UNCHANGED <<kind, packets, pc, sent, written, within, received, astray>>
  PROVE  TransportInv'
<1>0. TypeInv /\ WrittenInv /\ FrameInv
  BY DEF TransportInv
<1>1. PICK f \in Frames : f = Control(op, n) /\ f.op \notin DataOps
  BY ControlFrame
<1>2. TypeInv'
  <2>1. Append(frames, f) \in Seq(Frames)
    BY <1>0, <1>1, AppendProperties DEF TypeInv
  <2> QED BY <2>1, <1>0, <1>1 DEF TypeInv
<1>3. WrittenInv' /\ Position' = Position /\ LeftOpen' = LeftOpen /\ Failed' = Failed
  <2>1. Latest' = Latest
    BY DEF Latest
  <2> QED BY <2>1, <1>0 DEF WrittenInv, Position, LeftOpen, Failed
<1>4. FrameInv'
  <2>1. PICK from, begun : Flows(from, begun)
    BY <1>0 DEF FrameInv
  <2>2. Chain(Append(frames, f), from, begun, Position, LeftOpen, Failed)
    BY <2>1, <1>0, <1>1, ChainControl DEF Flows, TypeInv
  <2>3. Flows(from, begun)'
    BY <2>1, <2>2, <1>1, <1>3 DEF Flows
  <2> QED BY <2>3 DEF FrameInv
<1> QED BY <1>2, <1>3, <1>4 DEF TransportInv

\* A write that fails leaves its packet as it is, and gives the lock back.
LEMMA WriteFailsStep ==
  ASSUME TransportInv, NEW w \in Writers, WriteFails(w)
  PROVE  TransportInv'
<1>0. TypeInv /\ WrittenInv /\ FrameInv
  BY DEF TransportInv
<1>1. /\ pc[w] = "send" /\ pc' = [pc EXCEPT ![w] = "failed"]
      /\ UNCHANGED <<kind, packets, sent, written, open, frames, within, received, astray>>
  BY DEF WriteFails
<1>2. TypeInv'
  BY <1>0, <1>1 DEF TypeInv
<1>3. Latest' = Latest /\ Position' = Position /\ LeftOpen' = LeftOpen
  BY <1>1 DEF Latest, Position, LeftOpen
<1>4. \A v \in Writers : pc'[v] = IF v = w THEN "failed" ELSE pc[v]
  BY <1>0, <1>1 DEF TypeInv
<1>5. WrittenInv'
  <2>1. ASSUME NEW v \in Writers
        PROVE  /\ pc'[v] = "start" => sent[v] = 0
               /\ pc'[v] = "send" => pc[v] = "send"
               /\ pc'[v] = "done" <=> sent[v] = Size(packets[v])
    <3>1. CASE v = w
      BY <3>1, <1>0, <1>1, <1>4 DEF WrittenInv
    <3>2. CASE v # w
      BY <3>2, <1>0, <1>4 DEF WrittenInv
    <3> QED BY <3>1, <3>2
  <2> QED BY <2>1, <1>0, <1>1, <1>3 DEF WrittenInv
<1>6. FrameInv'
  <2>1. Failed \subseteq Failed'
    BY <1>4 DEF Failed
  <2>2. ASSUME NEW from, NEW begun, Flows(from, begun) PROVE Flows(from, begun)'
    <3>1. Chain(frames, from, begun, Position, LeftOpen, Failed')
      BY <2>1, <2>2, ChainMore DEF Flows
    <3> QED BY <2>2, <3>1, <1>1, <1>3 DEF Flows
  <2> QED BY <2>2, <1>0, <1>1 DEF FrameInv
<1> QED BY <1>2, <1>5, <1>6 DEF TransportInv

-----------------------------------------------------------------------------
(* Reading *)

\* What does not write or take a frame.
LEMMA KeepStep ==
  ASSUME TransportInv, UNCHANGED <<kind, packets, pc, sent, written, frames, within, astray>>,
         open' \in BOOLEAN, kind = "websocket" => received' = received
  PROVE  TransportInv'
<1>0. TypeInv /\ WrittenInv /\ FrameInv
  BY DEF TransportInv
<1>1. TypeInv'
  BY <1>0 DEF TypeInv
<1>2. Latest' = Latest /\ Position' = Position /\ LeftOpen' = LeftOpen /\ Failed' = Failed
  BY DEF Latest, Position, LeftOpen, Failed
<1>3. WrittenInv'
  BY <1>0, <1>2 DEF WrittenInv
<1>4. FrameInv'
  <2>1. ASSUME NEW from, NEW begun, kind = "websocket", Flows(from, begun)
        PROVE  Flows(from, begun)'
    BY <2>1, <1>2 DEF Flows
  <2> QED BY <2>1, <1>0 DEF FrameInv
<1> QED BY <1>1, <1>3, <1>4 DEF TransportInv

\* A frame is taken: what is under way continues it.
LEMMA TakeStep ==
  ASSUME TransportInv, kind = "websocket", frames # <<>>, frames' = Tail(frames), ~astray,
         UNCHANGED <<kind, writing>>, astray' \in BOOLEAN,
         Head(frames).op \in DataOps /\ ~astray' =>
           /\ received' = received + RecvLength(Head(frames).length)
           /\ within' = Unfinished(Head(frames)),
         (within' = within \/ (Head(frames).op \in DataOps /\ within' = Unfinished(Head(frames)))),
         Head(frames).op \notin DataOps => received' = received /\ within' = within
  PROVE  /\ TransportInv'
         /\ Head(frames) \in Frames
         /\ Head(frames).op \in DataOps => Head(frames).from = received
<1>0. TypeInv /\ WrittenInv /\ FrameInv
  BY DEF TransportInv
<1>1. PICK f : f = Head(frames)
  OBVIOUS
<1>2. /\ f.op \in DataOps /\ ~astray' => /\ received' = received + RecvLength(f.length)
                                        /\ within' = Unfinished(f)
      /\ (within' = within \/ (f.op \in DataOps /\ within' = Unfinished(f)))
      /\ f.op \notin DataOps => received' = received /\ within' = within
  BY <1>1
<1>3. Chain(frames, received, within, Position, LeftOpen, Failed)
  BY <1>0 DEF FrameInv, Flows
<1>4. /\ f \in Frames /\ Tail(frames) \in Seq(Frames)
      /\ f.op \in DataOps =>
           /\ Follows(f, received, within, Failed)
           /\ Chain(Tail(frames), End(f), Unfinished(f), Position, LeftOpen, Failed)
      /\ f.op \notin DataOps => Chain(Tail(frames), received, within, Position, LeftOpen, Failed)
  BY <1>0, <1>1, <1>3, ChainTail DEF TypeInv
<1>5. within' = {} \/ \E w \in Writers : within' = {w}
  <2>1. CASE within' = within
    BY <2>1, <1>0 DEF TypeInv
  <2>2. CASE f.op \in DataOps /\ within' = Unfinished(f)
    <3>1. f.by \in Writers
      BY <2>2, <1>4, FrameType
    <3> QED BY <2>2, <3>1 DEF Unfinished
  <2> QED BY <2>1, <2>2, <1>2
<1>6. TypeInv'
  BY <1>0, <1>4, <1>5 DEF TypeInv
<1>7. Latest' = Latest /\ Position' = Position /\ LeftOpen' = LeftOpen /\ Failed' = Failed
  BY DEF Latest, Position, LeftOpen, Failed
<1>8. WrittenInv'
  BY <1>0, <1>7 DEF WrittenInv
<1>9. FrameInv'
  <2>1. CASE f.op \in DataOps
    <3>1. Chain(frames', End(f), Unfinished(f), Position', LeftOpen', Failed')
      BY <2>1, <1>4, <1>7
    <3>2. ~astray' => End(f) = received' /\ Unfinished(f) = within'
      BY <2>1, <1>2, <1>4 DEF End, Follows
    <3>3. Flows(End(f), Unfinished(f))'
      BY <3>1, <3>2 DEF Flows, End, Unfinished
    <3> QED BY <3>3 DEF FrameInv
  <2>2. CASE f.op \notin DataOps
    <3>1. Chain(frames', received', within', Position', LeftOpen', Failed')
      BY <2>2, <1>2, <1>4, <1>7
    <3>2. Flows(received, within)'
      BY <3>1 DEF Flows
    <3> QED BY <3>2 DEF FrameInv
  <2> QED BY <2>1, <2>2
<1> QED BY <1>1, <1>4, <1>6, <1>8, <1>9 DEF TransportInv, Follows

\* The reader takes a frame: a fragment is the next bytes of the stream, as many as
\* its length says.
LEMMA RecvFrameStep ==
  ASSUME TransportInv, RecvFrame
  PROVE  TransportInv'
<1>1. /\ kind = "websocket" /\ frames # <<>> /\ frames' = Tail(frames) /\ ~astray
      /\ UNCHANGED <<kind, writing>>
      /\ Head(frames).op \in DataOps =>
           /\ received' = received + RecvLength(Head(frames).length)
           /\ within' = Unfinished(Head(frames)) /\ astray' = astray
      /\ Head(frames).op \notin DataOps => /\ received' = received /\ within' = within
                                           /\ astray' \in BOOLEAN
  BY DEF RecvFrame, Extend, Unfinished
<1>2. astray' \in BOOLEAN
  <2>1. CASE Head(frames).op \in DataOps
    BY <2>1, <1>1 DEF TransportInv, TypeInv
  <2> QED BY <2>1, <1>1
<1>3. /\ Head(frames).op \in DataOps /\ ~astray' =>
           /\ received' = received + RecvLength(Head(frames).length)
           /\ within' = Unfinished(Head(frames))
      /\ (within' = within \/ (Head(frames).op \in DataOps /\ within' = Unfinished(Head(frames))))
      /\ Head(frames).op \notin DataOps => received' = received /\ within' = within
  BY <1>1
<1> QED BY <1>1, <1>2, <1>3, TakeStep

\* A recv gives less than the frame has: what follows is not where the reader is.
LEMMA RecvShortStep ==
  ASSUME TransportInv, NEW n, RecvShort(n)
  PROVE  TransportInv'
<1>1. /\ kind = "websocket" /\ frames # <<>> /\ frames' = Tail(frames) /\ ~astray
      /\ UNCHANGED <<kind, writing>> /\ astray' = TRUE
  BY DEF RecvShort
<1>2. \/ received' = received /\ within' = within
      \/ Head(frames).op \in DataOps /\ Extend(Head(frames), n)
  BY DEF RecvShort
<1>3. /\ (within' = within \/ (Head(frames).op \in DataOps /\ within' = Unfinished(Head(frames))))
      /\ Head(frames).op \notin DataOps => received' = received /\ within' = within
  <2>1. CASE received' = received /\ within' = within
    BY <2>1
  <2>2. CASE Head(frames).op \in DataOps /\ Extend(Head(frames), n)
    <3>1. within' = Unfinished(Head(frames))
      BY <2>2 DEF Extend, Unfinished
    <3> QED BY <2>2, <3>1
  <2> QED BY <1>2, <2>1, <2>2
<1>4. astray' \in BOOLEAN /\ astray'
  BY <1>1
<1> QED BY <1>1, <1>3, <1>4, TakeStep

-----------------------------------------------------------------------------
(* The place of the reader in a packet *)

Weight == <<1, 128, 128 * 128, 128 * 128 * 128>>

\* The bytes of q are those of bytes behind the first n.
Behind(bytes, n, q) == /\ Len(bytes) = n + Len(HeaderBytes[q])
                       /\ \A i \in 1..Len(HeaderBytes[q]) : bytes[n + i] = HeaderBytes[q][i]

\* index - 1 bytes of the length were read, and say value; the others say q.
InLength(p, index, value, multiplier) ==
  /\ index \in 1..4 /\ value \in Nat /\ multiplier = Weight[index]
  /\ \E q \in Nat : value + q * multiplier = Length(p) /\ Behind(HeaderBytes[Length(p)], index - 1, q)

\* Fields are still to be read, then what may follow them.
InFields(p, todo, rest) == /\ todo \in Seq(Nat) /\ rest \in Nat
                           /\ \E extra \in Nat : Extra(p, extra) /\ rest = Sum(todo) + extra

\* The reader has taken some bytes of packet p, and is where place says.
Midway(p, place, taken) ==
  \/ /\ place.at = "length" /\ taken = place.index
     /\ InLength(p, place.index, place.value, place.multiplier)
  \/ /\ place.at = "fields" /\ place.todo # <<>> /\ taken = Size(p) - place.rest
     /\ InFields(p, place.todo, place.rest)
  \/ /\ place.at = "rest" /\ place.rest \in Nat /\ taken = Size(p) - place.rest

\* The packet is read, or the reader is somewhere in it.
Placed(p, place, taken) == \/ place = AtStart /\ taken = Size(p)
                           \/ Midway(p, place, taken)

\* Where the reader goes next when its fields are read: to the data of a PUBLISH,
\* to the next item of a list, or to the next packet (packet/types/dynamic_list.py,
\* remaining_bytes).
LEMMA OnFieldsPlace ==
  ASSUME NEW p \in Packets, NEW todo, NEW rest, InFields(p, todo, rest)
  PROVE  Placed(p, OnFields(p, todo, rest), Size(p) - rest)
<1>1. PICK extra \in Nat : Extra(p, extra) /\ rest = Sum(todo) + extra
  BY DEF InFields
<1>2. todo \in Seq(Nat) /\ rest \in Nat
  BY DEF InFields
<1>3. PICK size \in Nat : size = Size(p)
  BY PacketType
<1>4. CASE todo # <<>>
  <2> DEFINE place == [at |-> "fields", todo |-> todo, rest |-> rest]
  <2>1. OnFields(p, todo, rest) = place
    BY <1>4 DEF OnFields
  <2>2. place.at = "fields" /\ place.todo = todo /\ place.rest = rest
    OBVIOUS
  <2> HIDE DEF place
  <2>3. Midway(p, place, Size(p) - rest)
    BY <2>2, <1>4 DEF Midway
  <2> QED BY <2>1, <2>3 DEF Placed
<1>5. CASE todo = <<>>
  <2>1. rest = extra
    <3>1. Sum(todo) = 0
      BY <1>2, <1>5, SumLaw
    <3> QED BY <1>1, <3>1
  <2>2. OnFields(p, todo, rest) = AfterFields(p, rest)
    BY <1>5 DEF OnFields
  <2>3. CASE rest = 0
    <3>1. AfterFields(p, rest) = AtStart
      BY <2>3 DEF AfterFields
    <3> QED BY <2>2, <2>3, <3>1, <1>3 DEF Placed
  <2>4. CASE rest > 0 /\ p.type = "PUBLISH"
    <3> DEFINE place == [at |-> "rest", rest |-> rest]
    <3>1. AfterFields(p, rest) = place
      BY <2>4 DEF AfterFields
    <3>2. place.at = "rest" /\ place.rest = rest
      OBVIOUS
    <3> HIDE DEF place
    <3>3. Midway(p, place, Size(p) - rest)
      BY <3>2, <1>2 DEF Midway
    <3> QED BY <2>2, <3>1, <3>3 DEF Placed
  <2>5. CASE rest > 0 /\ p.type # "PUBLISH"
    <3>1. Items(p) # <<>>
      BY <2>1, <2>5, <1>1 DEF Extra
    <3>2. PICK n \in Nat : rest = n * Sum(Items(p))
      BY <2>1, <2>5, <1>1, <3>1 DEF Extra
    <3>3. PICK item \in Nat \ {0} : item = Sum(Items(p))
      BY <3>1, ItemsType
    <3>4. n \in Nat \ {0}
      BY <2>5, <3>2, <3>3
    <3>5. PICK m \in Nat : n = m + 1
      <4>1. n - 1 \in Nat /\ n = (n - 1) + 1
        BY <3>4
      <4> QED BY <4>1
    <3>6. m * item \in Nat /\ rest = item + m * item
      <4>1. (m + 1) * item = item + m * item
        BY <3>3, <3>5
      <4> QED BY <4>1, <3>2, <3>3, <3>5
    <3>7. Extra(p, m * item)
      BY <2>5, <3>1, <3>3 DEF Extra
    <3>8. InFields(p, Items(p), rest)
      BY <3>3, <3>6, <3>7, <1>2, ItemsType DEF InFields
    <3> DEFINE place == [at |-> "fields", todo |-> Items(p), rest |-> rest]
    <3>9. AfterFields(p, rest) = place
      BY <2>5, <3>1 DEF AfterFields
    <3>10. place.at = "fields" /\ place.todo = Items(p) /\ place.rest = rest
      OBVIOUS
    <3> HIDE DEF place
    <3>11. Midway(p, place, Size(p) - rest)
      BY <3>1, <3>8, <3>10 DEF Midway
    <3> QED BY <2>2, <3>9, <3>11 DEF Placed
  <2> QED BY <2>3, <2>4, <2>5, <1>2
<1> QED BY <1>4, <1>5

\* The length is complete: the fields come next.
LEMMA LengthPlace ==
  ASSUME NEW p \in Packets
  PROVE  Placed(p, OnFields(p, Fields(p, QosOf(FlagsOf(p))), Length(p)), Size(p) - Length(p))
<1>1. PICK extra \in Nat : Extra(p, extra) /\ Length(p) = Sum(Fields(p, p.qos)) + extra
  BY PacketType
<1>2. Fields(p, p.qos) \in Seq(Nat) /\ Length(p) \in Nat
  <2>1. p.qos \in Nat
    BY DEF Packets
  <2> QED BY <2>1, FieldsType, PacketType
<1>3. InFields(p, Fields(p, p.qos), Length(p))
  BY <1>1, <1>2 DEF InFields
<1>4. Fields(p, QosOf(FlagsOf(p))) = Fields(p, p.qos)
  BY PacketType
<1> QED BY <1>3, <1>4, OnFieldsPlace

\* A byte of the length: it is the last one, and the length is said, or another
\* follows, which four bytes have place for (streams.py 39-55).
LEMMA LengthBytePlace ==
  ASSUME Current \in Packets, Length(Current) < 128 * LastMultiplier,
         InLength(Current, parse.index, parse.value, parse.multiplier)
  PROVE  Placed(Current, LengthByte(CurrentBytes[parse.index]), parse.index + 1)
<1>1. PICK length \in Nat : length = Length(Current) /\ length < 128 * (128 * 128 * 128)
  BY PacketType DEF LastMultiplier
<1>2. PICK index \in 1..4, value \in Nat, multiplier \in Nat :
        /\ index = parse.index /\ value = parse.value /\ multiplier = parse.multiplier
        /\ multiplier = Weight[index]
  <2>1. parse.index \in 1..4 /\ parse.value \in Nat /\ parse.multiplier = Weight[parse.index]
    BY DEF InLength
  <2>2. \A i \in 1..4 : Weight[i] \in Nat
    BY DEF Weight
  <2> QED BY <2>1, <2>2
<1>3. PICK q \in Nat : /\ value + q * multiplier = length
                       /\ Behind(HeaderBytes[length], index - 1, q)
  BY <1>1, <1>2 DEF InLength
<1>4. PICK bytes : bytes = HeaderBytes[length]
  OBVIOUS
<1>5. PICK s \in Seq(Nat) : s = HeaderBytes[q] /\ Len(s) >= 1
  BY HeaderBytesType
<1>6. Len(s) \in Nat
  BY LenProperties
<1>7. Len(bytes) = index - 1 + Len(s) /\ \A i \in 1..Len(s) : bytes[index - 1 + i] = s[i]
  BY <1>3, <1>4, <1>5 DEF Behind
<1>8. bytes[index] = s[1]
  <2>1. 1 \in 1..Len(s) /\ index - 1 + 1 = index
    BY <1>5, <1>6
  <2> QED BY <1>7, <2>1
<1>9. LengthByte(bytes[index]) = LengthByte(CurrentBytes[parse.index])
  BY <1>1, <1>2, <1>4 DEF CurrentBytes
<1>10. /\ index = 1 => multiplier = 1
       /\ index = 2 => multiplier = 128
       /\ index = 3 => multiplier = 128 * 128
       /\ index = 4 => multiplier = 128 * 128 * 128
  BY <1>2 DEF Weight
<1>11. CASE q < 128
  <2>1. s = <<q>>
    BY <1>5, <1>11, HeaderBytesType
  <2>2. s[1] = q /\ Len(s) = 1
    BY <2>1
  <2>3. q % 128 = q
    BY <1>11
  <2>4. value + (q % 128) * multiplier = length
    BY <1>3, <2>3
  <2>5. LengthByte(bytes[index])
          = OnFields(Current, Fields(Current, QosOf(FlagsOf(Current))), length)
    BY <1>2, <1>8, <1>11, <2>2, <2>4 DEF LengthByte
  <2>6. Len(bytes) = index
    BY <1>7, <2>2
  <2>7. Size(Current) - length = index + 1
    <3>1. Size(Current) = 1 + index + length
      BY <1>1, <1>4, <2>6, PacketType
    <3> QED BY <3>1, <1>1
  <2> QED BY <1>1, <1>2, <1>9, <2>5, <2>7, LengthPlace
<1>12. CASE q >= 128
  <2>1. PICK x \in Nat, y \in 0..127 : q \div 128 = x /\ q % 128 = y /\ q = 128 * x + y
    BY SevenBits
  <2>2. PICK t \in Seq(Nat) : t = HeaderBytes[x] /\ Len(t) \in Nat
    BY HeaderBytesType, LenProperties
  <2>3. s = <<128 + y>> \o t
    BY <1>5, <1>12, <2>1, <2>2, HeaderBytesType
  <2>4. PICK byte \in Nat : byte = 128 + y
    OBVIOUS
  <2>5. Len(s) = 1 + Len(t) /\ s[1] = byte /\ \A i \in 1..Len(t) : s[i + 1] = t[i]
    <3>1. <<byte>> \in Seq(Nat) /\ Len(<<byte>>) = 1 /\ <<byte>>[1] = byte
      OBVIOUS
    <3>2. PICK b \in Seq(Nat) : b = <<byte>> /\ Len(b) = 1 /\ b[1] = byte
      BY <3>1, Zenon
    <3>3. s = b \o t
      BY <2>3, <2>4, <3>2
    <3>4. /\ Len(b \o t) = 1 + Len(t)
          /\ \A i \in 1..1 + Len(t) : (b \o t)[i] = IF i <= 1 THEN b[i] ELSE t[i - 1]
      BY <3>2, ConcatProperties
    <3>5. (b \o t)[1] = b[1]
      <4>1. 1 \in 1..1 + Len(t)
        BY <2>2
      <4> QED BY <3>4, <4>1
    <3>6. ASSUME NEW i \in 1..Len(t) PROVE (b \o t)[i + 1] = t[i]
      <4>1. i + 1 \in 1..1 + Len(t) /\ ~(i + 1 <= 1) /\ i + 1 - 1 = i
        BY <2>2
      <4> QED BY <3>4, <4>1
    <3> QED BY <3>2, <3>3, <3>4, <3>5, <3>6
  <2>6. byte % 128 = y /\ ~(byte < 128)
    BY <2>4
  <2>7. index \in 1..3
    BY <1>1, <1>3, <1>10, <1>12
  <2>8. PICK next \in Nat : next = value + y * multiplier
    BY <1>10, <2>7
  <2>9. next + x * (multiplier * 128) = length
    <3>1. CASE index = 1
      BY <3>1, <1>3, <1>10, <2>1, <2>8
    <3>2. CASE index = 2
      BY <3>2, <1>3, <1>10, <2>1, <2>8
    <3>3. CASE index = 3
      BY <3>3, <1>3, <1>10, <2>1, <2>8
    <3> QED BY <2>7, <3>1, <3>2, <3>3
  <2>10. multiplier # LastMultiplier /\ multiplier * 128 = Weight[index + 1]
    BY <1>10, <2>7 DEF LastMultiplier, Weight
  <2>11. Behind(bytes, index, x)
    <3>1. Len(bytes) = index + Len(t)
      BY <1>7, <2>2, <2>5
    <3>2. ASSUME NEW i \in 1..Len(t) PROVE bytes[index + i] = t[i]
      <4>1. i + 1 \in 1..Len(s)
        BY <2>2, <2>5
      <4>1a. index - 1 + (i + 1) = index + i
        BY <2>2
      <4>2. bytes[index - 1 + (i + 1)] = s[i + 1]
        BY <1>7, <4>1
      <4> QED BY <2>5, <4>1a, <4>2
    <3> QED BY <2>2, <3>1, <3>2 DEF Behind
  <2> DEFINE place == [at |-> "length", index |-> index + 1, value |-> next,
                       multiplier |-> multiplier * 128]
  <2>12. LengthByte(bytes[index]) = place
    <3>1. bytes[index] = byte
      BY <1>8, <2>5
    <3>2. parse.value + (byte % 128) * parse.multiplier = next
      BY <1>2, <2>6, <2>8
    <3> QED BY <1>2, <2>6, <2>10, <3>1, <3>2 DEF LengthByte
  <2>13. /\ place.at = "length" /\ place.index = index + 1 /\ place.value = next
         /\ place.multiplier = multiplier * 128
    OBVIOUS
  <2> HIDE DEF place
  <2>14. InLength(Current, index + 1, next, multiplier * 128)
    <3>1. index + 1 \in 1..4 /\ index + 1 - 1 = index
      BY <2>7
    <3> QED BY <1>1, <1>4, <2>9, <2>10, <2>11, <3>1 DEF InLength
  <2>15. Midway(Current, place, index + 1)
    BY <2>13, <2>14 DEF Midway
  <2> QED BY <1>2, <1>9, <2>12, <2>15 DEF Placed
<1> QED BY <1>11, <1>12

\* The next read, and where the reader is after it (base_packet.py 28-89).
LEMMA ReadPlace ==
  ASSUME Current \in Packets, Length(Current) < 128 * LastMultiplier,
         NEW taken \in Int, (parse = AtStart /\ taken = 0) \/ Midway(Current, parse, taken)
  PROVE  Want \in Nat /\ Placed(Current, AfterRead, taken + Want)
<1>1. CASE parse = AtStart /\ taken = 0
  <2>1. parse.at = "header"
    BY <1>1 DEF AtStart
  <2> DEFINE place == [at |-> "length", index |-> 1, value |-> 0, multiplier |-> 1]
  <2>2. Want = 1 /\ AfterRead = place
    BY <2>1 DEF Want, AfterRead
  <2>3. place.at = "length" /\ place.index = 1 /\ place.value = 0 /\ place.multiplier = 1
    OBVIOUS
  <2> HIDE DEF place
  <2>4a. PICK length \in Nat : length = Length(Current)
    BY PacketType
  <2>4b. HeaderBytes[length] \in Seq(Nat)
    BY HeaderBytesType
  <2>4. PICK bytes \in Seq(Nat) : bytes = HeaderBytes[length]
    BY <2>4b
  <2>5. Behind(bytes, 0, length)
    <3>1. Len(bytes) \in Nat
      BY LenProperties
    <3>2. Len(bytes) = 0 + Len(bytes) /\ \A i \in 1..Len(bytes) : 0 + i = i
      BY <3>1
    <3> QED BY <2>4a, <2>4, <3>2 DEF Behind
  <2>6. InLength(Current, 1, 0, 1)
    <3>1. 0 + length * 1 = length /\ 1 - 1 = 0 /\ 1 \in 1..4 /\ Weight[1] = 1 /\ 0 \in Nat
      BY DEF Weight
    <3> QED BY <2>4a, <2>4, <2>5, <3>1 DEF InLength
  <2>7. Midway(Current, place, 1)
    BY <2>3, <2>6 DEF Midway
  <2>8. taken + Want = 1
    BY <1>1, <2>2
  <2> QED BY <2>2, <2>7, <2>8 DEF Placed
<1>2. PICK size \in Nat : size = Size(Current)
  BY PacketType
<1>3. CASE /\ parse.at = "length" /\ taken = parse.index
           /\ InLength(Current, parse.index, parse.value, parse.multiplier)
  <2>1. Want = 1 /\ AfterRead = LengthByte(CurrentBytes[parse.index])
    BY <1>3 DEF Want, AfterRead
  <2>2. Placed(Current, LengthByte(CurrentBytes[parse.index]), parse.index + 1)
    BY <1>3, LengthBytePlace
  <2> QED BY <1>3, <2>1, <2>2
<1>4. CASE /\ parse.at = "fields" /\ parse.todo # <<>> /\ taken = Size(Current) - parse.rest
           /\ InFields(Current, parse.todo, parse.rest)
  <2>1. PICK todo \in Seq(Nat), rest \in Nat, extra \in Nat :
          /\ todo = parse.todo /\ rest = parse.rest
          /\ Extra(Current, extra) /\ rest = Sum(todo) + extra
    BY <1>4 DEF InFields
  <2>2. PICK head \in Nat, tail \in Seq(Nat) :
          head = Head(todo) /\ tail = Tail(todo) /\ Sum(todo) = head + Sum(tail)
    BY <1>4, <2>1, SumLaw
  <2>3. PICK sum \in Nat : sum = Sum(tail)
    BY SumLaw
  <2>4. PICK left \in Nat : left = rest - head /\ left = sum + extra
    <3>1. rest = head + sum + extra
      BY <2>1, <2>2, <2>3
    <3>2. sum + extra \in Nat /\ head + sum + extra - head = sum + extra
      OBVIOUS
    <3> QED BY <3>1, <3>2
  <2>5. InFields(Current, tail, left)
    BY <2>1, <2>3, <2>4 DEF InFields
  <2>6. Placed(Current, OnFields(Current, tail, left), Size(Current) - left)
    BY <2>5, OnFieldsPlace
  <2>7. Want = head
    BY <1>4, <2>1, <2>2 DEF Want
  <2>8. AfterRead = OnFields(Current, tail, left)
    BY <1>4, <2>1, <2>2, <2>4 DEF AfterRead, TakeOff
  <2>9. taken + Want = Size(Current) - left
    <3>1. size - rest + head = size - (rest - head)
      OBVIOUS
    <3> QED BY <1>2, <1>4, <2>1, <2>4, <2>7, <3>1
  <2> QED BY <2>6, <2>7, <2>8, <2>9
<1>5. CASE parse.at = "rest" /\ parse.rest \in Nat /\ taken = Size(Current) - parse.rest
  <2>1. Want = parse.rest /\ AfterRead = AtStart
    BY <1>5 DEF Want, AfterRead
  <2>2. taken + Want = Size(Current)
    BY <1>2, <1>5, <2>1
  <2> QED BY <1>5, <2>1, <2>2 DEF Placed
<1> QED BY <1>1, <1>3, <1>4, <1>5 DEF Midway

\* Within a packet, the reader is where Packet.read may be.
LEMMA MidwayType ==
  ASSUME NEW p, NEW place, NEW taken, Midway(p, place, taken)
  PROVE  /\ place.at \in {"length", "fields", "rest"} /\ place # AtStart /\ place # Lost
         /\ place.at \in {"fields", "rest"} => place.rest \in Nat
<1>1. place.at \in {"length", "fields", "rest"}
  BY DEF Midway
<1>2. AtStart.at = "header" /\ Lost.at = "lost"
  BY DEF AtStart, Lost
<1>3. place.at \in {"fields", "rest"} => place.rest \in Nat
  BY DEF Midway, InFields
<1> QED BY <1>1, <1>2, <1>3

\* Nowhere in a packet has the reader taken more than the packet has.
LEMMA PlacedBound ==
  ASSUME NEW p \in Packets, NEW place, NEW taken \in Int, Placed(p, place, taken)
  PROVE  taken <= Size(p)
<1>1. PICK size \in Nat, bytes \in Nat, length \in Nat :
        /\ size = Size(p) /\ bytes = Len(HeaderBytes[length]) /\ length = Length(p)
        /\ size = 1 + bytes + length
  BY PacketType
<1>2. CASE place = AtStart /\ taken = Size(p)
  <2>1. taken = size
    BY <1>1, <1>2
  <2> QED BY <2>1, <1>1
<1>3. CASE place.at = "length" /\ taken = place.index
           /\ InLength(p, place.index, place.value, place.multiplier)
  <2>1. PICK index \in 1..4, q \in Nat : index = place.index /\ Behind(HeaderBytes[length], index - 1, q)
    BY <1>1, <1>3 DEF InLength
  <2>2. Len(HeaderBytes[q]) \in Nat
    BY HeaderBytesType, LenProperties
  <2>3. bytes = index - 1 + Len(HeaderBytes[q])
    BY <1>1, <2>1 DEF Behind
  <2>4. index <= bytes + 1
    BY <2>2, <2>3
  <2> QED BY <2>1, <2>4, <1>1, <1>3
<1>4. CASE place.rest \in Nat /\ taken = Size(p) - place.rest
  <2>1. PICK rest \in Nat : rest = place.rest
    BY <1>4
  <2>2. taken = size - rest
    BY <2>1, <1>1, <1>4
  <2>3. taken <= size
    BY <2>2
  <2> QED BY <2>3, <1>1
<1> QED BY <1>2, <1>3, <1>4 DEF Placed, Midway, InFields

-----------------------------------------------------------------------------
(* The reader and what was written: the invariant *)

\* No read over TCP is given less than it asks for.
Whole == kind = "tcp" => "tcp" \notin ShortReads

\* Where the packet of a place in written begins; after the last one, where the
\* stream ends.
StartAt(k) == IF k <= Len(written) THEN written[k].start ELSE Position

\* Packets follow one another, whole or cut.
OrderInv ==
  /\ StartAt(1) = 0
  /\ \A k \in DOMAIN written : StartAt(k + 1) = written[k].start + sent[written[k].by]
  /\ controls \in 0..MaxControls

\* The data frames of fs lie between two positions, one after the other.
Ahead(fs, from, to) ==
  /\ from <= to
  /\ \A k \in DataIn(fs) : from <= fs[k].from /\ End(fs[k]) <= to
  /\ \A j, k \in DataIn(fs) : j < k => End(fs[j]) <= fs[k].from

\* Bytes: handed out, at hand, under way.
BytesInv ==
  /\ due \in Nat /\ have \in Nat /\ received \in Nat /\ flying \in Nat
  /\ handed = due /\ received = handed + have
  /\ kind = "websocket" => Ahead(frames, received, Position)
  /\ kind = "tcp" => /\ received + flying = Position /\ (have = 0 \/ have = Want)
                     /\ within = {}

\* The reader is in a packet that was begun, or where the next one begins, behind
\* packets that are whole; or it is out of step for one of the two reasons.
PlaceInv ==
  /\ parsed \in Nat /\ parsed <= Len(written)
  /\ \A k \in 1..parsed : pc[written[k].by] = "done"
  /\ \/ parse = AtStart /\ due = StartAt(parsed + 1)
     \/ parsed < Len(written) /\ Midway(Current, parse, due - written[parsed + 1].start)
     \/ parse = Lost /\ (Cut \/ astray)

ReadInv == OrderInv /\ ended \in BOOLEAN /\ (Whole => BytesInv /\ PlaceInv)

\* The packets are of the model, and their positions are numbers.
LEMMA WrittenType ==
  ASSUME TypeInv
  PROVE  /\ Len(written) \in Nat /\ DOMAIN written = 1..Len(written)
         /\ \A k \in DOMAIN written : /\ written[k].by \in Writers /\ written[k].start \in Nat
                                      /\ packets[written[k].by] \in Packets
                                      /\ Length(packets[written[k].by]) < 128 * LastMultiplier
<1>1. Len(written) \in Nat /\ DOMAIN written = 1..Len(written)
  BY LenProperties DEF TypeInv
<1>2. ASSUME NEW k \in DOMAIN written
      PROVE  written[k].by \in Writers /\ written[k].start \in Nat
  <2>1. written[k] \in [by : Writers, start : Nat]
    BY <1>1, ElementOfSeq DEF TypeInv
  <2> QED BY <2>1
<1>3. \A w \in Writers : packets[w] \in Packets /\ Length(packets[w]) < 128 * LastMultiplier
  BY PacketAssumption, LengthAssumption DEF TypeInv
<1> QED BY <1>1, <1>2, <1>3

\* The bytes received were sent.
LEMMA Reached ==
  ASSUME TypeInv, BytesInv
  PROVE  received <= Position /\ StartAt(Len(written) + 1) = Position
<1>1. Position \in Nat
  BY PositionType
<1>2. received <= Position
  <2>1. CASE kind = "tcp"
    BY <2>1, <1>1 DEF BytesInv
  <2>2. CASE kind = "websocket"
    BY <2>2 DEF BytesInv, Ahead
  <2> QED BY <2>1, <2>2 DEF TypeInv
<1>3. ~(Len(written) + 1 <= Len(written))
  BY WrittenType
<1> QED BY <1>2, <1>3 DEF StartAt

\* A control frame is not among the data.
LEMMA AheadControl ==
  ASSUME NEW fs \in Seq(Frames), NEW f \in Frames, f.op \notin DataOps,
         NEW from, NEW to, Ahead(fs, from, to)
  PROVE  Ahead(Append(fs, f), from, to)
<1>1. PICK m \in Nat : m = Len(fs)
  BY LenProperties
<1> DEFINE gs == Append(fs, f)
<1>2. /\ DOMAIN fs = 1..m /\ DOMAIN gs = 1..m + 1
      /\ \A k \in 1..m : gs[k] = fs[k]
      /\ gs[m + 1] = f
  BY <1>1, LenProperties, AppendProperties
<1> HIDE DEF gs
<1>3. DataIn(gs) = DataIn(fs) /\ \A k \in DataIn(fs) : gs[k] = fs[k]
  BY <1>1, <1>2 DEF DataIn
<1>4. Ahead(gs, from, to)
  BY <1>3 DEF Ahead
<1> QED BY <1>4 DEF gs

\* The next fragment lies where the others end.
LEMMA AheadData ==
  ASSUME NEW fs \in Seq(Frames), NEW f \in Frames, f.op \in DataOps,
         NEW from \in Nat, NEW to \in Nat, Ahead(fs, from, to), f.from = to
  PROVE  Ahead(Append(fs, f), from, End(f))
<1>1. PICK m \in Nat : m = Len(fs)
  BY LenProperties
<1> DEFINE gs == Append(fs, f)
<1>2. /\ DOMAIN fs = 1..m /\ DOMAIN gs = 1..m + 1
      /\ \A k \in 1..m : gs[k] = fs[k]
      /\ gs[m + 1] = f
  BY <1>1, LenProperties, AppendProperties
<1> HIDE DEF gs
<1>3. /\ DataIn(gs) = DataIn(fs) \cup {m + 1}
      /\ DataIn(fs) \subseteq 1..m
      /\ \A k \in DataIn(fs) : gs[k] = fs[k]
  BY <1>1, <1>2 DEF DataIn
<1>4. PICK n \in Nat : End(f) = to + n
  BY FrameType DEF End
<1>5. \A k \in DataIn(fs) : fs[k].from \in Nat /\ End(fs[k]) \in Nat
  <2> SUFFICES ASSUME NEW k \in DataIn(fs) PROVE fs[k].from \in Nat /\ End(fs[k]) \in Nat
    OBVIOUS
  <2>1. fs[k] \in Frames /\ fs[k].op \in DataOps
    BY <1>1, <1>2, <1>3, ElementOfSeq DEF DataIn
  <2>2. fs[k].from \in Nat /\ RecvLength(fs[k].length) \in Nat
    BY <2>1, FrameType
  <2> QED BY <2>2 DEF End
<1>6. from <= End(f) /\ to <= End(f) /\ from <= to
  BY <1>4 DEF Ahead
<1>7. ASSUME NEW k \in DataIn(gs) PROVE from <= gs[k].from /\ End(gs[k]) <= End(f)
  <2>1. CASE k \in DataIn(fs)
    <3>1. gs[k] = fs[k] /\ from <= fs[k].from /\ End(fs[k]) <= to
      BY <2>1, <1>3 DEF Ahead
    <3>2. End(fs[k]) <= End(f)
      BY <2>1, <3>1, <1>4, <1>5
    <3> QED BY <3>1, <3>2
  <2>2. CASE k = m + 1
    <3>1. gs[k] = f /\ End(f) <= End(f)
      BY <2>2, <1>2, <1>4
    <3> QED BY <3>1, <1>6
  <2> QED BY <2>1, <2>2, <1>3
<1>8. ASSUME NEW j \in DataIn(gs), NEW k \in DataIn(gs), j < k
      PROVE  End(gs[j]) <= gs[k].from
  <2>1. j \in DataIn(fs)
    BY <1>1, <1>3, <1>8
  <2>2. CASE k \in DataIn(fs)
    BY <1>3, <1>8, <2>1, <2>2 DEF Ahead
  <2>3. CASE k = m + 1
    BY <1>2, <1>3, <2>1, <2>3 DEF Ahead
  <2> QED BY <2>2, <2>3, <1>3
<1>9. Ahead(gs, from, End(f))
  BY <1>6, <1>7, <1>8 DEF Ahead
<1> QED BY <1>9 DEF gs

\* Behind the first fragment is what it does not have.
LEMMA AheadTail ==
  ASSUME NEW fs \in Seq(Frames), fs # <<>>, NEW from, NEW to, Ahead(fs, from, to)
  PROVE  /\ Head(fs).op \in DataOps => Ahead(Tail(fs), End(Head(fs)), to)
         /\ Head(fs).op \notin DataOps => Ahead(Tail(fs), from, to)
<1> DEFINE gs == Tail(fs)
<1>1. PICK m \in Nat \ {0} : m = Len(fs)
  BY LenProperties, EmptySeq
<1>2. /\ DOMAIN fs = 1..m /\ DOMAIN gs = 1..m - 1
      /\ \A k \in 1..m - 1 : gs[k] = fs[k + 1]
      /\ Head(fs) = fs[1]
  BY <1>1, LenProperties, HeadTailProperties
<1> HIDE DEF gs
<1>3. /\ DataIn(gs) \subseteq 1..m - 1
      /\ \A k \in DataIn(gs) : k + 1 \in DataIn(fs) /\ gs[k] = fs[k + 1] /\ 1 < k + 1
      /\ Head(fs).op \in DataOps => 1 \in DataIn(fs)
  BY <1>1, <1>2 DEF DataIn
<1>4. \A k \in DataIn(gs) : from <= gs[k].from /\ End(gs[k]) <= to
  BY <1>3 DEF Ahead
<1>5. \A j, k \in DataIn(gs) : j < k => End(gs[j]) <= gs[k].from
  <2> SUFFICES ASSUME NEW j \in DataIn(gs), NEW k \in DataIn(gs), j < k
               PROVE  End(gs[j]) <= gs[k].from
    OBVIOUS
  <2>1. j + 1 < k + 1
    BY <1>1, <1>3
  <2> QED BY <2>1, <1>3 DEF Ahead
<1>6. ASSUME Head(fs).op \in DataOps PROVE Ahead(gs, End(Head(fs)), to)
  <2>1. 1 \in DataIn(fs)
    BY <1>3, <1>6
  <2>2. End(Head(fs)) <= to
    BY <1>2, <2>1 DEF Ahead
  <2>3. \A k \in DataIn(gs) : End(Head(fs)) <= gs[k].from
    BY <1>2, <1>3, <2>1 DEF Ahead
  <2> QED BY <1>4, <1>5, <2>2, <2>3 DEF Ahead
<1>7. ASSUME Head(fs).op \notin DataOps PROVE Ahead(gs, from, to)
  BY <1>4, <1>5 DEF Ahead
<1> QED BY <1>6, <1>7 DEF gs


\* What lies behind a position lies behind an earlier one.
LEMMA AheadFrom ==
  ASSUME NEW fs \in Seq(Frames), NEW from \in Nat, NEW start \in Nat, NEW to \in Nat,
         start <= from, Ahead(fs, from, to)
  PROVE  Ahead(fs, start, to)
<1>1. ASSUME NEW k \in DataIn(fs) PROVE start <= fs[k].from
  <2>1. fs[k] \in Frames /\ fs[k].op \in DataOps
    <3>1. DOMAIN fs = 1..Len(fs)
      BY LenProperties
    <3> QED BY <3>1, ElementOfSeq DEF DataIn
  <2>2. fs[k].from \in Nat /\ from <= fs[k].from
    BY <2>1, FrameType DEF Ahead
  <2> QED BY <2>2
<1>2. start <= to
  BY DEF Ahead
<1> QED BY <1>1, <1>2 DEF Ahead

\* Nothing is written, and nothing read.
LEMMA ReadInit == Init => ReadInv
<1> SUFFICES ASSUME Init PROVE ReadInv
  OBVIOUS
<1> USE DEF Init
<1>1. Position = 0
  BY DEF Position
<1>2. Len(written) = 0 /\ DOMAIN written = {} /\ ~(1 <= Len(written)) /\ StartAt(1) = 0
  BY <1>1 DEF StartAt
<1>3. OrderInv
  <2>1. controls \in 0..MaxControls
    BY TransportAssumption
  <2> QED BY <1>2, <2>1 DEF OrderInv
<1>5. BytesInv
  <2>1. DataIn(frames) = {}
    BY DEF DataIn
  <2>2. Ahead(frames, received, Position)
    BY <1>1, <2>1 DEF Ahead
  <2> QED BY <1>1, <2>2 DEF BytesInv
<1>6. PlaceInv
  <2>1. due = StartAt(0 + 1)
    BY <1>2
  <2> QED BY <1>2, <2>1 DEF PlaceInv
<1> QED BY <1>3, <1>5, <1>6 DEF ReadInv

\* What does not write keeps the order.
LEMMA OrderKeep ==
  ASSUME OrderInv, UNCHANGED <<written, sent>>, controls' \in 0..MaxControls
  PROVE  OrderInv' /\ Position' = Position
<1>1. Latest' = Latest
  BY DEF Latest
<1>2. Position' = Position
  BY <1>1 DEF Position
<1>3. OrderInv'
  BY <1>2 DEF OrderInv, StartAt
<1> QED BY <1>2, <1>3

\* A thread that is done, or has failed, stays so.
Settled == \A w \in Writers : pc[w] \in {"done", "failed"} => pc'[w] = pc[w]

\* What does not read keeps the place, or loses it when a frame was cut short.
LEMMA PlaceKeep ==
  ASSUME TypeInv, PlaceInv, UNCHANGED <<packets, written, sent, parsed, due>>,
         astray => astray', Settled, parse' = parse \/ (parse' = Lost /\ astray')
  PROVE  PlaceInv'
<1>1. Current' = Current
  BY DEF Current
<1>2. Position' = Position
  BY DEF Position, Latest
<1>3. StartAt(parsed + 1)' = StartAt(parsed + 1)
  BY <1>2 DEF StartAt
<1>4. /\ parsed \in Nat /\ parsed <= Len(written)
      /\ \A k \in 1..parsed : pc[written[k].by] = "done"
  BY DEF PlaceInv
<1>5. \A k \in DOMAIN written : written[k].by \in Writers
  BY WrittenType
<1>6. \A k \in 1..parsed : pc'[written[k].by] = "done"
  <2>1. \A k \in 1..parsed : k \in DOMAIN written
    BY <1>4, WrittenType
  <2> QED BY <2>1, <1>4, <1>5 DEF Settled
<1>7. Cut => Cut'
  <2>1. parsed < Len(written) => parsed + 1 \in DOMAIN written
    BY <1>4, WrittenType
  <2> QED BY <2>1, <1>5 DEF Cut, Settled
<1>8. CASE parse' = Lost /\ astray'
  BY <1>4, <1>6, <1>8 DEF PlaceInv
<1>9. CASE parse' = parse
  BY <1>1, <1>3, <1>4, <1>6, <1>7, <1>9 DEF PlaceInv
<1> QED BY <1>8, <1>9

\* More of a packet is in the stream: the packets in it follow one another, and the
\* reader is where it was.
LEMMA SentReads ==
  ASSUME TransportInv, OrderInv, NEW w \in Writers, NEW size \in Nat \ {0}, NEW x \in Nat,
         NEW n \in Nat \ {0}, x < size, SentAs(w, size, x, n),
         UNCHANGED <<packets, controls, reading>>
  PROVE  OrderInv' /\ (PlaceInv => PlaceInv')
<1>0. TypeInv /\ WrittenInv
  BY DEF TransportInv
<1>1. /\ pc[w] = "send" /\ size = Size(packets[w]) /\ x = sent[w] /\ x + n <= size
      /\ sent' = [sent EXCEPT ![w] = x + n]
      /\ pc' = [pc EXCEPT ![w] = IF x + n = size THEN "done" ELSE "send"]
      /\ Latest'.by = w /\ Position' = Position + n /\ written' # <<>>
  BY DEF SentAs
<1>2. /\ sent'[w] = x + n
      /\ \A v \in Writers \ {w} : pc'[v] = pc[v] /\ sent'[v] = sent[v]
  BY <1>0, <1>1 DEF TypeInv
<1>3. PICK m \in Nat : m = Len(written) /\ DOMAIN written = 1..m /\ ~(m + 1 <= m)
  <2>1. Len(written) \in Nat /\ DOMAIN written = 1..Len(written)
    BY <1>0, WrittenType
  <2>2. ~(Len(written) + 1 <= Len(written))
    BY <2>1
  <2> QED BY <2>1, <2>2
<1>4. \A k \in 1..m : written[k].by \in Writers
  BY <1>0, <1>3, WrittenType
<1>5. Settled
  BY <1>1, <1>2 DEF Settled
<1>6. CASE x = 0
  <2>1. /\ DOMAIN written' = 1..m + 1 /\ Len(written') = m + 1
        /\ \A i \in 1..m : written'[i] = written[i] /\ written[i].by # w
        /\ written'[m + 1] = [by |-> w, start |-> Position]
    BY <1>3, <1>6 DEF SentAs
  <2>2. [by |-> w, start |-> Position].by = w /\ [by |-> w, start |-> Position].start = Position
    OBVIOUS
  <2>3. written'[m + 1].by = w /\ written'[m + 1].start = Position
    BY <2>1, <2>2
  <2>4. ASSUME NEW k \in 1..m + 1 PROVE StartAt(k)' = StartAt(k)
    <3>1. CASE k \in 1..m
      <4>1. k <= m /\ k <= m + 1
        BY <3>1
      <4> QED BY <3>1, <4>1, <2>1, <1>3 DEF StartAt
    <3>2. CASE k = m + 1
      <4>1. m + 1 <= m + 1
        OBVIOUS
      <4> QED BY <3>2, <4>1, <2>1, <2>3, <1>3 DEF StartAt
    <3> QED BY <3>1, <3>2
  <2>5. ASSUME NEW k \in 1..m + 1
        PROVE  StartAt(k + 1)' = written'[k].start + sent'[written'[k].by]
    <3>1. CASE k \in 1..m
      <4>1. k + 1 \in 1..m + 1
        BY <3>1
      <4>2. StartAt(k + 1) = written[k].start + sent[written[k].by]
        BY <3>1, <1>3 DEF OrderInv
      <4>3. StartAt(k + 1)' = StartAt(k + 1)
        BY <4>1, <2>4
      <4>4. written'[k] = written[k] /\ sent'[written[k].by] = sent[written[k].by]
        BY <3>1, <2>1, <1>2, <1>4
      <4> QED BY <4>2, <4>3, <4>4
    <3>2. CASE k = m + 1
      <4>1. ~(m + 1 + 1 <= m + 1)
        OBVIOUS
      <4>2. StartAt(m + 1 + 1)' = Position'
        BY <4>1, <2>1 DEF StartAt
      <4> QED BY <3>2, <4>2, <2>3, <1>1, <1>2, <1>6
    <3> QED BY <3>1, <3>2
  <2>6. OrderInv'
    <3>1. StartAt(1)' = 0
      <4>1. 1 \in 1..m + 1
        OBVIOUS
      <4> QED BY <4>1, <2>4 DEF OrderInv
    <3>2. \A k \in DOMAIN written' : StartAt(k + 1)' = written'[k].start + sent'[written'[k].by]
      BY <2>1, <2>5
    <3> QED BY <3>1, <3>2 DEF OrderInv
  <2>7. ASSUME PlaceInv PROVE PlaceInv'
    <3>1. /\ parsed \in Nat /\ parsed <= m
          /\ \A k \in 1..parsed : k \in 1..m /\ pc[written[k].by] = "done"
          /\ parsed + 1 \in 1..m + 1
      BY <2>7, <1>3 DEF PlaceInv
    <3>2. /\ parsed <= Len(written')
          /\ \A k \in 1..parsed : pc'[written'[k].by] = "done"
      BY <3>1, <2>1, <1>2, <1>4
    <3>3. parsed < m => /\ parsed + 1 \in 1..m /\ written'[parsed + 1] = written[parsed + 1]
                        /\ Current' = Current /\ parsed < Len(written')
      <4> SUFFICES ASSUME parsed < m
                   PROVE  /\ parsed + 1 \in 1..m /\ written'[parsed + 1] = written[parsed + 1]
                          /\ Current' = Current /\ parsed < Len(written')
        OBVIOUS
      <4>1. parsed + 1 \in 1..m /\ parsed < m + 1
        BY <3>1
      <4> QED BY <4>1, <2>1 DEF Current
    <3>4. CASE parse = AtStart /\ due = StartAt(parsed + 1)
      <4>1. StartAt(parsed + 1)' = StartAt(parsed + 1)
        <5>1. (parsed + 1 \in 1..m + 1) => StartAt(parsed + 1)' = StartAt(parsed + 1)
          BY <2>4
        <5> QED BY <3>1, <5>1
      <4> QED BY <3>1, <3>2, <3>4, <4>1 DEF PlaceInv
    <3>5. CASE parsed < Len(written) /\ Midway(Current, parse, due - written[parsed + 1].start)
      BY <3>1, <3>2, <3>3, <3>5, <1>3 DEF PlaceInv
    <3>6. CASE parse = Lost /\ (Cut \/ astray)
      <4>1. Cut => Cut'
        BY <3>3, <1>3, <1>4, <1>5 DEF Cut, Settled
      <4> QED BY <3>1, <3>2, <3>6, <4>1 DEF PlaceInv
    <3> QED BY <2>7, <3>4, <3>5, <3>6 DEF PlaceInv
  <2> QED BY <2>6, <2>7
<1>7. CASE x # 0
  <2>1. written' = written /\ written # <<>> /\ Latest.by = w /\ Latest = written[m]
        /\ m \in 1..m /\ Latest.start \in Nat /\ Position = Latest.start + x
    <3>1. written' = written /\ written # <<>> /\ Latest' = Latest /\ Position = Latest.start + x
          /\ Latest.start \in Nat
      BY <1>7 DEF SentAs
    <3>2. m \in 1..m
      BY <3>1, <1>0, <1>3, LatestType
    <3> QED BY <3>1, <3>2, <1>1, <1>3 DEF Latest
  <2>2. \A k \in 1..m : written[k].by = w => k = m
    BY <2>1, <1>0, <1>3 DEF WrittenInv
  <2>3. ASSUME NEW k \in 1..m PROVE StartAt(k)' = StartAt(k)
    <3>1. k <= m
      OBVIOUS
    <3> QED BY <3>1, <2>1, <1>3 DEF StartAt
  <2>4. OrderInv'
    <3>1. StartAt(1)' = 0
      <4>1. 1 \in 1..m
        BY <2>1
      <4> QED BY <4>1, <2>3 DEF OrderInv
    <3>2. ASSUME NEW k \in 1..m
          PROVE  StartAt(k + 1)' = written[k].start + sent'[written[k].by]
      <4>1. CASE k = m
        <5>1. StartAt(m + 1)' = Position'
          BY <1>3, <2>1 DEF StartAt
        <5>2. PICK a \in Nat : a = Latest.start
          BY <2>1
        <5>3. Position' = a + x + n /\ a + x + n = a + (x + n)
          BY <5>2, <2>1, <1>1
        <5> QED BY <4>1, <5>1, <5>2, <5>3, <2>1, <1>2
      <4>2. CASE k # m
        <5>1. k + 1 \in 1..m /\ written[k].by # w
          BY <4>2, <2>2
        <5>2. StartAt(k + 1) = written[k].start + sent[written[k].by]
          BY <1>3 DEF OrderInv
        <5>3. StartAt(k + 1)' = StartAt(k + 1)
          BY <5>1, <2>3
        <5>4. sent'[written[k].by] = sent[written[k].by]
          BY <5>1, <1>2, <1>4
        <5> QED BY <5>2, <5>3, <5>4
      <4> QED BY <4>1, <4>2
    <3> QED BY <3>1, <3>2, <2>1, <1>3 DEF OrderInv
  <2>5. ASSUME PlaceInv PROVE PlaceInv'
    <3>1. /\ parsed \in Nat /\ parsed <= m
          /\ \A k \in 1..parsed : k \in 1..m /\ pc[written[k].by] = "done"
      BY <2>5, <1>3 DEF PlaceInv
    <3>2. parsed < m
      <4>1. parsed # m
        BY <3>1, <2>1, <1>1
      <4> QED BY <3>1, <4>1
    <3>3. parsed + 1 \in 1..m /\ Current' = Current
      BY <3>1, <3>2, <2>1 DEF Current
    <3>4. StartAt(parsed + 1)' = StartAt(parsed + 1)
      BY <3>2, <3>3, <2>1, <2>3, <1>3 DEF StartAt
    <3>5. \A k \in 1..parsed : pc'[written[k].by] = "done"
      BY <3>1, <1>4, <1>5 DEF Settled
    <3>6. Cut => Cut'
      BY <3>3, <2>1, <1>4, <1>5 DEF Cut, Settled
    <3> QED BY <2>1, <2>5, <3>1, <3>3, <3>4, <3>5, <3>6 DEF PlaceInv
  <2> QED BY <2>4, <2>5
<1> QED BY <1>6, <1>7

\* Over TCP the packet is sent: the bytes under way are as many more.
LEMMA SendAllReads ==
  ASSUME TransportInv, ReadInv, NEW w \in Writers, SendAll(w)
  PROVE  ReadInv'
<1>0. TypeInv /\ WrittenInv /\ OrderInv
  BY DEF TransportInv, ReadInv
<1>1. PICK n \in Nat \ {0} : n = PacketLeft(w)
  <2>1. pc[w] = "send"
    BY DEF SendAll, Sent
  <2>2. sent[w] <= Size(packets[w]) /\ sent[w] # Size(packets[w])
    BY <2>1, <1>0 DEF WrittenInv
  <2>3. sent[w] \in Nat /\ Size(packets[w]) \in Nat
    BY <1>0, PositionType DEF TypeInv
  <2> QED BY <2>2, <2>3 DEF PacketLeft
<1>2. kind = "tcp" /\ Sent(w, n) /\ flying' = flying + n
  BY <1>1 DEF SendAll
<1>3. UNCHANGED <<kind, packets, controls, reading>>
  BY <1>2 DEF Sent
<1>4. PICK size \in Nat \ {0}, x \in Nat : x < size /\ SentAs(w, size, x, n)
  BY <1>0, <1>1, <1>2, SentPlace
<1>5. OrderInv' /\ (PlaceInv => PlaceInv')
  BY <1>0, <1>3, <1>4, SentReads
<1>6. ASSUME Whole PROVE BytesInv' /\ PlaceInv'
  <2>1. BytesInv /\ PlaceInv
    BY <1>6 DEF ReadInv
  <2>2. received \in Nat /\ flying \in Nat /\ received + flying = Position
    BY <2>1, <1>2 DEF BytesInv
  <2>3. Position' = Position + n
    BY <1>4 DEF SentAs
  <2>4. flying' \in Nat /\ received + flying' = Position'
    BY <2>2, <2>3, <1>2
  <2>5. Want' = Want
    BY <1>3 DEF Want
  <2>6. BytesInv'
    BY <2>1, <2>4, <2>5, <1>2, <1>3 DEF BytesInv
  <2> QED BY <2>1, <2>6, <1>5
<1> QED BY <1>3, <1>5, <1>6 DEF ReadInv, Whole

\* Over a WebSocket the next fragment is sent, behind the others.
LEMMA SendFragmentReads ==
  ASSUME TransportInv, ReadInv, NEW w \in Writers, SendFragment(w)
  PROVE  ReadInv'
<1>0. TypeInv /\ WrittenInv /\ OrderInv
  BY DEF TransportInv, ReadInv
<1>1. PICK size \in Nat \ {0}, x \in Nat, n \in Nat \ {0}, f \in Frames :
        x < size /\ Sends(w, size, x, n, f)
  BY SendFragmentSends
<1>2. /\ kind = "websocket" /\ SentAs(w, size, x, n)
      /\ frames' = Append(frames, f)
      /\ f.op \in DataOps /\ f.from = Position /\ End(f) = Position'
      /\ UNCHANGED <<kind, packets, flying, controls, reading>>
  BY <1>1 DEF Sends
<1>3. OrderInv' /\ (PlaceInv => PlaceInv')
  BY <1>0, <1>1, <1>2, SentReads
<1>4. ASSUME Whole PROVE BytesInv' /\ PlaceInv'
  <2>1. BytesInv /\ PlaceInv
    BY <1>4 DEF ReadInv
  <2>2. received \in Nat /\ Position \in Nat /\ Ahead(frames, received, Position)
    BY <2>1, <1>0, <1>2, PositionType DEF BytesInv
  <2>3. Ahead(Append(frames, f), received, End(f))
    BY <2>2, <1>0, <1>2, AheadData DEF TypeInv
  <2>4. BytesInv'
    BY <2>1, <2>3, <1>2 DEF BytesInv
  <2> QED BY <2>1, <2>4, <1>3
<1> QED BY <1>2, <1>3, <1>4 DEF ReadInv, Whole

\* A control frame, and the one of close().
LEMMA ControlReads ==
  ASSUME TransportInv, ReadInv, NEW op \in ControlOps, NEW n \in Nat, kind = "websocket",
         frames' = Append(frames, Control(op, n)),
         UNCHANGED <<kind, packets, pc, sent, written, flying, reading>>,
         controls' \in 0..MaxControls
  PROVE  ReadInv'
<1>0. TypeInv /\ OrderInv
  BY DEF TransportInv, ReadInv
<1>1. OrderInv' /\ Position' = Position
  BY <1>0, OrderKeep
<1>2. PICK f \in Frames : f = Control(op, n) /\ f.op \notin DataOps
  BY ControlFrame
<1>3. ASSUME Whole PROVE BytesInv' /\ PlaceInv'
  <2>1. BytesInv /\ PlaceInv
    BY <1>3 DEF ReadInv
  <2>2. Ahead(frames', received, Position)
    <3>1. Ahead(frames, received, Position)
      BY <2>1 DEF BytesInv
    <3>2. Ahead(Append(frames, f), received, Position)
      BY <3>1, <1>0, <1>2, AheadControl DEF TypeInv
    <3> QED BY <3>2, <1>2
  <2>3. BytesInv'
    BY <2>1, <2>2, <1>1 DEF BytesInv
  <2>4. Settled
    BY DEF Settled
  <2> QED BY <2>1, <2>3, <2>4, <1>0, PlaceKeep
<1> QED BY <1>1, <1>3 DEF ReadInv, Whole

\* A thread that takes the lock, a write that fails, an end of the stream and a
\* header that is none move no byte.
LEMMA QuietReads ==
  ASSUME TransportInv, ReadInv, ended' \in BOOLEAN,
         UNCHANGED <<kind, packets, sent, written, wires, buffers, handed, due, parsed>>,
         Settled, parse' = parse \/ (parse' = Lost /\ astray /\ kind = "websocket")
  PROVE  ReadInv'
<1>0. TypeInv /\ OrderInv /\ controls' \in 0..MaxControls
  BY DEF TransportInv, ReadInv, OrderInv
<1>1. OrderInv' /\ Position' = Position
  BY <1>0, OrderKeep
<1>2. ASSUME Whole PROVE BytesInv' /\ PlaceInv'
  <2>1. BytesInv /\ PlaceInv
    BY <1>2 DEF ReadInv
  <2>2. kind = "tcp" => Want' = Want
    BY DEF Want
  <2>3. BytesInv'
    BY <2>1, <2>2, <1>1 DEF BytesInv
  <2>4. PlaceInv'
    BY <2>1, <1>0, PlaceKeep
  <2> QED BY <2>3, <2>4
<1> QED BY <1>1, <1>2 DEF ReadInv, Whole

\* What is being read is one of the packets; the next read is for some bytes.
LEMMA WantType ==
  ASSUME TypeInv, PlaceInv
  PROVE  /\ Want \in Nat
         /\ parsed < Len(written) =>
              /\ parsed + 1 \in DOMAIN written
              /\ written[parsed + 1].start \in Nat
              /\ Current \in Packets /\ Length(Current) < 128 * LastMultiplier
<1>1. parsed \in Nat /\ Len(written) \in Nat /\ DOMAIN written = 1..Len(written)
  BY WrittenType DEF PlaceInv
<1>2. ASSUME parsed < Len(written)
      PROVE  /\ parsed + 1 \in DOMAIN written
             /\ written[parsed + 1].start \in Nat
             /\ Current \in Packets /\ Length(Current) < 128 * LastMultiplier
  <2>1. parsed + 1 \in DOMAIN written
    BY <1>1, <1>2
  <2> QED BY <2>1, WrittenType DEF Current
<1>3. CASE parse = AtStart
  <2>1. parse.at = "header"
    BY <1>3 DEF AtStart
  <2> QED BY <2>1, <1>2 DEF Want
<1>4. CASE parsed < Len(written) /\ Midway(Current, parse, due - written[parsed + 1].start)
  <2>1. parse.at = "length" => Want = 1
    BY DEF Want
  <2>2. parse.at = "rest" => Want \in Nat
    BY <1>4 DEF Want, Midway
  <2>3. ASSUME parse.at = "fields" PROVE Want \in Nat
    <3>1. parse.todo \in Seq(Nat) /\ parse.todo # <<>>
      BY <1>4, <2>3 DEF Midway, InFields
    <3>2. Head(parse.todo) \in Nat
      BY <3>1, SumLaw
    <3> QED BY <2>3, <3>2 DEF Want
  <2>4. parse.at \in {"length", "fields", "rest"}
    BY <1>4, MidwayType
  <2> QED BY <2>1, <2>2, <2>3, <2>4, <1>2
<1>5. CASE parse = Lost
  <2>1. parse.at = "lost"
    BY <1>5 DEF Lost
  <2> QED BY <2>1, <1>2 DEF Want
<1> QED BY <1>3, <1>4, <1>5 DEF PlaceInv

\* Over TCP recv returns all that was asked for, or waits.
LEMMA RecvReads ==
  ASSUME TransportInv, ReadInv, NEW n \in RecvSizes, Recv(n)
  PROVE  ReadInv'
<1>0. TypeInv /\ OrderInv /\ controls \in 0..MaxControls /\ FrameInv
  BY DEF TransportInv, ReadInv, OrderInv
<1>1. /\ kind = "tcp" /\ (within # {} \/ have < Want) /\ n <= flying
      /\ flying' = flying - n /\ have' = have + n /\ received' = received + n
      /\ UNCHANGED <<kind, writing, frames, controls, within, astray, handed, due, parsed, parse,
                     ended>>
  BY DEF Recv, Waiting
<1>2. OrderInv' /\ Position' = Position
  BY <1>0, <1>1, OrderKeep
<1>3. ASSUME Whole PROVE BytesInv' /\ PlaceInv'
  <2>1. BytesInv /\ PlaceInv
    BY <1>3 DEF ReadInv
  <2>2. n = Want
    BY <1>1, <1>3 DEF Whole, RecvSizes
  <2>3. PICK want \in Nat : want = Want
    BY <2>1, <1>0, WantType
  <2>4. /\ have \in Nat /\ received \in Nat /\ flying \in Nat /\ handed \in Nat
        /\ received = handed + have /\ received + flying = Position
        /\ (have = 0 \/ have = want)
    BY <2>1, <2>3, <1>1 DEF BytesInv
  <2>5. have = 0
    BY <2>1, <2>3, <2>4, <1>1 DEF BytesInv
  <2>6. /\ flying' \in Nat /\ have' = want /\ received' \in Nat
        /\ received' = handed + have' /\ received' + flying' = received + flying
    BY <2>2, <2>3, <2>4, <2>5, <1>1
  <2>7. Want' = Want
    BY <1>1 DEF Want
  <2>8. BytesInv'
    BY <2>1, <2>3, <2>4, <2>6, <2>7, <1>1, <1>2 DEF BytesInv
  <2>9. Settled
    BY <1>1 DEF Settled
  <2> QED BY <2>1, <2>8, <2>9, <1>0, <1>1, PlaceKeep
<1> QED BY <1>1, <1>2, <1>3 DEF ReadInv, Whole

\* The next frame is one of data that goes on where the reader is, or of control.
LEMMA NextFrame ==
  ASSUME TransportInv, kind = "websocket", frames # <<>>, ~astray
  PROVE  /\ frames \in Seq(Frames) /\ Head(frames) \in Frames
         /\ Head(frames).op \in DataOps =>
              /\ Head(frames).from = received
              /\ RecvLength(Head(frames).length) \in Nat
<1>1. TypeInv /\ FrameInv
  BY DEF TransportInv
<1>2. Chain(frames, received, within, Position, LeftOpen, Failed)
  BY <1>1 DEF FrameInv, Flows
<1>3. frames \in Seq(Frames)
  BY <1>1 DEF TypeInv
<1>4. /\ Head(frames) \in Frames
      /\ Head(frames).op \in DataOps => Follows(Head(frames), received, within, Failed)
  BY <1>2, <1>3, ChainTail
<1> QED BY <1>3, <1>4, FrameType DEF Follows

\* A frame is taken, and m bytes of it: they are the next ones of the stream.
LEMMA TakeReads ==
  ASSUME TransportInv, ReadInv, NEW m \in Nat, kind = "websocket", frames # <<>>, ~astray,
         frames' = Tail(frames), have' = have + m, received' = received + m,
         Head(frames).op \in DataOps => m <= RecvLength(Head(frames).length),
         Head(frames).op \notin DataOps => m = 0,
         UNCHANGED <<kind, writing, flying, controls, handed, due, parsed>>,
         ended' \in BOOLEAN, parse' = parse \/ (parse' = Lost /\ astray')
  PROVE  ReadInv'
<1>0. TypeInv /\ OrderInv /\ controls \in 0..MaxControls
  BY DEF TransportInv, ReadInv, OrderInv
<1>1. OrderInv' /\ Position' = Position
  BY <1>0, OrderKeep
<1>2. PICK f \in Frames : /\ f = Head(frames) /\ frames \in Seq(Frames)
                          /\ f.op \in DataOps => f.from = received /\ RecvLength(f.length) \in Nat
  BY NextFrame
<1>3. ASSUME Whole PROVE BytesInv' /\ PlaceInv'
  <2>1. BytesInv /\ PlaceInv
    BY <1>3 DEF ReadInv
  <2>2. PICK x \in Nat, position \in Nat :
          /\ x = received /\ position = Position /\ have \in Nat /\ handed \in Nat
          /\ received = handed + have /\ Ahead(frames, x, position)
    BY <2>1, <1>0, PositionType DEF BytesInv
  <2>3. /\ f.op \in DataOps => Ahead(Tail(frames), End(f), position)
        /\ f.op \notin DataOps => Ahead(Tail(frames), x, position)
    BY <2>2, <1>2, AheadTail
  <2>4. Ahead(Tail(frames), x + m, position)
    <3>1. CASE f.op \in DataOps
      <4>1. PICK n \in Nat : n = RecvLength(f.length) /\ m <= n
        BY <3>1, <1>2
      <4>2. End(f) = x + n
        BY <3>1, <4>1, <2>2, <1>2 DEF End
      <4>3. x + m \in Nat /\ x + n \in Nat /\ x + m <= x + n
        BY <4>1
      <4>4. Tail(frames) \in Seq(Frames)
        BY <1>2, HeadTailProperties
      <4>5. Ahead(Tail(frames), x + n, position)
        BY <3>1, <4>2, <2>3
      <4> QED BY <4>3, <4>4, <4>5, AheadFrom
    <3>2. CASE f.op \notin DataOps
      <4>1. x + m = x
        BY <3>2, <1>2
      <4> QED BY <3>2, <4>1, <2>3
    <3> QED BY <3>1, <3>2
  <2>5. have' \in Nat /\ received' \in Nat /\ received' = handed + have' /\ received' = x + m
    BY <2>2
  <2>6. Ahead(frames', received', Position')
    BY <2>2, <2>4, <2>5, <1>1
  <2>7. BytesInv'
    BY <2>1, <2>5, <2>6 DEF BytesInv
  <2>8. Settled
    BY DEF Settled
  <2> QED BY <2>1, <2>7, <2>8, <1>0, PlaceKeep
<1> QED BY <1>1, <1>3 DEF ReadInv, Whole

\* A frame is taken and nothing of it kept.
LEMMA NothingTaken ==
  ASSUME TransportInv, ReadInv, kind = "websocket", frames # <<>>, ~astray,
         frames' = Tail(frames), UNCHANGED <<have, received>>,
         UNCHANGED <<kind, writing, flying, controls, handed, due, parsed>>,
         ended' \in BOOLEAN, parse' = parse \/ (parse' = Lost /\ astray')
  PROVE  ReadInv'
<1>1. BytesInv
  BY DEF ReadInv, Whole
<1>2. PICK h \in Nat, r \in Nat : h = have /\ r = received
  BY <1>1 DEF BytesInv
<1>3. h + 0 = h /\ r + 0 = r
  OBVIOUS
<1>4. have' = have + 0 /\ received' = received + 0
  BY <1>2, <1>3
<1>5. Head(frames).op \in DataOps => 0 <= RecvLength(Head(frames).length)
  BY NextFrame
<1> QED BY <1>4, <1>5, TakeReads

\* A frame is received, whole.
LEMMA RecvFrameReads ==
  ASSUME TransportInv, ReadInv, RecvFrame
  PROVE  ReadInv'
<1>0. ended \in BOOLEAN
  BY DEF ReadInv
<1>1. PICK f : f = Head(frames)
  OBVIOUS
<1>2. /\ kind = "websocket" /\ frames # <<>> /\ ~astray /\ frames' = Tail(frames)
      /\ UNCHANGED <<kind, writing, flying, controls, handed, due, parsed, parse>>
      /\ f.op \in DataOps => Extend(f, RecvLength(f.length)) /\ ended' = ended
      /\ f.op \notin DataOps => ended' \in EndsAt(f.op) /\ UNCHANGED <<have, received>>
  BY <1>1 DEF RecvFrame
<1>3. CASE f.op \in DataOps
  <2>1. PICK m \in Nat : m = RecvLength(f.length)
    BY <1>1, <1>2, <1>3, NextFrame
  <2>2. have' = have + m /\ received' = received + m /\ m <= RecvLength(f.length)
    BY <2>1, <1>2, <1>3 DEF Extend
  <2> QED BY <2>2, <1>0, <1>1, <1>2, <1>3, TakeReads
<1>4. CASE f.op \notin DataOps
  <2>1. ended' \in BOOLEAN
    BY <1>2, <1>4 DEF EndsAt
  <2> QED BY <2>1, <1>1, <1>2, <1>4, NothingTaken
<1> QED BY <1>3, <1>4

\* A frame is received in part.
LEMMA RecvShortReads ==
  ASSUME TransportInv, ReadInv, NEW n \in ShortSizes, RecvShort(n)
  PROVE  ReadInv'
<1>0. ended \in BOOLEAN /\ n \in Nat
  BY TransportAssumption DEF ReadInv
<1>1. PICK f : f = Head(frames)
  OBVIOUS
<1>2. /\ kind = "websocket" /\ frames # <<>> /\ ~astray /\ frames' = Tail(frames) /\ astray'
      /\ UNCHANGED <<kind, writing, flying, controls, handed, due, parsed>>
      /\ \/ ended' = TRUE /\ UNCHANGED <<have, received, parse>>
         \/ parse' = Lost /\ UNCHANGED <<have, received, ended>>
         \/ /\ f.op \in DataOps /\ n < RecvLength(f.length)
            /\ Extend(f, n) /\ UNCHANGED <<parse, ended>>
         \/ ended' \in EndsAt(f.op) /\ UNCHANGED <<have, received, parse>>
  BY <1>1 DEF RecvShort
<1>3. ended' \in BOOLEAN
  BY <1>0, <1>2 DEF EndsAt
<1>4. parse' = parse \/ (parse' = Lost /\ astray')
  BY <1>2
<1>5. CASE f.op \in DataOps /\ n < RecvLength(f.length) /\ Extend(f, n)
  <2>1. n <= RecvLength(f.length)
    BY <1>0, <1>1, <1>2, <1>5, NextFrame
  <2>2. have' = have + n /\ received' = received + n
    BY <1>5 DEF Extend
  <2> QED BY <2>1, <2>2, <1>0, <1>1, <1>2, <1>3, <1>4, <1>5, TakeReads
<1>6. CASE UNCHANGED <<have, received>>
  BY <1>1, <1>2, <1>3, <1>4, <1>6, NothingTaken
<1> QED BY <1>2, <1>5, <1>6

\* A read returns: the reader goes to its next place, which is the next packet's
\* first byte when it has all of this one (base_packet.py 28-89).  It goes beyond
\* its packet only if the packet was cut short.
LEMMA ReadReads ==
  ASSUME TransportInv, ReadInv, Read
  PROVE  ReadInv'
<1>0. TypeInv /\ WrittenInv /\ OrderInv /\ controls \in 0..MaxControls
  BY DEF TransportInv, ReadInv, OrderInv
<1>1. /\ have >= Want /\ parse # Lost
      /\ have' = IF kind = "tcp" THEN 0 ELSE Leftover
      /\ handed' = handed + IF kind = "tcp" THEN have ELSE Want
      /\ due' = due + Want
      /\ parse' = IF InPacket THEN AfterRead ELSE Lost
      /\ parsed' = IF InPacket /\ AfterRead = AtStart THEN parsed + 1 ELSE parsed
      /\ ended' \in BOOLEAN
      /\ UNCHANGED <<kind, writing, wires, within, astray, received>>
  BY DEF Read, InPacket
<1>2. OrderInv' /\ Position' = Position
  BY <1>0, <1>1, OrderKeep
<1>3. ASSUME Whole PROVE BytesInv' /\ PlaceInv'
  <2>1. BytesInv /\ PlaceInv
    BY <1>3 DEF ReadInv
  <2>2. PICK want \in Nat : want = Want
    BY <2>1, <1>0, WantType
  <2>3. /\ have \in Nat /\ received \in Nat /\ due \in Nat /\ handed = due
        /\ received = due + have /\ want <= have
        /\ kind = "tcp" => have = 0 \/ have = want
    BY <2>1, <2>2, <1>1 DEF BytesInv
  <2>4. BytesInv'
    <3>1. due' \in Nat /\ due' = due + want
      BY <2>2, <2>3, <1>1
    <3>2. /\ kind = "tcp" => have = want /\ have' = 0 /\ handed' = due + want
          /\ kind # "tcp" => have' = have - want /\ handed' = due + want
      BY <2>2, <2>3, <1>1 DEF Leftover
    <3>3. have' \in Nat /\ handed' = due' /\ received = handed' + have'
      <4>1. CASE kind = "tcp"
        BY <4>1, <2>3, <3>1, <3>2
      <4>2. CASE kind # "tcp"
        BY <4>2, <2>3, <3>1, <3>2
      <4> QED BY <4>1, <4>2
    <3> QED BY <2>1, <3>1, <3>2, <3>3, <1>1, <1>2 DEF BytesInv
  <2>5. PICK position \in Nat : position = Position /\ received <= position
                                /\ StartAt(Len(written) + 1) = position
    BY <2>1, <1>0, PositionType, Reached
  <2>6. parsed < Len(written)
    <3>1. CASE parse = AtStart /\ parsed <= Len(written) /\ due = StartAt(parsed + 1)
      <4>1. parse.at = "header"
        BY <3>1 DEF AtStart
      <4>2. want = 1
        BY <2>2, <4>1 DEF Want
      <4>3. due < position
        BY <2>3, <2>5, <4>2
      <4>4. parsed # Len(written)
        BY <3>1, <2>3, <2>5, <4>3
      <4>5. parsed \in Nat /\ Len(written) \in Nat
        BY <1>0, <2>1, WrittenType DEF PlaceInv
      <4> QED BY <3>1, <4>4, <4>5
    <3> QED BY <3>1, <2>1, <1>1 DEF PlaceInv
  <2>7. /\ parsed + 1 \in DOMAIN written /\ parsed \in Nat
        /\ Current \in Packets /\ Length(Current) < 128 * LastMultiplier
    BY <2>1, <2>6, <1>0, WantType DEF PlaceInv
  <2>8. PICK start \in Nat : start = written[parsed + 1].start
    BY <2>1, <2>6, <1>0, WantType
  <2>9. PICK v \in Writers : v = written[parsed + 1].by /\ Current = packets[v]
    BY <2>7, <1>0, WrittenType DEF Current
  <2>10. PICK x \in Nat, size \in Nat : /\ x = sent[v] /\ size = Size(Current) /\ x <= size
                                        /\ (pc[v] = "done" <=> x = size)
    <3>1. sent[v] \in Nat /\ Size(packets[v]) \in Nat
      BY <1>0, PositionType DEF TypeInv
    <3>2. sent[v] <= Size(packets[v]) /\ (pc[v] = "done" <=> sent[v] = Size(packets[v]))
      BY <1>0 DEF WrittenInv
    <3> QED BY <3>1, <3>2, <2>9
  <2>11. PICK taken \in Int : taken = due - start
    BY <2>3
  <2>12. (parse = AtStart /\ taken = 0) \/ Midway(Current, parse, taken)
    <3>1. CASE parse = AtStart /\ due = StartAt(parsed + 1)
      <4>1. parsed + 1 <= Len(written)
        BY <2>7, <1>0, WrittenType
      <4>2. due = start
        BY <3>1, <4>1, <2>8 DEF StartAt
      <4> QED BY <3>1, <4>2, <2>3, <2>11
    <3> QED BY <3>1, <2>1, <2>8, <2>11, <1>1 DEF PlaceInv
  <2>13. Placed(Current, AfterRead, taken + want)
    BY <2>2, <2>7, <2>12, ReadPlace
  <2>14. due' = due + want /\ taken + want = due' - start /\ due' \in Nat
    BY <2>2, <2>3, <2>11, <1>1
  <2>15. InPacket <=> due' <= start + x
    BY <2>2, <2>8, <2>9, <2>10, <2>14 DEF InPacket
  <2>16. \A k \in 1..parsed : pc'[written'[k].by] = "done"
    BY <2>1, <1>1 DEF PlaceInv
  <2>17. CASE InPacket /\ AfterRead = AtStart /\ taken + want = Size(Current)
    <3>1. due' = start + size /\ x = size
      <4>1. due' - start = size /\ due' <= start + x
        BY <2>10, <2>14, <2>15, <2>17
      <4> QED BY <4>1, <2>10, <2>14
    <3>2. StartAt(parsed + 1 + 1) = start + x
      BY <2>7, <2>8, <2>9, <2>10, <1>0 DEF OrderInv
    <3>3. parse' = AtStart /\ parsed' = parsed + 1
      BY <2>17, <1>1
    <3>4. due' = StartAt(parsed + 1)'
      BY <3>1, <3>2, <3>3, <1>1, <1>2 DEF StartAt
    <3>5. parsed' \in Nat /\ parsed' <= Len(written')
      BY <3>3, <2>7, <1>0, <1>1, WrittenType
    <3>6. \A k \in 1..parsed' : pc'[written'[k].by] = "done"
      <4>1. pc'[written'[parsed + 1].by] = "done"
        BY <3>1, <2>9, <2>10, <1>1
      <4>2. \A k \in 1..parsed + 1 : k \in 1..parsed \/ k = parsed + 1
        BY <2>7
      <4> QED BY <3>3, <4>1, <4>2, <2>16
    <3>7. PlaceInv'
      BY <3>3, <3>4, <3>5, <3>6 DEF PlaceInv
    <3> QED BY <2>4, <3>7
  <2>18. CASE InPacket /\ Midway(Current, AfterRead, taken + want)
    <3>1. AfterRead # AtStart
      BY <2>18, MidwayType
    <3>2. parse' = AfterRead /\ parsed' = parsed
      BY <3>1, <2>18, <1>1
    <3>3. Current' = Current /\ written' = written
      BY <3>2, <1>1 DEF Current
    <3>4. Midway(Current', parse', due' - written'[parsed' + 1].start)
      BY <2>18, <2>8, <2>14, <3>2, <3>3
    <3>5. PlaceInv'
      BY <3>2, <3>3, <3>4, <2>1, <2>6, <2>7, <2>16 DEF PlaceInv
    <3> QED BY <2>4, <3>5
  <2>19. CASE ~InPacket
    <3>1. parse' = Lost /\ parsed' = parsed
      BY <2>19, <1>1
    <3>2. start + x < due'
      BY <2>14, <2>15, <2>19
    <3>3. pc[v] # "done"
      <4>1. taken + want <= size
        BY <2>7, <2>10, <2>13, PlacedBound
      <4>2. due' <= start + size
        BY <4>1, <2>10, <2>14
      <4>3. x # size
        BY <4>2, <3>2, <2>14
      <4> QED BY <4>3, <2>10
    <3>4. pc[v] # "start"
      BY <2>7, <2>9, <1>0 DEF WrittenInv
    <3>5. ASSUME pc[v] = "send" PROVE FALSE
      <4>1. written # <<>> /\ Latest.by = v
        BY <3>5, <3>4, <2>7, <2>9, <1>0 DEF WrittenInv
      <4>2. Len(written) = parsed + 1
        BY <4>1, <2>7, <2>9, <1>0, LatestType DEF WrittenInv, Latest
      <4>3. position = start + x
        BY <4>1, <4>2, <2>5, <2>8, <2>10 DEF Position, Latest
      <4> QED BY <4>3, <3>2, <2>3, <2>5, <2>14
    <3>6. pc[v] = "failed"
      BY <3>3, <3>4, <3>5, <1>0 DEF TypeInv
    <3>7. Cut'
      BY <3>1, <3>6, <2>6, <2>9, <1>1 DEF Cut
    <3>8. PlaceInv'
      BY <3>1, <3>7, <2>1, <2>16, <1>1 DEF PlaceInv
    <3> QED BY <2>4, <3>8
  <2> QED BY <2>13, <2>17, <2>18, <2>19 DEF Placed
<1> QED BY <1>1, <1>2, <1>3 DEF ReadInv, Whole

\* Every step keeps the reader and what was written together.
LEMMA ReadStep == TransportInv /\ ReadInv /\ [Next]_vars => ReadInv'
<1> SUFFICES ASSUME TransportInv, ReadInv, [Next]_vars PROVE ReadInv'
  OBVIOUS
<1>0. controls \in 0..MaxControls /\ ended \in BOOLEAN /\ TypeInv
  BY DEF ReadInv, OrderInv, TransportInv
<1>1. ASSUME NEW w \in Writers, WriterStep(w) PROVE ReadInv'
  <2>1. CASE WriteFails(w) \/ Begin(w)
    <3>1. Settled
      BY <2>1, <1>0 DEF Settled, WriteFails, Begin, TypeInv
    <3>2. /\ UNCHANGED <<kind, packets, sent, written, wires, buffers, handed, due, parsed, parse>>
          /\ ended' = ended
      BY <2>1 DEF WriteFails, Begin
    <3> QED BY <3>1, <3>2, <1>0, QuietReads
  <2> QED BY <1>1, <2>1, SendAllReads, SendFragmentReads DEF WriterStep
<1>2. ASSUME NEW op \in {"PING", "PONG", "TEXT"}, NEW n \in ControlSizes, SendControl(op, n)
      PROVE  ReadInv'
  <2>1. controls' \in 0..MaxControls
    BY <1>0, <1>2, TransportAssumption DEF SendControl
  <2>2. /\ UNCHANGED <<kind, packets, pc, sent, written, flying, reading>>
        /\ kind = "websocket" /\ frames' = Append(frames, Control(op, n))
    BY <1>2 DEF SendControl
  <2>3. op \in ControlOps /\ n \in Nat
    BY TransportAssumption DEF ControlOps
  <2> QED BY <2>1, <2>2, <2>3, ControlReads
<1>3. CASE Close
  <2>1. UNCHANGED <<kind, packets, pc, sent, written, flying, controls, reading>>
    BY <1>3 DEF Close
  <2>2. CASE frames' = frames
    <3>1. Settled
      BY <2>1 DEF Settled
    <3> QED BY <2>1, <2>2, <3>1, <1>0, QuietReads
  <2>3. CASE kind = "websocket" /\ frames' = Append(frames, Control("CLOSE", 0))
    <3>1. "CLOSE" \in ControlOps /\ 0 \in Nat
      BY DEF ControlOps
    <3> QED BY <2>1, <2>3, <3>1, <1>0, ControlReads
  <2> QED BY <1>3, <2>2, <2>3 DEF Close
<1>4. CASE Read
  BY <1>4, ReadReads
<1>5. CASE RecvFrame
  BY <1>5, RecvFrameReads
<1>6. CASE RecvFails \/ RecvEnds \/ Strays
  <2>1. /\ UNCHANGED <<kind, packets, pc, sent, written, wires, buffers, handed, due, parsed>>
        /\ ended' \in BOOLEAN
        /\ parse' = parse \/ (parse' = Lost /\ astray /\ kind = "websocket")
    BY <1>6, <1>0 DEF RecvFails, RecvEnds, Strays
  <2>2. Settled
    BY <2>1 DEF Settled
  <2> QED BY <2>1, <2>2, QuietReads
<1>7. ASSUME NEW n \in RecvSizes, Recv(n) PROVE ReadInv'
  BY <1>7, RecvReads
<1>8. ASSUME NEW n \in ShortSizes, RecvShort(n) PROVE ReadInv'
  BY <1>8, RecvShortReads
<1>9. CASE UNCHANGED vars
  <2>1. /\ UNCHANGED <<kind, packets, pc, sent, written, wires, buffers, handed, due, parsed, parse>>
        /\ ended' = ended
    BY <1>9 DEF vars
  <2>2. Settled
    BY <2>1 DEF Settled
  <2> QED BY <2>1, <2>2, <1>0, QuietReads
<1> QED BY <1>1, <1>2, <1>3, <1>4, <1>5, <1>6, <1>7, <1>8, <1>9 DEF Next, ReaderStep

-----------------------------------------------------------------------------
(* The theorems *)

\* Every step of a thread, of close() and of the reader preserves the invariant.
LEMMA TransportStep == TransportInv /\ [Next]_vars => TransportInv'
<1> SUFFICES ASSUME TransportInv, [Next]_vars PROVE TransportInv'
  OBVIOUS
<1>0. open \in BOOLEAN
  BY DEF TransportInv, TypeInv
<1>1. ASSUME NEW w \in Writers, WriterStep(w) PROVE TransportInv'
  BY <1>1, BeginStep, SendAllStep, SendFragmentStep, WriteFailsStep DEF WriterStep
<1>2. ASSUME NEW op \in {"PING", "PONG", "TEXT"}, NEW n \in ControlSizes, SendControl(op, n)
      PROVE  TransportInv'
  <2>1. /\ open' = open /\ UNCHANGED <<kind, packets, pc, sent, written, within, received, astray>>
        /\ kind = "websocket" /\ frames' = Append(frames, Control(op, n))
    BY <1>2 DEF SendControl
  <2>2. op \in ControlOps /\ n \in Nat
    BY TransportAssumption DEF ControlOps
  <2> QED BY <2>1, <2>2, <1>0, ControlStep
<1>3. CASE Close
  <2>1. /\ open' \in BOOLEAN
        /\ UNCHANGED <<kind, packets, pc, sent, written, within, received, astray>>
    BY <1>3 DEF Close
  <2>2. CASE frames' = frames
    BY <2>1, <2>2, KeepStep
  <2>3. CASE kind = "websocket" /\ frames' = Append(frames, Control("CLOSE", 0))
    <3>1. "CLOSE" \in ControlOps /\ 0 \in Nat
      BY DEF ControlOps
    <3> QED BY <2>1, <2>3, <3>1, ControlStep
  <2> QED BY <1>3, <2>2, <2>3 DEF Close
<1>4. CASE Read \/ RecvFails \/ RecvEnds \/ Strays
  <2>1. UNCHANGED <<kind, writing, frames, within, astray, received>>
    BY <1>4 DEF Read, RecvFails, RecvEnds, Strays
  <2> QED BY <2>1, <1>0, KeepStep
<1>5. CASE RecvFrame
  BY <1>5, RecvFrameStep
<1>6. ASSUME NEW n \in ShortSizes, RecvShort(n) PROVE TransportInv'
  BY <1>6, RecvShortStep
<1>7. ASSUME NEW n \in RecvSizes, Recv(n) PROVE TransportInv'
  <2>1. kind = "tcp" /\ UNCHANGED <<kind, writing, frames, within, astray>>
    BY <1>7 DEF Recv
  <2> QED BY <2>1, <1>0, KeepStep
<1>8. CASE UNCHANGED vars
  <2>1. UNCHANGED <<kind, writing, frames, within, astray, received>>
    BY <1>8 DEF vars
  <2> QED BY <2>1, <1>0, KeepStep
<1> QED BY <1>1, <1>2, <1>3, <1>4, <1>5, <1>6, <1>7, <1>8 DEF Next, ReaderStep

\* The frames under way take the stream from what was received to what was sent,
\* whichever threads sent them and wherever a send failed (socket.py 22-27,
\* websocket/handler.py 39-96).
THEOREM TransportInvariance == Spec => []TransportInv
<1> QED BY TransportInit, TransportStep, PTL DEF Spec

\* The messages of different threads do not mix: the data frames under way
\* continue, byte by byte, what was received, and one another; only where a send has
\* failed does a message follow an unfinished one (socket.py 22-27,
\* websocket/handler.py 46-61, frame.py 53-73).
THEOREM StreamIntactAlways == Spec => []StreamIntact
<1>1. TransportInv => StreamIntact
  <2> SUFFICES ASSUME TransportInv PROVE StreamIntact
    OBVIOUS
  <2>0. TypeInv /\ FrameInv
    BY DEF TransportInv
  <2>1. DataAt = DataIn(frames)
    BY DEF DataAt, DataIn
  <2>2. CASE kind = "tcp"
    <3>1. frames = <<>>
      BY <2>0, <2>2 DEF FrameInv
    <3>2. DataAt = {}
      BY <3>1 DEF DataAt
    <3> QED BY <3>2 DEF StreamIntact
  <2>3. CASE kind = "websocket"
    <3>1. PICK from, begun : Flows(from, begun)
      BY <2>0, <2>3 DEF FrameInv
    <3>2. Chain(frames, from, begun, Position, LeftOpen, Failed)
      BY <3>1 DEF Flows
    <3>3. ~astray => from = received /\ begun = within
      BY <3>1 DEF Flows
    <3> QED BY <2>1, <3>2, <3>3 DEF Chain, StreamIntact, End
  <2> QED BY <2>0, <2>2, <2>3 DEF TypeInv
<1> QED BY <1>1, TransportInvariance, PTL

\* Whichever way the bytes came, the reader has the bytes it asked for and stands in
\* the packets as they were written, until one of them or a frame was cut short
\* (base_packet.py 28-89, streams.py 14-62, frame.py 80-113).
THEOREM ReadInvariance == Spec => []ReadInv
<1> QED BY ReadInit, ReadStep, TransportInvariance, PTL DEF Spec

\* Where no read over TCP is short, the variables keep their types, and the reader
\* never meets a length it takes for invalid (streams.py 39-55).
THEOREM TypeOKAlways == Spec => [](Whole => TypeOK)
<1>1. TransportInv /\ ReadInv => (Whole => TypeOK)
  <2> SUFFICES ASSUME TransportInv, ReadInv, Whole PROVE TypeOK
    OBVIOUS
  <2>1. TypeInv /\ WrittenInv /\ OrderInv /\ BytesInv /\ PlaceInv /\ ended \in BOOLEAN
    BY DEF TransportInv, ReadInv
  <2>2. ASSUME NEW w \in Writers
        PROVE  sent[w] \in 0..Size(packets[w]) /\ (pc[w] = "done" <=> sent[w] = Size(packets[w]))
    <3>1. sent[w] \in Nat /\ Size(packets[w]) \in Nat
      BY <2>1, PositionType DEF TypeInv
    <3>2. sent[w] <= Size(packets[w]) /\ (pc[w] = "done" <=> sent[w] = Size(packets[w]))
      BY <2>1 DEF WrittenInv
    <3> QED BY <3>1, <3>2
  <2>3. /\ parse.at \in {"header", "length", "fields", "rest", "lost"}
        /\ parse.at \in {"fields", "rest"} => parse.rest \in Nat
    <3>1. CASE parse = AtStart
      BY <3>1 DEF AtStart
    <3>2. CASE Midway(Current, parse, due - written[parsed + 1].start)
      BY <3>2, MidwayType
    <3>3. CASE parse = Lost
      BY <3>3 DEF Lost
    <3> QED BY <3>1, <3>2, <3>3, <2>1 DEF PlaceInv
  <2> QED BY <2>1, <2>2, <2>3 DEF TypeOK, TypeInv, OrderInv, BytesInv
<1> QED BY <1>1, TransportInvariance, ReadInvariance, PTL

\* Where no read over TCP is short, none returns more or less than it was asked for,
\* also where a frame of a WebSocket comes in part (socket.py 32-44,
\* websocket/handler.py 39-44, 70-76).
THEOREM ReadExactAlways == Spec => [](Whole => ReadExact)
<1>1. ReadInv => (Whole => ReadExact)
  BY DEF ReadInv, BytesInv, ReadExact
<1> QED BY <1>1, ReadInvariance, PTL

\* Where no read over TCP is short, the reader goes from each packet to the first
\* byte of the next one, whatever fields and lists it has, and leaves its packets
\* only if one was cut short, or a frame was (base_packet.py 28-89, packet/types,
\* frame.py 83-100).
THEOREM AlignedAlways == Spec => [](Whole => Aligned)
<1>1. ReadInv => (Whole => Aligned)
  <2> SUFFICES ASSUME ReadInv, Whole PROVE Aligned
    OBVIOUS
  <2>1. PlaceInv
    BY DEF ReadInv
  <2>2. ASSUME parse.at = "header", parsed < Len(written)
        PROVE  due = written[parsed + 1].start
    <3>1. ~Midway(Current, parse, due - written[parsed + 1].start)
      BY <2>2, MidwayType
    <3>2. parse # Lost
      BY <2>2 DEF Lost
    <3>3. due = StartAt(parsed + 1) /\ parsed \in Nat /\ Len(written) \in Nat
      BY <2>1, <3>1, <3>2, LenProperties DEF PlaceInv
    <3> QED BY <2>2, <3>3 DEF StartAt
  <2>3. parse = Lost => Cut \/ astray
    <3>1. parse = Lost => parse # AtStart
      BY DEF Lost, AtStart
    <3>2. parse = Lost => ~Midway(Current, parse, due - written[parsed + 1].start)
      <4>1. Lost.at = "lost"
        BY DEF Lost
      <4> QED BY <4>1, MidwayType
    <3> QED BY <2>1, <3>1, <3>2 DEF PlaceInv
  <2> QED BY <2>2, <2>3 DEF Aligned
<1> QED BY <1>1, TransportInvariance, ReadInvariance, PTL
=============================================================================
