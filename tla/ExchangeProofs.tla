--------------------------- MODULE ExchangeProofs ---------------------------
(***************************************************************************)
(* Proofs about Exchange for any set of packet ids and any number of        *)
(* requests and messages.                                                   *)
(***************************************************************************)
EXTENDS Exchange, SequenceTheorems, FiniteSetTheorems, TLAPS

\* What the threads still have to do part way through their programs.
AfterCreate == <<Write("PUBREC"), Await("PUBREL"), Publish, Write("PUBCOMP")>>
AwaitRelease == <<Await("PUBREL"), Publish, Write("PUBCOMP")>>
PublishReleased == <<Publish, Write("PUBCOMP")>>
Complete == <<Write("PUBCOMP")>>
Acknowledge == <<Write("PUBACK")>>
SubscribeAck == <<Write("SUBACK")>>
FirstUnsubscribed == <<Write("UNSUBACK"), Unsubscribe, Write("UNSUBACK")>>
UnsubscribeSecond == <<Unsubscribe, Write("UNSUBACK")>>
SecondUnsubscribed == <<Write("UNSUBACK")>>

WriteQos1 == <<Write("PUBLISH1"), Await("PUBACK")>>
AwaitAck == <<Await("PUBACK")>>
WriteQos2 == <<Write("PUBLISH2"), Await("PUBREC"),
               Create("PUBCOMP"), Write("PUBREL"), Await("PUBCOMP")>>
AwaitReceived == <<Await("PUBREC"), Create("PUBCOMP"), Write("PUBREL"), Await("PUBCOMP")>>
ReleaseQos2 == <<Create("PUBCOMP"), Write("PUBREL"), Await("PUBCOMP")>>
WriteRelease == <<Write("PUBREL"), Await("PUBCOMP")>>
AwaitComplete == <<Await("PUBCOMP")>>

\* The packets on a wire, and that none is on it twice.  Only messages of qos 0, which
\* have no id, and the acknowledgements of an UNSUBSCRIBE may be equal to each other.
Packets(wire) == {wire[k] : k \in DOMAIN wire}
Single(p) == p.id # NoId /\ p.type # "UNSUBACK"
Once(wire) == \A k, l \in DOMAIN wire : wire[k] = wire[l] /\ Single(wire[k]) => k = l

ReplyTypes == {"PINGRESP", "SUBACK", "PUBACK", "PUBREC", "PUBCOMP"}
LastReplies == {"PINGRESP", "SUBACK", "PUBACK", "PUBCOMP"}
AnswerTypes == {"PUBACK", "PUBREC", "PUBCOMP"}
MessageTypes == {"PUBLISH1", "PUBLISH2", "PUBREL"}
ToBroker == [type : Requests \cup {"PUBREL"}, id : Ids]
            \cup [type : AnswerTypes, id : 0..MaxId - 1]
ToClient == [type : ReplyTypes, id : Ids] \cup [type : MessageTypes, id : 0..MaxId - 1]
            \cup [type : {"PUBLISH0"}, id : {NoId}] \cup [type : {"UNSUBACK"}, id : Ids]

WireInv == /\ toBroker \in Seq(ToBroker) /\ toClient \in Seq(ToClient)
           /\ Once(toBroker) /\ Once(toClient)

\* The types of the other variables; how long a program is follows from what it is.
TypeInv == /\ alive \in BOOLEAN /\ peer \in BOOLEAN /\ stirred \in BOOLEAN
           /\ reader \in {"read", "notify", "done"}
           /\ conditions \subseteq Conditions /\ results \subseteq conditions
           /\ todo = [t \in Threads |-> todo[t]]
           /\ messages \in Seq(0..2)
           /\ queued \in 0..MaxMessages /\ Len(messages) <= queued
           /\ requests \in [Ids -> 0..MaxRequests]
           /\ waiting \in [Ids -> {"nothing"} \cup Replies]
           /\ published \in [Ids -> 0..1] /\ broken \subseteq Ids

-----------------------------------------------------------------------------
(* An exchange that the client began: where its next packet is *)

Release(i) == Packet("PUBREL", i)
FromClient(i) == {p \in Packets(toBroker) : p.id = i /\ p.type \in Requests \cup {"PUBREL"}}
ForClient(i) == {p \in Packets(toClient) : p.id = i /\ p.type \in ReplyTypes}
Noticed(i) == reader = "notify" /\ packet = Release(i)
Nowhere(i) == FromClient(i) = {} /\ ForClient(i) = {} /\ ~Noticed(i)
Unawaited(i) == Release(i) \notin conditions

\* An UNSUBACK of an earlier request ends the wait of a later one.
Satisfied(i, r) == r = "UNSUBSCRIBE" /\ waiting[i] = "nothing"

\* No exchange, or one that the end of its thread or of the connection has cut short.
Resting(i) == /\ todo[PacketThread(i)] = <<>>
              /\ Nowhere(i)
              /\ waiting[i] \in {"nothing", "UNSUBACK"} => Unawaited(i)
              /\ waiting[i] = "PUBREC" => published[i] = 0

Sent(i) == /\ todo[PacketThread(i)] = <<>>
           /\ \E r \in Requests :
                /\ FromClient(i) = {Packet(r, i)}
                /\ waiting[i] = FirstAnswer(r) \/ Satisfied(i, r)
           /\ ForClient(i) = {} /\ ~Noticed(i) /\ Unawaited(i) /\ published[i] = 0

Replied(i) == /\ todo[PacketThread(i)] = <<>>
              /\ \E a \in LastReplies :
                   /\ ForClient(i) = {Packet(a, i)} /\ waiting[i] = a
                   /\ a \in {"PUBACK", "PUBCOMP"} => published[i] = 1
              /\ FromClient(i) = {} /\ ~Noticed(i) /\ Unawaited(i)

\* The thread of the request is at work, and nothing is under way.
AtWork(i, program, awaited, number) ==
  /\ todo[PacketThread(i)] = program
  /\ Nowhere(i) /\ Unawaited(i)
  /\ waiting[i] = awaited /\ published[i] = number

\* The first of the two acknowledgements ends the wait, wherever the thread is then.
Unsubscribing(i) == \E w \in {"nothing", "UNSUBACK"} :
  \/ AtWork(i, HandleUnsubscribe, w, 0) \/ AtWork(i, FirstUnsubscribed, w, 0)
  \/ AtWork(i, UnsubscribeSecond, w, 0) \/ AtWork(i, SecondUnsubscribed, w, 0)

Receiving(i) == /\ todo[PacketThread(i)] = AfterCreate
                /\ Nowhere(i) /\ Release(i) \in conditions \ results
                /\ waiting[i] = "PUBREC" /\ published[i] = 0

\* The thread waits for PUBREL: PUBREC, PUBREL or its result is on its way, or lost.
Awaiting(i) ==
  /\ todo[PacketThread(i)] = AwaitRelease
  /\ Release(i) \in conditions /\ published[i] = 0
  /\ waiting[i] \in {"PUBREC", "PUBCOMP"}
  /\ \/ Nowhere(i) /\ (Release(i) \in results => waiting[i] = "PUBCOMP")
     \/ /\ Release(i) \notin results
        /\ \/ /\ ForClient(i) = {Packet("PUBREC", i)} /\ FromClient(i) = {} /\ ~Noticed(i)
              /\ waiting[i] = "PUBREC"
           \/ /\ ForClient(i) = {} /\ FromClient(i) = {Release(i)} /\ ~Noticed(i)
              /\ waiting[i] = "PUBCOMP"
           \/ /\ ForClient(i) = {} /\ FromClient(i) = {} /\ Noticed(i)
              /\ waiting[i] = "PUBCOMP"

Stage(i) == \/ Resting(i) \/ Sent(i) \/ Replied(i) \/ Receiving(i) \/ Awaiting(i)
            \/ AtWork(i, PingRequest, "PINGRESP", 0) \/ Unsubscribing(i)
            \/ AtWork(i, HandleSubscribe, "SUBACK", 0)
            \/ AtWork(i, SubscribeAck, "SUBACK", 0)
            \/ AtWork(i, PublishQos0, "nothing", 0)
            \/ AtWork(i, PublishQos1, "PUBACK", 0)
            \/ AtWork(i, Acknowledge, "PUBACK", 1)
            \/ AtWork(i, PublishQos2, "PUBREC", 0)
            \/ AtWork(i, PublishReleased, "PUBCOMP", 0)
            \/ AtWork(i, Complete, "PUBCOMP", 1)

RequestInv == \A i \in Ids : Stage(i)

-----------------------------------------------------------------------------
(* An exchange that the broker began, of which there is one at a time *)

Sends == {p \in Packets(toClient) : p.type \in MessageTypes}
AckPackets == {p \in Packets(toBroker) : p.type \in AnswerTypes}
OwnConditions == {p \in conditions : p.type \in AnswerTypes}
NoticedOwn == reader = "notify" /\ packet.type \in AnswerTypes
Silence == Sends = {} /\ AckPackets = {} /\ ~NoticedOwn

Creating(u, program) == /\ todo[Writer] = program
                        /\ Silence /\ OwnConditions = {}

Writing(u, program, ack) == /\ todo[Writer] = program
                            /\ Silence /\ OwnConditions = {Packet(ack, u)}
                            /\ Packet(ack, u) \notin results

WaitingFor(u, program, message, ack) ==
  /\ todo[Writer] = program
  /\ OwnConditions = {Packet(ack, u)}
  /\ \/ Silence
     \/ /\ Packet(ack, u) \notin results
        /\ \/ Sends = {Packet(message, u)} /\ AckPackets = {} /\ ~NoticedOwn
           \/ Sends = {} /\ AckPackets = {Packet(ack, u)} /\ ~NoticedOwn
           \/ Sends = {} /\ AckPackets = {} /\ NoticedOwn /\ packet = Packet(ack, u)

Sending(u) == \/ Creating(u, SendMessage(1)) \/ Creating(u, SendMessage(2))
              \/ Creating(u, ReleaseQos2)
              \/ Writing(u, WriteQos1, "PUBACK") \/ Writing(u, WriteQos2, "PUBREC")
              \/ Writing(u, WriteRelease, "PUBCOMP")
              \/ WaitingFor(u, AwaitAck, "PUBLISH1", "PUBACK")
              \/ WaitingFor(u, AwaitReceived, "PUBLISH2", "PUBREC")
              \/ WaitingFor(u, AwaitComplete, "PUBREL", "PUBCOMP")

\* Between two messages, or after the write loop has ended.
NotSending == /\ todo[Writer] \in {<<>>, <<Get>>, SendMessage(0)}
              /\ Silence /\ (todo[Writer] # <<>> => OwnConditions = {})

SendInv == (used = {} /\ NotSending) \/ \E u \in 0..MaxId - 1 : used = {u} /\ Sending(u)

ReaderInv == reader = "notify" =>
  packet \in {Release(i) : i \in Ids} \cup [type : AnswerTypes, id : 0..MaxId - 1]

ExchangeInv == TypeInv /\ WireInv /\ RequestInv /\ SendInv /\ ReaderInv

-----------------------------------------------------------------------------
(***************************************************************************)
(* What each program begins with and what is left of it after one operation.*)
(***************************************************************************)
LEMMA ProgramSteps ==
  /\ Tail(<<Get>>) = <<>> /\ Head(<<Get>>)[1] = "get" /\ Len(<<Get>>) = 1
  /\ Tail(PingRequest) = <<>> /\ Head(PingRequest) = Write("PINGRESP")
  /\ Tail(PublishQos0) = <<>> /\ Head(PublishQos0) = Publish
  /\ Tail(PublishQos1) = Acknowledge /\ Head(PublishQos1) = Publish
  /\ Tail(Acknowledge) = <<>> /\ Head(Acknowledge) = Write("PUBACK")
  /\ Tail(PublishQos2) = AfterCreate /\ Head(PublishQos2) = Create("PUBREL")
  /\ Tail(AfterCreate) = AwaitRelease /\ Head(AfterCreate) = Write("PUBREC")
  /\ Tail(AwaitRelease) = PublishReleased /\ Head(AwaitRelease) = Await("PUBREL")
  /\ Tail(PublishReleased) = Complete /\ Head(PublishReleased) = Publish
  /\ Tail(Complete) = <<>> /\ Head(Complete) = Write("PUBCOMP")
  /\ Tail(HandleSubscribe) = SubscribeAck /\ Head(HandleSubscribe) = Subscribe
  /\ Tail(SubscribeAck) = <<>> /\ Head(SubscribeAck) = Write("SUBACK")
  /\ Tail(HandleUnsubscribe) = FirstUnsubscribed /\ Head(HandleUnsubscribe) = Unsubscribe
  /\ Tail(FirstUnsubscribed) = UnsubscribeSecond
  /\ Head(FirstUnsubscribed) = Write("UNSUBACK")
  /\ Tail(UnsubscribeSecond) = SecondUnsubscribed /\ Head(UnsubscribeSecond) = Unsubscribe
  /\ Tail(SecondUnsubscribed) = <<>> /\ Head(SecondUnsubscribed) = Write("UNSUBACK")
BY DEF Get, PingRequest, PublishQos0, PublishQos1, Acknowledge, PublishQos2, AfterCreate,
   AwaitRelease, PublishReleased, Complete, HandleSubscribe, SubscribeAck, HandleUnsubscribe,
   FirstUnsubscribed, UnsubscribeSecond, SecondUnsubscribed, Create, Write, Await, Publish,
   Subscribe, Unsubscribe

\* The same for send_message; only its last operation has nothing after it.
LEMMA SendSteps ==
  /\ Len(SendMessage(0)) = 1 /\ Head(SendMessage(0)) = Write("PUBLISH0")
  /\ Tail(SendMessage(1)) = WriteQos1 /\ Head(SendMessage(1)) = Create("PUBACK")
  /\ Len(SendMessage(1)) = 3
  /\ Tail(WriteQos1) = AwaitAck /\ Head(WriteQos1) = Write("PUBLISH1") /\ Len(WriteQos1) = 2
  /\ Len(AwaitAck) = 1 /\ Head(AwaitAck) = Await("PUBACK")
  /\ Tail(SendMessage(2)) = WriteQos2 /\ Head(SendMessage(2)) = Create("PUBREC")
  /\ Len(SendMessage(2)) = 6
  /\ Tail(WriteQos2) = AwaitReceived /\ Head(WriteQos2) = Write("PUBLISH2") /\ Len(WriteQos2) = 5
  /\ Tail(AwaitReceived) = ReleaseQos2 /\ Head(AwaitReceived) = Await("PUBREC")
  /\ Len(AwaitReceived) = 4
  /\ Tail(ReleaseQos2) = WriteRelease /\ Head(ReleaseQos2) = Create("PUBCOMP")
  /\ Len(ReleaseQos2) = 3
  /\ Tail(WriteRelease) = AwaitComplete /\ Head(WriteRelease) = Write("PUBREL")
  /\ Len(WriteRelease) = 2
  /\ Len(AwaitComplete) = 1 /\ Head(AwaitComplete) = Await("PUBCOMP")
BY DEF SendMessage, WriteQos1, AwaitAck, WriteQos2, AwaitReceived, ReleaseQos2, WriteRelease,
   AwaitComplete, Create, Write, Await

\* The lengths of the programs and of what is left of them.
LEMMA ProgramLengths ==
  /\ Len(<<>>) = 0
  /\ Len(PingRequest) = 1 /\ Len(PublishQos0) = 1 /\ Len(PublishQos1) = 2
  /\ Len(Acknowledge) = 1 /\ Len(PublishQos2) = 5 /\ Len(AfterCreate) = 4
  /\ Len(AwaitRelease) = 3 /\ Len(PublishReleased) = 2 /\ Len(Complete) = 1
  /\ Len(HandleSubscribe) = 2 /\ Len(SubscribeAck) = 1
  /\ Len(HandleUnsubscribe) = 4 /\ Len(FirstUnsubscribed) = 3
  /\ Len(UnsubscribeSecond) = 2 /\ Len(SecondUnsubscribed) = 1
BY DEF PingRequest, PublishQos0, PublishQos1, Acknowledge, PublishQos2, AfterCreate,
   AwaitRelease, PublishReleased, Complete, HandleSubscribe, SubscribeAck, HandleUnsubscribe,
   FirstUnsubscribed, UnsubscribeSecond, SecondUnsubscribed, Create, Write, Await, Publish,
   Subscribe, Unsubscribe

\* None of what is left of send_message is longer than the whole of it.
LEMMA SendLengths ==
  /\ Len(SendMessage(0)) <= 6 /\ Len(SendMessage(1)) <= 6 /\ Len(WriteQos1) <= 6
  /\ Len(AwaitAck) <= 6 /\ Len(SendMessage(2)) <= 6 /\ Len(WriteQos2) <= 6
  /\ Len(AwaitReceived) <= 6 /\ Len(ReleaseQos2) <= 6 /\ Len(WriteRelease) <= 6
  /\ Len(AwaitComplete) <= 6
BY DEF SendMessage, WriteQos1, AwaitAck, WriteQos2, AwaitReceived, ReleaseQos2, WriteRelease,
   AwaitComplete, Create, Write, Await

\* A thread that has one of these before it has something left to do.
LEMMA ProgramsNonempty ==
  /\ PingRequest # <<>> /\ PublishQos0 # <<>> /\ PublishQos1 # <<>> /\ Acknowledge # <<>>
  /\ PublishQos2 # <<>> /\ AfterCreate # <<>> /\ AwaitRelease # <<>>
  /\ PublishReleased # <<>> /\ Complete # <<>> /\ HandleSubscribe # <<>>
  /\ SubscribeAck # <<>> /\ HandleUnsubscribe # <<>> /\ FirstUnsubscribed # <<>>
  /\ UnsubscribeSecond # <<>> /\ SecondUnsubscribed # <<>>
<1>1. \A s : Len(s) # 0 => s # <<>>
  BY ProgramLengths, Zenon
<1>2. /\ Len(PingRequest) # 0 /\ Len(PublishQos0) # 0 /\ Len(PublishQos1) # 0
      /\ Len(Acknowledge) # 0 /\ Len(PublishQos2) # 0 /\ Len(AfterCreate) # 0
      /\ Len(AwaitRelease) # 0 /\ Len(PublishReleased) # 0 /\ Len(Complete) # 0
      /\ Len(HandleSubscribe) # 0 /\ Len(SubscribeAck) # 0 /\ Len(HandleUnsubscribe) # 0
      /\ Len(FirstUnsubscribed) # 0 /\ Len(UnsubscribeSecond) # 0
      /\ Len(SecondUnsubscribed) # 0
  BY ProgramLengths
<1> QED BY <1>1, <1>2, Zenon

(***************************************************************************)
(* The packets on a wire after one has been put on it or taken off it.      *)
(***************************************************************************)
LEMMA WireAppend ==
  ASSUME NEW S, NEW wire \in Seq(S), NEW e \in S
  PROVE  /\ Append(wire, e) \in Seq(S)
         /\ Packets(Append(wire, e)) = Packets(wire) \cup {e}
         /\ Once(wire) /\ (e \notin Packets(wire) \/ ~Single(e)) => Once(Append(wire, e))
<1> DEFINE w == Append(wire, e)
<1>1. /\ w \in Seq(S) /\ Len(wire) \in Nat
      /\ Len(w) = Len(wire) + 1 /\ DOMAIN w = 1..Len(wire) + 1 /\ DOMAIN wire = 1..Len(wire)
      /\ \A i \in 1..Len(wire) : w[i] = wire[i]
      /\ w[Len(wire) + 1] = e
  BY AppendProperties, LenProperties
<1> HIDE DEF w
<1>2. Packets(w) = Packets(wire) \cup {e}
  BY <1>1 DEF Packets
<1>3. Once(wire) /\ (e \notin Packets(wire) \/ ~Single(e)) => Once(w)
  BY <1>1 DEF Packets, Once
<1> QED BY <1>1, <1>2, <1>3 DEF w

\* Taking the first packet leaves all others, and no other one like it.
LEMMA WireTail ==
  ASSUME NEW S, NEW wire \in Seq(S), wire # <<>>, Once(wire)
  PROVE  /\ Tail(wire) \in Seq(S) /\ Once(Tail(wire))
         /\ Head(wire) \in S /\ Head(wire) \in Packets(wire)
         /\ Packets(wire) \ {Head(wire)} \subseteq Packets(Tail(wire))
         /\ Packets(Tail(wire)) \subseteq Packets(wire)
         /\ Single(Head(wire)) => Head(wire) \notin Packets(Tail(wire))
<1> DEFINE w == Tail(wire)
<1>1. /\ w \in Seq(S) /\ Len(wire) \in Nat /\ Len(wire) # 0
      /\ Len(w) = Len(wire) - 1 /\ DOMAIN w = 1..(Len(wire) - 1) /\ DOMAIN wire = 1..Len(wire)
      /\ \A i \in 1..(Len(wire) - 1) : w[i] = wire[i + 1]
      /\ Head(wire) = wire[1] /\ wire[1] \in S
  <2>1. Len(wire) \in Nat /\ DOMAIN wire = 1..Len(wire) /\ Len(wire) # 0
    BY LenProperties, EmptySeq
  <2>2. /\ w \in Seq(S) /\ Len(w) = Len(wire) - 1 /\ Head(wire) = wire[1]
        /\ \A i \in 1..Len(w) : w[i] = wire[i + 1]
    BY HeadTailProperties
  <2>3. DOMAIN w = 1..Len(w)
    BY <2>2, LenProperties
  <2>4. wire[1] \in S
    BY <2>1, ElementOfSeq
  <2> QED BY <2>1, <2>2, <2>3, <2>4
<1> HIDE DEF w
<1>2. Once(w)
  <2> SUFFICES ASSUME NEW k \in 1..(Len(wire) - 1), NEW l \in 1..(Len(wire) - 1),
                      w[k] = w[l], Single(w[k])
               PROVE  k = l
    BY <1>1 DEF Once
  <2>1. k + 1 \in DOMAIN wire /\ l + 1 \in DOMAIN wire
    BY <1>1
  <2>2. wire[k + 1] = wire[l + 1] /\ Single(wire[k + 1])
    BY <1>1
  <2>3. k + 1 = l + 1
    BY <2>1, <2>2, Zenon DEF Once
  <2> QED BY <1>1, <2>3
<1>3. Head(wire) \in Packets(wire) /\ Packets(w) \subseteq Packets(wire)
  BY <1>1 DEF Packets
<1>4. ASSUME NEW p \in Packets(wire), p # Head(wire) PROVE p \in Packets(w)
  <2>1. PICK k \in 1..Len(wire) : p = wire[k]
    BY <1>1 DEF Packets
  <2>2. k - 1 \in 1..(Len(wire) - 1) /\ w[k - 1] = wire[k]
    BY <1>1, <1>4, <2>1
  <2> QED BY <1>1, <2>1, <2>2 DEF Packets
<1>5. Single(Head(wire)) => Head(wire) \notin Packets(w)
  BY <1>1 DEF Packets, Once
<1> QED BY <1>1, <1>2, <1>3, <1>4, <1>5 DEF w

-----------------------------------------------------------------------------
(***************************************************************************)
(* An exchange that a step does not touch stays where it is.                *)
(***************************************************************************)
LEMMA StageKept ==
  ASSUME NEW i \in Ids, Stage(i),
         todo'[PacketThread(i)] = todo[PacketThread(i)],
         FromClient(i)' = FromClient(i), ForClient(i)' = ForClient(i),
         Noticed(i)' <=> Noticed(i),
         Release(i) \in conditions' <=> Release(i) \in conditions,
         Release(i) \in results' <=> Release(i) \in results,
         waiting'[i] = waiting[i], published'[i] = published[i]
  PROVE  Stage(i)'
<1> USE DEF Nowhere, Unawaited
<1>1. Resting(i) => Resting(i)' BY DEF Resting
<1>2. Sent(i) => Sent(i)' BY DEF Sent, Satisfied
<1>3. Replied(i) => Replied(i)' BY DEF Replied
<1>4. Receiving(i) => Receiving(i)' BY DEF Receiving
<1>5. Awaiting(i) => Awaiting(i)' BY DEF Awaiting
<1>6. ASSUME NEW p, NEW w, NEW n, AtWork(i, p, w, n) PROVE AtWork(i, p, w, n)'
  BY <1>6 DEF AtWork
<1> QED BY <1>1, <1>2, <1>3, <1>4, <1>5, <1>6 DEF Stage, Unsubscribing

\* An UNSUBACK ends the wait of whoever waits for one, and changes nothing else.
LEMMA StageUnsubscribed ==
  ASSUME NEW i \in Ids, Stage(i), waiting[i] = "UNSUBACK", waiting'[i] = "nothing",
         todo'[PacketThread(i)] = todo[PacketThread(i)],
         FromClient(i)' = FromClient(i), ForClient(i)' = ForClient(i),
         Noticed(i)' <=> Noticed(i),
         Release(i) \in conditions' <=> Release(i) \in conditions,
         published'[i] = published[i]
  PROVE  Stage(i)'
<1> USE DEF Nowhere, Unawaited
<1>1. Resting(i) => Resting(i)' BY DEF Resting
<1>2. ASSUME Sent(i) PROVE Sent(i)'
  <2>1. PICK r \in Requests : FromClient(i) = {Packet(r, i)} /\ waiting[i] = FirstAnswer(r)
    BY <1>2 DEF Sent, Satisfied
  <2>2. r = "UNSUBSCRIBE" BY <2>1 DEF FirstAnswer, Requests
  <2> QED BY <1>2, <2>1, <2>2 DEF Sent, Satisfied
<1>3. ASSUME NEW p, AtWork(i, p, "UNSUBACK", 0) PROVE AtWork(i, p, "nothing", 0)'
  BY <1>3 DEF AtWork
<1>4. Unsubscribing(i) => Unsubscribing(i)'
  <2>1. ASSUME NEW p, AtWork(i, p, "nothing", 0) PROVE FALSE
    BY <2>1 DEF AtWork
  <2> QED BY <1>3, <2>1 DEF Unsubscribing
<1>5. ASSUME NEW p, NEW w, NEW n, AtWork(i, p, w, n) PROVE w = "UNSUBACK"
  BY <1>5 DEF AtWork
<1>6. ~Replied(i) /\ ~Receiving(i) /\ ~Awaiting(i)
  BY DEF Replied, LastReplies, Receiving, Awaiting
<1> QED BY <1>1, <1>2, <1>4, <1>5, <1>6 DEF Stage

\* The same for the broker's own exchange.
LEMMA SendKept ==
  ASSUME SendInv, todo'[Writer] = todo[Writer], used' = used,
         Sends' = Sends, AckPackets' = AckPackets,
         NoticedOwn' <=> NoticedOwn, NoticedOwn => packet' = packet,
         OwnConditions' = OwnConditions,
         \A a \in AnswerTypes, u \in 0..MaxId - 1 :
           Packet(a, u) \in results' <=> Packet(a, u) \in results
  PROVE  SendInv'
<1> USE DEF Silence
<1>1. NotSending => NotSending' BY DEF NotSending
<1>2. ASSUME NEW u \in 0..MaxId - 1, Sending(u) PROVE Sending(u)'
  <2> USE DEF AnswerTypes
  <2>1. ASSUME NEW p, Creating(u, p) PROVE Creating(u, p)'
    BY <2>1 DEF Creating
  <2>2. ASSUME NEW p, NEW a \in AnswerTypes, Writing(u, p, a) PROVE Writing(u, p, a)'
    BY <2>2 DEF Writing
  <2>3. ASSUME NEW p, NEW m, NEW a \in AnswerTypes, WaitingFor(u, p, m, a)
        PROVE  WaitingFor(u, p, m, a)'
    BY <2>3 DEF WaitingFor
  <2> QED BY <1>2, <2>1, <2>2, <2>3 DEF Sending
<1> QED BY <1>1, <1>2 DEF SendInv

(***************************************************************************)
(* What a packet's thread is in the middle of, told by its next operation.  *)
(***************************************************************************)
LEMMA NextOperation ==
  ASSUME NEW i \in Ids, Stage(i)
  PROVE  /\ Does(PacketThread(i), "create") =>
              AtWork(i, PublishQos2, "PUBREC", 0) /\ Operand(PacketThread(i)) = Release(i)
         /\ Does(PacketThread(i), "await") =>
              Awaiting(i) /\ Operand(PacketThread(i)) = Release(i)
         /\ Does(PacketThread(i), "publish") =>
              \/ AtWork(i, PublishQos0, "nothing", 0) \/ AtWork(i, PublishQos1, "PUBACK", 0)
              \/ AtWork(i, PublishReleased, "PUBCOMP", 0)
         /\ Does(PacketThread(i), "subscribe") => AtWork(i, HandleSubscribe, "SUBACK", 0)
         /\ Does(PacketThread(i), "unsubscribe") => \E w \in {"nothing", "UNSUBACK"} :
              AtWork(i, HandleUnsubscribe, w, 0) \/ AtWork(i, UnsubscribeSecond, w, 0)
         /\ Does(PacketThread(i), "write") =>
              \/ /\ AtWork(i, PingRequest, "PINGRESP", 0)
                 /\ Operand(PacketThread(i)) = Packet("PINGRESP", i)
              \/ /\ AtWork(i, Acknowledge, "PUBACK", 1)
                 /\ Operand(PacketThread(i)) = Packet("PUBACK", i)
              \/ Receiving(i) /\ Operand(PacketThread(i)) = Packet("PUBREC", i)
              \/ /\ AtWork(i, Complete, "PUBCOMP", 1)
                 /\ Operand(PacketThread(i)) = Packet("PUBCOMP", i)
              \/ /\ AtWork(i, SubscribeAck, "SUBACK", 0)
                 /\ Operand(PacketThread(i)) = Packet("SUBACK", i)
              \/ /\ \E w \in {"nothing", "UNSUBACK"} :
                      AtWork(i, FirstUnsubscribed, w, 0) \/ AtWork(i, SecondUnsubscribed, w, 0)
                 /\ Operand(PacketThread(i)) = Packet("UNSUBACK", i)
         /\ todo[PacketThread(i)] = <<>> => Resting(i) \/ Sent(i) \/ Replied(i)
<1> DEFINE t == PacketThread(i)
<1>1. IdFor(t) = i
  BY DEF IdFor, PacketThread, Writer
<1>2. ASSUME NEW p, NEW a, NEW b, todo[t] = p, p # <<>>, Head(p) = <<a, b>>
      PROVE  todo[t] # <<>> /\ Operand(t) = Packet(b, i) /\ \A c : Does(t, c) => c = a
  BY <1>1, <1>2 DEF Does, Operand
<1> USE DEF Release
<1> HIDE DEF t
<1>3. CASE Resting(i) \/ Sent(i) \/ Replied(i)
  BY <1>3 DEF Resting, Sent, Replied, t, Does
<1>4. CASE Receiving(i)
  <2>1. /\ todo[t] # <<>> /\ Operand(t) = Packet("PUBREC", i)
        /\ \A c : Does(t, c) => c = "write"
    <3>1. todo[t] = AfterCreate BY <1>4 DEF Receiving, t
    <3>2. AfterCreate # <<>> BY ProgramsNonempty
    <3>3. Head(AfterCreate) = <<"write", "PUBREC">> BY ProgramSteps DEF Write
    <3> QED BY <1>2, <3>1, <3>2, <3>3
  <2> QED BY <1>4, <2>1 DEF t
<1>5. CASE Awaiting(i)
  <2>1. /\ todo[t] # <<>> /\ Operand(t) = Packet("PUBREL", i)
        /\ \A c : Does(t, c) => c = "await"
    <3>1. todo[t] = AwaitRelease BY <1>5 DEF Awaiting, t
    <3>2. AwaitRelease # <<>> BY ProgramsNonempty
    <3>3. Head(AwaitRelease) = <<"await", "PUBREL">> BY ProgramSteps DEF Await
    <3> QED BY <1>2, <3>1, <3>2, <3>3
  <2> QED BY <1>5, <2>1 DEF t
<1>6. CASE AtWork(i, PingRequest, "PINGRESP", 0)
  <2>1. /\ todo[t] # <<>> /\ Operand(t) = Packet("PINGRESP", i)
        /\ \A c : Does(t, c) => c = "write"
    <3>1. todo[t] = PingRequest BY <1>6 DEF AtWork, t
    <3>2. PingRequest # <<>> BY ProgramsNonempty
    <3>3. Head(PingRequest) = <<"write", "PINGRESP">> BY ProgramSteps DEF Write
    <3> QED BY <1>2, <3>1, <3>2, <3>3
  <2> QED BY <1>6, <2>1 DEF t
<1>7. CASE AtWork(i, PublishQos0, "nothing", 0)
  <2>1. /\ todo[t] # <<>> /\ Operand(t) = Packet("row", i)
        /\ \A c : Does(t, c) => c = "publish"
    <3>1. todo[t] = PublishQos0 BY <1>7 DEF AtWork, t
    <3>2. PublishQos0 # <<>> BY ProgramsNonempty
    <3>3. Head(PublishQos0) = <<"publish", "row">> BY ProgramSteps DEF Publish
    <3> QED BY <1>2, <3>1, <3>2, <3>3
  <2> QED BY <1>7, <2>1 DEF t
<1>8. CASE AtWork(i, PublishQos1, "PUBACK", 0)
  <2>1. /\ todo[t] # <<>> /\ Operand(t) = Packet("row", i)
        /\ \A c : Does(t, c) => c = "publish"
    <3>1. todo[t] = PublishQos1 BY <1>8 DEF AtWork, t
    <3>2. PublishQos1 # <<>> BY ProgramsNonempty
    <3>3. Head(PublishQos1) = <<"publish", "row">> BY ProgramSteps DEF Publish
    <3> QED BY <1>2, <3>1, <3>2, <3>3
  <2> QED BY <1>8, <2>1 DEF t
<1>9. CASE AtWork(i, Acknowledge, "PUBACK", 1)
  <2>1. /\ todo[t] # <<>> /\ Operand(t) = Packet("PUBACK", i)
        /\ \A c : Does(t, c) => c = "write"
    <3>1. todo[t] = Acknowledge BY <1>9 DEF AtWork, t
    <3>2. Acknowledge # <<>> BY ProgramsNonempty
    <3>3. Head(Acknowledge) = <<"write", "PUBACK">> BY ProgramSteps DEF Write
    <3> QED BY <1>2, <3>1, <3>2, <3>3
  <2> QED BY <1>9, <2>1 DEF t
<1>10. CASE AtWork(i, PublishQos2, "PUBREC", 0)
  <2>1. /\ todo[t] # <<>> /\ Operand(t) = Packet("PUBREL", i)
        /\ \A c : Does(t, c) => c = "create"
    <3>1. todo[t] = PublishQos2 BY <1>10 DEF AtWork, t
    <3>2. PublishQos2 # <<>> BY ProgramsNonempty
    <3>3. Head(PublishQos2) = <<"create", "PUBREL">> BY ProgramSteps DEF Create
    <3> QED BY <1>2, <3>1, <3>2, <3>3
  <2> QED BY <1>10, <2>1 DEF t
<1>11. CASE AtWork(i, PublishReleased, "PUBCOMP", 0)
  <2>1. /\ todo[t] # <<>> /\ Operand(t) = Packet("row", i)
        /\ \A c : Does(t, c) => c = "publish"
    <3>1. todo[t] = PublishReleased BY <1>11 DEF AtWork, t
    <3>2. PublishReleased # <<>> BY ProgramsNonempty
    <3>3. Head(PublishReleased) = <<"publish", "row">> BY ProgramSteps DEF Publish
    <3> QED BY <1>2, <3>1, <3>2, <3>3
  <2> QED BY <1>11, <2>1 DEF t
<1>12. CASE AtWork(i, Complete, "PUBCOMP", 1)
  <2>1. /\ todo[t] # <<>> /\ Operand(t) = Packet("PUBCOMP", i)
        /\ \A c : Does(t, c) => c = "write"
    <3>1. todo[t] = Complete BY <1>12 DEF AtWork, t
    <3>2. Complete # <<>> BY ProgramsNonempty
    <3>3. Head(Complete) = <<"write", "PUBCOMP">> BY ProgramSteps DEF Write
    <3> QED BY <1>2, <3>1, <3>2, <3>3
  <2> QED BY <1>12, <2>1 DEF t
<1>13. CASE AtWork(i, HandleSubscribe, "SUBACK", 0)
  <2>1. /\ todo[t] # <<>> /\ Operand(t) = Packet("filter", i)
        /\ \A c : Does(t, c) => c = "subscribe"
    <3>1. todo[t] = HandleSubscribe BY <1>13 DEF AtWork, t
    <3>2. HandleSubscribe # <<>> BY ProgramsNonempty
    <3>3. Head(HandleSubscribe) = <<"subscribe", "filter">> BY ProgramSteps DEF Subscribe
    <3> QED BY <1>2, <3>1, <3>2, <3>3
  <2> QED BY <1>13, <2>1 DEF t
<1>14. CASE AtWork(i, SubscribeAck, "SUBACK", 0)
  <2>1. /\ todo[t] # <<>> /\ Operand(t) = Packet("SUBACK", i)
        /\ \A c : Does(t, c) => c = "write"
    <3>1. todo[t] = SubscribeAck BY <1>14 DEF AtWork, t
    <3>2. SubscribeAck # <<>> BY ProgramsNonempty
    <3>3. Head(SubscribeAck) = <<"write", "SUBACK">> BY ProgramSteps DEF Write
    <3> QED BY <1>2, <3>1, <3>2, <3>3
  <2> QED BY <1>14, <2>1 DEF t
<1>15. CASE Unsubscribing(i)
  <2>1. PICK w \in {"nothing", "UNSUBACK"} :
          \/ AtWork(i, HandleUnsubscribe, w, 0) \/ AtWork(i, FirstUnsubscribed, w, 0)
          \/ AtWork(i, UnsubscribeSecond, w, 0) \/ AtWork(i, SecondUnsubscribed, w, 0)
    BY <1>15 DEF Unsubscribing
  <2>2. ASSUME NEW p \in {HandleUnsubscribe, UnsubscribeSecond}, todo[t] = p
        PROVE  todo[t] # <<>> /\ \A c : Does(t, c) => c = "unsubscribe"
    <3>1. p # <<>> BY <2>2, ProgramsNonempty
    <3>2. Head(p) = <<"unsubscribe", "filter">> BY <2>2, ProgramSteps DEF Unsubscribe
    <3> QED BY <1>2, <2>2, <3>1, <3>2
  <2>3. ASSUME NEW p \in {FirstUnsubscribed, SecondUnsubscribed}, todo[t] = p
        PROVE  /\ todo[t] # <<>> /\ Operand(t) = Packet("UNSUBACK", i)
               /\ \A c : Does(t, c) => c = "write"
    <3>1. p # <<>> BY <2>3, ProgramsNonempty
    <3>2. Head(p) = <<"write", "UNSUBACK">> BY <2>3, ProgramSteps DEF Write
    <3> QED BY <1>2, <2>3, <3>1, <3>2
  <2>4. CASE AtWork(i, HandleUnsubscribe, w, 0) \/ AtWork(i, UnsubscribeSecond, w, 0)
    <3>1. todo[t] \in {HandleUnsubscribe, UnsubscribeSecond} BY <2>4 DEF AtWork, t
    <3>2. todo[t] # <<>> /\ \A c : Does(t, c) => c = "unsubscribe" BY <2>2, <3>1
    <3> QED BY <2>4, <3>2 DEF t
  <2>5. CASE AtWork(i, FirstUnsubscribed, w, 0) \/ AtWork(i, SecondUnsubscribed, w, 0)
    <3>1. todo[t] \in {FirstUnsubscribed, SecondUnsubscribed} BY <2>5 DEF AtWork, t
    <3>2. /\ todo[t] # <<>> /\ Operand(t) = Packet("UNSUBACK", i)
          /\ \A c : Does(t, c) => c = "write"
      BY <2>3, <3>1
    <3> QED BY <2>5, <3>2 DEF t
  <2> QED BY <2>1, <2>4, <2>5
<1> QED BY <1>3, <1>4, <1>5, <1>6, <1>7, <1>8, <1>9,
           <1>10, <1>11, <1>12, <1>13, <1>14, <1>15 DEF Stage

Calls(t) == Does(t, "publish") \/ Does(t, "subscribe") \/ Does(t, "unsubscribe")

\* The same for the write loop; the id is the one that send_message took.
LEMMA WriterOperation ==
  ASSUME SendInv
  PROVE  /\ Does(Writer, "create") => \E u \in 0..MaxId - 1 : used = {u} /\
              \/ Creating(u, SendMessage(1)) /\ Operand(Writer) = Packet("PUBACK", u)
              \/ Creating(u, SendMessage(2)) /\ Operand(Writer) = Packet("PUBREC", u)
              \/ Creating(u, ReleaseQos2) /\ Operand(Writer) = Packet("PUBCOMP", u)
         /\ Does(Writer, "write") =>
              \/ /\ used = {} /\ NotSending /\ todo[Writer] = SendMessage(0)
                 /\ Operand(Writer) = Packet("PUBLISH0", NoId)
              \/ \E u \in 0..MaxId - 1 : used = {u} /\
                   \/ /\ Writing(u, WriteQos1, "PUBACK")
                      /\ Operand(Writer) = Packet("PUBLISH1", u)
                   \/ /\ Writing(u, WriteQos2, "PUBREC")
                      /\ Operand(Writer) = Packet("PUBLISH2", u)
                   \/ /\ Writing(u, WriteRelease, "PUBCOMP")
                      /\ Operand(Writer) = Packet("PUBREL", u)
         /\ Does(Writer, "await") => \E u \in 0..MaxId - 1 : used = {u} /\
              \/ /\ WaitingFor(u, AwaitAck, "PUBLISH1", "PUBACK")
                 /\ Operand(Writer) = Packet("PUBACK", u)
              \/ /\ WaitingFor(u, AwaitReceived, "PUBLISH2", "PUBREC")
                 /\ Operand(Writer) = Packet("PUBREC", u)
              \/ /\ WaitingFor(u, AwaitComplete, "PUBREL", "PUBCOMP")
                 /\ Operand(Writer) = Packet("PUBCOMP", u)
         /\ ~Calls(Writer)
         /\ Does(Writer, "get") => used = {} /\ NotSending /\ todo[Writer] = <<Get>>
<1>1. used = {} => IdFor(Writer) = NoId
  BY DEF IdFor
<1>2. ASSUME NEW u, used = {u} PROVE IdFor(Writer) = u
  BY <1>2 DEF IdFor
<1>3. CASE used = {} /\ NotSending
  <2>1. CASE todo[Writer] = <<>>
    BY <2>1 DEF Does, Calls
  <2>2. CASE todo[Writer] = <<Get>>
    <3>1. \A c : Does(Writer, c) => c = "get" BY <2>2, ProgramSteps DEF Does
    <3> QED BY <1>3, <2>2, <3>1 DEF Calls
  <2>3. CASE todo[Writer] = SendMessage(0)
    <3>1. \A c : Does(Writer, c) => c = "write" BY <2>3, SendSteps DEF Does, Write
    <3>2. Operand(Writer) = Packet("PUBLISH0", NoId)
      BY <1>1, <1>3, <2>3, SendSteps DEF Operand, Write
    <3> QED BY <1>3, <2>3, <3>1, <3>2 DEF Calls
  <2> QED BY <1>3, <2>1, <2>2, <2>3 DEF NotSending
<1>4. CASE \E u \in 0..MaxId - 1 : used = {u} /\ Sending(u)
  <2> PICK u \in 0..MaxId - 1 : used = {u} /\ Sending(u) BY <1>4
  <2>1. IdFor(Writer) = u /\ used # {} BY <1>2
  <2>2. CASE Creating(u, SendMessage(1))
    <3>1. todo[Writer] = SendMessage(1) BY <2>2 DEF Creating
    <3>2. Does(Writer, "create") /\ Operand(Writer) = Packet("PUBACK", u)
      BY <2>1, <3>1, SendSteps DEF Does, Operand, Create
    <3>3. ~Does(Writer, "write") /\ ~Does(Writer, "await") /\ ~Calls(Writer)
          /\ ~Does(Writer, "get")
      BY <3>1, SendSteps DEF Does, Calls, Create
    <3> QED BY <2>1, <2>2, <3>2, <3>3
  <2>3. CASE Creating(u, SendMessage(2))
    <3>1. todo[Writer] = SendMessage(2) BY <2>3 DEF Creating
    <3>2. Does(Writer, "create") /\ Operand(Writer) = Packet("PUBREC", u)
      BY <2>1, <3>1, SendSteps DEF Does, Operand, Create
    <3>3. ~Does(Writer, "write") /\ ~Does(Writer, "await") /\ ~Calls(Writer)
          /\ ~Does(Writer, "get")
      BY <3>1, SendSteps DEF Does, Calls, Create
    <3> QED BY <2>1, <2>3, <3>2, <3>3
  <2>4. CASE Creating(u, ReleaseQos2)
    <3>1. todo[Writer] = ReleaseQos2 BY <2>4 DEF Creating
    <3>2. Does(Writer, "create") /\ Operand(Writer) = Packet("PUBCOMP", u)
      BY <2>1, <3>1, SendSteps DEF Does, Operand, Create
    <3>3. ~Does(Writer, "write") /\ ~Does(Writer, "await") /\ ~Calls(Writer)
          /\ ~Does(Writer, "get")
      BY <3>1, SendSteps DEF Does, Calls, Create
    <3> QED BY <2>1, <2>4, <3>2, <3>3
  <2>5. CASE Writing(u, WriteQos1, "PUBACK")
    <3>1. todo[Writer] = WriteQos1 BY <2>5 DEF Writing
    <3>2. Does(Writer, "write") /\ Operand(Writer) = Packet("PUBLISH1", u)
      BY <2>1, <3>1, SendSteps DEF Does, Operand, Write
    <3>3. ~Does(Writer, "create") /\ ~Does(Writer, "await") /\ ~Calls(Writer)
          /\ ~Does(Writer, "get")
      BY <3>1, SendSteps DEF Does, Calls, Write
    <3> QED BY <2>1, <2>5, <3>2, <3>3
  <2>6. CASE Writing(u, WriteQos2, "PUBREC")
    <3>1. todo[Writer] = WriteQos2 BY <2>6 DEF Writing
    <3>2. Does(Writer, "write") /\ Operand(Writer) = Packet("PUBLISH2", u)
      BY <2>1, <3>1, SendSteps DEF Does, Operand, Write
    <3>3. ~Does(Writer, "create") /\ ~Does(Writer, "await") /\ ~Calls(Writer)
          /\ ~Does(Writer, "get")
      BY <3>1, SendSteps DEF Does, Calls, Write
    <3> QED BY <2>1, <2>6, <3>2, <3>3
  <2>7. CASE Writing(u, WriteRelease, "PUBCOMP")
    <3>1. todo[Writer] = WriteRelease BY <2>7 DEF Writing
    <3>2. Does(Writer, "write") /\ Operand(Writer) = Packet("PUBREL", u)
      BY <2>1, <3>1, SendSteps DEF Does, Operand, Write
    <3>3. ~Does(Writer, "create") /\ ~Does(Writer, "await") /\ ~Calls(Writer)
          /\ ~Does(Writer, "get")
      BY <3>1, SendSteps DEF Does, Calls, Write
    <3> QED BY <2>1, <2>7, <3>2, <3>3
  <2>8. CASE WaitingFor(u, AwaitAck, "PUBLISH1", "PUBACK")
    <3>1. todo[Writer] = AwaitAck BY <2>8 DEF WaitingFor
    <3>2. Does(Writer, "await") /\ Operand(Writer) = Packet("PUBACK", u)
      BY <2>1, <3>1, SendSteps DEF Does, Operand, Await
    <3>3. ~Does(Writer, "create") /\ ~Does(Writer, "write") /\ ~Calls(Writer)
          /\ ~Does(Writer, "get")
      BY <3>1, SendSteps DEF Does, Calls, Await
    <3> QED BY <2>1, <2>8, <3>2, <3>3
  <2>9. CASE WaitingFor(u, AwaitReceived, "PUBLISH2", "PUBREC")
    <3>1. todo[Writer] = AwaitReceived BY <2>9 DEF WaitingFor
    <3>2. Does(Writer, "await") /\ Operand(Writer) = Packet("PUBREC", u)
      BY <2>1, <3>1, SendSteps DEF Does, Operand, Await
    <3>3. ~Does(Writer, "create") /\ ~Does(Writer, "write") /\ ~Calls(Writer)
          /\ ~Does(Writer, "get")
      BY <3>1, SendSteps DEF Does, Calls, Await
    <3> QED BY <2>1, <2>9, <3>2, <3>3
  <2>10. CASE WaitingFor(u, AwaitComplete, "PUBREL", "PUBCOMP")
    <3>1. todo[Writer] = AwaitComplete BY <2>10 DEF WaitingFor
    <3>2. Does(Writer, "await") /\ Operand(Writer) = Packet("PUBCOMP", u)
      BY <2>1, <3>1, SendSteps DEF Does, Operand, Await
    <3>3. ~Does(Writer, "create") /\ ~Does(Writer, "write") /\ ~Calls(Writer)
          /\ ~Does(Writer, "get")
      BY <3>1, SendSteps DEF Does, Calls, Await
    <3> QED BY <2>1, <2>10, <3>2, <3>3
  <2> QED BY <2>2, <2>3, <2>4, <2>5, <2>6, <2>7, <2>8, <2>9, <2>10 DEF Sending
<1> QED BY <1>3, <1>4 DEF SendInv

(***************************************************************************)
(* Advance, for a packet's thread and for the write loop.                   *)
(***************************************************************************)
LEMMA AdvanceThread ==
  ASSUME TypeInv, NEW i \in Ids, Advance(PacketThread(i))
  PROVE  /\ used' = used
         /\ todo' = [t \in Threads |-> todo'[t]] /\ todo'[Writer] = todo[Writer]
         /\ todo'[PacketThread(i)] = Tail(todo[PacketThread(i)])
         /\ \A j \in Ids : j # i => todo'[PacketThread(j)] = todo[PacketThread(j)]
<1>1. PacketThread(i) # Writer /\ \A j \in Ids : j # i => PacketThread(j) # PacketThread(i)
  BY DEF PacketThread, Writer
<1>2. PacketThread(i) \in Threads /\ Writer \in Threads
      /\ \A j \in Ids : PacketThread(j) \in Threads
  BY DEF Threads
<1>3. todo = [t \in Threads |-> todo[t]] BY DEF TypeInv
<1>4. todo' = [todo EXCEPT ![PacketThread(i)] = Tail(@)] /\ used' = used
  BY <1>1 DEF Advance
<1> QED BY <1>1, <1>2, <1>3, <1>4

LEMMA AdvanceWriter ==
  ASSUME TypeInv, Advance(Writer)
  PROVE  /\ todo' = [t \in Threads |-> todo'[t]]
         /\ \A i \in Ids : todo'[PacketThread(i)] = todo[PacketThread(i)]
         /\ Len(todo[Writer]) = 1 => used' = {} /\ todo'[Writer] \in {<<>>, <<Get>>}
         /\ Len(todo[Writer]) # 1 => used' = used /\ todo'[Writer] = Tail(todo[Writer])
<1>1. \A i \in Ids : PacketThread(i) # Writer
  BY DEF PacketThread, Writer
<1>2. Writer \in Threads /\ \A i \in Ids : PacketThread(i) \in Threads
  BY DEF Threads
<1>3. todo = [t \in Threads |-> todo[t]] BY DEF TypeInv
<1>4. CASE Len(todo[Writer]) = 1
  <2>1. used' = {} /\ todo' = [todo EXCEPT ![Writer] = IF alive THEN <<Get>> ELSE <<>>]
    BY <1>4 DEF Advance
  <2> QED BY <1>1, <1>2, <1>3, <1>4, <2>1
<1>5. CASE Len(todo[Writer]) # 1
  <2>1. used' = used /\ todo' = [todo EXCEPT ![Writer] = Tail(@)]
    BY <1>5 DEF Advance
  <2> QED BY <1>1, <1>2, <1>3, <1>5, <2>1
<1> QED BY <1>4, <1>5

-----------------------------------------------------------------------------
(***************************************************************************)
(* The operations of a packet's thread: of its own exchange each leads to   *)
(* the next stage, and the others and the broker's own do not notice.       *)
(***************************************************************************)
LEMMA RequestCreates ==
  ASSUME ExchangeInv, NEW i \in Ids, CreateCondition(PacketThread(i))
  PROVE  ExchangeInv'
<1> USE DEF ExchangeInv, Release, Packet
<1>1. AtWork(i, PublishQos2, "PUBREC", 0) /\ conditions' = conditions \cup {Release(i)}
  BY NextOperation DEF RequestInv, CreateCondition
<1>2. /\ used' = used /\ todo' = [t \in Threads |-> todo'[t]] /\ todo'[Writer] = todo[Writer]
      /\ todo'[PacketThread(i)] = Tail(todo[PacketThread(i)])
      /\ \A j \in Ids : j # i => todo'[PacketThread(j)] = todo[PacketThread(j)]
  BY AdvanceThread DEF CreateCondition
<1>3. /\ UNCHANGED <<alive, peer, toBroker, toClient, reader, packet, results, messages>>
      /\ UNCHANGED <<requests, waiting, published, queued, broken>>
      /\ stirred' \in BOOLEAN
  BY DEF CreateCondition, sockets, client, queue
<1>4. TypeInv'
  BY <1>1, <1>2, <1>3 DEF TypeInv, Conditions, AckTypes
<1>5. WireInv' /\ ReaderInv'
  BY <1>3 DEF WireInv, ReaderInv, Once
<1>6. ASSUME NEW j \in Ids, j # i PROVE Stage(j)'
  BY <1>1, <1>2, <1>3, <1>6, StageKept
     DEF RequestInv, FromClient, ForClient, Packets, Noticed
<1>7. Receiving(i)'
  <2>1. todo'[PacketThread(i)] = AfterCreate
    BY <1>1, <1>2, ProgramSteps DEF AtWork
  <2> QED BY <1>1, <1>3, <2>1
          DEF AtWork, Receiving, Nowhere, Unawaited, FromClient, ForClient, Packets, Noticed,
              TypeInv
<1>8. SendInv'
  BY <1>1, <1>2, <1>3, SendKept
     DEF Sends, AckPackets, NoticedOwn, OwnConditions, Packets, AnswerTypes
<1> QED BY <1>4, <1>5, <1>6, <1>7, <1>8 DEF RequestInv, Stage

LEMMA RequestWaits ==
  ASSUME ExchangeInv, NEW i \in Ids, WaitForPacket(PacketThread(i))
  PROVE  ExchangeInv'
<1> USE DEF ExchangeInv, Release, Packet
<1>1. /\ Awaiting(i) /\ Release(i) \in results
      /\ conditions' = conditions \ {Release(i)} /\ results' = results \ {Release(i)}
  BY NextOperation DEF RequestInv, WaitForPacket
<1>2. /\ used' = used /\ todo' = [t \in Threads |-> todo'[t]] /\ todo'[Writer] = todo[Writer]
      /\ todo'[PacketThread(i)] = Tail(todo[PacketThread(i)])
      /\ \A j \in Ids : j # i => todo'[PacketThread(j)] = todo[PacketThread(j)]
  BY AdvanceThread DEF WaitForPacket
<1>3. /\ UNCHANGED <<alive, peer, toBroker, toClient, reader, packet, messages>>
      /\ UNCHANGED <<requests, waiting, published, queued, broken>>
      /\ stirred' \in BOOLEAN
  BY DEF WaitForPacket, sockets, client, queue
<1>4. TypeInv'
  BY <1>1, <1>2, <1>3 DEF TypeInv
<1>5. WireInv' /\ ReaderInv'
  BY <1>3 DEF WireInv, ReaderInv, Once
<1>6. ASSUME NEW j \in Ids, j # i PROVE Stage(j)'
  BY <1>1, <1>2, <1>3, <1>6, StageKept
     DEF RequestInv, FromClient, ForClient, Packets, Noticed
<1>7. AtWork(i, PublishReleased, "PUBCOMP", 0)'
  <2>1. todo'[PacketThread(i)] = PublishReleased
    BY <1>1, <1>2, ProgramSteps DEF Awaiting
  <2> QED BY <1>1, <1>3, <2>1
          DEF AtWork, Awaiting, Nowhere, Unawaited, FromClient, ForClient, Packets, Noticed
<1>8. SendInv'
  BY <1>1, <1>2, <1>3, SendKept
     DEF Sends, AckPackets, NoticedOwn, OwnConditions, Packets, AnswerTypes
<1> QED BY <1>4, <1>5, <1>6, <1>7, <1>8 DEF RequestInv, Stage

LEMMA RequestWrites ==
  ASSUME ExchangeInv, NEW i \in Ids, WritePacket(PacketThread(i))
  PROVE  ExchangeInv'
<1> USE DEF ExchangeInv, Release, Packet, ReplyTypes
<1> DEFINE Unsubscribed == \E w \in {"nothing", "UNSUBACK"} :
             AtWork(i, FirstUnsubscribed, w, 0) \/ AtWork(i, SecondUnsubscribed, w, 0)
<1>1. PICK e \in ToClient :
        /\ e = Operand(PacketThread(i)) /\ e.id = i /\ e.type \in ReplyTypes \cup {"UNSUBACK"}
        /\ Nowhere(i)
        /\ \/ AtWork(i, PingRequest, "PINGRESP", 0) /\ e = Packet("PINGRESP", i)
           \/ AtWork(i, SubscribeAck, "SUBACK", 0) /\ e = Packet("SUBACK", i)
           \/ AtWork(i, Acknowledge, "PUBACK", 1) /\ e = Packet("PUBACK", i)
           \/ Receiving(i) /\ e = Packet("PUBREC", i)
           \/ AtWork(i, Complete, "PUBCOMP", 1) /\ e = Packet("PUBCOMP", i)
           \/ Unsubscribed /\ e = Packet("UNSUBACK", i)
  BY NextOperation DEF RequestInv, WritePacket, ToClient, AtWork, Receiving
<1>2. /\ used' = used /\ todo' = [t \in Threads |-> todo'[t]] /\ todo'[Writer] = todo[Writer]
      /\ todo'[PacketThread(i)] = Tail(todo[PacketThread(i)])
      /\ \A j \in Ids : j # i => todo'[PacketThread(j)] = todo[PacketThread(j)]
  BY AdvanceThread DEF WritePacket
<1>3. /\ UNCHANGED <<alive, peer, toBroker, reader, packet, stirred, conditions, results>>
      /\ UNCHANGED <<messages, requests, waiting, published, queued, broken>>
      /\ toClient' = IF peer THEN Append(toClient, e) ELSE toClient
  BY <1>1 DEF WritePacket, sockets, client, reading, queue
<1>4. e \notin Packets(toClient) \/ ~Single(e)
  BY <1>1 DEF Nowhere, ForClient, Single
<1>5. /\ toClient' \in Seq(ToClient) /\ Once(toClient)'
      /\ Packets(toClient)' = IF peer THEN Packets(toClient) \cup {e} ELSE Packets(toClient)
  <2>1. toClient \in Seq(ToClient) /\ Once(toClient)
    BY DEF WireInv
  <2>2. CASE peer
    BY <1>3, <1>4, <2>1, <2>2, WireAppend DEF Packets, Once
  <2>3. CASE ~peer
    BY <1>3, <2>1, <2>3 DEF Packets, Once
  <2> QED BY <2>2, <2>3
<1>6. TypeInv' /\ WireInv' /\ ReaderInv'
  BY <1>2, <1>3, <1>5 DEF TypeInv, WireInv, ReaderInv, Once
<1>7. ASSUME NEW j \in Ids, j # i PROVE Stage(j)'
  <2>1. ForClient(j)' = ForClient(j) BY <1>1, <1>5, <1>7 DEF ForClient
  <2> QED BY <1>2, <1>3, <1>7, <2>1, StageKept DEF RequestInv, FromClient, Packets, Noticed
<1>8. Stage(i)'
  <2>1. ForClient(i)' = IF peer /\ e.type \in ReplyTypes THEN {e} ELSE {}
    BY <1>1, <1>5 DEF Nowhere, ForClient
  <2>2. FromClient(i)' = {} /\ ~Noticed(i)' /\ (Unawaited(i)' <=> Unawaited(i))
    BY <1>1, <1>3 DEF Nowhere, FromClient, Packets, Noticed, Unawaited
  <2>3. CASE Receiving(i) /\ e = Packet("PUBREC", i)
    <3>1. Awaiting(i)'
      BY <1>1, <1>2, <1>3, <2>1, <2>2, <2>3, ProgramSteps DEF Receiving, Awaiting, Nowhere
    <3> QED BY <3>1 DEF Stage
  <2>4. ASSUME NEW p, NEW a \in LastReplies, NEW n,
               AtWork(i, p, a, n), Tail(p) = <<>>, e = Packet(a, i),
               a \in {"PUBACK", "PUBCOMP"} => n = 1
        PROVE  Stage(i)'
    <3>1. Replied(i)' \/ Resting(i)'
      BY <1>2, <1>3, <2>1, <2>2, <2>4 DEF AtWork, Replied, Resting, Nowhere, LastReplies
    <3> QED BY <3>1 DEF Stage
  <2>5. ASSUME NEW w \in {"nothing", "UNSUBACK"}, e = Packet("UNSUBACK", i),
               AtWork(i, FirstUnsubscribed, w, 0) \/ AtWork(i, SecondUnsubscribed, w, 0)
        PROVE  Stage(i)'
    <3>1. Nowhere(i)' /\ Unawaited(i)' /\ waiting'[i] = w /\ published'[i] = 0
      BY <1>3, <2>1, <2>2, <2>5 DEF Nowhere, AtWork
    <3>2. CASE AtWork(i, FirstUnsubscribed, w, 0)
      <4>1. AtWork(i, UnsubscribeSecond, w, 0)'
        BY <1>2, <3>1, <3>2, ProgramSteps DEF AtWork
      <4> QED BY <4>1 DEF Stage, Unsubscribing
    <3>3. CASE AtWork(i, SecondUnsubscribed, w, 0)
      <4>1. Resting(i)'
        BY <1>2, <3>1, <3>3, ProgramSteps DEF AtWork, Resting
      <4> QED BY <4>1 DEF Stage
    <3> QED BY <2>5, <3>2, <3>3
  <2> QED BY <1>1, <2>3, <2>4, <2>5, ProgramSteps DEF LastReplies
<1>9. SendInv'
  <2>1. Sends' = Sends BY <1>1, <1>5 DEF Sends, MessageTypes
  <2> QED BY <1>2, <1>3, <2>1, SendKept DEF AckPackets, NoticedOwn, OwnConditions, Packets
<1> QED BY <1>6, <1>7, <1>8, <1>9 DEF RequestInv

\* An exception ends the thread, on a write or in the broker, and the exchange with it.
LEMMA RequestEnds ==
  ASSUME ExchangeInv, NEW i \in Ids, WriteFails(PacketThread(i)) \/ CallRaises(PacketThread(i))
  PROVE  ExchangeInv'
<1> USE DEF ExchangeInv, Release, Packet
<1>1. /\ Nowhere(i) /\ (waiting[i] \in {"nothing", "UNSUBACK"} => Unawaited(i))
      /\ (waiting[i] = "PUBREC" => published[i] = 0)
  BY NextOperation DEF RequestInv, WriteFails, CallRaises, AtWork, Receiving
<1>2. /\ PacketThread(i) # Writer /\ PacketThread(i) \in Threads /\ Writer \in Threads
      /\ PacketThread(i)[2] = i
      /\ \A j \in Ids : /\ PacketThread(j) \in Threads
                        /\ j # i => PacketThread(j) # PacketThread(i)
  BY DEF PacketThread, Writer, Threads
<1>3. /\ todo' = [todo EXCEPT ![PacketThread(i)] = <<>>] /\ used' = used
      /\ UNCHANGED <<peer, toBroker, toClient, reader, packet, stirred, conditions, results>>
      /\ UNCHANGED <<messages, requests, waiting, published, queued>>
      /\ alive' \in BOOLEAN /\ broken' = broken \cup {i}
  BY <1>2 DEF WriteFails, CallRaises, sockets, client, reading, queue, TypeInv
<1>4. /\ todo' = [t \in Threads |-> todo'[t]] /\ todo'[Writer] = todo[Writer]
      /\ todo'[PacketThread(i)] = <<>>
      /\ \A j \in Ids : j # i => todo'[PacketThread(j)] = todo[PacketThread(j)]
  BY <1>2, <1>3 DEF TypeInv
<1>5. TypeInv' /\ WireInv' /\ ReaderInv'
  BY <1>3, <1>4 DEF TypeInv, WireInv, ReaderInv, Once
<1>6. ASSUME NEW j \in Ids, j # i PROVE Stage(j)'
  BY <1>3, <1>4, <1>6, StageKept DEF RequestInv, FromClient, ForClient, Packets, Noticed
<1>7. Resting(i)'
  BY <1>1, <1>3, <1>4 DEF Resting, Nowhere, Unawaited, FromClient, ForClient, Packets, Noticed
<1>8. SendInv'
  BY <1>3, <1>4, SendKept DEF Sends, AckPackets, NoticedOwn, OwnConditions, Packets
<1> QED BY <1>5, <1>6, <1>7, <1>8 DEF RequestInv, Stage

\* A synchronisation that a subscription queues is a message like any other.
LEMMA MessageAppended ==
  ASSUME TypeInv, NEW qos \in 0..2, Enqueue(qos)
  PROVE  /\ messages' \in Seq(0..2) /\ queued' \in 0..MaxMessages
         /\ Len(messages') <= queued'
<1>1. queued < MaxMessages /\ queued' = queued + 1 /\ messages' = Append(messages, qos)
  BY DEF Enqueue
<1>2. messages' \in Seq(0..2) /\ Len(messages') = Len(messages) + 1 /\ Len(messages) \in Nat
  <2>1. messages \in Seq(0..2) BY DEF TypeInv
  <2> QED BY <1>1, <2>1, AppendProperties, LenProperties
<1> QED BY <1>1, <1>2, ExchangeAssumption DEF TypeInv

LEMMA RequestSubscribes ==
  ASSUME ExchangeInv, NEW i \in Ids, SubscribeFilter(PacketThread(i))
  PROVE  ExchangeInv'
<1> USE DEF ExchangeInv
<1>1. AtWork(i, HandleSubscribe, "SUBACK", 0)
  BY NextOperation DEF RequestInv, SubscribeFilter
<1>2. /\ used' = used /\ todo' = [t \in Threads |-> todo'[t]] /\ todo'[Writer] = todo[Writer]
      /\ todo'[PacketThread(i)] = Tail(todo[PacketThread(i)])
      /\ \A j \in Ids : j # i => todo'[PacketThread(j)] = todo[PacketThread(j)]
  BY AdvanceThread DEF SubscribeFilter
<1>3. /\ UNCHANGED <<alive, peer, toBroker, toClient, reader, packet, stirred, conditions>>
      /\ UNCHANGED <<results, requests, waiting, published, broken>>
  BY DEF SubscribeFilter, sockets, client, reading
<1>4. /\ messages' \in Seq(0..2) /\ queued' \in 0..MaxMessages
      /\ Len(messages') <= queued'
  <2>1. CASE UNCHANGED queue BY <2>1 DEF queue, TypeInv
  <2>2. CASE \E qos \in 0..2 : Enqueue(qos) BY <2>2, MessageAppended
  <2> QED BY <2>1, <2>2 DEF SubscribeFilter
<1>5. TypeInv' /\ WireInv' /\ ReaderInv'
  BY <1>2, <1>3, <1>4 DEF TypeInv, WireInv, ReaderInv, Once
<1>6. ASSUME NEW j \in Ids, j # i PROVE Stage(j)'
  BY <1>2, <1>3, <1>6, StageKept DEF RequestInv, FromClient, ForClient, Packets, Noticed
<1>7. AtWork(i, SubscribeAck, "SUBACK", 0)'
  <2>1. todo'[PacketThread(i)] = SubscribeAck
    BY <1>1, <1>2, ProgramSteps DEF AtWork
  <2> QED BY <1>1, <1>3, <2>1
          DEF AtWork, Nowhere, Unawaited, FromClient, ForClient, Packets, Noticed
<1>8. SendInv'
  BY <1>2, <1>3, SendKept DEF Sends, AckPackets, NoticedOwn, OwnConditions, Packets
<1> QED BY <1>5, <1>6, <1>7, <1>8 DEF RequestInv, Stage

LEMMA RequestUnsubscribes ==
  ASSUME ExchangeInv, NEW i \in Ids, UnsubscribeFilter(PacketThread(i))
  PROVE  ExchangeInv'
<1> USE DEF ExchangeInv
<1>1. PICK w \in {"nothing", "UNSUBACK"} :
        AtWork(i, HandleUnsubscribe, w, 0) \/ AtWork(i, UnsubscribeSecond, w, 0)
  BY NextOperation DEF RequestInv, UnsubscribeFilter
<1>2. /\ used' = used /\ todo' = [t \in Threads |-> todo'[t]] /\ todo'[Writer] = todo[Writer]
      /\ todo'[PacketThread(i)] = Tail(todo[PacketThread(i)])
      /\ \A j \in Ids : j # i => todo'[PacketThread(j)] = todo[PacketThread(j)]
  BY AdvanceThread DEF UnsubscribeFilter
<1>3. /\ UNCHANGED <<alive, peer, toBroker, toClient, reader, packet, stirred, conditions>>
      /\ UNCHANGED <<results, messages, requests, waiting, published, queued, broken>>
  BY DEF UnsubscribeFilter, sockets, client, reading, queue
<1>4. TypeInv' /\ WireInv' /\ ReaderInv'
  BY <1>2, <1>3 DEF TypeInv, WireInv, ReaderInv, Once
<1>5. ASSUME NEW j \in Ids, j # i PROVE Stage(j)'
  BY <1>2, <1>3, <1>5, StageKept DEF RequestInv, FromClient, ForClient, Packets, Noticed
<1>6. AtWork(i, FirstUnsubscribed, w, 0)' \/ AtWork(i, SecondUnsubscribed, w, 0)'
  <2>1. todo'[PacketThread(i)] \in {FirstUnsubscribed, SecondUnsubscribed}
    BY <1>1, <1>2, ProgramSteps DEF AtWork
  <2> QED BY <1>1, <1>3, <2>1
          DEF AtWork, Nowhere, Unawaited, FromClient, ForClient, Packets, Noticed
<1>7. Stage(i)' BY <1>6 DEF Stage, Unsubscribing
<1>8. SendInv'
  BY <1>2, <1>3, SendKept DEF Sends, AckPackets, NoticedOwn, OwnConditions, Packets
<1> QED BY <1>4, <1>5, <1>7, <1>8 DEF RequestInv

LEMMA RequestPublishes ==
  ASSUME ExchangeInv, NEW i \in Ids, PublishRow(PacketThread(i))
  PROVE  ExchangeInv'
<1> USE DEF ExchangeInv, Release, Packet
<1>1. \/ AtWork(i, PublishQos0, "nothing", 0) \/ AtWork(i, PublishQos1, "PUBACK", 0)
      \/ AtWork(i, PublishReleased, "PUBCOMP", 0)
  BY NextOperation DEF RequestInv, PublishRow
<1>2. /\ used' = used /\ todo' = [t \in Threads |-> todo'[t]] /\ todo'[Writer] = todo[Writer]
      /\ todo'[PacketThread(i)] = Tail(todo[PacketThread(i)])
      /\ \A j \in Ids : j # i => todo'[PacketThread(j)] = todo[PacketThread(j)]
  BY AdvanceThread DEF PublishRow
<1>3. /\ UNCHANGED <<alive, peer, toBroker, toClient, reader, packet, stirred, conditions>>
      /\ UNCHANGED <<results, messages, requests, waiting, queued, broken>>
      /\ published' = [published EXCEPT ![i] = @ + 1] /\ published[i] = 0
  BY <1>1 DEF PublishRow, sockets, client, reading, queue, AtWork, PacketThread
<1>4. TypeInv' /\ WireInv' /\ ReaderInv'
  BY <1>2, <1>3 DEF TypeInv, WireInv, ReaderInv, Once
<1>5. /\ published'[i] = 1 /\ Nowhere(i)' /\ Unawaited(i)'
      /\ \A j \in Ids : j # i => published'[j] = published[j]
  BY <1>1, <1>3 DEF TypeInv, AtWork, Nowhere, Unawaited, FromClient, ForClient, Packets, Noticed
<1>6. ASSUME NEW j \in Ids, j # i PROVE Stage(j)'
  BY <1>2, <1>3, <1>5, <1>6, StageKept DEF RequestInv, FromClient, ForClient, Packets, Noticed
<1>7. Stage(i)'
  <2>1. CASE AtWork(i, PublishQos0, "nothing", 0)
    <3>1. Resting(i)' BY <1>2, <1>3, <1>5, <2>1, ProgramSteps DEF Resting, AtWork
    <3> QED BY <3>1 DEF Stage
  <2>2. CASE AtWork(i, PublishQos1, "PUBACK", 0)
    <3>1. AtWork(i, Acknowledge, "PUBACK", 1)'
      BY <1>2, <1>3, <1>5, <2>2, ProgramSteps DEF AtWork
    <3> QED BY <3>1 DEF Stage
  <2>3. CASE AtWork(i, PublishReleased, "PUBCOMP", 0)
    <3>1. AtWork(i, Complete, "PUBCOMP", 1)'
      BY <1>2, <1>3, <1>5, <2>3, ProgramSteps DEF AtWork
    <3> QED BY <3>1 DEF Stage
  <2> QED BY <1>1, <2>1, <2>2, <2>3
<1>8. SendInv'
  BY <1>2, <1>3, SendKept DEF Sends, AckPackets, NoticedOwn, OwnConditions, Packets
<1> QED BY <1>4, <1>6, <1>7, <1>8 DEF RequestInv

-----------------------------------------------------------------------------
(***************************************************************************)
(* The operations of the write loop: of the broker's exchange each leads to *)
(* the next stage, and no exchange of the client's notices.                 *)
(***************************************************************************)
LEMMA WriterCreates ==
  ASSUME ExchangeInv, CreateCondition(Writer)
  PROVE  ExchangeInv'
<1> USE DEF ExchangeInv, Packet
<1>1. PICK u \in 0..MaxId - 1, a \in AnswerTypes :
        /\ used = {u} /\ Operand(Writer) = Packet(a, u)
        /\ \/ Creating(u, SendMessage(1)) /\ a = "PUBACK"
           \/ Creating(u, SendMessage(2)) /\ a = "PUBREC"
           \/ Creating(u, ReleaseQos2) /\ a = "PUBCOMP"
  BY WriterOperation DEF CreateCondition, AnswerTypes
<1>2. /\ used' = used /\ todo' = [t \in Threads |-> todo'[t]]
      /\ todo'[Writer] = Tail(todo[Writer])
      /\ \A i \in Ids : todo'[PacketThread(i)] = todo[PacketThread(i)]
  BY <1>1, AdvanceWriter, SendSteps DEF CreateCondition, Creating
<1>3. /\ UNCHANGED <<alive, peer, toBroker, toClient, reader, packet, results, messages>>
      /\ UNCHANGED <<requests, waiting, published, queued, broken>>
      /\ stirred' \in BOOLEAN /\ conditions' = conditions \cup {Packet(a, u)}
  BY <1>1 DEF CreateCondition, sockets, client, queue
<1>4. TypeInv' /\ WireInv' /\ ReaderInv'
  BY <1>2, <1>3 DEF TypeInv, Conditions, AckTypes, AnswerTypes, WireInv, ReaderInv, Once
<1>5. ASSUME NEW i \in Ids PROVE Stage(i)'
  BY <1>2, <1>3, StageKept
     DEF RequestInv, FromClient, ForClient, Packets, Noticed, Release, AnswerTypes
<1>6. ASSUME NEW p, Creating(u, p), Tail(p) # <<>>
      PROVE  Writing(u, Tail(p), a)'
  <2>1. OwnConditions' = {Packet(a, u)} /\ Packet(a, u) \notin results
    BY <1>3, <1>6 DEF Creating, OwnConditions, TypeInv
  <2>2. Silence'
    BY <1>3, <1>6 DEF Creating, Silence, Sends, AckPackets, NoticedOwn, Packets
  <2> QED BY <1>2, <1>3, <1>6, <2>1, <2>2 DEF Creating, Writing
<1>7. SendInv'
  <2>1. WriteQos1 # <<>> /\ WriteQos2 # <<>> /\ WriteRelease # <<>>
    <3>1. \A s : Len(s) # 0 => s # <<>> BY ProgramLengths, Zenon
    <3>2. Len(WriteQos1) # 0 /\ Len(WriteQos2) # 0 /\ Len(WriteRelease) # 0 BY SendSteps
    <3> QED BY <3>1, <3>2, Zenon
  <2>2. Sending(u)'
    BY <1>1, <1>6, <2>1, SendSteps DEF Sending
  <2> QED BY <1>1, <1>2, <2>2 DEF SendInv
<1> QED BY <1>4, <1>5, <1>7 DEF RequestInv

LEMMA WriterWaits ==
  ASSUME ExchangeInv, WaitForPacket(Writer)
  PROVE  ExchangeInv'
<1> USE DEF ExchangeInv, Packet
<1>1. PICK u \in 0..MaxId - 1, a \in AnswerTypes :
        /\ used = {u} /\ Operand(Writer) = Packet(a, u)
        /\ \/ WaitingFor(u, AwaitAck, "PUBLISH1", "PUBACK") /\ a = "PUBACK"
           \/ WaitingFor(u, AwaitReceived, "PUBLISH2", "PUBREC") /\ a = "PUBREC"
           \/ WaitingFor(u, AwaitComplete, "PUBREL", "PUBCOMP") /\ a = "PUBCOMP"
  BY WriterOperation DEF WaitForPacket, AnswerTypes
<1>2. /\ UNCHANGED <<alive, peer, toBroker, toClient, reader, packet, messages>>
      /\ UNCHANGED <<requests, waiting, published, queued, broken>>
      /\ stirred' \in BOOLEAN /\ Packet(a, u) \in results
      /\ conditions' = conditions \ {Packet(a, u)} /\ results' = results \ {Packet(a, u)}
  BY <1>1 DEF WaitForPacket, sockets, client, queue
<1>3. /\ todo' = [t \in Threads |-> todo'[t]]
      /\ \A i \in Ids : todo'[PacketThread(i)] = todo[PacketThread(i)]
  BY AdvanceWriter DEF WaitForPacket
<1>4. TypeInv' /\ WireInv' /\ ReaderInv'
  BY <1>2, <1>3 DEF TypeInv, WireInv, ReaderInv, Once
<1>5. ASSUME NEW i \in Ids PROVE Stage(i)'
  BY <1>2, <1>3, StageKept
     DEF RequestInv, FromClient, ForClient, Packets, Noticed, Release, AnswerTypes
<1>6. Silence /\ OwnConditions = {Packet(a, u)}
  BY <1>1, <1>2 DEF WaitingFor
<1>7. OwnConditions' = {} /\ Silence'
  BY <1>2, <1>6 DEF OwnConditions, Silence, Sends, AckPackets, NoticedOwn, Packets
<1>8. SendInv'
  <2>1. CASE todo[Writer] \in {AwaitAck, AwaitComplete}
    <3>1. used' = {} /\ todo'[Writer] \in {<<>>, <<Get>>}
      BY <2>1, AdvanceWriter, SendSteps DEF WaitForPacket
    <3> QED BY <1>7, <3>1 DEF SendInv, NotSending
  <2>2. CASE todo[Writer] = AwaitReceived
    <3>1. Len(todo[Writer]) # 1 /\ Tail(todo[Writer]) = ReleaseQos2
      BY <2>2, SendSteps
    <3>2. used' = {u} /\ todo'[Writer] = ReleaseQos2
      BY <1>1, <3>1, AdvanceWriter DEF WaitForPacket
    <3> QED BY <1>7, <3>2 DEF SendInv, Sending, Creating
  <2> QED BY <1>1, <2>1, <2>2 DEF WaitingFor
<1> QED BY <1>4, <1>5, <1>8 DEF RequestInv

LEMMA WriterWrites ==
  ASSUME ExchangeInv, WritePacket(Writer)
  PROVE  ExchangeInv'
<1> USE DEF ExchangeInv, Packet
<1> DEFINE Begun(u, program, message, ack) ==
             used = {u} /\ Writing(u, program, ack) /\ Operand(Writer) = Packet(message, u)
<1>1. \/ /\ used = {} /\ NotSending /\ todo[Writer] = SendMessage(0)
         /\ Operand(Writer) = Packet("PUBLISH0", NoId)
      \/ \E u \in 0..MaxId - 1 : \/ Begun(u, WriteQos1, "PUBLISH1", "PUBACK")
                                 \/ Begun(u, WriteQos2, "PUBLISH2", "PUBREC")
                                 \/ Begun(u, WriteRelease, "PUBREL", "PUBCOMP")
  BY WriterOperation DEF WritePacket
<1>2. PICK e : e = Operand(Writer) OBVIOUS
<1>2a. /\ Silence /\ e \in ToClient /\ e.type \notin ReplyTypes
       /\ e.type \in MessageTypes \/ e.id = NoId
  <2>1. CASE used = {} /\ NotSending /\ e = Packet("PUBLISH0", NoId)
    BY <2>1 DEF NotSending, ToClient, ReplyTypes
  <2>2. ASSUME NEW u \in 0..MaxId - 1, NEW p, NEW m \in MessageTypes, NEW a,
               Writing(u, p, a), e = Packet(m, u)
        PROVE  Silence /\ e \in ToClient /\ e.type \notin ReplyTypes
    BY <2>2 DEF Writing, ToClient, ReplyTypes, MessageTypes
  <2> QED BY <1>1, <1>2, <2>1, <2>2 DEF MessageTypes
<1>3. /\ UNCHANGED <<alive, peer, toBroker, reader, packet, stirred, conditions, results>>
      /\ UNCHANGED <<messages, requests, waiting, published, queued, broken>>
      /\ toClient' = IF peer THEN Append(toClient, e) ELSE toClient
  BY <1>2 DEF WritePacket, sockets, client, reading, queue
<1>4. /\ todo' = [t \in Threads |-> todo'[t]]
      /\ \A i \in Ids : todo'[PacketThread(i)] = todo[PacketThread(i)]
  BY AdvanceWriter DEF WritePacket
<1>5. e \notin Packets(toClient) \/ e.id = NoId
  BY <1>2a DEF Silence, Sends
<1>6. /\ toClient' \in Seq(ToClient) /\ Once(toClient)'
      /\ Packets(toClient)' = IF peer THEN Packets(toClient) \cup {e} ELSE Packets(toClient)
  <2>1. ~Single(e) \/ e \notin Packets(toClient) BY <1>5 DEF Single
  <2> QED BY <1>2a, <1>3, <2>1, WireAppend DEF WireInv, Packets, Once
<1>7. TypeInv' /\ WireInv' /\ ReaderInv'
  BY <1>3, <1>4, <1>6 DEF TypeInv, WireInv, ReaderInv, Once
<1>8. ASSUME NEW i \in Ids PROVE Stage(i)'
  <2>1. ForClient(i)' = ForClient(i) BY <1>2a, <1>6 DEF ForClient
  <2> QED BY <1>3, <1>4, <2>1, StageKept DEF RequestInv, FromClient, Packets, Noticed
<1>9. /\ AckPackets' = {} /\ ~NoticedOwn' /\ OwnConditions' = OwnConditions
      /\ Sends' = IF peer /\ e.type \in MessageTypes THEN {e} ELSE {}
  BY <1>2a, <1>3, <1>6
     DEF Silence, AckPackets, NoticedOwn, OwnConditions, Packets, Sends
<1>10. SendInv'
  <2>1. CASE used = {} /\ NotSending /\ todo[Writer] = SendMessage(0) /\ e.type = "PUBLISH0"
    <3>1. used' = {} /\ todo'[Writer] \in {<<>>, <<Get>>}
      BY <2>1, AdvanceWriter, SendSteps DEF WritePacket
    <3>2. SendMessage(0) # <<>>
      BY SendSteps, ProgramLengths
    <3>3. Silence' /\ OwnConditions' = {}
      BY <1>9, <2>1, <3>2 DEF Silence, NotSending, MessageTypes
    <3> QED BY <3>1, <3>3 DEF SendInv, NotSending
  <2>2. ASSUME NEW u \in 0..MaxId - 1, NEW p, NEW m \in MessageTypes, NEW a,
               Begun(u, p, m, a), Len(p) # 1
        PROVE  used' = {u} /\ WaitingFor(u, Tail(p), m, a)'
    <3>1. used' = {u} /\ todo'[Writer] = Tail(p)
      BY <2>2, AdvanceWriter DEF WritePacket, Writing
    <3> QED BY <1>2, <1>3, <1>9, <2>2, <3>1 DEF Writing, WaitingFor, Silence
  <2>3. ASSUME NEW u \in 0..MaxId - 1,
               \/ Begun(u, WriteQos1, "PUBLISH1", "PUBACK")
               \/ Begun(u, WriteQos2, "PUBLISH2", "PUBREC")
               \/ Begun(u, WriteRelease, "PUBREL", "PUBCOMP")
        PROVE  used' = {u} /\ Sending(u)'
    <3> HIDE DEF Begun
    <3>1. CASE Begun(u, WriteQos1, "PUBLISH1", "PUBACK")
      <4>1. Len(WriteQos1) # 1 /\ Tail(WriteQos1) = AwaitAck /\ "PUBLISH1" \in MessageTypes
        BY SendSteps DEF MessageTypes
      <4>2. used' = {u} /\ WaitingFor(u, Tail(WriteQos1), "PUBLISH1", "PUBACK")'
        BY <2>2, <3>1, <4>1
      <4> QED BY <4>1, <4>2 DEF Sending
    <3>2. CASE Begun(u, WriteQos2, "PUBLISH2", "PUBREC")
      <4>1. Len(WriteQos2) # 1 /\ Tail(WriteQos2) = AwaitReceived /\ "PUBLISH2" \in MessageTypes
        BY SendSteps DEF MessageTypes
      <4>2. used' = {u} /\ WaitingFor(u, Tail(WriteQos2), "PUBLISH2", "PUBREC")'
        BY <2>2, <3>2, <4>1
      <4> QED BY <4>1, <4>2 DEF Sending
    <3>3. CASE Begun(u, WriteRelease, "PUBREL", "PUBCOMP")
      <4>1. Len(WriteRelease) # 1 /\ Tail(WriteRelease) = AwaitComplete /\ "PUBREL" \in MessageTypes
        BY SendSteps DEF MessageTypes
      <4>2. used' = {u} /\ WaitingFor(u, Tail(WriteRelease), "PUBREL", "PUBCOMP")'
        BY <2>2, <3>3, <4>1
      <4> QED BY <4>1, <4>2 DEF Sending
    <3> QED BY <2>3, <3>1, <3>2, <3>3
  <2> QED BY <1>1, <1>2, <2>1, <2>3 DEF SendInv
<1> QED BY <1>7, <1>8, <1>10 DEF RequestInv

LEMMA WriterFails ==
  ASSUME ExchangeInv, WriteFails(Writer)
  PROVE  ExchangeInv'
<1> USE DEF ExchangeInv
<1>1. Silence
  BY WriterOperation DEF WriteFails, Writing, NotSending
<1>2. /\ Writer \in Threads
      /\ \A i \in Ids : PacketThread(i) \in Threads /\ PacketThread(i) # Writer
  BY DEF PacketThread, Writer, Threads
<1>3. /\ todo' = [todo EXCEPT ![Writer] = <<>>] /\ used' = {} /\ alive' \in BOOLEAN
      /\ UNCHANGED <<peer, toBroker, toClient, reader, packet, stirred, conditions, results>>
      /\ UNCHANGED <<messages, requests, waiting, published, queued, broken>>
  BY DEF WriteFails, client, reading, queue
<1>4. /\ todo' = [t \in Threads |-> todo'[t]] /\ todo'[Writer] = <<>>
      /\ \A i \in Ids : todo'[PacketThread(i)] = todo[PacketThread(i)]
  BY <1>2, <1>3 DEF TypeInv
<1>5. TypeInv' /\ WireInv' /\ ReaderInv'
  BY <1>3, <1>4 DEF TypeInv, WireInv, ReaderInv, Once
<1>6. ASSUME NEW i \in Ids PROVE Stage(i)'
  BY <1>3, <1>4, StageKept DEF RequestInv, FromClient, ForClient, Packets, Noticed
<1>7. SendInv'
  BY <1>1, <1>3, <1>4
     DEF SendInv, NotSending, Silence, Sends, AckPackets, NoticedOwn, Packets
<1> QED BY <1>5, <1>6, <1>7 DEF RequestInv

\* A message gets an id that no other has, and its exchange begins.
LEMMA MessageTaken ==
  ASSUME ExchangeInv, GetMessage
  PROVE  ExchangeInv'
<1> USE DEF ExchangeInv
<1>1. used = {} /\ NotSending /\ todo[Writer] = <<Get>>
  BY WriterOperation DEF GetMessage
<1>2. Silence /\ OwnConditions = {}
  <2>1. <<Get>> # <<>> BY ProgramSteps, ProgramLengths
  <2> QED BY <1>1, <2>1 DEF NotSending
<1>3. NextPacketId \in 0..MaxId - 1
  <2>1. 0 \in 0..MaxId - 1 /\ 0 \notin used /\ \A j \in 0..0 - 1 : j \in used
    BY <1>1, ExchangeAssumption
  <2> QED BY <2>1 DEF NextPacketId
<1>4. /\ Head(messages) \in 0..2 /\ Tail(messages) \in Seq(0..2)
      /\ Len(Tail(messages)) <= Len(messages)
  <2>1. messages # <<>> /\ messages \in Seq(0..2) BY DEF GetMessage, TypeInv
  <2>2. Len(messages) \in Nat /\ Len(messages) # 0 BY <2>1, EmptySeq
  <2>3. Head(messages) = messages[1] /\ Tail(messages) \in Seq(0..2)
        /\ Len(Tail(messages)) = Len(messages) - 1
    BY <2>1, HeadTailProperties
  <2>4. messages[1] \in 0..2 BY <2>1, <2>2, ElementOfSeq
  <2> QED BY <2>2, <2>3, <2>4
<1>5. /\ Writer \in Threads
      /\ \A i \in Ids : PacketThread(i) \in Threads /\ PacketThread(i) # Writer
  BY DEF PacketThread, Writer, Threads
<1>6. /\ todo' = [todo EXCEPT ![Writer] = SendMessage(Head(messages))]
      /\ used' = IF Head(messages) = 0 THEN {} ELSE {NextPacketId}
      /\ messages' = Tail(messages)
      /\ UNCHANGED <<alive, peer, toBroker, toClient, reader, packet, stirred, conditions>>
      /\ UNCHANGED <<results, requests, waiting, published, queued, broken>>
  BY <1>1 DEF GetMessage, sockets, client, reading, queue
<1>7. /\ todo' = [t \in Threads |-> todo'[t]] /\ todo'[Writer] = SendMessage(Head(messages))
      /\ \A i \in Ids : todo'[PacketThread(i)] = todo[PacketThread(i)]
  BY <1>5, <1>6 DEF TypeInv
<1>8. TypeInv'
  <2>1. Len(messages) \in Nat BY DEF TypeInv
  <2>2. Len(Tail(messages)) \in Nat BY <1>4
  <2> QED BY <1>4, <1>6, <1>7, <2>1, <2>2 DEF TypeInv
<1>9. WireInv' /\ ReaderInv'
  BY <1>6 DEF WireInv, ReaderInv, Once
<1>10. ASSUME NEW i \in Ids PROVE Stage(i)'
  BY <1>6, <1>7, StageKept DEF RequestInv, FromClient, ForClient, Packets, Noticed
<1>11. SendInv'
  <2>1. Silence' /\ OwnConditions' = {}
    BY <1>2, <1>6 DEF Silence, Sends, AckPackets, NoticedOwn, OwnConditions, Packets
  <2>2. CASE Head(messages) = 0
    BY <1>6, <1>7, <2>1, <2>2 DEF SendInv, NotSending
  <2>3. CASE Head(messages) \in {1, 2}
    BY <1>3, <1>6, <1>7, <2>1, <2>3 DEF SendInv, Sending, Creating
  <2> QED BY <1>4, <2>2, <2>3
<1> QED BY <1>8, <1>9, <1>10, <1>11 DEF RequestInv

-----------------------------------------------------------------------------
\* WireTail for what the broker reads, and for what the client does.
LEMMA PacketRead ==
  ASSUME WireInv, toBroker # <<>>, toBroker' = Tail(toBroker)
  PROVE  /\ toBroker' \in Seq(ToBroker) /\ Once(toBroker)' /\ Head(toBroker) \in ToBroker
         /\ Head(toBroker) \in Packets(toBroker)
         /\ Packets(toBroker) \ {Head(toBroker)} \subseteq Packets(toBroker)'
         /\ Packets(toBroker)' \subseteq Packets(toBroker)
         /\ Single(Head(toBroker)) => Head(toBroker) \notin Packets(toBroker)'
<1>1. /\ Tail(toBroker) \in Seq(ToBroker) /\ Once(Tail(toBroker))
      /\ Head(toBroker) \in ToBroker /\ Head(toBroker) \in Packets(toBroker)
      /\ Packets(toBroker) \ {Head(toBroker)} \subseteq Packets(Tail(toBroker))
      /\ Packets(Tail(toBroker)) \subseteq Packets(toBroker)
      /\ Single(Head(toBroker)) => Head(toBroker) \notin Packets(Tail(toBroker))
  BY WireTail DEF WireInv
<1>2. Packets(toBroker)' = Packets(Tail(toBroker)) /\ (Once(toBroker)' <=> Once(Tail(toBroker)))
  BY DEF Packets, Once
<1> QED BY <1>1, <1>2

\* A packet the client takes is gone from the wire too.
LEMMA PacketReceived ==
  ASSUME WireInv, toClient # <<>>, toClient' = Tail(toClient)
  PROVE  /\ toClient' \in Seq(ToClient) /\ Once(toClient)' /\ Head(toClient) \in ToClient
         /\ Head(toClient) \in Packets(toClient)
         /\ Packets(toClient) \ {Head(toClient)} \subseteq Packets(toClient)'
         /\ Packets(toClient)' \subseteq Packets(toClient)
         /\ Single(Head(toClient)) => Head(toClient) \notin Packets(toClient)'
<1>1. /\ Tail(toClient) \in Seq(ToClient) /\ Once(Tail(toClient))
      /\ Head(toClient) \in ToClient /\ Head(toClient) \in Packets(toClient)
      /\ Packets(toClient) \ {Head(toClient)} \subseteq Packets(Tail(toClient))
      /\ Packets(Tail(toClient)) \subseteq Packets(toClient)
      /\ Single(Head(toClient)) => Head(toClient) \notin Packets(Tail(toClient))
  BY WireTail DEF WireInv
<1>2. Packets(toClient)' = Packets(Tail(toClient)) /\ (Once(toClient)' <=> Once(Tail(toClient)))
  BY DEF Packets, Once
<1> QED BY <1>1, <1>2

(***************************************************************************)
(* The read loop: where a packet is tells whose it is and what waits for it.*)
(***************************************************************************)
LEMMA RequestHandled ==
  ASSUME ExchangeInv, HandlePacket, Head(toBroker).type \in Requests
  PROVE  ExchangeInv'
<1> USE DEF ExchangeInv
<1>1. PICK p : p = Head(toBroker) OBVIOUS
<1>2. /\ toBroker' = Tail(toBroker) /\ toBroker # <<>> /\ reader = "read"
      /\ todo' = [todo EXCEPT ![PacketThread(p.id)] = Handler(p.type)]
      /\ UNCHANGED <<alive, peer, toClient, reader, packet, stirred, conditions, results>>
      /\ UNCHANGED <<messages, used, requests, waiting, published, queued, broken>>
  BY <1>1 DEF HandlePacket, sockets, client, queue, reading
<1>3. /\ toBroker' \in Seq(ToBroker) /\ Once(toBroker)' /\ p \in ToBroker
      /\ p \in Packets(toBroker) /\ Packets(toBroker) \ {p} \subseteq Packets(toBroker)'
      /\ Packets(toBroker)' \subseteq Packets(toBroker)
      /\ Single(p) => p \notin Packets(toBroker)'
  BY <1>1, <1>2, PacketRead
<1>4. PICK i \in Ids : p.id = i /\ p = Packet(p.type, i) /\ p.type \in Requests
  BY <1>1, <1>3 DEF ToBroker, Requests, AnswerTypes, Packet
<1>5. /\ Writer \in Threads /\ PacketThread(i) \in Threads
      /\ \A j \in Ids : /\ PacketThread(j) \in Threads /\ PacketThread(j) # Writer
                        /\ j # i => PacketThread(j) # PacketThread(i)
  BY DEF PacketThread, Writer, Threads
<1>6. /\ todo' = [t \in Threads |-> todo'[t]] /\ todo'[Writer] = todo[Writer]
      /\ todo'[PacketThread(i)] = Handler(p.type)
      /\ \A j \in Ids : j # i => todo'[PacketThread(j)] = todo[PacketThread(j)]
  BY <1>2, <1>4, <1>5 DEF TypeInv
<1>7. TypeInv' /\ WireInv' /\ ReaderInv'
  BY <1>2, <1>3, <1>6 DEF TypeInv, WireInv, ReaderInv, Once
<1>8. ASSUME NEW j \in Ids, j # i PROVE Stage(j)'
  <2>1. FromClient(j)' = FromClient(j) BY <1>3, <1>4, <1>8 DEF FromClient
  <2> QED BY <1>2, <1>6, <1>8, <2>1, StageKept DEF RequestInv, ForClient, Packets, Noticed
<1>9. Stage(i)'
  <2>1. p \in FromClient(i) /\ p # Release(i)
    BY <1>3, <1>4 DEF FromClient, Release, Packet, Requests
  <2>2. Sent(i)
    <3>1. Stage(i) BY DEF RequestInv
    <3>2. FromClient(i) # {} /\ FromClient(i) # {Release(i)} BY <2>1
    <3> QED BY <3>1, <3>2
        DEF Stage, Resting, Replied, Receiving, Awaiting, Unsubscribing, AtWork, Nowhere
  <2>3. FromClient(i) = {p} /\ (waiting[i] = FirstAnswer(p.type) \/ Satisfied(i, p.type))
    <3>1. PICK r \in Requests : /\ FromClient(i) = {Packet(r, i)}
                               /\ (waiting[i] = FirstAnswer(r) \/ Satisfied(i, r))
      BY <2>2 DEF Sent
    <3>2. p = Packet(r, i) /\ p.type = r BY <2>1, <3>1 DEF Packet
    <3> QED BY <3>1, <3>2
  <2>4. FromClient(i)' = {}
    <3>1. Single(p) BY <1>4, ExchangeAssumption DEF Single, NoId, Requests
    <3> QED BY <1>3, <2>3, <3>1 DEF FromClient
  <2>5. ASSUME NEW w, waiting[i] = w PROVE AtWork(i, Handler(p.type), w, 0)'
    BY <1>2, <1>6, <2>2, <2>3, <2>4, <2>5
       DEF Sent, AtWork, Nowhere, Unawaited, Noticed, ForClient, Packets
  <2>6. CASE waiting[i] = FirstAnswer(p.type)
    <3>1. AtWork(i, Handler(p.type), FirstAnswer(p.type), 0)' BY <2>5, <2>6
    <3> QED BY <1>4, <3>1 DEF Stage, Unsubscribing, Requests, Handler, FirstAnswer
  <2>7. CASE Satisfied(i, p.type)
    <3>1. AtWork(i, HandleUnsubscribe, "nothing", 0)' BY <2>5, <2>7 DEF Satisfied, Handler
    <3> QED BY <3>1 DEF Stage, Unsubscribing
  <2> QED BY <2>3, <2>6, <2>7
<1>10. SendInv'
  <2>1. AckPackets' = AckPackets
    BY <1>3, <1>4 DEF AckPackets, AnswerTypes, Requests
  <2> QED BY <1>2, <1>6, <2>1, SendKept DEF Sends, NoticedOwn, OwnConditions, Packets
<1> QED BY <1>7, <1>8, <1>9, <1>10 DEF RequestInv

LEMMA AnswerHandled ==
  ASSUME ExchangeInv, HandlePacket, Head(toBroker).type \notin Requests
  PROVE  ExchangeInv'
<1> USE DEF ExchangeInv
<1>1. PICK p : p = Head(toBroker) OBVIOUS
<1>2. /\ toBroker' = Tail(toBroker) /\ toBroker # <<>> /\ reader = "read"
      /\ reader' = "notify" /\ packet' = p /\ stirred' = FALSE
      /\ UNCHANGED <<alive, peer, toClient, todo, conditions, results, messages, used>>
      /\ UNCHANGED <<requests, waiting, published, queued, broken>>
  BY <1>1 DEF HandlePacket, sockets, client, queue
<1>3. /\ toBroker' \in Seq(ToBroker) /\ Once(toBroker)' /\ p \in ToBroker
      /\ p \in Packets(toBroker) /\ Packets(toBroker) \ {p} \subseteq Packets(toBroker)'
      /\ Packets(toBroker)' \subseteq Packets(toBroker)
      /\ Single(p) => p \notin Packets(toBroker)'
  BY <1>1, <1>2, PacketRead
<1>4. Single(p) /\ (p \in {Release(i) : i \in Ids} \/ p \in [type : AnswerTypes, id : 0..MaxId - 1])
  <2>1. CASE p \in [type : AnswerTypes, id : 0..MaxId - 1]
    BY <2>1, ExchangeAssumption DEF NoId, Single, AnswerTypes
  <2>2. CASE p \in [type : Requests \cup {"PUBREL"}, id : Ids]
    <3>1. p.type = "PUBREL" /\ p.id \in Ids /\ p = Packet(p.type, p.id)
      BY <1>1, <2>2 DEF Packet
    <3> QED BY <3>1, ExchangeAssumption DEF Release, NoId, Single
  <2> QED BY <1>3, <2>1, <2>2 DEF ToBroker
<1>5. TypeInv' /\ WireInv' /\ ReaderInv'
  <2>1. TypeInv' BY <1>2 DEF TypeInv
  <2>2. WireInv' BY <1>2, <1>3 DEF WireInv, Once
  <2>3. ReaderInv' BY <1>2, <1>4 DEF ReaderInv, Release
  <2> QED BY <2>1, <2>2, <2>3
<1>6. ASSUME NEW j \in Ids, p # Release(j) PROVE Stage(j)'
  <2>1. FromClient(j)' = FromClient(j)
    BY <1>3, <1>4, <1>6 DEF FromClient, Release, Packet, Requests, AnswerTypes
  <2> QED BY <1>2, <1>6, <2>1, StageKept DEF RequestInv, ForClient, Packets, Noticed
<1>7. ASSUME NEW i \in Ids, p = Release(i) PROVE Stage(i)'
  <2>1. Release(i) \in FromClient(i)
    BY <1>3, <1>7 DEF FromClient, Release, Packet, Requests
  <2>2. Awaiting(i) /\ FromClient(i) = {Release(i)}
    <3>1. Stage(i) BY DEF RequestInv
    <3>2. \A r \in Requests : Packet(r, i) # Release(i)
      BY DEF Release, Packet, Requests
    <3> QED BY <2>1, <3>1, <3>2
        DEF Stage, Resting, Sent, Replied, Receiving, Awaiting, Unsubscribing, AtWork,
        Nowhere
  <2>3. FromClient(i)' = {}
    BY <1>3, <1>4, <1>7, <2>2 DEF FromClient
  <2>4. Awaiting(i)'
    BY <1>2, <1>7, <2>2, <2>3 DEF Awaiting, Nowhere, Noticed, ForClient, Packets
  <2> QED BY <2>4 DEF Stage
<1>8. SendInv'
  <2>1. CASE p.type \notin AnswerTypes
    <3>1. AckPackets' = AckPackets BY <1>3, <2>1 DEF AckPackets
    <3>2. ~NoticedOwn /\ ~NoticedOwn' BY <1>2, <2>1 DEF NoticedOwn
    <3> QED BY <1>2, <3>1, <3>2, SendKept DEF Sends, OwnConditions, Packets
  <2>2. CASE p.type \in AnswerTypes
    <3>1. p \in AckPackets BY <1>3, <2>2 DEF AckPackets
    <3>2. AckPackets' \subseteq AckPackets \ {p} BY <1>3, <1>4 DEF AckPackets
    <3>3. Sends' = Sends /\ OwnConditions' = OwnConditions /\ NoticedOwn'
      BY <1>2, <2>2 DEF Sends, OwnConditions, Packets, NoticedOwn
    <3>4. PICK u \in 0..MaxId - 1 : used = {u} /\ Sending(u)
      BY <3>1 DEF SendInv, NotSending, Silence
    <3>5. ASSUME NEW q, NEW m, NEW a, WaitingFor(u, q, m, a) PROVE WaitingFor(u, q, m, a)'
      BY <1>2, <3>1, <3>2, <3>3, <3>5 DEF WaitingFor, Silence
    <3>6. Sending(u)'
      BY <3>1, <3>4, <3>5 DEF Sending, Creating, Writing, Silence
    <3> QED BY <1>2, <3>4, <3>6 DEF SendInv
  <2> QED BY <2>1, <2>2
<1> QED BY <1>5, <1>6, <1>7, <1>8 DEF RequestInv

\* packet_notify finds the condition: whoever waits has its answer.
LEMMA ConditionMet ==
  ASSUME ExchangeInv, Meet
  PROVE  ExchangeInv'
<1> USE DEF ExchangeInv
<1>1. /\ reader = "notify" /\ packet \in conditions
      /\ results' = results \cup {packet} /\ reader' = "read" /\ stirred' = FALSE
      /\ UNCHANGED <<alive, peer, toBroker, toClient, conditions, todo>>
      /\ UNCHANGED <<messages, used, requests, waiting, published, queued, broken>>
  BY DEF Meet, sockets, client, queue
<1>2. TypeInv' /\ WireInv' /\ ReaderInv'
  BY <1>1 DEF TypeInv, WireInv, ReaderInv, Once
<1>3. ASSUME NEW j \in Ids, packet # Release(j) PROVE Stage(j)'
  BY <1>1, <1>3, StageKept DEF RequestInv, FromClient, ForClient, Packets, Noticed
<1>4. ASSUME NEW i \in Ids, packet = Release(i) PROVE Stage(i)'
  <2>1. Awaiting(i) /\ Noticed(i)
    BY <1>1, <1>4 DEF RequestInv, Stage, Resting, Sent, Replied, Receiving, Unsubscribing, AtWork,
        Nowhere,
       Noticed
  <2>2. Awaiting(i)'
    BY <1>1, <2>1 DEF Awaiting, Nowhere, Noticed, FromClient, ForClient, Packets
  <2> QED BY <2>2 DEF Stage
<1>5. SendInv'
  <2>1. CASE packet.type \notin AnswerTypes
    <3>1. \A a \in AnswerTypes, u \in 0..MaxId - 1 :
            Packet(a, u) \in results' <=> Packet(a, u) \in results
      BY <1>1, <2>1 DEF Packet
    <3> QED BY <1>1, <2>1, <3>1, SendKept
        DEF Sends, AckPackets, NoticedOwn, OwnConditions, Packets
  <2>2. CASE packet.type \in AnswerTypes
    <3>1. NoticedOwn /\ ~NoticedOwn' BY <1>1, <2>2 DEF NoticedOwn
    <3>2. Sends' = Sends /\ AckPackets' = AckPackets /\ OwnConditions' = OwnConditions
      BY <1>1 DEF Sends, AckPackets, OwnConditions, Packets
    <3>3. PICK u \in 0..MaxId - 1 : used = {u} /\ Sending(u)
      BY <3>1 DEF SendInv, NotSending, Silence
    <3>4. ASSUME NEW q, NEW m, NEW a, WaitingFor(u, q, m, a) PROVE WaitingFor(u, q, m, a)'
      BY <1>1, <3>1, <3>2, <3>4 DEF WaitingFor, Silence
    <3>5. Sending(u)'
      BY <3>1, <3>3, <3>4 DEF Sending, Creating, Writing, Silence
    <3> QED BY <1>1, <3>3, <3>5 DEF SendInv
  <2> QED BY <2>1, <2>2
<1> QED BY <1>2, <1>3, <1>4, <1>5 DEF RequestInv

\* The read loop ends; an acknowledgement that it held is lost.
LEMMA ReaderEnds ==
  ASSUME ExchangeInv, NotifyFails \/ ReadFails
  PROVE  ExchangeInv'
<1> USE DEF ExchangeInv
<1>1. /\ reader' = "done" /\ alive' = FALSE /\ stirred' \in BOOLEAN
      /\ UNCHANGED <<peer, toBroker, toClient, conditions, results, todo>>
      /\ UNCHANGED <<messages, used, requests, waiting, published, queued, broken>>
  BY DEF NotifyFails, ReadFails, client, queue, TypeInv
<1>2. TypeInv' /\ WireInv' /\ ReaderInv'
  BY <1>1 DEF TypeInv, WireInv, ReaderInv, Once
<1>3. ASSUME NEW i \in Ids PROVE Stage(i)'
  <2>1. CASE ~Noticed(i)
    BY <1>1, <2>1, StageKept DEF RequestInv, FromClient, ForClient, Packets, Noticed
  <2>2. CASE Noticed(i)
    <3>1. Awaiting(i)
      BY <2>2 DEF RequestInv, Stage, Resting, Sent, Replied, Receiving, Unsubscribing, AtWork,
        Nowhere
    <3>2. Awaiting(i)'
      BY <1>1, <2>2, <3>1 DEF Awaiting, Nowhere, Noticed, FromClient, ForClient, Packets
    <3> QED BY <3>2 DEF Stage
  <2> QED BY <2>1, <2>2
<1>4. SendInv'
  <2>1. /\ Sends' = Sends /\ AckPackets' = AckPackets /\ OwnConditions' = OwnConditions
        /\ ~NoticedOwn'
    BY <1>1 DEF Sends, AckPackets, OwnConditions, Packets, NoticedOwn
  <2>2. CASE ~NoticedOwn
    BY <1>1, <2>1, <2>2, SendKept
  <2>3. CASE NoticedOwn
    <3>1. PICK u \in 0..MaxId - 1 : used = {u} /\ Sending(u)
      BY <2>3 DEF SendInv, NotSending, Silence
    <3>2. ASSUME NEW q, NEW m, NEW a, WaitingFor(u, q, m, a) PROVE WaitingFor(u, q, m, a)'
      BY <1>1, <2>1, <2>3, <3>2 DEF WaitingFor, Silence
    <3>3. Sending(u)'
      BY <2>3, <3>1, <3>2 DEF Sending, Creating, Writing, Silence
    <3> QED BY <1>1, <3>1, <3>3 DEF SendInv
  <2> QED BY <2>2, <2>3
<1> QED BY <1>2, <1>3, <1>4 DEF RequestInv

-----------------------------------------------------------------------------
(***************************************************************************)
(* The client and the sender of messages.                                   *)
(***************************************************************************)
LEMMA MessageQueued ==
  ASSUME ExchangeInv, NEW qos \in 0..2, QueueMessage(qos)
  PROVE  ExchangeInv'
<1> USE DEF ExchangeInv
<1>1. /\ UNCHANGED <<alive, peer, toBroker, toClient, reader, packet, stirred, conditions>>
      /\ UNCHANGED <<results, todo, used, requests, waiting, published, broken>>
  BY DEF QueueMessage, sockets, client, reading
<1>2. TypeInv'
  BY <1>1, MessageAppended DEF TypeInv, QueueMessage
<1>3. WireInv' /\ ReaderInv'
  BY <1>1 DEF WireInv, ReaderInv, Once
<1>4. ASSUME NEW i \in Ids PROVE Stage(i)'
  BY <1>1, StageKept DEF RequestInv, FromClient, ForClient, Packets, Noticed
<1>5. SendInv'
  BY <1>1, SendKept DEF Sends, AckPackets, NoticedOwn, OwnConditions, Packets
<1> QED BY <1>2, <1>3, <1>4, <1>5 DEF RequestInv

LEMMA RequestMade ==
  ASSUME ExchangeInv, NEW i \in Ids, NEW r \in Requests, Request(i, r)
  PROVE  ExchangeInv'
<1> USE DEF ExchangeInv
<1>1. /\ requests[i] < MaxRequests /\ waiting[i] = "nothing" /\ todo[PacketThread(i)] = <<>>
      /\ requests' = [requests EXCEPT ![i] = @ + 1]
      /\ waiting' = [waiting EXCEPT ![i] = FirstAnswer(r)]
      /\ published' = [published EXCEPT ![i] = 0]
      /\ toBroker' = Append(toBroker, Packet(r, i))
      /\ UNCHANGED <<alive, peer, toClient, reader, packet, stirred, conditions, results>>
      /\ UNCHANGED <<todo, messages, used, queued>> /\ broken' = broken \ {i}
  BY DEF Request, sockets, reading, queue
<1>2. \A p \in Packets(toBroker) : p.id # i
  BY DEF Request, Packets
<1>3. Packet(r, i) \in ToBroker /\ Packet(r, i).id = i /\ Packet(r, i).type \notin AnswerTypes
  BY DEF ToBroker, Packet, Requests, AnswerTypes
<1>4. /\ toBroker' \in Seq(ToBroker) /\ Once(toBroker)'
      /\ Packets(toBroker)' = Packets(toBroker) \cup {Packet(r, i)}
  <2>1. /\ Append(toBroker, Packet(r, i)) \in Seq(ToBroker)
        /\ Once(Append(toBroker, Packet(r, i)))
        /\ Packets(Append(toBroker, Packet(r, i))) = Packets(toBroker) \cup {Packet(r, i)}
    BY <1>2, <1>3, WireAppend DEF WireInv
  <2> QED BY <1>1, <2>1 DEF Packets, Once
<1>5. Resting(i) /\ Unawaited(i)
  <2>1. Stage(i) BY DEF RequestInv
  <2>2. FromClient(i) = {} BY <1>2 DEF FromClient
  <2>3. ~Sent(i) BY <2>2 DEF Sent
  <2>4. ~Replied(i) BY <1>1 DEF Replied, LastReplies
  <2>5. Resting(i) BY <1>1, <2>1, <2>3, <2>4, ProgramsNonempty
    DEF Stage, Unsubscribing, Receiving, Awaiting, AtWork
  <2> QED BY <1>1, <2>5 DEF Resting
<1>6. /\ waiting'[i] = FirstAnswer(r) /\ published'[i] = 0
      /\ \A j \in Ids : j # i => waiting'[j] = waiting[j] /\ published'[j] = published[j]
  BY <1>1 DEF TypeInv
<1>7. TypeInv' /\ WireInv' /\ ReaderInv'
  <2>1. FirstAnswer(r) \in {"nothing"} \cup Replies
    BY DEF FirstAnswer, Requests, Replies
  <2>2. requests' \in [Ids -> 0..MaxRequests]
    BY <1>1, ExchangeAssumption DEF TypeInv
  <2>3. TypeInv' BY <1>1, <2>1, <2>2 DEF TypeInv
  <2> QED BY <1>1, <1>4, <2>3 DEF WireInv, ReaderInv, Once
<1>8. ASSUME NEW j \in Ids, j # i PROVE Stage(j)'
  <2>1. FromClient(j)' = FromClient(j) BY <1>3, <1>4, <1>8 DEF FromClient
  <2> QED BY <1>1, <1>6, <1>8, <2>1, StageKept DEF RequestInv, ForClient, Packets, Noticed
<1>9. Stage(i)'
  <2>1. FromClient(i)' = {Packet(r, i)}
    BY <1>2, <1>3, <1>4 DEF FromClient, Packet
  <2>2. Sent(i)'
    BY <1>1, <1>5, <1>6, <2>1 DEF Sent, Resting, Nowhere, Unawaited, Noticed, ForClient, Packets
  <2> QED BY <2>2 DEF Stage
<1>10. SendInv'
  <2>1. AckPackets' = AckPackets BY <1>3, <1>4 DEF AckPackets
  <2> QED BY <1>1, <2>1, SendKept DEF Sends, NoticedOwn, OwnConditions, Packets
<1> QED BY <1>7, <1>8, <1>9, <1>10 DEF RequestInv

LEMMA ClientGone ==
  ASSUME ExchangeInv, ClientLeaves
  PROVE  ExchangeInv'
<1> USE DEF ExchangeInv
<1>1. /\ peer' = FALSE /\ toClient' = <<>>
      /\ UNCHANGED <<alive, toBroker, reader, packet, stirred, conditions, results>>
      /\ UNCHANGED <<todo, messages, used, requests, waiting, published, queued, broken>>
  BY DEF ClientLeaves, client, reading, queue
<1>2. Packets(toClient)' = {} /\ Once(toClient)' /\ toClient' \in Seq(ToClient)
  BY <1>1, EmptySeq DEF Packets, Once
<1>3. TypeInv' /\ WireInv' /\ ReaderInv'
  BY <1>1, <1>2 DEF TypeInv, WireInv, ReaderInv, Once
<1>4. ASSUME NEW i \in Ids PROVE Stage(i)'
  <2>1. ForClient(i)' = {} BY <1>2 DEF ForClient
  <2>2. CASE ForClient(i) = {}
    BY <1>1, <2>1, <2>2, StageKept DEF RequestInv, FromClient, Packets, Noticed
  <2>3. CASE Replied(i)
    <3>1. Resting(i)'
      BY <1>1, <2>1, <2>3
         DEF Replied, LastReplies, Resting, Nowhere, Unawaited, FromClient, Noticed, Packets
    <3> QED BY <3>1 DEF Stage
  <2>4. CASE Awaiting(i)
    <3>1. Awaiting(i)'
      BY <1>1, <2>1, <2>4 DEF Awaiting, Nowhere, FromClient, Noticed, Packets
    <3> QED BY <3>1 DEF Stage
  <2> QED BY <2>2, <2>3, <2>4
      DEF RequestInv, Stage, Resting, Sent, Receiving, Unsubscribing, AtWork, Nowhere
<1>5. SendInv'
  <2>1. /\ Sends' = {} /\ AckPackets' = AckPackets /\ (NoticedOwn' <=> NoticedOwn)
        /\ OwnConditions' = OwnConditions
    BY <1>1, <1>2 DEF Sends, AckPackets, NoticedOwn, OwnConditions, Packets
  <2>2. CASE Sends = {}
    BY <1>1, <2>1, <2>2, SendKept
  <2>3. CASE Sends # {}
    <3>1. PICK u \in 0..MaxId - 1 : used = {u} /\ Sending(u)
      BY <2>3 DEF SendInv, NotSending, Silence
    <3>2. ASSUME NEW q, NEW m, NEW a, WaitingFor(u, q, m, a) PROVE WaitingFor(u, q, m, a)'
      BY <1>1, <2>1, <2>3, <3>2 DEF WaitingFor, Silence
    <3>3. Sending(u)'
      BY <2>3, <3>1, <3>2 DEF Sending, Creating, Writing, Silence
    <3> QED BY <1>1, <3>1, <3>3 DEF SendInv
  <2> QED BY <2>2, <2>3
<1> QED BY <1>3, <1>4, <1>5 DEF RequestInv

\* What the client reads belongs to its own exchange, to the broker's, or to none.
LEMMA ClientTakes ==
  ASSUME ExchangeInv, ClientReceives
  PROVE  ExchangeInv'
<1> USE DEF ExchangeInv
<1>1. PICK p : p = Head(toClient) OBVIOUS
<1>2. /\ toClient # <<>> /\ toClient' = Tail(toClient)
      /\ toBroker' = IF p.type \in DOMAIN Answers
                     THEN Append(toBroker, Packet(Answers[p.type], p.id)) ELSE toBroker
      /\ waiting' = IF p.type \in Replies
                    THEN [waiting EXCEPT ![p.id] = NextAwaited(@, p.type)] ELSE waiting
      /\ UNCHANGED <<alive, peer, reader, packet, stirred, conditions, results, todo>>
      /\ UNCHANGED <<messages, used, requests, published, queued, broken>>
  BY <1>1 DEF ClientReceives, sockets, reading, queue
<1>3. /\ toClient' \in Seq(ToClient) /\ Once(toClient)' /\ p \in ToClient
      /\ p \in Packets(toClient) /\ Packets(toClient) \ {p} \subseteq Packets(toClient)'
      /\ Packets(toClient)' \subseteq Packets(toClient)
      /\ Single(p) => p \notin Packets(toClient)'
  BY <1>1, <1>2, PacketReceived
<1>4. p.type \in DOMAIN Answers <=> p.type \in {"PUBREC", "PUBLISH1", "PUBLISH2", "PUBREL"}
  BY DEF Answers
<1>5. ReaderInv'
  BY <1>2 DEF ReaderInv
<1>5a. /\ p.type \in Replies <=> p.type \in ReplyTypes \cup {"UNSUBACK"}
       /\ \A w : /\ NextAwaited(w, "PUBREC") = "PUBCOMP"
                /\ \A a \in LastReplies : NextAwaited(w, a) = "nothing"
                /\ NextAwaited(w, "UNSUBACK") = IF w = "UNSUBACK" THEN "nothing" ELSE w
  BY DEF Replies, ReplyTypes, LastReplies, NextAwaited
<1>6. p.type \in ReplyTypes => p.id \in Ids /\ Single(p) /\ p = Packet(p.type, p.id)
  <2>1. \A i \in Ids : i # NoId
    BY ExchangeAssumption DEF NoId
  <2>2. p.type \in ReplyTypes => p \in [type : ReplyTypes, id : Ids]
    BY <1>3 DEF ToClient, MessageTypes, ReplyTypes
  <2> QED BY <2>1, <2>2 DEF Packet, Single, ReplyTypes
<1>7. CASE p.type = "PUBLISH0"
  <2>1. toBroker' = toBroker /\ waiting' = waiting
    BY <1>2, <1>4, <1>7 DEF Replies
  <2>2. TypeInv' /\ WireInv'
    BY <1>2, <1>3, <2>1 DEF TypeInv, WireInv, Once
  <2>3. Sends' = Sends /\ \A i \in Ids : ForClient(i)' = ForClient(i)
    BY <1>3, <1>7 DEF Sends, ForClient, MessageTypes, ReplyTypes
  <2>4. ASSUME NEW i \in Ids PROVE Stage(i)'
    BY <1>2, <2>1, <2>3, StageKept DEF RequestInv, FromClient, Packets, Noticed
  <2>5. SendInv'
    BY <1>2, <2>1, <2>3, SendKept DEF AckPackets, NoticedOwn, OwnConditions, Packets
  <2> QED BY <1>5, <2>2, <2>4, <2>5 DEF RequestInv
<1>8. CASE p.type \in LastReplies
  <2> USE DEF LastReplies
  <2>1. PICK i \in Ids : p.id = i /\ p = Packet(p.type, i) /\ Single(p)
    BY <1>6, <1>8 DEF ReplyTypes
  <2>2. toBroker' = toBroker /\ waiting' = [waiting EXCEPT ![i] = "nothing"]
    <3>1. NextAwaited(waiting[i], p.type) = "nothing" BY <1>5a, <1>8
    <3> QED BY <1>2, <1>4, <1>5a, <1>8, <2>1, <3>1 DEF ReplyTypes
  <2>3. TypeInv' /\ WireInv' /\ waiting'[i] = "nothing"
        /\ \A j \in Ids : j # i => waiting'[j] = waiting[j]
    BY <1>2, <1>3, <2>2 DEF TypeInv, WireInv, Once
  <2>4. ASSUME NEW j \in Ids, j # i PROVE Stage(j)'
    <3>1. ForClient(j)' = ForClient(j) BY <1>3, <2>1, <2>4 DEF ForClient
    <3> QED BY <1>2, <2>2, <2>3, <2>4, <3>1, StageKept
        DEF RequestInv, FromClient, Packets, Noticed
  <2>5. Stage(i)'
    <3>1. p \in ForClient(i) /\ p # Packet("PUBREC", i)
      BY <1>3, <1>8, <2>1 DEF ForClient, ReplyTypes, Packet
    <3>2. Replied(i) /\ ForClient(i) = {p}
      BY <3>1 DEF RequestInv, Stage, Resting, Sent, Replied, Receiving, Awaiting, Unsubscribing,
         AtWork, Nowhere
    <3>3. ForClient(i)' = {}
      BY <1>3, <2>1, <3>2 DEF ForClient
    <3>4. Resting(i)'
      BY <1>2, <2>2, <2>3, <3>2, <3>3
         DEF Replied, Resting, Nowhere, Unawaited, FromClient, Noticed, Packets
    <3> QED BY <3>4 DEF Stage
  <2>6. SendInv'
    <3>1. Sends' = Sends BY <1>3, <1>8 DEF Sends, MessageTypes
    <3> QED BY <1>2, <2>2, <3>1, SendKept DEF AckPackets, NoticedOwn, OwnConditions, Packets
  <2> QED BY <1>5, <2>3, <2>4, <2>5, <2>6 DEF RequestInv
<1>9. CASE p.type = "PUBREC"
  <2>1. PICK i \in Ids : p.id = i /\ p = Packet("PUBREC", i) /\ Single(p)
    BY <1>6, <1>9 DEF ReplyTypes
  <2>2. /\ toBroker' = Append(toBroker, Release(i))
        /\ waiting' = [waiting EXCEPT ![i] = "PUBCOMP"]
    <3>1. NextAwaited(waiting[i], p.type) = "PUBCOMP" BY <1>5a, <1>9
    <3>2. waiting' = [waiting EXCEPT ![i] = "PUBCOMP"]
      BY <1>2, <1>5a, <1>9, <2>1, <3>1 DEF ReplyTypes
    <3>3. Answers["PUBREC"] = "PUBREL" BY DEF Answers
    <3> QED BY <1>2, <1>4, <1>9, <2>1, <3>2, <3>3 DEF Release
  <2>3. p \in ForClient(i)
    BY <1>3, <2>1, <1>9 DEF ForClient, ReplyTypes
  <2>4. /\ Awaiting(i) /\ ForClient(i) = {p} /\ FromClient(i) = {}
        /\ Release(i) \notin results /\ ~Noticed(i)
    <3>1. \A a \in LastReplies : Packet(a, i) # p
      BY <1>9 DEF Packet, LastReplies
    <3>2. Stage(i) BY DEF RequestInv
    <3> QED BY <2>3, <3>1, <3>2
        DEF Stage, Resting, Sent, Replied, Receiving, Awaiting, Unsubscribing, AtWork, Nowhere
  <2>5. /\ Release(i) \in ToBroker /\ Release(i) \notin Packets(toBroker)
        /\ Release(i).id = i /\ Release(i).type = "PUBREL"
    BY <2>4 DEF FromClient, Release, Packet, ToBroker
  <2>6. /\ toBroker' \in Seq(ToBroker) /\ Once(toBroker)'
        /\ Packets(toBroker)' = Packets(toBroker) \cup {Release(i)}
    <3>1. /\ Append(toBroker, Release(i)) \in Seq(ToBroker)
          /\ Once(Append(toBroker, Release(i)))
          /\ Packets(Append(toBroker, Release(i))) = Packets(toBroker) \cup {Release(i)}
      BY <2>5, WireAppend DEF WireInv
    <3> QED BY <2>2, <3>1 DEF Packets, Once
  <2>7. TypeInv' /\ WireInv' /\ waiting'[i] = "PUBCOMP"
        /\ \A j \in Ids : j # i => waiting'[j] = waiting[j]
    BY <1>2, <1>3, <2>2, <2>6 DEF TypeInv, WireInv, Once, Replies
  <2>8. ASSUME NEW j \in Ids, j # i PROVE Stage(j)'
    <3>1. ForClient(j)' = ForClient(j) /\ FromClient(j)' = FromClient(j)
      BY <1>3, <2>1, <2>5, <2>6, <2>8 DEF ForClient, FromClient
    <3> QED BY <1>2, <2>7, <2>8, <3>1, StageKept DEF RequestInv, Noticed
  <2>9. Stage(i)'
    <3>1. ForClient(i)' = {} /\ FromClient(i)' = {Release(i)}
      BY <1>3, <2>1, <2>4, <2>5, <2>6 DEF ForClient, FromClient
    <3>2. Awaiting(i)'
      BY <1>2, <2>4, <2>7, <3>1 DEF Awaiting, Noticed
    <3> QED BY <3>2 DEF Stage
  <2>10. SendInv'
    <3>1. Sends' = Sends /\ AckPackets' = AckPackets
      BY <1>3, <1>9, <2>5, <2>6 DEF Sends, AckPackets, MessageTypes, AnswerTypes
    <3> QED BY <1>2, <3>1, SendKept DEF NoticedOwn, OwnConditions, Packets
  <2> QED BY <1>5, <2>7, <2>8, <2>9, <2>10 DEF RequestInv
<1>10. CASE p.type \in MessageTypes
  <2>1. p \in Sends
    BY <1>3, <1>10 DEF Sends
  <2>2. PICK u \in 0..MaxId - 1, m \in MessageTypes, a \in AnswerTypes :
          /\ used = {u} /\ a = Answers[m] /\ p = Packet(m, u)
          /\ Sends = {p} /\ AckPackets = {} /\ ~NoticedOwn
          /\ Packet(a, u) \notin results /\ OwnConditions = {Packet(a, u)}
          /\ \/ m = "PUBLISH1" /\ todo[Writer] = AwaitAck
             \/ m = "PUBLISH2" /\ todo[Writer] = AwaitReceived
             \/ m = "PUBREL" /\ todo[Writer] = AwaitComplete
    <3>1. PICK u \in 0..MaxId - 1 : used = {u} /\ Sending(u)
      BY <2>1 DEF SendInv, NotSending, Silence
    <3>2. /\ Answers["PUBLISH1"] = "PUBACK" /\ Answers["PUBLISH2"] = "PUBREC"
          /\ Answers["PUBREL"] = "PUBCOMP"
      BY DEF Answers
    <3>3. ASSUME NEW q, NEW m \in MessageTypes, NEW a, WaitingFor(u, q, m, a)
          PROVE  /\ todo[Writer] = q /\ p = Packet(m, u)
                 /\ Sends = {p} /\ AckPackets = {} /\ ~NoticedOwn
                 /\ Packet(a, u) \notin results /\ OwnConditions = {Packet(a, u)}
      BY <2>1, <3>3 DEF WaitingFor, Silence
    <3>4. \/ WaitingFor(u, AwaitAck, "PUBLISH1", "PUBACK")
          \/ WaitingFor(u, AwaitReceived, "PUBLISH2", "PUBREC")
          \/ WaitingFor(u, AwaitComplete, "PUBREL", "PUBCOMP")
      BY <2>1, <3>1 DEF Sending, Creating, Writing, Silence
    <3>5. CASE WaitingFor(u, AwaitAck, "PUBLISH1", "PUBACK")
      BY <3>1, <3>2, <3>3, <3>5 DEF MessageTypes, AnswerTypes
    <3>6. CASE WaitingFor(u, AwaitReceived, "PUBLISH2", "PUBREC")
      BY <3>1, <3>2, <3>3, <3>6 DEF MessageTypes, AnswerTypes
    <3>7. CASE WaitingFor(u, AwaitComplete, "PUBREL", "PUBCOMP")
      BY <3>1, <3>2, <3>3, <3>7 DEF MessageTypes, AnswerTypes
    <3> QED BY <3>4, <3>5, <3>6, <3>7
  <2>3. /\ toBroker' = Append(toBroker, Packet(a, u)) /\ waiting' = waiting
        /\ p.id = u /\ p.type = m /\ Single(p)
    <3>1. p.id = u /\ p.type = m BY <2>2 DEF Packet
    <3>2. Single(p) BY <3>1 DEF NoId, Single, MessageTypes
    <3>3. p.type \in DOMAIN Answers
      BY <1>4, <1>10 DEF MessageTypes
    <3> QED BY <1>2, <1>10, <2>2, <3>1, <3>2, <3>3 DEF MessageTypes, Replies
  <2>4. /\ Packet(a, u) \in ToBroker /\ Packet(a, u) \notin Packets(toBroker)
        /\ Packet(a, u).type \in AnswerTypes
    BY <2>2 DEF AckPackets, Packet, ToBroker
  <2>5. /\ toBroker' \in Seq(ToBroker) /\ Once(toBroker)'
        /\ Packets(toBroker)' = Packets(toBroker) \cup {Packet(a, u)}
    <3>1. /\ Append(toBroker, Packet(a, u)) \in Seq(ToBroker)
          /\ Once(Append(toBroker, Packet(a, u)))
          /\ Packets(Append(toBroker, Packet(a, u))) = Packets(toBroker) \cup {Packet(a, u)}
      BY <2>4, WireAppend DEF WireInv
    <3> HIDE DEF Packet
    <3> QED BY <2>3, <3>1 DEF Packets, Once
  <2>6. TypeInv' /\ WireInv'
    BY <1>2, <1>3, <2>3, <2>5 DEF TypeInv, WireInv, Once
  <2>7. ASSUME NEW j \in Ids PROVE Stage(j)'
    <3>1. ForClient(j)' = ForClient(j) /\ FromClient(j)' = FromClient(j)
      BY <1>3, <1>10, <2>4, <2>5
         DEF ForClient, FromClient, AnswerTypes, MessageTypes, ReplyTypes, Requests
    <3> QED BY <1>2, <2>3, <3>1, StageKept DEF RequestInv, Noticed
  <2>8. /\ Sends' = {} /\ AckPackets' = {Packet(a, u)} /\ ~NoticedOwn'
        /\ OwnConditions' = OwnConditions
    BY <1>2, <1>3, <2>2, <2>3, <2>4, <2>5 DEF Sends, AckPackets, NoticedOwn, OwnConditions
  <2>9. Sending(u)'
    <3>1. /\ Answers["PUBLISH1"] = "PUBACK" /\ Answers["PUBLISH2"] = "PUBREC"
          /\ Answers["PUBREL"] = "PUBCOMP"
      BY DEF Answers
    <3>2. ASSUME NEW q, todo[Writer] = q PROVE WaitingFor(u, q, m, a)'
      BY <1>2, <2>2, <2>8, <3>2 DEF WaitingFor, Silence
    <3> QED BY <2>2, <3>1, <3>2 DEF Sending
  <2> QED BY <1>2, <1>5, <2>2, <2>6, <2>7, <2>9 DEF RequestInv, SendInv
<1>11. CASE p.type = "UNSUBACK"
  <2>1. PICK i \in Ids : p.id = i
    BY <1>3, <1>11 DEF ToClient, ReplyTypes, MessageTypes
  <2>2. /\ toBroker' = toBroker
        /\ waiting' = [waiting EXCEPT ![i] = IF @ = "UNSUBACK" THEN "nothing" ELSE @]
    <3>1. NextAwaited(waiting[i], p.type)
            = IF waiting[i] = "UNSUBACK" THEN "nothing" ELSE waiting[i]
      BY <1>11 DEF NextAwaited
    <3> QED BY <1>2, <1>4, <1>5a, <1>11, <2>1, <3>1
  <2>3. /\ waiting'[i] = IF waiting[i] = "UNSUBACK" THEN "nothing" ELSE waiting[i]
        /\ \A j \in Ids : j # i => waiting'[j] = waiting[j]
    BY <2>2 DEF TypeInv
  <2>4. TypeInv' /\ WireInv'
    BY <1>2, <1>3, <2>2 DEF TypeInv, WireInv, Once
  <2>5. Sends' = Sends /\ \A j \in Ids : ForClient(j)' = ForClient(j)
    BY <1>3, <1>11 DEF Sends, ForClient, MessageTypes, ReplyTypes
  <2>6. ASSUME NEW j \in Ids PROVE Stage(j)'
    <3>1. CASE waiting'[j] = waiting[j]
      BY <1>2, <2>2, <2>5, <3>1, StageKept DEF RequestInv, FromClient, Packets, Noticed
    <3>2. CASE waiting'[j] # waiting[j]
      <4>1. waiting[j] = "UNSUBACK" /\ waiting'[j] = "nothing"
        BY <2>3, <3>2
      <4> QED BY <1>2, <2>2, <2>5, <4>1, StageUnsubscribed
          DEF RequestInv, FromClient, Packets, Noticed
    <3> QED BY <3>1, <3>2
  <2>7. SendInv'
    BY <1>2, <2>2, <2>5, SendKept DEF AckPackets, NoticedOwn, OwnConditions, Packets
  <2> QED BY <1>5, <2>4, <2>6, <2>7 DEF RequestInv
<1> QED BY <1>3, <1>7, <1>8, <1>9, <1>10, <1>11 DEF ToClient, ReplyTypes, LastReplies

-----------------------------------------------------------------------------
(***************************************************************************)
(* In every reachable state each exchange is at one of the stages that      *)
(* Stage and Sending list: what the thread has left to do says where the    *)
(* next packet is (handler.py 153-249).                                     *)
(***************************************************************************)
THEOREM ExchangeInvariance == Spec => []ExchangeInv
<1>1. Init => ExchangeInv
  <2> SUFFICES ASSUME Init PROVE ExchangeInv OBVIOUS
  <2> USE DEF Init
  <2>1. /\ Packets(<<>>) = {} /\ Once(<<>>) /\ Len(<<>>) = 0
        /\ \A S : <<>> \in Seq(S)
    BY EmptySeq DEF Packets, Once
  <2>2. /\ todo[Writer] = <<Get>> /\ todo = [t \in Threads |-> todo[t]]
        /\ \A i \in Ids : todo[PacketThread(i)] = <<>>
    BY DEF Threads, PacketThread, Writer
  <2>3. TypeInv
    <3>1. messages \in Seq(0..2) /\ Len(messages) <= queued /\ queued \in 0..MaxMessages
      BY <2>1, ExchangeAssumption
    <3>2. requests \in [Ids -> 0..MaxRequests]
      BY ExchangeAssumption
    <3>3. /\ alive \in BOOLEAN /\ peer \in BOOLEAN /\ stirred \in BOOLEAN
          /\ reader \in {"read", "notify", "done"}
          /\ conditions \subseteq Conditions /\ results \subseteq conditions
      OBVIOUS
    <3>4. /\ waiting \in [Ids -> {"nothing"} \cup Replies]
          /\ published \in [Ids -> 0..1] /\ broken \subseteq Ids
      OBVIOUS
    <3> HIDE DEF Init
    <3> QED BY <2>2, <3>1, <3>2, <3>3, <3>4 DEF TypeInv
  <2>4. WireInv /\ ReaderInv
    BY <2>1 DEF WireInv, ReaderInv
  <2>5. ASSUME NEW i \in Ids PROVE Resting(i)
    BY <2>1, <2>2 DEF Resting, Nowhere, Unawaited, FromClient, ForClient, Noticed
  <2>6. SendInv
    BY <2>1, <2>2 DEF SendInv, NotSending, Silence, Sends, AckPackets, NoticedOwn, OwnConditions
  <2> QED BY <2>3, <2>4, <2>5, <2>6 DEF ExchangeInv, RequestInv, Stage
<1>2. ExchangeInv /\ [Next]_vars => ExchangeInv'
  <2> SUFFICES ASSUME ExchangeInv, [Next]_vars PROVE ExchangeInv' OBVIOUS
  <2>1. ASSUME NEW i \in Ids, ThreadStep(PacketThread(i)) PROVE ExchangeInv'
    BY <2>1, RequestCreates, RequestWaits, RequestWrites, RequestEnds, RequestPublishes,
       RequestSubscribes, RequestUnsubscribes DEF ThreadStep
  <2>2. ASSUME ThreadStep(Writer) PROVE ExchangeInv'
    <3>1. /\ ~PublishRow(Writer) /\ ~SubscribeFilter(Writer)
          /\ ~UnsubscribeFilter(Writer) /\ ~CallRaises(Writer)
      BY WriterOperation
         DEF PublishRow, SubscribeFilter, UnsubscribeFilter, CallRaises, Calls, ExchangeInv
    <3> QED BY <2>2, <3>1, WriterCreates, WriterWaits, WriterWrites, WriterFails
        DEF ThreadStep
  <2>3. CASE HandlePacket BY <2>3, RequestHandled, AnswerHandled
  <2>4. CASE \E t \in Threads : ThreadStep(t) BY <2>1, <2>2, <2>4 DEF Threads
  <2>5. CASE UNCHANGED vars
    <3> USE <2>5 DEF vars, sockets, reading, client, queue, ExchangeInv
    <3>1. TypeInv' /\ WireInv' /\ ReaderInv' BY DEF TypeInv, WireInv, ReaderInv, Once
    <3>2. ASSUME NEW i \in Ids PROVE Stage(i)'
      BY StageKept DEF RequestInv, FromClient, ForClient, Packets, Noticed
    <3>3. SendInv'
      BY SendKept DEF Sends, AckPackets, NoticedOwn, OwnConditions, Packets
    <3> QED BY <3>1, <3>2, <3>3 DEF RequestInv
  <2> QED BY <2>3, <2>4, <2>5, MessageTaken, ConditionMet, ReaderEnds, MessageQueued,
             RequestMade, ClientTakes, ClientGone DEF Next
<1> QED BY <1>1, <1>2, PTL DEF Spec

\* Types, and that only what is waited for has a result: no program of a thread
\* is longer than the six operations of send_message.
THEOREM ExchangeType == Spec => []TypeOK
<1>1. ASSUME ExchangeInv PROVE TypeOK
  <2> USE <1>1 DEF ExchangeInv
  <2>1. ASSUME NEW i \in Ids PROVE Len(todo[PacketThread(i)]) <= 6
    <3>1. todo[PacketThread(i)] \in
            {<<>>, PingRequest, PublishQos0, PublishQos1, Acknowledge, PublishQos2,
             AfterCreate, AwaitRelease, PublishReleased, Complete, HandleSubscribe,
             SubscribeAck, HandleUnsubscribe, FirstUnsubscribed, UnsubscribeSecond,
             SecondUnsubscribed}
      BY DEF RequestInv, Stage, Resting, Sent, Replied, Receiving, Awaiting, Unsubscribing,
         AtWork
    <3>2. /\ Len(<<>>) <= 6
          /\ Len(PingRequest) <= 6 /\ Len(PublishQos0) <= 6 /\ Len(PublishQos1) <= 6
          /\ Len(Acknowledge) <= 6 /\ Len(PublishQos2) <= 6 /\ Len(AfterCreate) <= 6
          /\ Len(AwaitRelease) <= 6 /\ Len(PublishReleased) <= 6 /\ Len(Complete) <= 6
          /\ Len(HandleSubscribe) <= 6 /\ Len(SubscribeAck) <= 6
          /\ Len(HandleUnsubscribe) <= 6 /\ Len(FirstUnsubscribed) <= 6
          /\ Len(UnsubscribeSecond) <= 6 /\ Len(SecondUnsubscribed) <= 6
      BY ProgramLengths
    <3> QED BY <3>1, <3>2, Zenon
  <2>2. Len(todo[Writer]) <= 6
    <3>1. todo[Writer] \in
            {<<>>, <<Get>>, SendMessage(0), SendMessage(1), WriteQos1, AwaitAck, SendMessage(2),
             WriteQos2, AwaitReceived, ReleaseQos2, WriteRelease, AwaitComplete}
      BY DEF SendInv, NotSending, Sending, Creating, Writing, WaitingFor
    <3>2. Len(<<>>) <= 6 /\ Len(<<Get>>) <= 6
      BY ProgramLengths, ProgramSteps
    <3> QED BY <3>1, <3>2, SendLengths, Zenon
  <2>3. used \subseteq 0..MaxId - 1 BY DEF SendInv
  <2> QED BY <2>1, <2>2, <2>3 DEF TypeOK, TypeInv, Threads
<1> QED BY <1>1, ExchangeInvariance, PTL

(***************************************************************************)
(* An acknowledgement means what it says: PUBACK and PUBCOMP only after the *)
(* request was published, nothing published twice, and with qos 2 not       *)
(* before the client has released it (handler.py 229-249).                  *)
(***************************************************************************)
THEOREM AckMeansPublishedAlways == Spec => []AckMeansPublished
<1>1. ASSUME ExchangeInv, NEW i \in Ids
      PROVE  /\ published[i] <= 1
             /\ On(toClient, "PUBACK", i) \/ On(toClient, "PUBCOMP", i) => published[i] = 1
             /\ waiting[i] = "PUBREC" \/ On(toBroker, "PUBREL", i) => published[i] = 0
  <2> USE <1>1 DEF ExchangeInv
  <2>1. Stage(i) /\ published[i] <= 1 BY DEF RequestInv, TypeInv
  <2>2. ASSUME NEW a \in {"PUBACK", "PUBCOMP"}, On(toClient, a, i) PROVE published[i] = 1
    <3>1. /\ Packet(a, i) \in ForClient(i)
          /\ \A b \in {"PINGRESP", "SUBACK", "PUBREC"} : Packet(b, i) # Packet(a, i)
      BY <2>2 DEF On, ForClient, Packets, Packet, ReplyTypes
    <3>2. \A b : Packet(a, i) = Packet(b, i) => a = b
      BY DEF Packet
    <3> QED BY <2>1, <3>1, <3>2
        DEF Stage, Resting, Sent, Replied, Receiving, Awaiting, Unsubscribing, AtWork,
        Nowhere
  <2>3. ASSUME waiting[i] = "PUBREC" PROVE published[i] = 0
    BY <2>1, <2>3 DEF Stage, Resting, Sent, Satisfied, Replied, LastReplies, Receiving,
       Awaiting, Unsubscribing, AtWork
  <2>4. ASSUME On(toBroker, "PUBREL", i) PROVE published[i] = 0
    <3>1. Release(i) \in FromClient(i)
      BY <2>4 DEF On, FromClient, Packets, Release, Packet
    <3> QED BY <2>1, <3>1
        DEF Stage, Resting, Sent, Replied, Receiving, Awaiting, Unsubscribing, AtWork,
        Nowhere
  <2> QED BY <2>1, <2>2, <2>3, <2>4
<1>2. ExchangeInv => AckMeansPublished BY <1>1 DEF AckMeansPublished
<1> QED BY <1>2, ExchangeInvariance, PTL

(***************************************************************************)
(* An acknowledgement that packet_notify looks for has its condition in     *)
(* packet_conditions, unmet, in every interleaving of the read loop with    *)
(* the other threads (handler.py 160-208).                                  *)
(***************************************************************************)
THEOREM AckAwaitedAlways == Spec => []AckAwaited
<1>1. ASSUME ExchangeInv, reader = "notify" PROVE packet \in conditions \ results
  <2> USE <1>1 DEF ExchangeInv
  <2>1. ASSUME NEW i \in Ids, packet = Release(i) PROVE packet \in conditions \ results
    BY <2>1 DEF RequestInv, Stage, Resting, Sent, Replied, Receiving, Awaiting, Unsubscribing,
       AtWork, Nowhere, Noticed
  <2>2. ASSUME packet.type \in AnswerTypes PROVE packet \in conditions \ results
    <3>1. NoticedOwn BY <2>2 DEF NoticedOwn
    <3>2. PICK u \in 0..MaxId - 1 : Sending(u)
      BY <3>1 DEF SendInv, NotSending, Silence
    <3>3. ASSUME NEW q, NEW m, NEW a, WaitingFor(u, q, m, a)
          PROVE  packet \in conditions \ results
      BY <3>1, <3>3 DEF WaitingFor, Silence, OwnConditions
    <3> QED BY <3>1, <3>2, <3>3 DEF Sending, Creating, Writing, Silence
  <2> QED BY <2>1, <2>2 DEF ReaderInv
<1>2. ExchangeInv => AckAwaited BY <1>1 DEF AckAwaited
<1> QED BY <1>2, ExchangeInvariance, PTL

(***************************************************************************)
(* Of the broker's own exchanges at most one packet is under way, and its   *)
(* id is in use as long as it is (handler.py 107-114, 153-179).             *)
(***************************************************************************)
THEOREM OneInFlightAlways == Spec => []OneInFlight
<1>1. ASSUME ExchangeInv PROVE OneInFlight
  <2> USE <1>1 DEF ExchangeInv
  <2>1. UnderWay = Sends \cup AckPackets
    BY DEF UnderWay, Own, Sends, AckPackets, Packets, MessageTypes, AnswerTypes
  <2>2. CASE UnderWay = {}
    BY <2>2, FS_EmptySet DEF OneInFlight
  <2>3. CASE UnderWay # {}
    <3>1. PICK u \in 0..MaxId - 1 : used = {u} /\ Sending(u)
      BY <2>1, <2>3 DEF SendInv, NotSending, Silence
    <3>2. ASSUME NEW q, NEW m, NEW a, WaitingFor(u, q, m, a)
          PROVE  \E p : UnderWay = {p} /\ p.id = u
      BY <2>1, <2>3, <3>2 DEF WaitingFor, Silence, Packet
    <3>3. PICK p : UnderWay = {p} /\ p.id = u
      BY <2>1, <2>3, <3>1, <3>2 DEF Sending, Creating, Writing, Silence
    <3>4. IsFiniteSet({p}) /\ Cardinality({p}) = 1
      BY FS_Singleton
    <3> QED BY <3>1, <3>3, <3>4 DEF OneInFlight
  <2> QED BY <2>2, <2>3
<1> QED BY <1>1, ExchangeInvariance, PTL

=============================================================================
