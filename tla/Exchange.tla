------------------------------ MODULE Exchange ------------------------------
(***************************************************************************)
(* The packets of one connection: the read loop, which starts a thread for  *)
(* every request and hands acknowledgements to whoever waits for them, the  *)
(* write loop, which sends the queued messages one after the other, and a   *)
(* client that follows the protocol until it goes away.  What a handler     *)
(* does is a program, a sequence of operations; each of them is one step.   *)
(***************************************************************************)
EXTENDS Integers, Sequences, FiniteSets

CONSTANTS Ids,         \* packet ids of the client; it has one request per id at a time
          Kinds,       \* bound: what the client requests under each id
          MaxRequests, \* bound: requests per id
          MaxMessages, \* bound: messages queued for the client
          MaxId        \* ids the broker may use: 0..MaxId - 1

ASSUME ExchangeAssumption == /\ Ids \subseteq Nat
                             /\ MaxRequests \in Nat /\ MaxMessages \in Nat
                             /\ MaxId \in Nat \ {0}

VARIABLES alive,      \* the broker has not closed the socket
          peer,       \* the client is there
          toBroker,   \* packets on their way, in order (TCP)
          toClient,
          reader,     \* the read loop: "read", "notify" or "done"
          packet,     \* the acknowledgement that packet_notify looks for
          conditions, \* Handler.packet_conditions, as pairs of a type and an id
          results,    \* those whose result is set
          stirred,    \* packet_conditions was changed since packet_notify began (history)
          todo,       \* what each thread still has to do
          messages,   \* message_queue: the qos of each message
          used,       \* Handler.used_ids
          broken,     \* requests whose thread an exception has ended (history)
          requests,   \* requests the client has sent under each id (history)
          waiting,    \* what the client's request under each id waits for
          published,  \* how often that request was published (history)
          queued      \* messages queued so far (history)

sockets == <<alive, peer>>
reading == <<reader, packet, stirred>>
client == <<requests, waiting>>
queue == <<messages, queued>>
vars == <<sockets, toBroker, toClient, reading, conditions, results, todo, queue, used,
          client, published, broken>>

Writer == <<"write_loop", 0>>
PacketThread(i) == <<"packet", i>>
Threads == {PacketThread(i) : i \in Ids} \cup {Writer}
NoId == -1
Packet(type, id) == [type |-> type, id |-> id]
NoPacket == Packet("none", NoId)

Create(type) == <<"create", type>>
Write(type) == <<"write", type>>
Await(type) == <<"await", type>>
Publish == <<"publish", "row">>
Subscribe == <<"subscribe", "filter">>
Unsubscribe == <<"unsubscribe", "filter">>
Get == <<"get", "message">>

-----------------------------------------------------------------------------
(* The handlers *)

PingRequest == <<Write("PINGRESP")>>
PublishQos0 == <<Publish>>
HandleSubscribe == <<Subscribe, Write("SUBACK")>>

\* Each topic of the packet, here two of them, has an acknowledgement of its own.
HandleUnsubscribe == <<Unsubscribe, Write("UNSUBACK"), Unsubscribe, Write("UNSUBACK")>>

\* mutant: acknowledges first.
AcknowledgeFirst == <<Write("PUBACK"), Publish>>
PublishQos1 == <<Publish, Write("PUBACK")>>

\* mutant: PUBREC is sent before anyone waits for PUBREL.
ReceiveFirst == <<Write("PUBREC"), Create("PUBREL"), Await("PUBREL"), Publish, Write("PUBCOMP")>>
\* mutant: PUBCOMP is forgotten.
NeverComplete == <<Create("PUBREL"), Write("PUBREC"), Await("PUBREL"), Publish>>
PublishQos2 == <<Create("PUBREL"), Write("PUBREC"), Await("PUBREL"), Publish, Write("PUBCOMP")>>

\* packet_map and publish_map
Handler(request) == CASE request = "PINGREQ"     -> PingRequest
                      [] request = "SUBSCRIBE"   -> HandleSubscribe
                      [] request = "UNSUBSCRIBE" -> HandleUnsubscribe
                      [] request = "PUBLISH0"    -> PublishQos0
                      [] request = "PUBLISH1"    -> PublishQos1
                      [] request = "PUBLISH2"    -> PublishQos2
Requests == {"PINGREQ", "SUBSCRIBE", "UNSUBSCRIBE", "PUBLISH0", "PUBLISH1", "PUBLISH2"}

\* mutant: a qos 2 message is released without waiting for PUBCOMP.
ReleaseOnly(qos) ==
  CASE qos = 0 -> <<Write("PUBLISH0")>>
    [] qos = 1 -> <<Create("PUBACK"), Write("PUBLISH1"), Await("PUBACK")>>
    [] qos = 2 -> <<Create("PUBREC"), Write("PUBLISH2"), Await("PUBREC"), Write("PUBREL")>>

SendMessage(qos) ==
  CASE qos = 0 -> <<Write("PUBLISH0")>>
    [] qos = 1 -> <<Create("PUBACK"), Write("PUBLISH1"), Await("PUBACK")>>
    [] qos = 2 -> <<Create("PUBREC"), Write("PUBLISH2"), Await("PUBREC"),
                    Create("PUBCOMP"), Write("PUBREL"), Await("PUBCOMP")>>

\* mutant: the search does not stop at the last id.
NextUnchecked == MaxId + Cardinality(used)
NextPacketId == CHOOSE i \in 0..MaxId - 1 : i \notin used /\ \A j \in 0..i - 1 : j \in used

Init == /\ alive = TRUE /\ peer = TRUE
        /\ toBroker = <<>> /\ toClient = <<>>
        /\ reader = "read" /\ packet = NoPacket /\ stirred = FALSE
        /\ conditions = {} /\ results = {}
        /\ todo = [t \in Threads |-> IF t = Writer THEN <<Get>> ELSE <<>>]
        /\ messages = <<>> /\ used = {} /\ queued = 0
        /\ requests = [i \in Ids |-> 0] /\ waiting = [i \in Ids |-> "nothing"]
        /\ published = [i \in Ids |-> 0] /\ broken = {}

-----------------------------------------------------------------------------
(* The threads *)

\* The id a thread's packets carry: the one of its request, or the one send_message took.
IdFor(t) == CASE t # Writer -> t[2]
              [] t = Writer /\ used # {} -> CHOOSE i \in used : TRUE
              [] OTHER -> NoId

Does(t, what) == todo[t] # <<>> /\ Head(todo[t])[1] = what
Operand(t) == Packet(Head(todo[t])[2], IdFor(t))

\* The thread has done one operation.  At the end of send_message its id is given
\* back, and the write loop goes on if the connection is alive.
Advance(t) == IF t = Writer /\ Len(todo[t]) = 1
              THEN /\ todo' = [todo EXCEPT ![t] = IF alive THEN <<Get>> ELSE <<>>]
                   /\ used' = {}
              ELSE /\ todo' = [todo EXCEPT ![t] = Tail(@)]
                   /\ UNCHANGED used

\* create_packet_condition
CreateCondition(t) == /\ Does(t, "create")
                      /\ conditions' = conditions \cup {Operand(t)}
                      /\ stirred' = (reader = "notify")
                      /\ Advance(t)
                      /\ UNCHANGED <<sockets, toBroker, toClient, reader, packet, results,
                                     queue, client, published, broken>>

\* wait_for_packet: only the result ends the wait; then the condition is removed.
WaitForPacket(t) == /\ Does(t, "await")
                    /\ Operand(t) \in results
                    /\ conditions' = conditions \ {Operand(t)}
                    /\ results' = results \ {Operand(t)}
                    /\ stirred' = (reader = "notify")
                    /\ Advance(t)
                    /\ UNCHANGED <<sockets, toBroker, toClient, reader, packet,
                                   queue, client, published, broken>>

WritePacket(t) == /\ Does(t, "write")
                  /\ alive
                  /\ toClient' = IF peer THEN Append(toClient, Operand(t)) ELSE toClient
                  /\ Advance(t)
                  /\ UNCHANGED <<sockets, toBroker, reading, conditions, results,
                                 queue, client, published, broken>>

\* ConnectionError, on a closed or broken connection or when the peer does not read
\* until the time is up: the write loop closes the socket, but a packet's thread only
\* ends where it is.  A condition it created stays in the set.
WriteFails(t) == /\ Does(t, "write")
                 /\ alive' = (alive /\ t # Writer)
                 /\ todo' = [todo EXCEPT ![t] = <<>>]
                 /\ used' = IF t = Writer THEN {} ELSE used
                 /\ broken' = IF t = Writer THEN broken ELSE broken \cup {t[2]}
                 /\ UNCHANGED <<peer, toBroker, toClient, reading, conditions, results,
                                queue, client, published>>

PublishRow(t) == /\ Does(t, "publish")
                 /\ published' = [published EXCEPT ![t[2]] = @ + 1]
                 /\ Advance(t)
                 /\ UNCHANGED <<sockets, toBroker, toClient, reading, conditions, results,
                                queue, client, broken>>

\* queue_message, for the synchronisation of a subscription and for any other message
Enqueue(qos) == /\ queued < MaxMessages
                /\ queued' = queued + 1
                /\ messages' = Append(messages, qos)

\* The synchronisation is queued before the subscription is there, if the filter has one.
SubscribeFilter(t) == /\ Does(t, "subscribe")
                      /\ UNCHANGED queue \/ \E qos \in 0..2 : Enqueue(qos)
                      /\ Advance(t)
                      /\ UNCHANGED <<sockets, toBroker, toClient, reading, conditions, results,
                                     client, published, broken>>

UnsubscribeFilter(t) == /\ Does(t, "unsubscribe")
                        /\ Advance(t)
                        /\ UNCHANGED <<sockets, toBroker, toClient, reading, conditions,
                                       results, queue, client, published, broken>>

\* The broker's publish or subscribe raises, over a tree that changed under its walk, a
\* topic or a payload: the packet's thread ends, the connection does not.
CallRaises(t) == /\ Does(t, "publish") \/ Does(t, "subscribe")
                 /\ todo' = [todo EXCEPT ![t] = <<>>]
                 /\ broken' = broken \cup {t[2]}
                 /\ UNCHANGED <<sockets, toBroker, toClient, reading, conditions, results,
                                queue, used, client, published>>

\* write_loop: the next message, and for qos 1 and 2 an id
GetMessage == /\ Does(Writer, "get")
              /\ messages # <<>>
              /\ todo' = [todo EXCEPT ![Writer] = SendMessage(Head(messages))]
              /\ used' = IF Head(messages) = 0 THEN used ELSE used \cup {NextPacketId}
              /\ messages' = Tail(messages)
              /\ UNCHANGED <<sockets, toBroker, toClient, reading, conditions, results,
                             client, published, queued, broken>>

-----------------------------------------------------------------------------
(* The read loop *)

\* handle_packet: a thread of its own, or a look through packet_conditions
HandlePacket == /\ reader = "read" /\ alive
                /\ toBroker # <<>>
                /\ toBroker' = Tail(toBroker)
                /\ LET p == Head(toBroker) IN
                   IF p.type \in Requests
                   THEN /\ todo' = [todo EXCEPT ![PacketThread(p.id)] = Handler(p.type)]
                        /\ UNCHANGED reading
                   ELSE /\ reader' = "notify" /\ packet' = p /\ stirred' = FALSE
                        /\ UNCHANGED todo
                /\ UNCHANGED <<sockets, toClient, conditions, results, queue, used,
                               client, published, broken>>

\* mutant: the waiting thread is notified before the result is set.
MeetNothing == /\ reader = "notify"
               /\ packet \in conditions
               /\ reader' = "read" /\ packet' = NoPacket /\ stirred' = FALSE
               /\ UNCHANGED <<sockets, toBroker, toClient, conditions, results, todo, queue,
                              used, client, published, broken>>

\* packet_notify finds the condition and meets it.
Meet == /\ reader = "notify"
        /\ packet \in conditions
        /\ results' = results \cup {packet}
        /\ reader' = "read" /\ packet' = NoPacket /\ stirred' = FALSE
        /\ UNCHANGED <<sockets, toBroker, toClient, conditions, todo, queue, used, client,
                       published, broken>>

\* It does not: no thread waits, or the set changed while it was iterated over,
\* which raises or may skip an element.  The loop ends and closes the socket.
NotifyFails == /\ reader = "notify"
               /\ packet \notin conditions \/ stirred
               /\ reader' = "done" /\ alive' = FALSE
               /\ packet' = NoPacket /\ stirred' = FALSE
               /\ UNCHANGED <<peer, toBroker, toClient, conditions, results, todo, queue,
                              used, client, published, broken>>

\* The client is gone, silent for longer than keep_alive, or the socket is closed.
ReadFails == /\ reader = "read"
             /\ ~alive \/ toBroker = <<>>
             /\ reader' = "done" /\ alive' = FALSE
             /\ UNCHANGED <<peer, toBroker, toClient, packet, stirred, conditions, results,
                            todo, queue, used, client, published, broken>>

-----------------------------------------------------------------------------
(* The environment: messages for the client, and the client itself *)

QueueMessage(qos) == /\ Enqueue(qos)
                     /\ UNCHANGED <<sockets, toBroker, toClient, reading, conditions, results,
                                    todo, used, client, published, broken>>

\* What a request waits for first
FirstAnswer(request) == CASE request = "PINGREQ"     -> "PINGRESP"
                          [] request = "SUBSCRIBE"   -> "SUBACK"
                          [] request = "UNSUBSCRIBE" -> "UNSUBACK"
                          [] request = "PUBLISH0"    -> "nothing"
                          [] request = "PUBLISH1"    -> "PUBACK"
                          [] request = "PUBLISH2"    -> "PUBREC"

Request(i, request) ==
  /\ peer
  /\ request \in Kinds[i] /\ requests[i] < MaxRequests
  /\ waiting[i] = "nothing" /\ todo[PacketThread(i)] = <<>>
  /\ \A k \in DOMAIN toBroker : toBroker[k].id # i
  /\ requests' = [requests EXCEPT ![i] = @ + 1]
  /\ waiting' = [waiting EXCEPT ![i] = FirstAnswer(request)]
  /\ published' = [published EXCEPT ![i] = 0] /\ broken' = broken \ {i}
  /\ toBroker' = Append(toBroker, Packet(request, i))
  /\ UNCHANGED <<sockets, toClient, reading, conditions, results, todo, queue, used>>

Replies == {"PINGRESP", "SUBACK", "UNSUBACK", "PUBACK", "PUBREC", "PUBCOMP"}

\* The client's answers to the packets of an exchange
Answers == [PUBREC |-> "PUBREL", PUBLISH1 |-> "PUBACK", PUBLISH2 |-> "PUBREC",
            PUBREL |-> "PUBCOMP"]

\* What a client that waits for something waits for after a packet: the first UNSUBACK
\* ends the request, and a further one is nothing to it.
NextAwaited(awaited, type) == CASE type = "PUBREC" -> "PUBCOMP"
                                [] type = "UNSUBACK" /\ awaited # "UNSUBACK" -> awaited
                                [] OTHER -> "nothing"

ClientReceives ==
  /\ peer
  /\ toClient # <<>>
  /\ toClient' = Tail(toClient)
  /\ LET p == Head(toClient) IN
     /\ toBroker' = IF p.type \in DOMAIN Answers
                    THEN Append(toBroker, Packet(Answers[p.type], p.id)) ELSE toBroker
     /\ waiting' = IF p.type \in Replies
                   THEN [waiting EXCEPT ![p.id] = NextAwaited(@, p.type)] ELSE waiting
  /\ UNCHANGED <<sockets, reading, conditions, results, todo, queue, used, requests,
                 published, broken>>

\* What it has not read is lost.
ClientLeaves == /\ peer
                /\ peer' = FALSE /\ toClient' = <<>>
                /\ UNCHANGED <<alive, toBroker, reading, conditions, results, todo, queue,
                               used, client, published, broken>>

-----------------------------------------------------------------------------
ThreadStep(t) == \/ CreateCondition(t) \/ WaitForPacket(t) \/ WritePacket(t) \/ WriteFails(t)
                 \/ PublishRow(t) \/ SubscribeFilter(t) \/ UnsubscribeFilter(t) \/ CallRaises(t)
ReaderStep == HandlePacket \/ Meet \/ NotifyFails \/ (ReadFails /\ (~alive \/ ~peer))

Next == \/ \E t \in Threads : ThreadStep(t)
        \/ GetMessage
        \/ HandlePacket \/ Meet \/ NotifyFails \/ ReadFails
        \/ \E qos \in 0..2 : QueueMessage(qos)
        \/ \E i \in Ids, request \in Requests : Request(i, request)
        \/ ClientReceives \/ ClientLeaves

\* Threads run, and a client that is there reads and answers.
Fairness == /\ \A t \in Threads : WF_vars(ThreadStep(t))
            /\ WF_vars(GetMessage) /\ WF_vars(ReaderStep) /\ WF_vars(ClientReceives)

Spec == Init /\ [][Next]_vars
FairSpec == Spec /\ Fairness

-----------------------------------------------------------------------------
(* Properties *)

AckTypes == {"PUBACK", "PUBREC", "PUBREL", "PUBCOMP"}
Conditions == [type : AckTypes, id : Ids \cup 0..MaxId - 1]

\* The variables keep their types, and only what is waited for has a result.
TypeOK == /\ alive \in BOOLEAN /\ peer \in BOOLEAN /\ stirred \in BOOLEAN
          /\ reader \in {"read", "notify", "done"}
          /\ conditions \subseteq Conditions
          /\ results \subseteq conditions
          /\ \A t \in Threads : Len(todo[t]) <= 6
          /\ used \subseteq 0..MaxId - 1
          /\ queued \in 0..MaxMessages /\ Len(messages) <= queued
          /\ requests \in [Ids -> 0..MaxRequests]
          /\ waiting \in [Ids -> {"nothing"} \cup Replies] /\ broken \subseteq Ids

On(wire, type, id) == \E k \in DOMAIN wire : wire[k] = Packet(type, id)

(***************************************************************************)
(* An acknowledgement means what it says: when PUBACK or PUBCOMP is on its  *)
(* way, the request it answers has been published; a request is published   *)
(* at most once, and with qos 2 not before the broker has seen the client   *)
(* release it (handler.py 229-249).                                         *)
(***************************************************************************)
AckMeansPublished == \A i \in Ids :
  /\ published[i] <= 1
  /\ On(toClient, "PUBACK", i) \/ On(toClient, "PUBCOMP", i) => published[i] = 1
  /\ waiting[i] = "PUBREC" \/ On(toBroker, "PUBREL", i) => published[i] = 0

(***************************************************************************)
(* An acknowledgement of a client that follows the protocol finds its       *)
(* condition in packet_conditions, still unmet, whatever the other threads  *)
(* do: UnexpectedPacketType is raised, and the connection lost, only if the *)
(* set changed under packet_notify's iteration (handler.py 160-208).        *)
(***************************************************************************)
AckAwaited == reader = "notify" => packet \in conditions \ results

(***************************************************************************)
(* Of the broker's own exchanges at most one packet is under way at any     *)
(* time, and as long as one is, its packet id is not given to another       *)
(* message (next_packet_id and send_message, handler.py 107-114, 153-179).  *)
(***************************************************************************)
Own(wire, types) == {wire[k] : k \in {k \in DOMAIN wire : wire[k].type \in types}}
UnderWay == Own(toClient, {"PUBLISH1", "PUBLISH2", "PUBREL"})
            \cup Own(toBroker, {"PUBACK", "PUBREC", "PUBCOMP"})
OneInFlight == Cardinality(UnderWay) <= 1 /\ \A p \in UnderWay : p.id \in used

(***************************************************************************)
(* Nobody waits for ever on a live connection, but for one reason: a request*)
(* is answered to the end of its exchange unless an exception has ended its *)
(* thread, of which its client is never told (handler.py 229-249).  What is *)
(* queued is sent to the end of its own exchange, or the connection closed. *)
(***************************************************************************)
Answered == \A i \in Ids :
  waiting[i] # "nothing" ~> waiting[i] = "nothing" \/ ~alive \/ i \in broken
MessagesSent == (messages # <<>> \/ used # {}) ~> (messages = <<>> /\ used = {}) \/ ~alive
=============================================================================
