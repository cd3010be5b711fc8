----------------------------- MODULE Transport -----------------------------
(***************************************************************************)
(* Packets as bytes: how threads write them, over TCP or in fragments of    *)
(* WebSocket messages, and how the other end reads them back, field by      *)
(* field.  Both ends run the code of this repository; packets that only     *)
(* clients write are laid out as their fields say.  A byte is its position  *)
(* in the stream, so that a payload is a pair of numbers; only the bytes    *)
(* that carry lengths and flags have values.                                *)
(***************************************************************************)
EXTENDS Integers, Sequences, SequencesExt, FiniteSets

CONSTANTS Writers,     \* threads, each with one packet to write
          Payloads,    \* packets over either transport
          LargePackets,\* packets over TCP only (a bound: they are many fragments)
          ShortReads,  \* kinds of connection whose recv may return less than it was asked for
          ShortSizes,  \* bound: how much of a frame's payload a short recv returns
          ControlSizes,\* the sizes of the payloads of control frames
          MaxControls  \* bound: control frames sent

ASSUME TransportAssumption == /\ ControlSizes \subseteq Nat /\ ShortSizes \subseteq Nat
                              /\ MaxControls \in Nat

VARIABLES kind,     \* SocketHandler ("tcp") or WebsocketHandler ("websocket")
          packets,  \* the packet of each thread
          pc,       \* "start", "send", "done" or "failed"
          sent,     \* bytes each thread has sent
          written,  \* the packets in the stream, in order, with their positions (history)
          open,     \* alive, at the writing end
          flying,   \* TCP: bytes sent and not received
          frames,   \* WebSocket: frames sent and not received
          controls, \* control frames sent (history)
          ended,    \* the reading end has closed
          have,     \* bytes received for the current read: buf, or cached_bytes
          within,   \* read_frames is within a message: whose, or {}
          astray,   \* Frame.recv has left bytes of a frame behind, or taken too many
          received, \* bytes received (history)
          handed,   \* bytes read() has returned (history)
          due,      \* bytes read() was asked for (history)
          parsed,   \* packets read
          parse     \* where Packet.read is

writing == <<packets, pc, sent, written, open>>
wires == <<flying, frames, controls>>
buffers == <<have, within, astray, received>>
reading == <<buffers, handed, due, parsed, parse, ended>>
vars == <<kind, writing, wires, reading>>

-----------------------------------------------------------------------------
(* Flags and lengths *)

Bit(flags, mask) == (flags \div mask) % 2 = 1

\* PublishFlags.from_kwargs and from_int (retain 0x01, qos 0x06)
PublishFlags(retain, qos) == (IF retain THEN 1 ELSE 0) + 2 * qos
QosOf(flags) == (flags % 8) \div 2

\* get_header_bytes and decode_packet_length: seven bits a byte, the lowest
\* first, the top bit set where another byte follows.
HeaderBytes[length \in Nat] ==
  IF length \div 128 > 0 THEN <<128 + (length % 128)>> \o HeaderBytes[length \div 128]
                         ELSE <<length % 128>>

LastMultiplier == 128 * 128 * 128

\* Frame.bytes: 7, 16 or 64 bits; the last is written in seven bytes.
OutSize == 2040

BigEndian(n, size) == [i \in 1..size |-> (n \div 256 ^ (size - i)) % 256]

FrameLength(n) == CASE n < 126 -> <<n>>
                    [] n >= 126 /\ n < 65535 -> <<126, (n \div 256) % 256, n % 256>>
                    [] n >= 65535 -> <<127, 0, 0, 0>> \o BigEndian(n, 4)

\* Frame.recv: takes two bytes, or eight, of what follows.
FromBytes(bytes) == FoldLeft(LAMBDA value, byte : 256 * value + byte, 0, bytes)
RecvLength(bytes) == CASE bytes[1] = 126 -> 256 * bytes[2] + bytes[3]
                       [] bytes[1] = 127 -> FromBytes(SubSeq(bytes \o <<0>>, 2, 9))
                       [] OTHER -> bytes[1]

-----------------------------------------------------------------------------
(* The fields of a packet, as the sizes of the reads that take them *)

\* decode_str does not read an empty string, decode_bytes does.
Str(n) == IF n > 0 THEN <<2, n>> ELSE <<2>>
Bytes(n) == <<2, n>>
Only(condition, reads) == IF condition THEN reads ELSE <<>>

\* The fields up to the one that takes the rest of the length, if there is one.
Fields(p, qos) ==
  CASE p.type = "CONNECT"   -> Str(p.str) \o <<1, 1, 2>> \o Str(p.str)
                               \o Only(Bit(p.flags, 4), Str(p.str) \o Bytes(p.data))
                               \o Only(Bit(p.flags, 128), Str(p.str))
                               \o Only(Bit(p.flags, 64), Str(p.str))
    [] p.type = "CONNACK"   -> <<1, 1>>
    [] p.type = "PUBLISH"   -> Str(p.str) \o Only(qos > 0, <<2>>)
    [] p.type \in {"PUBACK", "SUBSCRIBE", "UNSUBSCRIBE", "SUBACK"} -> <<2>>
    [] p.type = "PINGREQ"   -> <<>>

\* The items of a dynamic_list, and remaining_bytes
Items(p) == CASE p.type = "SUBSCRIBE"   -> Str(p.str) \o <<1>>
              [] p.type = "UNSUBSCRIBE" -> Str(p.str)
              [] p.type = "SUBACK"      -> <<1>>
              [] OTHER -> <<>>

Sum(sizes) == LET from[i \in 1..Len(sizes) + 1] == IF i > Len(sizes) THEN 0
                                                   ELSE sizes[i] + from[i + 1]
              IN from[1]

\* to_bytes
Length(p) == Sum(Fields(p, p.qos)) + (IF p.type = "PUBLISH" THEN p.data
                                      ELSE IF Items(p) = <<>> THEN 0 ELSE p.data * Sum(Items(p)))
FlagsOf(p) == IF p.type = "PUBLISH" THEN PublishFlags(p.retain, p.qos) ELSE 0
Size(p) == 1 + Len(HeaderBytes[Length(p)]) + Length(p)

\* The layouts of packets (others are as PUBACK, an id, or as PINGREQ, nothing) and
\* what their fields hold; four bytes say the length of each packet.
Types == {"CONNECT", "CONNACK", "PUBLISH", "PUBACK", "SUBSCRIBE", "UNSUBSCRIBE", "SUBACK",
          "PINGREQ"}
Packets == [type : Types, qos : 0..3, retain : BOOLEAN, str : Nat, data : Nat, flags : Nat]

ASSUME PacketAssumption == \A p \in Payloads \cup LargePackets : p \in Packets
ASSUME LengthAssumption == \A p \in Payloads \cup LargePackets : Length(p) < 128 * LastMultiplier

-----------------------------------------------------------------------------
(* Writing *)

AtStart == [at |-> "header"]
Data(w, first, fin, from, n) == [op |-> IF first THEN "BYTES" ELSE "CONTINUATION", fin |-> fin,
                                 by |-> w, from |-> from, length |-> FrameLength(n)]
Control(op, n) == [op |-> op, size |-> n, length |-> FrameLength(n)]

Init == /\ kind \in {"tcp", "websocket"}
        /\ packets \in [Writers -> Payloads \cup (IF kind = "tcp" THEN LargePackets ELSE {})]
        /\ pc = [w \in Writers |-> "start"] /\ sent = [w \in Writers |-> 0]
        /\ written = <<>> /\ open = TRUE
        /\ flying = 0 /\ frames = <<>> /\ controls = 0
        /\ ended = FALSE /\ have = 0 /\ within = {} /\ astray = FALSE
        /\ received = 0 /\ handed = 0 /\ due = 0
        /\ parsed = 0 /\ parse = AtStart

\* mutant: no lock.
NoLock == TRUE
\* outgoing_lock
LockFree == \A w \in Writers : pc[w] # "send"

Begin(w) == /\ pc[w] = "start" /\ LockFree
            /\ pc' = [pc EXCEPT ![w] = "send"]
            /\ UNCHANGED <<kind, packets, sent, written, open, wires, reading>>

StreamEnd == IF written = <<>> THEN 0 ELSE Last(written).start + sent[Last(written).by]
PacketLeft(w) == Size(packets[w]) - sent[w]

\* n bytes go out; the packet is in the stream from its first byte.
Sent(w, n) == /\ pc[w] = "send" /\ open
              /\ sent' = [sent EXCEPT ![w] = @ + n]
              /\ written' = IF sent[w] = 0 THEN Append(written, [by |-> w, start |-> StreamEnd])
                                           ELSE written
              /\ pc' = [pc EXCEPT ![w] = IF n = PacketLeft(w) THEN "done" ELSE "send"]
              /\ UNCHANGED <<kind, packets, open, controls, reading>>

\* SocketHandler.send_bytes
SendAll(w) == /\ kind = "tcp"
              /\ Sent(w, PacketLeft(w))
              /\ flying' = flying + PacketLeft(w)
              /\ UNCHANGED frames

\* mutant: the last fragment is taken to be a short one.
FinIfShort(w) == PacketLeft(w) < OutSize
\* WebsocketHandler.send_bytes looks one fragment ahead.
Fin(w) == PacketLeft(w) <= OutSize

SendFragment(w) ==
  LET n == IF PacketLeft(w) < OutSize THEN PacketLeft(w) ELSE OutSize IN
  /\ kind = "websocket"
  /\ Sent(w, n)
  /\ frames' = Append(frames, Data(w, sent[w] = 0, Fin(w), StreamEnd, n))
  /\ UNCHANGED flying

\* Pings, pongs (with what the ping held) and frames the reader does not know are
\* sent without the lock, each in one frame.
SendControl(op, n) == /\ kind = "websocket" /\ open
                      /\ controls < MaxControls
                      /\ controls' = controls + 1
                      /\ frames' = Append(frames, Control(op, n))
                      /\ UNCHANGED <<kind, writing, flying, reading>>

\* close() in another thread: a WebSocket says so if it can, whatever it is in the
\* middle of.
Close == /\ open
         /\ open' = FALSE
         /\ \/ frames' = frames
            \/ kind = "websocket" /\ frames' = Append(frames, Control("CLOSE", 0))
         /\ UNCHANGED <<kind, packets, pc, sent, written, flying, controls, reading>>

\* send() raises: the socket is closed, or the peer does not take the bytes in time
\* and the connection stays open.  The lock is released.
WriteFails(w) == /\ pc[w] = "send"
                 /\ pc' = [pc EXCEPT ![w] = "failed"]
                 /\ UNCHANGED <<kind, packets, sent, written, open, wires, reading>>

-----------------------------------------------------------------------------
(* Reading *)

Current == packets[written[parsed + 1].by]
CurrentBytes == HeaderBytes[Length(Current)]

\* The size of the next read: the header byte, a byte of the length, a field of
\* fixed place, an item of the list, or all that is left.
Want == CASE parse.at \in {"header", "length"} -> 1
          [] parse.at = "fields" -> Head(parse.todo)
          [] parse.at = "rest"   -> parse.rest
          [] parse.at = "lost"   -> 0

\* Where Packet.read goes when the reads of todo are done.
AfterFields(p, rest) ==
  IF p.type = "PUBLISH" /\ rest > 0 THEN [at |-> "rest", rest |-> rest]
  ELSE IF Items(p) # <<>> /\ rest > 0 THEN [at |-> "fields", todo |-> Items(p), rest |-> rest]
  ELSE AtStart

OnFields(p, todo, rest) == IF todo = <<>> THEN AfterFields(p, rest)
                           ELSE [at |-> "fields", todo |-> todo, rest |-> rest]

\* mutant: the length of a field is not taken off what remains.
KeepsRest(rest, size) == rest
\* mutant: the two bytes before a string are counted twice.
TakesTwice(rest, size) == rest - size - (IF size = 2 THEN 2 ELSE 0)
\* read_payload: kwargs["length"] -= read_length
TakeOff(rest, size) == rest - size

LengthByte(byte) ==
  LET value == parse.value + (byte % 128) * parse.multiplier IN
  IF byte < 128 THEN OnFields(Current, Fields(Current, QosOf(FlagsOf(Current))), value)
  ELSE IF parse.multiplier = LastMultiplier THEN [at |-> "invalid"]
  ELSE [at |-> "length", index |-> parse.index + 1, value |-> value,
        multiplier |-> parse.multiplier * 128]

AfterRead == CASE parse.at = "header" -> [at |-> "length", index |-> 1, value |-> 0,
                                          multiplier |-> 1]
               [] parse.at = "length" -> LengthByte(CurrentBytes[parse.index])
               [] parse.at = "fields" -> OnFields(Current, Tail(parse.todo),
                                                  TakeOff(parse.rest, Head(parse.todo)))
               [] parse.at = "rest"   -> AtStart

\* mutant: what the buffer holds beyond the read is dropped.
Dropping == 0
\* WebsocketHandler.read keeps in buf what it does not return.
Leftover == have - Want

\* The reader takes for the packet what is not of it.
Lost == [at |-> "lost"]
\* A packet that was cut short is followed by others.
InPacket == LET packet == written[parsed + 1] IN due + Want <= packet.start + sent[packet.by]

\* read() returns: over TCP all that was received, however much was asked for.
Read == /\ ~ended /\ parse # Lost
        /\ have >= Want /\ within = {}
        /\ have' = IF kind = "tcp" THEN 0 ELSE Leftover
        /\ handed' = handed + IF kind = "tcp" THEN have ELSE Want
        /\ due' = due + Want
        /\ parse' = IF InPacket THEN AfterRead ELSE Lost
        /\ parsed' = IF InPacket /\ AfterRead = AtStart THEN parsed + 1 ELSE parsed
        /\ ended' = (InPacket /\ AfterRead.at = "invalid")
        /\ UNCHANGED <<kind, writing, wires, within, astray, received>>

\* read() and read_frames ask for more: the buffer is too short, or the message is
\* not complete.
Waiting == ~ended /\ parse # Lost /\ (within # {} \/ have < Want)

\* SocketHandler.read: sock.recv(size), with the whole size every time
Recv(n) == /\ kind = "tcp" /\ Waiting
           /\ n <= flying /\ n <= Want
           /\ flying' = flying - n
           /\ have' = have + n
           /\ received' = received + n
           /\ UNCHANGED <<kind, writing, frames, controls, within, astray, handed, due, parsed,
                          parse, ended>>
RecvSizes == IF "tcp" \in ShortReads THEN {1, Want - 1, Want} \ {0} ELSE {Want}

\* The connection was reset or is silent for too long (recv raises), or nothing more
\* comes (it returns nothing).
RecvFails == /\ Waiting
             /\ ended' = TRUE
             /\ UNCHANGED <<kind, writing, wires, buffers, handed, due, parsed, parse>>
RecvEnds == ~open /\ flying = 0 /\ frames = <<>> /\ RecvFails

DataOps == {"BYTES", "CONTINUATION"}

\* n bytes of a frame go to the buffer.
Extend(f, n) == /\ have' = have + n
                /\ received' = received + n
                /\ within' = IF f.fin THEN {} ELSE {f.by}

\* What a control frame makes of the reader: the answer to a ping may fail.
EndsAt(op) == CASE op = "PING" -> BOOLEAN
                [] op = "PONG" -> {FALSE}
                [] OTHER -> {TRUE}

\* Frame.recv, when every recv returns what it asks for
RecvFrame == LET f == Head(frames) IN
  /\ kind = "websocket" /\ Waiting /\ ~astray
  /\ frames # <<>>
  /\ frames' = Tail(frames)
  /\ IF f.op \in DataOps
     THEN Extend(f, RecvLength(f.length)) /\ UNCHANGED <<astray, ended>>
     ELSE /\ ended' \in EndsAt(f.op)
          /\ astray' = (RecvLength(f.length) # f.size)
          /\ UNCHANGED <<have, received, within>>
  /\ UNCHANGED <<kind, writing, flying, controls, handed, due, parsed, parse>>

\* It calls recv once each for the two bytes of the header, the length and the
\* payload: a short header is an error, a short length a wrong one, and what is left
\* of a payload is taken for the next header.
RecvShort(n) == LET f == Head(frames) IN
  /\ kind = "websocket" /\ "websocket" \in ShortReads /\ Waiting /\ ~astray
  /\ frames # <<>>
  /\ frames' = Tail(frames)
  /\ astray' = TRUE
  /\ \/ ended' = TRUE /\ UNCHANGED <<have, received, within, parse>>
     \/ Len(f.length) > 1 /\ parse' = Lost /\ UNCHANGED <<have, received, within, ended>>
     \/ /\ f.op \in DataOps /\ n < RecvLength(f.length)
        /\ Extend(f, n) /\ UNCHANGED <<parse, ended>>
     \/ /\ f.op \notin DataOps /\ n < f.size
        /\ ended' \in EndsAt(f.op) /\ UNCHANGED <<have, received, within, parse>>
  /\ UNCHANGED <<kind, writing, flying, controls, handed, due, parsed>>

\* The next header is none: the opcode may be any.
Strays == /\ kind = "websocket" /\ Waiting /\ astray
          /\ \/ parse' = Lost /\ UNCHANGED ended
             \/ ended' = TRUE /\ UNCHANGED parse
          /\ UNCHANGED <<kind, writing, wires, buffers, handed, due, parsed>>

-----------------------------------------------------------------------------
WriterStep(w) == Begin(w) \/ SendAll(w) \/ SendFragment(w) \/ WriteFails(w)
ReaderStep == Read \/ RecvFrame \/ Strays \/ RecvEnds \/ \E n \in RecvSizes : Recv(n)

Next == \/ \E w \in Writers : WriterStep(w)
        \/ \E op \in {"PING", "PONG", "TEXT"}, n \in ControlSizes : SendControl(op, n)
        \/ Close
        \/ ReaderStep
        \/ \E n \in ShortSizes : RecvShort(n)
        \/ RecvFails

Fairness == (\A w \in Writers : WF_vars(WriterStep(w))) /\ WF_vars(ReaderStep)
Spec == Init /\ [][Next]_vars /\ Fairness

-----------------------------------------------------------------------------
(* Properties *)

\* The variables keep their types, and a thread that is done has sent its packet.
TypeOK == /\ pc \in [Writers -> {"start", "send", "done", "failed"}]
          /\ \A w \in Writers : /\ sent[w] \in 0..Size(packets[w])
                                /\ pc[w] = "done" <=> sent[w] = Size(packets[w])
          /\ open \in BOOLEAN /\ ended \in BOOLEAN /\ astray \in BOOLEAN
          /\ within = {} \/ \E w \in Writers : within = {w}
          /\ flying \in Nat /\ have \in Nat /\ controls \in 0..MaxControls
          /\ parse.at \in {"header", "length", "fields", "rest", "lost"}
          /\ parse.at \in {"fields", "rest"} => parse.rest \in Nat

Failed == {w \in Writers : pc[w] = "failed"}
DataAt == {k \in DOMAIN frames : frames[k].op \in DataOps}

\* f goes on where the stream is: with the message its thread has not finished, or
\* with a new one.  Other messages are unfinished only where a send has failed.
Follows(f, from, unfinished, failed) == /\ f.from = from
                                        /\ f.op = "CONTINUATION" <=> f.by \in unfinished
                                        /\ unfinished \ {f.by} \subseteq failed
Unfinished(f) == IF f.fin THEN {} ELSE {f.by}

(***************************************************************************)
(* The messages of different threads do not mix: behind what was received,  *)
(* the data frames under way continue the stream byte by byte; the first    *)
(* of a message is BYTES, the others are CONTINUATION, only the last has    *)
(* fin.  Control frames may fall in between.  A thread leaves its message   *)
(* without an end for another one to follow only if its send has failed     *)
(* (socket.py 22-27, websocket/handler.py 46-61, frame.py 53-73).  What was *)
(* received is behind the first frame unless a recv was short.              *)
(***************************************************************************)
StreamIntact ==
  /\ \A k \in DataAt : ~astray /\ (\A j \in DataAt : k <= j) =>
       Follows(frames[k], received, within, Failed)
  /\ \A j, k \in DataAt : j < k /\ (\A i \in DataAt : i <= j \/ k <= i) =>
       Follows(frames[k], frames[j].from + RecvLength(frames[j].length), Unfinished(frames[j]),
               Failed)

(***************************************************************************)
(* "A string with two leading bytes that add up to the remaining length to  *)
(* read" (packet/types/dynamic_str.py 13): a read returns the bytes it was  *)
(* asked for and none of what follows them, whichever way they came, from   *)
(* whole frames, truncated ones or several messages (socket.py 32-44,       *)
(* websocket/handler.py 39-44, 70-76).                                      *)
(***************************************************************************)
ReadExact == handed = due /\ received = handed + have

\* The packet being read was cut short by a send that failed.
Cut == parsed < Len(written) /\ pc[written[parsed + 1].by] = "failed"

(***************************************************************************)
(* Between two packets the reader stands where the next one starts: flags,  *)
(* remaining length, optional fields, lists and the rest are read as they   *)
(* were written, for every length.  It takes other bytes for those of its   *)
(* packet only if the packet was cut short or a frame was (base_packet.py   *)
(* 28-89, streams.py 14-62, packet/types, frame.py 83-100).                 *)
(***************************************************************************)
Aligned == /\ parse.at = "header" /\ parsed < Len(written) => due = written[parsed + 1].start
           /\ parse = Lost => Cut \/ astray

(***************************************************************************)
(* Every packet is read in the end, unless its send fails, an end closes, a *)
(* packet was cut short or a frame was: no message is left without its last *)
(* fragment, no reader waits for bytes that were not sent, and a thread     *)
(* whose send fails before the first byte takes nothing from the others     *)
(* (websocket/handler.py 39-88).                                            *)
(***************************************************************************)
PacketRead(w) == \E k \in 1..parsed : written[k].by = w
SomeCut == \E w \in Failed : sent[w] > 0
AllRead == \A w \in Writers :
  <>(PacketRead(w) \/ w \in Failed \/ SomeCut \/ ~open \/ ended \/ astray)
=============================================================================
