--------------------------- MODULE SessionsProofs ---------------------------
(***************************************************************************)
(* Proofs about Sessions for any number of connections, ids and filters.    *)
(* The invariants allow for the main thread, which Servers adds.            *)
(***************************************************************************)
EXTENDS Sessions, TLAPS

\* c has been through read_loop's handshake: it has reached the loop.
Served(c) == pc[Reader(c)] \notin ConnectPc \cup NeverServed

\* d has found c under its id and has not yet taken its place.
Replaces(d, c) == prev[d] = c /\ pc[Reader(d)] \in {"flag", "drop", "sweep", "assign"}

\* The main thread has disconnected c and has not got past remove_client for it.
Stopping(c) == pc[Stopper(c)] \in {"unsubscribe", "check", "remove"}

(***************************************************************************)
(* Where the threads of a connection can be: nothing is written before the  *)
(* handshake is done, the main thread has closed what it cleans up after,   *)
(* and a last will is only published for a connection that has one.         *)
(***************************************************************************)
PlaceInv ==
  /\ \A c \in Conns : pc[Reader(c)] \in {"flag", "drop", "sweep"} => prev[c] # None
  /\ \A c \in Conns : pc[<<c, "write">>] \in EndPc => Served(c)
  /\ \A c \in Conns : pc[<<c, "write">>] \in EndPc \cup {"loop"}
  /\ \A c \in Conns : Stopping(c) \/ pc[Stopper(c)] \in {"idle", "will", "done"}
  /\ \A c \in Conns : open[c] => pc[Stopper(c)] = "idle"
  /\ \A t \in Threads : pc[t] = "will" => t[1] \in HasWill

\* A connection that is not registered yet can be neither found nor overridden.
FreshInv == \A c \in Conns :
  (pc[Reader(c)] \in (ConnectPc \ {"link"}) \cup NeverServed) =>
    /\ ~override[c]
    /\ \A d \in Conns : prev[d] # c
    /\ \A i \in Ids : clients[i] # c

\* The main thread does, or has done, what the cleanup of c owes to registry and will.
StopperCleans(c) ==
  \/ Stopping(c)
  \/ /\ pc[Stopper(c)] \in {"will", "done"}
     /\ clients[IdOf[c]] = c => IdOf[c] = EmptyId
     /\ c \in HasWill /\ pc[Stopper(c)] = "done" => c \in published \cup lost

(***************************************************************************)
(* A served connection is unlinked only by the one that overrides it, or by *)
(* the main thread, which then cleans up in its place.                      *)
(***************************************************************************)
LinkInv ==
  /\ \A c \in Conns : Served(c) /\ ~linked[c] => override[c] \/ StopperCleans(c)
  /\ \A d \in Conns : pc[Reader(d)] = "drop" => override[prev[d]]

\* A connection that is still registered and will not be removed is being replaced.
Outgoing(c) == \/ override[c]
               \/ /\ pc[Reader(c)] \in {"will", "done"} /\ IdOf[c] # EmptyId
                  /\ ~Stopping(c)

RegistryInv == \A c \in Conns :
  clients[IdOf[c]] = c /\ Outgoing(c) => \E d \in Conns : Replaces(d, c)

WillInv == \A c \in HasWill : pc[Reader(c)] = "done" =>
  c \in published \cup lost \/ override[c] \/ Stopping(c) \/ pc[Stopper(c)] = "will"

SettleInv == TypeOK /\ PlaceInv /\ FreshInv /\ LinkInv /\ RegistryInv /\ WillInv

\* Only a served connection has subscriptions or packets that change them.
OwnerInv ==
  /\ \A c \in Conns : ~Served(c) => own[c] = {} /\ \A f \in Filters : op[<<c, f>>] = "idle"
  /\ \A e \in table : \E c \in Conns : IdOf[c] = e[1] /\ Served(c)

\* What the two steps of a packet's thread leave behind, for each place between them.
Agreement(c, f) ==
  /\ op[<<c, f>>] \in {"idle", "subscribe", "unsubscribe"} =>
       (f \in own[c] <=> <<IdOf[c], f>> \in table)
  /\ op[<<c, f>>] = "add" => <<IdOf[c], f>> \in table
  /\ op[<<c, f>>] = "remove" => <<IdOf[c], f>> \notin table

AgreeInv == \A c \in Conns : InService(c) /\ Alone(c) => \A f \in Filters : Agreement(c, f)

-----------------------------------------------------------------------------
USE DEF flags, subscribing, wills, Goto, Reader, Threads, Stopper

(***************************************************************************)
(* Every action keeps the types: what LookUp finds under its own id is      *)
(* another connection, and linked is set on the way out of the handshake.   *)
(***************************************************************************)
LEMMA TypeStep == TypeOK /\ PlaceInv /\ FreshInv /\ [Next]_vars => TypeOK'
<1> SUFFICES ASSUME TypeOK, PlaceInv, FreshInv, [Next]_vars PROVE TypeOK'
  OBVIOUS
<1> USE SessionsAssumption DEF TypeOK, ConnectPc, NeverServed, Anonymous, EndPc
<1>1. ASSUME NEW c \in Conns, Connect(c) PROVE TypeOK'
  BY <1>1, SMTT(30) DEF Connect
<1>2. ASSUME NEW c \in Conns, ConnectStep(c) PROVE TypeOK'
  <2>1. CASE LookUp(c)
    <3>1. clients[IdOf[c]] # c BY <2>1 DEF LookUp, FreshInv
    <3> QED BY <2>1, <3>1, SMTT(30) DEF LookUp
  <2>2. CASE Override(c)
    <3>1. override' \in [Conns -> BOOLEAN]
      <4> HIDE DEF ConnectPc, NeverServed, Anonymous, EndPc
      <4>1. override \in [Conns -> BOOLEAN]
        OBVIOUS
      <4>2. override' = [override EXCEPT ![prev[c]] = TRUE]
        BY <2>2 DEF Override
      <4> QED BY <4>1, <4>2, Zenon
    <3>2. pc' \in [Threads -> ConnectPc \cup EndPc \cup NeverServed \cup {"loop", "idle"}]
          /\ pc' = [pc EXCEPT ![Reader(c)] = "drop"]
      BY <2>2 DEF Override
    <3>3. \A d \in Conns : linked[d] => pc'[Reader(d)] \notin ConnectPc
      BY <2>2, <3>2 DEF Override
    <3>4. UNCHANGED <<prev, open, linked, clients, table, own, op, ops, wills>>
      BY <2>2 DEF Override
    <3> QED BY <3>1, <3>2, <3>3, <3>4
  <2>3. CASE Disconnect(c)
    <3>1. pc' \in [Threads -> ConnectPc \cup EndPc \cup NeverServed \cup {"loop", "idle"}]
          /\ pc' = [pc EXCEPT ![Reader(c)] = "sweep"]
      BY <2>3 DEF Disconnect
    <3>2. linked' \in [Conns -> BOOLEAN] /\ open' \in [Conns -> BOOLEAN]
      <4> HIDE DEF ConnectPc, NeverServed, Anonymous, EndPc
      <4>1. linked \in [Conns -> BOOLEAN] /\ open \in [Conns -> BOOLEAN]
        OBVIOUS
      <4>2. /\ linked' = [linked EXCEPT ![prev[c]] = FALSE]
            /\ open' = [open EXCEPT ![prev[c]] = FALSE]
        BY <2>3 DEF Disconnect
      <4> QED BY <4>1, <4>2, Zenon
    <3>3. \A d \in Conns : linked'[d] => linked[d]
      BY <2>3 DEF Disconnect
    <3>4. \A d \in Conns : linked'[d] => pc'[Reader(d)] \notin ConnectPc
      BY <2>3, <3>1, <3>3 DEF Disconnect
    <3>5. UNCHANGED <<prev, override, clients, table, own, op, ops, wills>>
      BY <2>3 DEF Disconnect
    <3> QED BY <3>1, <3>2, <3>3, <3>4, <3>5
  <2>4. CASE SweepPrevious(c)
    <3>1. pc' \in [Threads -> ConnectPc \cup EndPc \cup NeverServed \cup {"loop", "idle"}]
          /\ pc' = [pc EXCEPT ![Reader(c)] = "assign"]
      BY <2>4 DEF SweepPrevious
    <3>2. table' \subseteq Ids \X Filters
      BY <2>4 DEF SweepPrevious
    <3>3. \A d \in Conns : linked[d] => pc'[Reader(d)] \notin ConnectPc
      BY <2>4, <3>1 DEF SweepPrevious
    <3>4. UNCHANGED <<prev, open, linked, override, clients, own, op, ops, wills>>
      BY <2>4 DEF SweepPrevious
    <3> QED BY <3>1, <3>2, <3>3, <3>4
  <2>5. CASE Assign(c) BY <2>5, SMTT(30) DEF Assign
  <2>6. CASE Link(c) BY <2>6, SMTT(30) DEF Link
  <2>7. CASE Refuse(c) BY <2>7, SMTT(30) DEF Refuse
  <2> QED BY <1>2, <2>1, <2>2, <2>3, <2>4, <2>5, <2>6, <2>7 DEF ConnectStep
<1>3. ASSUME NEW t \in Threads, Fail(t) PROVE TypeOK'
  BY <1>3, SMTT(30) DEF Fail
<1>4. ASSUME NEW t \in Threads, EndStep(t) PROVE TypeOK'
  <2>1. CASE Close(t) BY <2>1, SMTT(30) DEF Close
  <2>2. CASE UnsubscribeAll(t) BY <2>2, SMTT(30) DEF UnsubscribeAll
  <2>3. CASE CheckOverride(t) BY <2>3, SMTT(30) DEF CheckOverride
  <2>4. CASE Remove(t) BY <2>4, SMTT(30) DEF Remove
  <2>5. CASE PublishWill(t) BY <2>5, SMTT(30) DEF PublishWill, PlaceInv
  <2>6. CASE WillRaises(t) BY <2>6, SMTT(30) DEF WillRaises, PlaceInv
  <2> QED BY <1>4, <2>1, <2>2, <2>3, <2>4, <2>5, <2>6 DEF EndStep, CleanUp
<1>5. ASSUME NEW c \in Conns, NEW f \in Filters, OpStep(c, f) PROVE TypeOK'
  <2> USE DEF Steps
  <2>1. CASE AddToTable(c, f) BY <2>1, SMTT(30) DEF AddToTable
  <2>2. CASE AddToOwn(c, f) BY <2>2, SMTT(30) DEF AddToOwn
  <2>3. CASE RemoveFromTable(c, f) BY <2>3, SMTT(30) DEF RemoveFromTable
  <2>4. CASE RemoveFromOwn(c, f) BY <2>4, SMTT(30) DEF RemoveFromOwn
  <2> QED BY <1>5, <2>1, <2>2, <2>3, <2>4 DEF OpStep
<1>6. ASSUME NEW c \in Conns, NEW f \in Filters, NEW kind \in {"subscribe", "unsubscribe"},
             Packet(c, f, kind)
      PROVE  TypeOK'
  BY <1>6, SMTT(30) DEF Packet, Steps
<1>7. CASE UNCHANGED vars
  BY <1>7 DEF vars
<1> HIDE DEF TypeOK
<1> QED BY <1>1, <1>2, <1>3, <1>4, <1>5, <1>6, <1>7 DEF Next

\* No step takes a thread of a served connection back into the handshake.
LEMMA ServedStable ==
  TypeOK /\ [Next]_vars => \A c \in Conns : Served(c) => Served(c)'
<1> SUFFICES ASSUME TypeOK, [Next]_vars, NEW d \in Conns, Served(d) PROVE Served(d)'
  OBVIOUS
<1>0. pc \in [Threads -> ConnectPc \cup EndPc \cup NeverServed \cup {"loop", "idle"}]
  BY DEF TypeOK
<1> USE <1>0 DEF Served, ConnectPc, NeverServed, Anonymous, EndPc
<1>1. ASSUME NEW c \in Conns, Connect(c) \/ ConnectStep(c) PROVE Served(d)'
  BY <1>1 DEF Connect, ConnectStep, LookUp, Override, Disconnect, SweepPrevious, Assign, Link,
     Refuse
<1>2. ASSUME NEW t \in Threads, Fail(t) \/ EndStep(t) PROVE Served(d)'
  BY <1>2 DEF Fail, EndStep, CleanUp, Close, UnsubscribeAll, CheckOverride, Remove,
     PublishWill, WillRaises
<1>3. ASSUME NEW c \in Conns, NEW f \in Filters, OpStep(c, f) PROVE Served(d)'
  BY <1>3 DEF OpStep, AddToTable, AddToOwn, RemoveFromTable, RemoveFromOwn
<1>4. ASSUME NEW c \in Conns, NEW f \in Filters, NEW kind \in {"subscribe", "unsubscribe"},
             Packet(c, f, kind)
      PROVE  Served(d)'
  BY <1>4 DEF Packet
<1>5. CASE UNCHANGED vars
  BY <1>5 DEF vars
<1> QED BY <1>1, <1>2, <1>3, <1>4, <1>5 DEF Next

(***************************************************************************)
(* The threads keep to their parts of the code: LookUp goes to "flag" only  *)
(* with a connection to override, the write thread ends only after the      *)
(* handshake, and Remove goes to "will" only for a client with a will.      *)
(***************************************************************************)
LEMMA PlaceStep == TypeOK /\ PlaceInv /\ [Next]_vars => PlaceInv'
<1> SUFFICES ASSUME TypeOK, PlaceInv, [Next]_vars PROVE PlaceInv'
  OBVIOUS
<1>0. \A c \in Conns : Served(c) => Served(c)'
  BY ServedStable
<1>00. /\ pc \in [Threads -> ConnectPc \cup EndPc \cup NeverServed \cup {"loop", "idle"}]
       /\ prev \in [Conns -> Conns \cup {None}]
       /\ open \in [Conns -> BOOLEAN]
  BY DEF TypeOK
<1> USE <1>00, <1>0 DEF PlaceInv, EndPc, Stopping
<1>1. ASSUME NEW c \in Conns, Connect(c) \/ ConnectStep(c) PROVE PlaceInv'
  BY <1>1 DEF Connect, ConnectStep, LookUp, Override, Disconnect, SweepPrevious, Assign, Link,
     Refuse
<1>2. ASSUME NEW t \in Threads, Fail(t) \/ EndStep(t) PROVE PlaceInv'
  <2>1. CASE Fail(t) BY <2>1 DEF Fail, Served
  <2>2. CASE EndStep(t)
    BY <2>2 DEF EndStep, CleanUp, Close, UnsubscribeAll, CheckOverride, Remove,
       PublishWill, WillRaises
  <2> QED BY <1>2, <2>1, <2>2
<1>3. ASSUME NEW c \in Conns, NEW f \in Filters, OpStep(c, f) PROVE PlaceInv'
  BY <1>3 DEF OpStep, AddToTable, AddToOwn, RemoveFromTable, RemoveFromOwn
<1>4. ASSUME NEW c \in Conns, NEW f \in Filters, NEW kind \in {"subscribe", "unsubscribe"},
             Packet(c, f, kind)
      PROVE  PlaceInv'
  BY <1>4 DEF Packet
<1>5. CASE UNCHANGED vars
  BY <1>5 DEF vars
<1> HIDE DEF PlaceInv
<1> QED BY <1>1, <1>2, <1>3, <1>4, <1>5 DEF Next

\* Only what add_client has put into the registry can be found there and overridden.
LEMMA FreshStep == TypeOK /\ PlaceInv /\ FreshInv /\ [Next]_vars => FreshInv'
<1> SUFFICES ASSUME TypeOK, PlaceInv, FreshInv, [Next]_vars PROVE FreshInv'
  OBVIOUS
<1>0. /\ pc \in [Threads -> ConnectPc \cup EndPc \cup NeverServed \cup {"loop", "idle"}]
      /\ prev \in [Conns -> Conns \cup {None}]
      /\ override \in [Conns -> BOOLEAN]
      /\ clients \in [Ids -> Conns \cup {None}]
  BY DEF TypeOK
<1> USE <1>0, SessionsAssumption DEF FreshInv, ConnectPc, NeverServed, Anonymous, EndPc
<1>1. ASSUME NEW c \in Conns, Connect(c) PROVE FreshInv'
  BY <1>1 DEF Connect
<1>2. ASSUME NEW c \in Conns, ConnectStep(c) PROVE FreshInv'
  <2>1. CASE LookUp(c) BY <2>1 DEF LookUp
  <2>2. CASE Override(c) BY <2>2 DEF Override, PlaceInv
  <2>3. CASE Disconnect(c) BY <2>3 DEF Disconnect
  <2>4. CASE SweepPrevious(c) BY <2>4 DEF SweepPrevious
  <2>5. CASE Assign(c) BY <2>5 DEF Assign
  <2>6. CASE Link(c) BY <2>6 DEF Link
  <2>7. CASE Refuse(c) BY <2>7 DEF Refuse
  <2> QED BY <1>2, <2>1, <2>2, <2>3, <2>4, <2>5, <2>6, <2>7 DEF ConnectStep
<1>3. ASSUME NEW t \in Threads, Fail(t) \/ EndStep(t) PROVE FreshInv'
  BY <1>3 DEF Fail, EndStep, CleanUp, Close, UnsubscribeAll, CheckOverride, Remove,
     PublishWill, WillRaises
<1>4. ASSUME NEW c \in Conns, NEW f \in Filters, OpStep(c, f) PROVE FreshInv'
  BY <1>4 DEF OpStep, AddToTable, AddToOwn, RemoveFromTable, RemoveFromOwn
<1>5. ASSUME NEW c \in Conns, NEW f \in Filters, NEW kind \in {"subscribe", "unsubscribe"},
             Packet(c, f, kind)
      PROVE  FreshInv'
  BY <1>5 DEF Packet
<1>6. CASE UNCHANGED vars
  BY <1>6 DEF vars
<1> HIDE DEF FreshInv
<1> QED BY <1>1, <1>2, <1>3, <1>4, <1>5, <1>6 DEF Next

(***************************************************************************)
(* override_connection sets the flag before it disconnects, and a           *)
(* connection that sets linked sets it on reaching the loop: no connection  *)
(* in its loop is unlinked without having been overridden.                  *)
(***************************************************************************)
LEMMA LinkStep == TypeOK /\ PlaceInv /\ FreshInv /\ LinkInv /\ [Next]_vars => LinkInv'
<1> SUFFICES ASSUME TypeOK, PlaceInv, FreshInv, LinkInv, [Next]_vars PROVE LinkInv'
  OBVIOUS
<1>0. /\ pc \in [Threads -> ConnectPc \cup EndPc \cup NeverServed \cup {"loop", "idle"}]
      /\ prev \in [Conns -> Conns \cup {None}]
      /\ linked \in [Conns -> BOOLEAN]
      /\ override \in [Conns -> BOOLEAN]
      /\ clients \in [Ids -> Conns \cup {None}]
  BY DEF TypeOK
<1> USE <1>0, SessionsAssumption DEF Stopping, StopperCleans
<1>1. \A d \in Conns : pc'[Reader(d)] = "drop" => override'[prev'[d]]
  <2>1. ASSUME NEW c \in Conns, Connect(c) \/ ConnectStep(c)
        PROVE  \A d \in Conns : pc'[Reader(d)] = "drop" => override'[prev'[d]]
    <3> USE DEF LinkInv
    <3>1. CASE Connect(c) BY <3>1 DEF Connect
    <3>2. CASE LookUp(c) BY <3>2 DEF LookUp
    <3>3. CASE Override(c) BY <3>3 DEF Override, PlaceInv
    <3>4. CASE Disconnect(c) BY <3>4 DEF Disconnect
    <3>5. CASE SweepPrevious(c) \/ Assign(c) \/ Link(c) \/ Refuse(c)
      BY <3>5 DEF SweepPrevious, Assign, Link, Refuse
    <3> QED BY <2>1, <3>1, <3>2, <3>3, <3>4, <3>5 DEF ConnectStep
  <2>2. ASSUME NEW t \in Threads, Fail(t) \/ EndStep(t)
        PROVE  \A d \in Conns : pc'[Reader(d)] = "drop" => override'[prev'[d]]
    BY <2>2 DEF Fail, EndStep, CleanUp, Close, UnsubscribeAll, CheckOverride, Remove,
       PublishWill, WillRaises, LinkInv
  <2>3. (UNCHANGED <<pc, prev, override>>) =>
          \A d \in Conns : pc'[Reader(d)] = "drop" => override'[prev'[d]]
    BY DEF LinkInv
  <2> QED BY <2>1, <2>2, <2>3 DEF Next, OpStep, AddToTable, AddToOwn, RemoveFromTable,
          RemoveFromOwn, Packet, vars
<1>2. ASSUME NEW x \in Conns, Served(x)', ~linked'[x] PROVE (override[x] \/ StopperCleans(x))'
  <2>0. Served(x) /\ ~linked[x] => override[x] \/ StopperCleans(x)
    BY DEF LinkInv
  <2> USE <1>2 DEF Served, ConnectPc, NeverServed, Anonymous
  <2>1. ASSUME NEW c \in Conns, Connect(c) PROVE (override[x] \/ StopperCleans(x))'
    BY <2>0, <2>1 DEF Connect
  <2>2. ASSUME NEW c \in Conns, ConnectStep(c) PROVE (override[x] \/ StopperCleans(x))'
    <3>1. CASE LookUp(c) BY <2>0, <3>1 DEF LookUp
    <3>2. CASE Override(c) BY <2>0, <3>2 DEF Override
    <3>3. CASE Disconnect(c) BY <2>0, <3>3 DEF Disconnect, LinkInv
    <3>4. CASE SweepPrevious(c) BY <2>0, <3>4 DEF SweepPrevious
    <3>5. CASE Assign(c) BY <2>0, <3>5 DEF Assign
    <3>6. CASE Link(c) BY <2>0, <3>6 DEF Link
    <3>7. CASE Refuse(c) BY <2>0, <3>7 DEF Refuse
    <3> QED BY <2>2, <3>1, <3>2, <3>3, <3>4, <3>5, <3>6, <3>7 DEF ConnectStep
  <2>3. ASSUME NEW t \in Threads, Fail(t) PROVE (override[x] \/ StopperCleans(x))'
    BY <2>0, <2>3 DEF Fail, PlaceInv
  <2>4. ASSUME NEW t \in Threads, EndStep(t) PROVE (override[x] \/ StopperCleans(x))'
    <3>1. CASE Close(t) BY <2>0, <3>1 DEF Close, PlaceInv
    <3>2. CASE UnsubscribeAll(t) BY <2>0, <3>2 DEF UnsubscribeAll
    <3>3. CASE CheckOverride(t) BY <2>0, <3>3 DEF CheckOverride
    <3>4. CASE Remove(t) BY <2>0, <3>4 DEF Remove
    <3>5. CASE PublishWill(t) BY <2>0, <3>5 DEF PublishWill
    <3>6. CASE WillRaises(t) BY <2>0, <3>6 DEF WillRaises
    <3> QED BY <2>4, <3>1, <3>2, <3>3, <3>4, <3>5, <3>6 DEF EndStep, CleanUp
  <2>5. UNCHANGED <<pc, linked, override, clients, wills>> => (override[x] \/ StopperCleans(x))'
    BY <2>0
  <2> QED BY <2>1, <2>2, <2>3, <2>4, <2>5 DEF Next, OpStep, AddToTable, AddToOwn,
          RemoveFromTable, RemoveFromOwn, Packet, vars, flags
<1> QED BY <1>1, <1>2 DEF LinkInv

(***************************************************************************)
(* A connection whose own cleanup leaves its entry in the registry has been *)
(* overridden, and the one that did so has still to put itself there.       *)
(***************************************************************************)
LEMMA RegistryStep == SettleInv /\ [Next]_vars => RegistryInv'
<1> SUFFICES ASSUME SettleInv, [Next]_vars, NEW x \in Conns,
                    (clients[IdOf[x]] = x /\ Outgoing(x))'
             PROVE  \E d \in Conns : Replaces(d, x)'
  BY DEF RegistryInv
<1> DEFINE Kept == /\ clients[IdOf[x]] = x /\ Outgoing(x)
                   /\ \A d \in Conns : Replaces(d, x) => Replaces(d, x)'
<1>0. /\ pc \in [Threads -> ConnectPc \cup EndPc \cup NeverServed \cup {"loop", "idle"}]
      /\ prev \in [Conns -> Conns \cup {None}]
      /\ override \in [Conns -> BOOLEAN]
      /\ clients \in [Ids -> Conns \cup {None}]
  BY DEF SettleInv, TypeOK
<1>k. ASSUME Kept PROVE \E d \in Conns : Replaces(d, x)'
  BY <1>k DEF SettleInv, RegistryInv
<1> USE <1>0, SessionsAssumption DEF Outgoing, Replaces, Stopping
<1>1. ASSUME NEW c \in Conns, Connect(c) PROVE Kept
  BY <1>1 DEF Connect
<1>2. ASSUME NEW c \in Conns, ConnectStep(c) PROVE \E d \in Conns : Replaces(d, x)'
  <2>1. ASSUME LookUp(c) PROVE Kept
    <3>1. clients[IdOf[x]] = x /\ Outgoing(x)
      BY <2>1 DEF LookUp
    <3>2. \A d \in Conns : Replaces(d, x) => Replaces(d, x)'
      BY <2>1 DEF LookUp
    <3> QED BY <3>1, <3>2
  <2>2. CASE Override(c)
    <3>1. CASE prev[c] = x
      BY <2>2, <3>1 DEF Override
    <3>2. ASSUME prev[c] # x PROVE Kept
      BY <2>2, <3>2 DEF Override, SettleInv, PlaceInv
    <3> QED BY <3>1, <3>2, <1>k
  <2>3. ASSUME Disconnect(c) PROVE Kept BY <2>3 DEF Disconnect
  <2>4. ASSUME SweepPrevious(c) PROVE Kept BY <2>4 DEF SweepPrevious
  <2>5. ASSUME Assign(c) PROVE Kept
    <3>1. x # c
      BY <2>5 DEF Assign, SettleInv, FreshInv, ConnectPc
    <3>2. clients[IdOf[x]] = x /\ IdOf[x] # IdOf[c]
      BY <2>5, <3>1 DEF Assign
    <3>3. \A d \in Conns : Replaces(d, x) => IdOf[d] = IdOf[x]
      BY DEF SettleInv, TypeOK
    <3> QED BY <2>5, <3>1, <3>2, <3>3 DEF Assign
  <2>6. ASSUME Link(c) PROVE Kept BY <2>6 DEF Link
  <2>7. ASSUME Refuse(c) PROVE Kept BY <2>7 DEF Refuse
  <2> HIDE DEF Kept
  <2> QED BY <1>2, <1>k, <2>1, <2>2, <2>3, <2>4, <2>5, <2>6, <2>7 DEF ConnectStep
<1>3. ASSUME NEW t \in Threads, Fail(t) PROVE Kept
  BY <1>3 DEF Fail
<1>4. ASSUME NEW t \in Threads, EndStep(t) PROVE Kept
  <2>1. CASE Close(t)
    BY <2>1 DEF Close, SettleInv, LinkInv, StopperCleans, PlaceInv, Served, ConnectPc, NeverServed,
       Anonymous
  <2>2. CASE UnsubscribeAll(t) BY <2>2 DEF UnsubscribeAll
  <2>3. CASE CheckOverride(t)
    <3>1. clients[IdOf[x]] = x /\ prev' = prev /\ override' = override
      BY <2>3 DEF CheckOverride
    <3>2. \A r \in Threads : r # t => pc'[r] = pc[r]
      BY <2>3 DEF CheckOverride
    <3>3. pc[t] = "check" /\ pc'[t] \in {"done", "remove"}
      BY <2>3 DEF CheckOverride
    <3>4. pc'[t] = "done" => override[t[1]] \/ pc[Reader(t[1])] \in Anonymous
      BY <2>3 DEF CheckOverride
    <3>5. Outgoing(x)
      <4>1. Reader(x) \in Threads /\ Stopper(x) \in Threads
        OBVIOUS
      <4>2. CASE t = Reader(x)
        BY <3>1, <3>3, <3>4, <4>2 DEF Anonymous
      <4>3. CASE t = Stopper(x)
        <5>1. pc'[Reader(x)] = pc[Reader(x)]
          BY <3>2, <4>1, <4>3
        <5> QED BY <3>1, <3>3, <3>4, <4>3, <5>1 DEF Anonymous
      <4>4. CASE t # Reader(x) /\ t # Stopper(x)
        <5>1. pc'[Reader(x)] = pc[Reader(x)] /\ pc'[Stopper(x)] = pc[Stopper(x)]
          BY <3>2, <4>1, <4>4
        <5> QED BY <3>1, <5>1
      <4> QED BY <4>2, <4>3, <4>4
    <3>6. \A d \in Conns : Replaces(d, x) => Replaces(d, x)'
      BY <3>1, <3>2, <3>3
    <3> QED BY <3>1, <3>5, <3>6
  <2>4. CASE Remove(t)
    <3>1. IdOf[t[1]] = IdOf[x] => IdOf[x] = EmptyId
      BY <2>4 DEF Remove
    <3>2. clients[IdOf[x]] = x
      BY <2>4, <3>1 DEF Remove
    <3>3. Outgoing(x)
      BY <2>4, <3>1 DEF Remove
    <3>4. \A d \in Conns : Replaces(d, x) => Replaces(d, x)'
      BY <2>4 DEF Remove
    <3> QED BY <3>2, <3>3, <3>4
  <2>5. CASE PublishWill(t) BY <2>5 DEF PublishWill
  <2>6. CASE WillRaises(t) BY <2>6 DEF WillRaises
  <2> HIDE DEF Kept
  <2> QED BY <1>4, <2>1, <2>2, <2>3, <2>4, <2>5, <2>6 DEF EndStep, CleanUp
<1>5. ASSUME NEW c \in Conns, NEW f \in Filters, OpStep(c, f) PROVE Kept
  BY <1>5 DEF OpStep, AddToTable, AddToOwn, RemoveFromTable, RemoveFromOwn
<1>6. ASSUME NEW c \in Conns, NEW f \in Filters, NEW kind \in {"subscribe", "unsubscribe"},
             Packet(c, f, kind)
      PROVE  Kept
  BY <1>6 DEF Packet
<1>7. ASSUME UNCHANGED vars PROVE Kept
  BY <1>7 DEF vars
<1> HIDE DEF Kept, Replaces
<1> QED BY <1>1, <1>2, <1>3, <1>4, <1>5, <1>6, <1>7, <1>k DEF Next

(***************************************************************************)
(* A reader that ends without publishing the last will has found the        *)
(* connection overridden, or unlinked, which only overriding does.          *)
(***************************************************************************)
LEMMA WillStep == SettleInv /\ [Next]_vars => WillInv'
<1> SUFFICES ASSUME SettleInv, [Next]_vars PROVE WillInv'
  OBVIOUS
<1>0. /\ pc \in [Threads -> ConnectPc \cup EndPc \cup NeverServed \cup {"loop", "idle"}]
      /\ override \in [Conns -> BOOLEAN]
  BY DEF SettleInv, TypeOK
<1>w. WillInv BY DEF SettleInv
<1> USE <1>0, <1>w, SessionsAssumption DEF WillInv, Stopping
<1>1. ASSUME NEW c \in Conns, Connect(c) PROVE WillInv'
  BY <1>1 DEF Connect
<1>2. ASSUME NEW c \in Conns, ConnectStep(c) PROVE WillInv'
  BY <1>2 DEF ConnectStep, LookUp, Override, Disconnect, SweepPrevious, Assign, Link, Refuse
<1>3. ASSUME NEW t \in Threads, Fail(t) PROVE WillInv'
  BY <1>3 DEF Fail
<1>4. ASSUME NEW t \in Threads, EndStep(t) PROVE WillInv'
  <2>1. CASE Close(t)
    BY <2>1 DEF Close, SettleInv, LinkInv, StopperCleans, PlaceInv, Served, ConnectPc, NeverServed,
       Anonymous
  <2>2. CASE UnsubscribeAll(t) BY <2>2 DEF UnsubscribeAll
  <2>3. CASE CheckOverride(t) BY <2>3 DEF CheckOverride, Anonymous
  <2>4. CASE Remove(t) BY <2>4 DEF Remove
  <2>5. CASE PublishWill(t) BY <2>5 DEF PublishWill
  <2>6. CASE WillRaises(t) BY <2>6 DEF WillRaises
  <2> QED BY <1>4, <2>1, <2>2, <2>3, <2>4, <2>5, <2>6 DEF EndStep, CleanUp
<1>5. ASSUME NEW c \in Conns, NEW f \in Filters, OpStep(c, f) PROVE WillInv'
  BY <1>5 DEF OpStep, AddToTable, AddToOwn, RemoveFromTable, RemoveFromOwn
<1>6. ASSUME NEW c \in Conns, NEW f \in Filters, NEW kind \in {"subscribe", "unsubscribe"},
             Packet(c, f, kind)
      PROVE  WillInv'
  BY <1>6 DEF Packet
<1>7. CASE UNCHANGED vars
  BY <1>7 DEF vars
<1> HIDE DEF WillInv
<1> QED BY <1>1, <1>2, <1>3, <1>4, <1>5, <1>6, <1>7 DEF Next

\* When the broker starts there are no connections, and SettleInv holds.
LEMMA SettleInit == Init => SettleInv
<1> SUFFICES ASSUME Init PROVE SettleInv
  OBVIOUS
<1> USE SessionsAssumption DEF Init
<1>1. \A c \in Conns : /\ pc[Reader(c)] = "new" /\ pc[<<c, "write">>] = "loop"
                       /\ pc[Stopper(c)] = "idle"
  BY DEF FirstPc
<1>2. \A t \in Threads : pc[t] \in {"new", "loop", "idle"}
  BY DEF FirstPc
<1>3. pc \in [Threads -> {"new", "loop", "idle"}]
  BY <1>2
<1>4. TypeOK
  <2>1. pc \in [Threads -> ConnectPc \cup EndPc \cup NeverServed \cup {"loop", "idle"}]
    BY <1>3 DEF ConnectPc
  <2>2. \A c \in Conns : prev[c] = None /\ ~linked[c]
    OBVIOUS
  <2>3. /\ op \in [Steps -> {"idle", "subscribe", "add", "unsubscribe", "remove"}]
        /\ ops \in [Steps -> 0..MaxOps]
    BY DEF Steps
  <2>4. /\ prev \in [Conns -> Conns \cup {None}] /\ open \in [Conns -> BOOLEAN]
        /\ linked \in [Conns -> BOOLEAN] /\ override \in [Conns -> BOOLEAN]
        /\ clients \in [Ids -> Conns \cup {None}] /\ own \in [Conns -> SUBSET Filters]
        /\ \A i \in Ids : clients[i] = None
    OBVIOUS
  <2>5. table \subseteq Ids \X Filters /\ published \subseteq HasWill /\ lost \subseteq Raising
    OBVIOUS
  <2> QED BY <2>1, <2>2, <2>3, <2>4, <2>5 DEF TypeOK
<1>5. PlaceInv
  BY <1>1, <1>2 DEF PlaceInv, EndPc
<1>6. FreshInv
  BY DEF FreshInv
<1>7. LinkInv
  BY <1>1 DEF LinkInv, Served, ConnectPc
<1>8. RegistryInv /\ WillInv
  BY <1>1 DEF RegistryInv, WillInv
<1> QED BY <1>4, <1>5, <1>6, <1>7, <1>8 DEF SettleInv

\* SettleInv is inductive.
LEMMA SettleStep == SettleInv /\ [Next]_vars => SettleInv'
BY TypeStep, PlaceStep, FreshStep, LinkStep, RegistryStep, WillStep DEF SettleInv

\* SettleInv holds in every reachable state.
THEOREM SettleInvariance == Spec => []SettleInv
BY SettleInit, SettleStep, PTL DEF Spec

(***************************************************************************)
(* The variables keep their types; a connection is linked only once it is   *)
(* registered (read_loop), and overrides only what it found under its own   *)
(* id (add_client).                                                         *)
(***************************************************************************)
THEOREM SessionsType == Spec => []TypeOK
<1>1. SettleInv => TypeOK
  BY DEF SettleInv
<1> QED BY <1>1, SettleInvariance, PTL

\* What SettledLeaves promises follows from where the threads can be.
LEMMA SettleImplies == SettleInv => SettledLeaves
<1> SUFFICES ASSUME SettleInv, NEW c \in Conns, Settled(c)
             PROVE  /\ IdOf[c] # EmptyId => clients[IdOf[c]] # c
                    /\ c \in HasWill => \/ c \in published \cup lost \/ override[c]
                                       \/ pc[Reader(c)] # "done"
  BY DEF SettledLeaves
<1>1. \A d \in Conns : ~Replaces(d, c)
  BY DEF Settled, Replaces, ConnectPc
<1>2. CASE pc[Reader(c)] = "done"
  <2>1. IdOf[c] # EmptyId => clients[IdOf[c]] # c
    BY <1>1, <1>2 DEF SettleInv, RegistryInv, Outgoing, Settled, Stopping
  <2> QED BY <1>2, <2>1 DEF SettleInv, WillInv, Settled, Stopping
<1>3. CASE pc[Reader(c)] \in {"gone", "rejected"}
  BY <1>3, SessionsAssumption DEF SettleInv, FreshInv, NeverServed, Anonymous
<1> QED BY <1>2, <1>3 DEF Settled

(***************************************************************************)
(* However many connections contend for an id, one whose threads have all   *)
(* finished, and which none is about to replace, is not in Broker.clients,  *)
(* and its last will has been published, or publish has raised for it,      *)
(* unless it was overridden or never got as far as the loop                 *)
(* (handler.py 210-217, 293-299, 313-348).                                  *)
(***************************************************************************)
THEOREM SettledLeavesAlways == Spec => []SettledLeaves
BY SettleImplies, SettleInvariance, PTL

-----------------------------------------------------------------------------
(***************************************************************************)
(* An entry of the broker's table has an owner: only a connection that has  *)
(* been through the handshake takes a subscribe packet.                     *)
(***************************************************************************)
LEMMA OwnerStep == SettleInv /\ OwnerInv /\ [Next]_vars => OwnerInv'
<1> SUFFICES ASSUME SettleInv, OwnerInv, [Next]_vars PROVE OwnerInv'
  OBVIOUS
<1>0. /\ own \in [Conns -> SUBSET Filters]
      /\ op \in [Steps -> {"idle", "subscribe", "add", "unsubscribe", "remove"}]
  BY DEF SettleInv, TypeOK
<1>s. \A c \in Conns : Served(c) => Served(c)'
  BY ServedStable DEF SettleInv
<1> USE <1>0, <1>s DEF OwnerInv, Steps
<1>1. ASSUME NEW c \in Conns, Connect(c) \/ ConnectStep(c) PROVE OwnerInv'
  BY <1>1 DEF Connect, ConnectStep, LookUp, Override, Disconnect, SweepPrevious, Assign, Link,
     Refuse
<1>2. ASSUME NEW t \in Threads, Fail(t) \/ EndStep(t) PROVE OwnerInv'
  BY <1>2 DEF Fail, EndStep, CleanUp, Close, UnsubscribeAll, CheckOverride, Remove,
     PublishWill, WillRaises
<1>3. ASSUME NEW c \in Conns, NEW f \in Filters, OpStep(c, f) PROVE OwnerInv'
  <2>1. CASE AddToTable(c, f) BY <2>1 DEF AddToTable
  <2>2. CASE AddToOwn(c, f) BY <2>2 DEF AddToOwn
  <2>3. CASE RemoveFromTable(c, f) BY <2>3 DEF RemoveFromTable
  <2>4. CASE RemoveFromOwn(c, f) BY <2>4 DEF RemoveFromOwn
  <2> QED BY <1>3, <2>1, <2>2, <2>3, <2>4 DEF OpStep
<1>4. ASSUME NEW c \in Conns, NEW f \in Filters, NEW kind \in {"subscribe", "unsubscribe"},
             Packet(c, f, kind)
      PROVE  OwnerInv'
  BY <1>4 DEF Packet, Served, ConnectPc, NeverServed, Anonymous
<1>5. CASE UNCHANGED vars
  BY <1>5 DEF vars
<1> HIDE DEF OwnerInv
<1> QED BY <1>1, <1>2, <1>3, <1>4, <1>5 DEF Next

(***************************************************************************)
(* The two steps of a packet's thread keep to the agreement; a cleanup that *)
(* removes entries of the id belongs to a connection that is leaving or to  *)
(* one that is being replaced, and neither is in service and alone.         *)
(***************************************************************************)
LEMMA AgreeStep == SettleInv /\ OwnerInv /\ AgreeInv /\ [Next]_vars => AgreeInv'
<1> SUFFICES ASSUME SettleInv, OwnerInv, AgreeInv, [Next]_vars,
                    NEW x \in Conns, InService(x)', Alone(x)', NEW g \in Filters
             PROVE  Agreement(x, g)'
  BY DEF AgreeInv
<1>0. /\ pc \in [Threads -> ConnectPc \cup EndPc \cup NeverServed \cup {"loop", "idle"}]
      /\ open \in [Conns -> BOOLEAN]
      /\ override \in [Conns -> BOOLEAN]
      /\ own \in [Conns -> SUBSET Filters]
      /\ op \in [Steps -> {"idle", "subscribe", "add", "unsubscribe", "remove"}]
  BY DEF SettleInv, TypeOK
<1>a. InService(x) /\ Alone(x) => Agreement(x, g)
  BY DEF AgreeInv
<1>d. Alone(x) => \A d \in Conns \ {x} : IdOf[d] = IdOf[x] =>
                    ~Served(d) /\ pc[Reader(d)] \notin {"flag", "drop", "sweep"}
  BY DEF Alone, Served, ConnectPc, NeverServed, Anonymous
<1> USE <1>0
<1>1. ASSUME NEW c \in Conns, Connect(c) PROVE Agreement(x, g)'
  <2>1. InService(x) /\ Alone(x)
    BY <1>1 DEF Connect, InService, Alone, Anonymous
  <2> QED BY <1>1, <1>a, <2>1 DEF Connect, Agreement
<1>2. ASSUME NEW c \in Conns, ConnectStep(c) PROVE Agreement(x, g)'
  <2>1. Alone(x)
    BY <1>2 DEF ConnectStep, LookUp, Override, Disconnect, SweepPrevious, Assign, Link, Refuse,
       Alone, Anonymous
  <2>2. CASE Link(c) /\ c = x
    <3>1. ~Served(x) /\ \A d \in Conns : IdOf[d] = IdOf[x] => ~Served(d)
      BY <1>d, <2>1, <2>2 DEF Link, Served, ConnectPc
    <3>2. own[x] = {} /\ op[<<x, g>>] = "idle" /\ <<IdOf[x], g>> \notin table
      BY <3>1 DEF OwnerInv
    <3> QED BY <2>2, <3>2 DEF Link, Agreement
  <2>3. CASE ~(Link(c) /\ c = x)
    <3>1. InService(x)
      BY <1>2, <2>3 DEF ConnectStep, LookUp, Override, Disconnect, SweepPrevious, Assign, Link,
         Refuse, InService
    <3>2. Agreement(x, g)
      BY <1>a, <2>1, <3>1
    <3>3. ASSUME SweepPrevious(c) PROVE Agreement(x, g)'
      <4>1. c # x /\ IdOf[c] # IdOf[x]
        BY <1>d, <2>1, <3>1, <3>3 DEF SweepPrevious, InService
      <4>2. prev[c] \in Conns /\ IdOf[prev[c]] = IdOf[c]
        BY <3>3 DEF SweepPrevious, SettleInv, PlaceInv, TypeOK
      <4> QED BY <3>2, <3>3, <4>1, <4>2 DEF SweepPrevious, Agreement, Entries
    <3> QED BY <1>2, <3>2, <3>3 DEF ConnectStep, LookUp, Override, Disconnect, Assign, Link,
            Refuse, Agreement
  <2> QED BY <2>2, <2>3
<1>3. ASSUME NEW t \in Threads, Fail(t) PROVE Agreement(x, g)'
  <2>1. InService(x) /\ Alone(x)
    BY <1>3 DEF Fail, InService, Alone, Anonymous
  <2> QED BY <1>3, <1>a, <2>1 DEF Fail, Agreement
<1>4. ASSUME NEW t \in Threads, EndStep(t) PROVE Agreement(x, g)'
  <2>1. InService(x) /\ Alone(x)
    BY <1>4 DEF EndStep, CleanUp, Close, UnsubscribeAll, CheckOverride, Remove,
       PublishWill, WillRaises, InService,
       Alone, Anonymous
  <2>2. Agreement(x, g)
    BY <1>a, <2>1
  <2>3. ASSUME UnsubscribeAll(t) PROVE Agreement(x, g)'
    <3>1. t[1] # x
      BY <2>1, <2>3 DEF UnsubscribeAll, InService, SettleInv, PlaceInv
    <3>2. IdOf[t[1]] = IdOf[x] => own[t[1]] = {}
      BY <1>d, <2>1, <3>1 DEF OwnerInv
    <3> QED BY <2>2, <2>3, <3>2 DEF UnsubscribeAll, Agreement, Entries
  <2> QED BY <1>4, <2>2, <2>3 DEF EndStep, CleanUp, Close, CheckOverride, Remove, PublishWill,
             WillRaises, Agreement
<1>5. ASSUME NEW c \in Conns, NEW f \in Filters, OpStep(c, f) PROVE Agreement(x, g)'
  <2>1. InService(x) /\ Alone(x)
    BY <1>5 DEF OpStep, AddToTable, AddToOwn, RemoveFromTable, RemoveFromOwn, InService, Alone
  <2>2. Agreement(x, g)
    BY <1>a, <2>1
  <2>3. Served(c)
    BY <1>5 DEF OpStep, AddToTable, AddToOwn, RemoveFromTable, RemoveFromOwn, OwnerInv
  <2>4. c = x \/ IdOf[c] # IdOf[x]
    BY <1>d, <2>1, <2>3
  <2> USE DEF Agreement, Steps
  <2>5. CASE AddToTable(c, f) BY <2>2, <2>4, <2>5 DEF AddToTable
  <2>6. CASE AddToOwn(c, f) BY <2>2, <2>4, <2>6 DEF AddToOwn
  <2>7. CASE RemoveFromTable(c, f) BY <2>2, <2>4, <2>7 DEF RemoveFromTable
  <2>8. CASE RemoveFromOwn(c, f) BY <2>2, <2>4, <2>8 DEF RemoveFromOwn
  <2> HIDE DEF Agreement
  <2> QED BY <1>5, <2>5, <2>6, <2>7, <2>8 DEF OpStep
<1>6. ASSUME NEW c \in Conns, NEW f \in Filters, NEW kind \in {"subscribe", "unsubscribe"},
             Packet(c, f, kind)
      PROVE  Agreement(x, g)'
  <2>1. InService(x) /\ Alone(x)
    BY <1>6 DEF Packet, InService, Alone
  <2> QED BY <1>6, <1>a, <2>1 DEF Packet, Agreement, Steps
<1>7. CASE UNCHANGED vars
  BY <1>7, <1>a DEF vars, InService, Alone, Agreement
<1> QED BY <1>1, <1>2, <1>3, <1>4, <1>5, <1>6, <1>7 DEF Next

(***************************************************************************)
(* Broker.subscriptions and Client.subscriptions, changed one after the     *)
(* other by whichever thread handles the packet, agree on every filter that *)
(* no packet is being handled for, as long as no other connection uses the  *)
(* id (handler.py 258-299, broker.py 131-146).                              *)
(***************************************************************************)
THEOREM SubscriptionsAgreeAlways == Spec => []SubscriptionsAgree
<1>1. Init => OwnerInv /\ AgreeInv
  <2> SUFFICES ASSUME Init PROVE OwnerInv /\ AgreeInv
    OBVIOUS
  <2>1. \A c \in Conns : pc[Reader(c)] = "new"
    BY DEF Init, FirstPc
  <2> QED BY <2>1 DEF Init, OwnerInv, Steps, AgreeInv, InService
<1>2. SettleInv /\ OwnerInv /\ AgreeInv /\ [Next]_vars => OwnerInv' /\ AgreeInv'
  BY OwnerStep, AgreeStep
<1>3. AgreeInv => SubscriptionsAgree
  BY DEF AgreeInv, SubscriptionsAgree, Agreement
<1> QED BY <1>1, <1>2, <1>3, SettleInvariance, PTL DEF Spec

\* close() is for good: no step of a handler opens a connection again.
LEMMA StaysClosed == TypeOK /\ [Next]_vars => \A c \in Conns : open'[c] => open[c]
<1> SUFFICES ASSUME TypeOK, [Next]_vars, NEW d \in Conns, open'[d] PROVE open[d]
  OBVIOUS
<1>0. open \in [Conns -> BOOLEAN]
  BY DEF TypeOK
<1> USE <1>0
<1>1. ASSUME NEW c \in Conns, Connect(c) \/ ConnectStep(c) PROVE open[d]
  BY <1>1 DEF Connect, ConnectStep, LookUp, Override, Disconnect, SweepPrevious, Assign, Link,
     Refuse
<1>2. ASSUME NEW t \in Threads, Fail(t) \/ EndStep(t) PROVE open[d]
  BY <1>2 DEF Fail, EndStep, CleanUp, Close, UnsubscribeAll, CheckOverride, Remove,
     PublishWill, WillRaises
<1>3. ASSUME NEW c \in Conns, NEW f \in Filters, OpStep(c, f) PROVE open[d]
  BY <1>3 DEF OpStep, AddToTable, AddToOwn, RemoveFromTable, RemoveFromOwn
<1>4. ASSUME NEW c \in Conns, NEW f \in Filters, NEW kind \in {"subscribe", "unsubscribe"},
             Packet(c, f, kind)
      PROVE  open[d]
  BY <1>4 DEF Packet
<1>5. CASE UNCHANGED vars
  BY <1>5 DEF vars
<1> QED BY <1>1, <1>2, <1>3, <1>4, <1>5 DEF Next

=============================================================================
