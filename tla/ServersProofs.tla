--------------------------- MODULE ServersProofs ----------------------------
(***************************************************************************)
(* Proofs about Servers for any number of connections: stopping a server    *)
(* closes what it accepted, and whoever disconnects a connection, its       *)
(* registration and last will are seen to.                                  *)
(***************************************************************************)
EXTENDS Servers, SessionsProofs, SequenceTheorems

USE DEF flags, subscribing, wills, Goto, Reader, Threads, Stopper, server, stopping, liveness, serverVars

\* A list that nothing has been put on.
LEMMA EmptyList == SE!ToSet(<<>>) = {} /\ SE!IsInjective(<<>>)
<1>1. DOMAIN <<>> = {}
  OBVIOUS
<1> QED BY <1>1 DEF SE!ToSet, SE!IsInjective

\* Appending a new element keeps a sequence injective and adds that element to its set.
LEMMA AppendNew ==
  ASSUME NEW S, NEW s \in Seq(S), NEW e \in S
  PROVE  /\ SE!ToSet(Append(s, e)) = SE!ToSet(s) \cup {e}
         /\ SE!IsInjective(s) /\ e \notin SE!ToSet(s) => SE!IsInjective(Append(s, e))
<1> DEFINE t == Append(s, e)
<1>1. /\ Len(t) = Len(s) + 1 /\ DOMAIN t = 1..Len(s) + 1 /\ DOMAIN s = 1..Len(s)
      /\ \A i \in 1..Len(s) : t[i] = s[i]
      /\ t[Len(s) + 1] = e
  BY AppendProperties, LenProperties
<1>2. Len(s) \in Nat
  BY LenProperties
<1> HIDE DEF t
<1>3. SE!ToSet(t) = SE!ToSet(s) \cup {e}
  BY <1>1, <1>2 DEF SE!ToSet
<1>4. SE!IsInjective(s) /\ e \notin SE!ToSet(s) => SE!IsInjective(t)
  BY <1>1, <1>2 DEF SE!ToSet, SE!IsInjective
<1> QED BY <1>3, <1>4 DEF t

\* What list.pop() leaves of a nonempty sequence without repetitions.
LEMMA PopLast ==
  ASSUME NEW S, NEW s \in Seq(S), s # <<>>, SE!IsInjective(s)
  PROVE  /\ SE!Front(s) \in Seq(S) /\ SE!Last(s) \in S
         /\ SE!IsInjective(SE!Front(s))
         /\ SE!ToSet(SE!Front(s)) = SE!ToSet(s) \ {SE!Last(s)}
<1> DEFINE n == Len(s)
           t == SE!Front(s)
<1>1. n \in Nat /\ n # 0 /\ DOMAIN s = 1..n
  BY LenProperties, EmptySeq
<1>2. /\ t \in Seq(S) /\ Len(t) = n - 1
      /\ \A i \in 1..(n - 1) : t[i] = s[i]
  <2>1. t = SubSeq(s, 1, n - 1)
    BY DEF SE!Front
  <2>2. 1 \in 1..n + 1 /\ n - 1 \in 0..n
    BY <1>1
  <2> QED BY <1>1, <2>1, <2>2, SubSeqProperties
<1>3. DOMAIN t = 1..(n - 1)
  BY <1>2, LenProperties
<1>4. SE!Last(s) = s[n] /\ s[n] \in S
  BY <1>1, ElementOfSeq DEF SE!Last
<1> HIDE DEF n, t
<1>5. SE!IsInjective(t)
  BY <1>1, <1>2, <1>3 DEF SE!IsInjective
<1>6. SE!ToSet(t) = SE!ToSet(s) \ {SE!Last(s)}
  BY <1>1, <1>2, <1>3, <1>4 DEF SE!IsInjective, SE!ToSet
<1> QED BY <1>2, <1>4, <1>5, <1>6 DEF t

-----------------------------------------------------------------------------
(***************************************************************************)
(* A connection that has been started is open only while stop can still     *)
(* find it on the list, or is about to: handle_client lists what it has     *)
(* just accepted, once.  After stop has found the list empty, what is on it *)
(* came too late.                                                           *)
(***************************************************************************)
StopInv ==
  /\ listed \in Seq(Conns)
  /\ spc \in {"handle", "list"} => accepted # None
  /\ spc \in {"check", "handle"} => accepted \notin started
  /\ spc = "list" => accepted \in started \ SE!ToSet(listed)
  /\ \A c \in started : open[c] =>
       c \in SE!ToSet(listed) \cup unlisted \/ (spc = "list" /\ accepted = c)
  /\ mpc \in {"close", "join", "joined"} => SE!ToSet(listed) \subseteq late
  /\ mpc = "joined" => spc = "ended"
  /\ mpc = "main loop" => \A c \in Conns : pc[Stopper(c)] = "idle"

ServersInv == ServersTypeOK /\ StopInv /\ SettleInv

\* A handler's step is not one of the main thread where that has not begun to disconnect.
LEMMA StaysIdle ==
  ASSUME TypeOK, [Next]_vars, NEW d \in Conns, pc[Stopper(d)] = "idle"
  PROVE  pc'[Stopper(d)] = "idle"
<1>0. pc \in [Threads -> ConnectPc \cup EndPc \cup NeverServed \cup {"loop", "idle"}]
  BY DEF TypeOK
<1> USE <1>0
<1>1. ASSUME NEW c \in Conns, Connect(c) \/ ConnectStep(c) PROVE pc'[Stopper(d)] = "idle"
  BY <1>1 DEF Connect, ConnectStep, LookUp, Override, Disconnect, SweepPrevious, Assign, Link,
     Refuse
<1>2. ASSUME NEW t \in Threads, Fail(t) \/ EndStep(t) PROVE pc'[Stopper(d)] = "idle"
  <2>1. \A u \in Threads : u # t => pc'[u] = pc[u]
    BY <1>2 DEF Fail, EndStep, CleanUp, Close, UnsubscribeAll, CheckOverride, Remove,
       PublishWill, WillRaises
  <2>2. pc[t] # "idle"
    BY <1>2 DEF Fail, EndStep, CleanUp, Close, UnsubscribeAll, CheckOverride, Remove,
       PublishWill, WillRaises
  <2> QED BY <2>1, <2>2
<1>3. ASSUME NEW c \in Conns, NEW f \in Filters, OpStep(c, f) PROVE pc'[Stopper(d)] = "idle"
  BY <1>3 DEF OpStep, AddToTable, AddToOwn, RemoveFromTable, RemoveFromOwn
<1>4. ASSUME NEW c \in Conns, NEW f \in Filters, NEW kind \in {"subscribe", "unsubscribe"},
             Packet(c, f, kind)
      PROVE  pc'[Stopper(d)] = "idle"
  BY <1>4 DEF Packet
<1>5. CASE UNCHANGED vars
  BY <1>5 DEF vars
<1> QED BY <1>1, <1>2, <1>3, <1>4, <1>5 DEF Next

\* Only stop changes the handlers' state from outside; all else are their own steps.
LEMMA HandlersStep == ServersTypeOK /\ [ServersNext]_allVars => [Next]_vars \/ PopClient
<1> SUFFICES ASSUME ServersTypeOK, [ServersNext]_allVars, ~PopClient PROVE [Next]_vars
  OBVIOUS
<1>1. CASE ServerStep \/ Stop \/ StopStep
  BY <1>1 DEF ServerStep, Start, Bind, WhileAlive, AcceptKnock, AcceptRaises, Check,
     StartThreads, HandleRaises, List, Stop, StopStep, WakeLoop, CloseServer, Join
<1>2. ASSUME NEW c \in Conns, Accept(c) PROVE [Next]_vars
  BY <1>2 DEF Accept
<1>3. ASSUME NEW c \in started,
             HandlerStep(\/ Connect(c) /\ (c \in Silent => Goto(Reader(c), "refuse"))
                         \/ ConnectStep(c))
      PROVE  Next
  BY <1>3 DEF HandlerStep, Next, ServersTypeOK
<1>4. ASSUME NEW t \in Running, HandlerStep(Fail(t) \/ CleanUp(t) \/ (t[2] # "stop" /\ WillRaises(t)))
      PROVE  Next
  BY <1>4 DEF HandlerStep, Next, Running, EndStep
<1>4a. ASSUME NEW c \in Conns, StopRaises(c) PROVE Next
  <2>1. EndStep(Stopper(c)) /\ Stopper(c) \in Threads
    BY <1>4a DEF StopRaises, EndStep
  <2> QED BY <2>1 DEF Next
<1>5. CASE UNCHANGED allVars
  BY <1>5 DEF allVars
<1> QED BY <1>1, <1>2, <1>3, <1>4, <1>4a, <1>5 DEF ServersNext

(***************************************************************************)
(* disconnect() by the main thread keeps what the handlers rely on: it      *)
(* unlinks a connection at whatever point it has reached, and by the same   *)
(* step takes its cleanup upon itself.                                      *)
(***************************************************************************)
LEMMA PopKeepsHandlers == ServersInv /\ PopClient => SettleInv'
<1> SUFFICES ASSUME ServersInv, PopClient PROVE SettleInv'
  OBVIOUS
<1>1. PICK c \in Conns : c = SE!Last(listed)
  BY PopLast DEF ServersInv, ServersTypeOK, StopInv, PopClient, Remaining
<1>2. /\ pc \in [Threads -> ConnectPc \cup EndPc \cup NeverServed \cup {"loop", "idle"}]
      /\ linked \in [Conns -> BOOLEAN] /\ open \in [Conns -> BOOLEAN]
  BY DEF ServersInv, SettleInv, TypeOK
<1>3. /\ pc' = [pc EXCEPT ![Stopper(c)] = "unsubscribe"]
      /\ linked' = [linked EXCEPT ![c] = FALSE]
      /\ open' = [open EXCEPT ![c] = FALSE]
      /\ UNCHANGED <<prev, override, clients, table, own, op, ops, wills>>
  BY <1>1 DEF PopClient
<1>4. /\ \A d \in Conns : pc'[Reader(d)] = pc[Reader(d)] /\ pc'[<<d, "write">>] = pc[<<d, "write">>]
      /\ \A d \in Conns : Stopping(d) => Stopping(d)'
      /\ Stopping(c)'
      /\ \A d \in Conns \ {c} : pc'[Stopper(d)] = pc[Stopper(d)] /\ linked'[d] = linked[d]
      /\ \A t \in Threads : pc'[t] = "will" => pc[t] = "will"
  <2>1. Stopper(c) \in Threads /\ pc'[Stopper(c)] = "unsubscribe"
    BY <1>1, <1>2, <1>3
  <2>2. \A t \in Threads : t # Stopper(c) => pc'[t] = pc[t]
    BY <1>1, <1>2, <1>3
  <2>3. \A d \in Conns : /\ Reader(d) \in Threads /\ Reader(d) # Stopper(c)
                         /\ <<d, "write">> \in Threads /\ <<d, "write">> # Stopper(c)
                         /\ Stopper(d) \in Threads
                         /\ d # c => Stopper(d) # Stopper(c)
    BY <1>1
  <2>4. \A d \in Conns \ {c} : linked'[d] = linked[d]
    BY <1>1, <1>2, <1>3
  <2> HIDE DEF Reader, Stopper, Threads
  <2> QED BY <1>1, <2>1, <2>2, <2>3, <2>4 DEF Stopping
<1>5. TypeOK'
  BY <1>1, <1>3, <1>4 DEF ServersInv, SettleInv, TypeOK, EndPc
<1>6. PlaceInv'
  <2>1. \A d \in Conns : open'[d] => d # c /\ open[d]
    BY <1>1, <1>2, <1>3
  <2> QED BY <1>1, <1>3, <1>4, <2>1 DEF ServersInv, SettleInv, PlaceInv, Served, Stopping
<1>7. FreshInv'
  BY <1>3, <1>4 DEF ServersInv, SettleInv, FreshInv
<1>8. LinkInv'
  <2>1. ASSUME NEW d \in Conns, Served(d)', ~linked'[d] PROVE (override[d] \/ StopperCleans(d))'
    <3>1. CASE d = c
      BY <1>4, <3>1 DEF StopperCleans
    <3>2. CASE d # c
      <4>1. override[d] \/ StopperCleans(d)
        BY <1>4, <2>1, <3>2 DEF ServersInv, SettleInv, LinkInv, Served
      <4> QED BY <1>3, <1>4, <3>2, <4>1 DEF StopperCleans
    <3> QED BY <3>1, <3>2
  <2>2. \A d \in Conns : pc'[Reader(d)] = "drop" => override'[prev'[d]]
    BY <1>3, <1>4 DEF ServersInv, SettleInv, LinkInv
  <2> QED BY <2>1, <2>2 DEF LinkInv
<1>9. RegistryInv'
  <2> SUFFICES ASSUME NEW x \in Conns, (clients[IdOf[x]] = x /\ Outgoing(x))'
               PROVE  \E d \in Conns : Replaces(d, x)'
    BY DEF RegistryInv
  <2>1. clients[IdOf[x]] = x /\ Outgoing(x)
    BY <1>3, <1>4 DEF Outgoing
  <2>2. PICK d \in Conns : Replaces(d, x)
    BY <2>1 DEF ServersInv, SettleInv, RegistryInv
  <2> QED BY <1>3, <1>4, <2>2 DEF Replaces
<1>10. WillInv'
  <2> SUFFICES ASSUME NEW d \in HasWill, pc'[Reader(d)] = "done"
               PROVE  (d \in published \cup lost \/ override[d] \/ Stopping(d) \/ pc[Stopper(d)] = "will")'
    BY DEF WillInv
  <2>1. d \in Conns
    BY SessionsAssumption
  <2>2. d \in published \cup lost \/ override[d] \/ Stopping(d) \/ pc[Stopper(d)] = "will"
    BY <1>4, <2>1 DEF ServersInv, SettleInv, WillInv
  <2> QED BY <1>3, <1>4, <2>1, <2>2
<1> QED BY <1>5, <1>6, <1>7, <1>8, <1>9, <1>10 DEF SettleInv

(***************************************************************************)
(* The server's thread and the main thread keep to StopInv: what the loop   *)
(* accepts is put on the list once, after its threads have been started,    *)
(* and is closed when it is taken off.                                      *)
(***************************************************************************)
LEMMA StopStepLemma == ServersInv /\ [ServersNext]_allVars => (ServersTypeOK /\ StopInv)'
<1> SUFFICES ASSUME ServersInv, [ServersNext]_allVars PROVE (ServersTypeOK /\ StopInv)'
  OBVIOUS
<1>t. ServersTypeOK /\ StopInv /\ SettleInv /\ TypeOK
  BY DEF ServersInv, SettleInv
<1>e. open \in [Conns -> BOOLEAN]
  BY DEF ServersInv, SettleInv, TypeOK
<1>s. UNCHANGED vars => open' = open /\ pc' = pc
  BY DEF vars
<1> USE <1>t, <1>s DEF ServersTypeOK, StopInv
<1>1. CASE ServerStep
  <2>1. CASE Start BY <2>1 DEF Start
  <2>2. CASE Bind BY <2>2 DEF Bind
  <2>3. CASE WhileAlive BY <2>3 DEF WhileAlive
  <2>4. CASE AcceptKnock BY <2>4, SessionsAssumption DEF AcceptKnock
  <2>5. CASE AcceptRaises BY <2>5 DEF AcceptRaises
  <2>6. CASE Check BY <2>6 DEF Check
  <2>7. CASE StartThreads BY <2>7 DEF StartThreads
  <2>7a. CASE HandleRaises BY <2>7a DEF HandleRaises
  <2>8. CASE List
    <3>1. /\ accepted \in Conns /\ listed' = Append(listed, accepted)
          /\ accepted \in started /\ accepted \notin SE!ToSet(listed)
      BY <2>8 DEF List
    <3>2. /\ SE!ToSet(listed') = SE!ToSet(listed) \cup {accepted}
          /\ SE!IsInjective(listed')
      <4>1. listed \in Seq(Conns) /\ SE!IsInjective(listed)
        OBVIOUS
      <4> HIDE DEF ServersTypeOK, StopInv
      <4> QED BY <3>1, <4>1, AppendNew
    <3>3. listed' \in Seq(Conns)
      BY <3>1, AppendProperties
    <3> QED BY <2>8, <3>1, <3>2, <3>3 DEF List
  <2> HIDE DEF ServersTypeOK, StopInv
  <2> QED BY <1>1, <2>1, <2>2, <2>3, <2>4, <2>5, <2>6, <2>7, <2>7a, <2>8 DEF ServerStep
<1>2. CASE Stop BY <1>2 DEF Stop
<1>3. CASE PopClient
  <2>1. /\ listed # <<>> /\ listed' = SE!Front(listed) /\ mpc = "drain"
        /\ open' = [open EXCEPT ![SE!Last(listed)] = FALSE]
        /\ UNCHANGED <<spc, accepted, started, unlisted, late, mpc, alive, revived>>
    BY <1>3 DEF PopClient, Remaining
  <2>2. /\ listed' \in Seq(Conns) /\ SE!Last(listed) \in Conns
        /\ SE!IsInjective(listed')
        /\ SE!ToSet(listed') = SE!ToSet(listed) \ {SE!Last(listed)}
    BY <2>1, PopLast
  <2> QED BY <1>e, <2>1, <2>2
<1>4. CASE WakeLoop
  <2> QED BY <1>4, EmptyList DEF WakeLoop, Remaining
<1>5. CASE CloseServer BY <1>5 DEF CloseServer
<1>6. CASE Join BY <1>6 DEF Join
<1>7. ASSUME NEW c \in Conns, Accept(c) PROVE (ServersTypeOK /\ StopInv)'
  BY <1>7 DEF Accept
<1>8. CASE [Next]_vars /\ UNCHANGED serverVars
  <2>1. \A c \in Conns : open'[c] => open[c]
    BY <1>8, StaysClosed
  <2>2. mpc = "main loop" => \A c \in Conns : pc'[Stopper(c)] = "idle"
    BY <1>8, StaysIdle
  <2> QED BY <1>8, <2>1, <2>2
<1> HIDE DEF ServersTypeOK, StopInv
<1>9. CASE UNCHANGED allVars
  BY <1>9, <1>8 DEF allVars
<1>10. ASSUME NEW c \in started,
              HandlerStep(\/ Connect(c) /\ (c \in Silent => Goto(Reader(c), "refuse"))
                          \/ ConnectStep(c))
       PROVE  (ServersTypeOK /\ StopInv)'
  <2>1. c \in Conns
    BY DEF ServersTypeOK
  <2> QED BY <1>8, <1>10, <2>1 DEF HandlerStep, Next
<1>11. ASSUME NEW t \in Running, HandlerStep(Fail(t) \/ CleanUp(t) \/ (t[2] # "stop" /\ WillRaises(t)))
       PROVE  (ServersTypeOK /\ StopInv)'
  BY <1>8, <1>11 DEF HandlerStep, Next, Running, EndStep
<1>12. ASSUME NEW c \in Conns, StopRaises(c) PROVE (ServersTypeOK /\ StopInv)'
  <2>1. open' = open /\ mpc' = "raised" /\ UNCHANGED <<server, alive, revived>>
    BY <1>12 DEF StopRaises, WillRaises
  <2>2. mpc # "main loop"
    BY <1>12 DEF StopRaises, WillRaises, StopInv
  <2> QED BY <2>1, <2>2 DEF ServersTypeOK, StopInv
<1> QED BY <1>1, <1>2, <1>3, <1>4, <1>5, <1>6, <1>7, <1>9, <1>10, <1>11, <1>12
        DEF ServersNext, StopStep

\* ServersInv holds in every reachable state of a server with its handlers.
THEOREM ServersInvariance == ServersSpec => []ServersInv
<1>1. ServersInit => ServersInv
  <2> SUFFICES ASSUME ServersInit PROVE ServersInv
    OBVIOUS
  <2>1. SettleInv
    BY SettleInit DEF ServersInit
  <2>2. /\ spc = "start" /\ accepted = None /\ started = {} /\ unlisted = {} /\ late = {}
        /\ mpc = "main loop" /\ listed = <<>>
    BY DEF ServersInit
  <2>e. listed \in Seq(Conns) /\ SE!ToSet(listed) = {} /\ SE!IsInjective(listed)
    <3>1. <<>> \in Seq(Conns)
      OBVIOUS
    <3> QED BY <2>2, <3>1, EmptyList, Zenon
  <2>3. ServersTypeOK
    BY <2>2, <2>e DEF ServersTypeOK
  <2>3a. \A c \in Conns : pc[Stopper(c)] = "idle"
    BY DEF ServersInit, Init, FirstPc
  <2>4. StopInv
    BY <2>2, <2>3a, <2>e DEF StopInv
  <2> QED BY <2>1, <2>3, <2>4 DEF ServersInv
<1>2. ServersInv /\ [ServersNext]_allVars => ServersInv'
  <2> SUFFICES ASSUME ServersInv, [ServersNext]_allVars PROVE ServersInv'
    OBVIOUS
  <2>1. ASSUME [Next]_vars PROVE SettleInv'
    BY <2>1, SettleStep DEF ServersInv
  <2>2. ASSUME PopClient PROVE SettleInv'
    BY <2>2, PopKeepsHandlers
  <2>3. SettleInv'
    BY <2>1, <2>2, HandlersStep DEF ServersInv
  <2> QED BY <2>3, StopStepLemma DEF ServersInv
<1> QED BY <1>1, <1>2, PTL DEF ServersSpec

\* The server's variables keep their types; alive stays cleared once stop has cleared
\* it, unless the server's thread only then began (socket.py 74-120).
THEOREM ServersType == ServersSpec => []ServersTypeOK
<1>1. ServersInv => ServersTypeOK
  BY DEF ServersInv
<1> QED BY <1>1, ServersInvariance, PTL

(***************************************************************************)
(* When join has returned, every connection that the server has started is  *)
(* closed, except those that handle_client listed after SocketServer.stop   *)
(* had found the list empty, or could not start the write thread of         *)
(* (socket.py 74-94, 116-120).                                              *)
(***************************************************************************)
THEOREM StopClosesAlways == ServersSpec => []StopCloses
<1>1. ServersInv => StopCloses
  <2> SUFFICES ASSUME ServersInv, mpc = "joined", NEW c \in started, open[c]
               PROVE  c \in late \cup unlisted
    BY DEF StopCloses
  <2>1. c \in SE!ToSet(listed) \cup unlisted
    BY DEF ServersInv, StopInv
  <2> QED BY <2>1 DEF ServersInv, StopInv
<1> QED BY <1>1, ServersInvariance, PTL

(***************************************************************************)
(* Stopping the server at any point does not keep a connection in the       *)
(* registry, or lose its last will unless publish raises for it: what the   *)
(* handler's own threads leave undone because stop has unlinked it, the     *)
(* main thread does, before it goes on or leaves stop with the exception    *)
(* (socket.py 76-78, handler.py 210-217, 293-299, 313-348).                 *)
(***************************************************************************)
THEOREM StopSettles == ServersSpec => []SettledLeaves
<1>1. ServersInv => SettledLeaves
  BY SettleImplies DEF ServersInv
<1> QED BY <1>1, ServersInvariance, PTL

=============================================================================
