------------------------------ MODULE Servers ------------------------------
(***************************************************************************)
(* A server of the broker: the thread that accepts connections and starts   *)
(* their Handlers, and the main thread that stops it when the broker is     *)
(* interrupted, while the Handlers of Sessions run.  The interrupt may come *)
(* at any time from Server.__enter__ on, where the server's thread has been *)
(* started and need not have taken a step.  The threads of subscribe and    *)
(* unsubscribe packets, which no server touches, are left to Sessions.      *)
(***************************************************************************)
EXTENDS Sessions, Sequences

SE == INSTANCE SequencesExt

CONSTANT Silent   \* bound: connections that send no CONNECT

ASSUME SilentAssumption == Silent \subseteq Conns

VARIABLES spc,      \* where the server's thread is
          mpc,      \* where the main thread is
          alive,    \* SocketServer.alive
          shut,     \* SocketServer.server has been closed
          knock,    \* the connection of stop_socket waits to be accepted
          accepted, \* loop's local client_socket; None: the one of stop_socket
          started,  \* connections whose Handler has been started (history)
          listed,   \* SocketServer.clients
          unlisted, \* connections that read, but whose start raised then (history)
          late,     \* connections listed after stop has found the list empty (history)
          revived   \* loop has set alive after stop cleared it (history)

server == <<spc, accepted, started, listed, unlisted, late>>
stopping == <<mpc, shut, knock>>
liveness == <<alive, revived>>
serverVars == <<server, stopping, liveness>>
allVars == <<vars, serverVars>>

ServersInit == /\ Init
               /\ spc = "start" /\ accepted = None /\ started = {} /\ listed = <<>>
               /\ unlisted = {} /\ late = {}
               /\ mpc = "main loop" /\ shut = FALSE /\ knock = FALSE
               /\ alive = FALSE /\ revived = FALSE

-----------------------------------------------------------------------------
(* SocketServer.loop *)

\* self.alive = True, whatever has happened since the thread was started.
Start == /\ spc = "start"
         /\ alive' = TRUE
         /\ revived' = (mpc # "main loop")
         /\ spc' = "bind"
         /\ UNCHANGED <<vars, accepted, started, listed, unlisted, late, stopping>>

\* setsockopt, bind and listen, which raise on a closed socket.
Bind == /\ spc = "bind"
        /\ spc' \in IF shut THEN {"ended"} ELSE {"loop", "ended"}
        /\ UNCHANGED <<vars, accepted, started, listed, unlisted, late, stopping, liveness>>

WhileAlive == /\ spc = "loop"
              /\ spc' = IF alive THEN "accept" ELSE "ended"
              /\ UNCHANGED <<vars, accepted, started, listed, unlisted, late, stopping, liveness>>

Accept(c) == /\ spc = "accept" /\ ~shut
             /\ c \notin started
             /\ accepted' = c
             /\ spc' = "check"
             /\ UNCHANGED <<vars, started, listed, unlisted, late, stopping, liveness>>

AcceptKnock == /\ spc = "accept" /\ ~shut /\ knock
               /\ knock' = FALSE
               /\ accepted' = None
               /\ spc' = "check"
               /\ UNCHANGED <<vars, started, listed, unlisted, late, mpc, shut, liveness>>

AcceptRaises == /\ spc = "accept" /\ shut
                /\ spc' = IF alive THEN "loop" ELSE "ended"
                /\ UNCHANGED <<vars, accepted, started, listed, unlisted, late, stopping, liveness>>

\* "if not self.alive: break"; the Handler of stop_socket's own connection ends at once.
Check == /\ spc = "check"
         /\ spc' = CASE ~alive -> "ended"
                     [] alive /\ accepted = None -> "loop"
                     [] OTHER -> "handle"
         /\ UNCHANGED <<vars, accepted, started, listed, unlisted, late, stopping, liveness>>

\* handle_client: new_connection starts both threads ...
StartThreads == /\ spc = "handle"
                /\ started' = started \cup {accepted}
                /\ spc' = "list"
                /\ UNCHANGED <<vars, accepted, listed, unlisted, late, stopping, liveness>>

\* ... which may raise before the first or before the second, and the loop goes on ...
HandleRaises == /\ spc = "handle"
                /\ started' \in {started, started \cup {accepted}}
                /\ unlisted' = unlisted \cup (started' \ started)
                /\ accepted' = None
                /\ spc' = "loop"
                /\ UNCHANGED <<vars, listed, late, stopping, liveness>>

\* ... self.clients.append(client)
List == /\ spc = "list"
        /\ listed' = Append(listed, accepted)
        /\ late' = IF mpc \in {"main loop", "drain", "raised"} THEN late ELSE late \cup {accepted}
        /\ accepted' = None
        /\ spc' = "loop"
        /\ UNCHANGED <<vars, started, unlisted, stopping, liveness>>

-----------------------------------------------------------------------------
(* Server.__exit__: SocketServer.stop, then join *)

\* mutant: the flag stays.
StopLeavesAlive == /\ mpc = "main loop"
                   /\ mpc' = "drain"
                   /\ UNCHANGED <<vars, server, shut, knock, liveness>>

Stop == /\ mpc = "main loop"
        /\ alive' = FALSE
        /\ mpc' = "drain"
        /\ UNCHANGED <<vars, server, shut, knock, revived>>

NoneInProgress == \A c \in Conns : pc[Stopper(c)] \in {"idle", "done"}

\* mutant: one connection only ("if" for "while").
More == listed # <<>> /\ \A c \in Conns : pc[Stopper(c)] = "idle"
Remaining == listed # <<>>

\* self.clients.pop().disconnect(): linked = False, close() ...
PopClient == LET c == SE!Last(listed) IN
  /\ mpc = "drain" /\ NoneInProgress
  /\ Remaining
  /\ listed' = SE!Front(listed)
  /\ linked' = [linked EXCEPT ![c] = FALSE]
  /\ open' = [open EXCEPT ![c] = FALSE]
  /\ Goto(Stopper(c), "unsubscribe")
  /\ UNCHANGED <<prev, override, clients, table, subscribing, wills>>
  /\ UNCHANGED <<spc, accepted, started, unlisted, late, stopping, liveness>>

\* ... and handle_disconnected, by CleanUp of Sessions.  A last will that raises
\* takes the main thread out of stop.
StopRaises(c) == /\ WillRaises(Stopper(c))
                 /\ mpc' = "raised"
                 /\ UNCHANGED <<server, shut, knock, liveness>>

\* The list is empty; stop_socket connects, if anyone listens.
WakeLoop == /\ mpc = "drain" /\ NoneInProgress
            /\ ~Remaining
            /\ knock' = (spc \in {"loop", "accept", "check", "handle", "list"})
            /\ mpc' = "close"
            /\ UNCHANGED <<vars, server, shut, liveness>>

\* self.server.shutdown, self.server.close
CloseServer == /\ mpc = "close"
               /\ shut' = TRUE
               /\ mpc' = "join"
               /\ UNCHANGED <<vars, server, knock, liveness>>

Join == /\ mpc = "join" /\ spc = "ended"
        /\ mpc' = "joined"
        /\ UNCHANGED <<vars, server, shut, knock, liveness>>

-----------------------------------------------------------------------------

ServerStep == \/ Start \/ Bind \/ WhileAlive \/ AcceptKnock \/ AcceptRaises \/ Check
              \/ StartThreads \/ HandleRaises \/ List
StopStep == PopClient \/ WakeLoop \/ CloseServer \/ Join

\* The write thread of a connection whose start raised has not been started.
Running == Threads \ {<<c, "write">> : c \in unlisted}

HandlerStep(A) == A /\ UNCHANGED serverVars

ServersNext ==
  \/ ServerStep \/ Stop \/ StopStep
  \/ \E c \in Conns : Accept(c)
  \/ \E c \in started : HandlerStep(\/ Connect(c) /\ (c \in Silent => Goto(Reader(c), "refuse"))
                                   \/ ConnectStep(c))
  \/ \E t \in Running : HandlerStep(Fail(t) \/ CleanUp(t) \/ (t[2] # "stop" /\ WillRaises(t)))
  \/ \E c \in Conns : StopRaises(c)

\* Threads run, and a read from a closed socket fails; no client need connect
\* and no interrupt need come.
ServersFairness ==
  /\ WF_allVars(ServerStep) /\ WF_allVars(StopStep)
  /\ \A c \in Conns : WF_allVars(HandlerStep(ConnectStep(c)))
  /\ \A c \in Conns : WF_allVars(HandlerStep(Fail(Reader(c)) /\ ~open[c]))
  /\ \A t \in Threads : WF_allVars(HandlerStep(CleanUp(t)))

ServersSpec == ServersInit /\ [][ServersNext]_allVars /\ ServersFairness

-----------------------------------------------------------------------------
(* Properties *)

\* The variables keep their types; once stop has begun the server is not alive,
\* unless its own thread only then began.
ServersTypeOK ==
  /\ spc \in {"start", "bind", "loop", "accept", "check", "handle", "list", "ended"}
  /\ mpc \in {"main loop", "drain", "close", "join", "joined", "raised"}
  /\ alive => mpc = "main loop" \/ revived
  /\ accepted \in Conns \cup {None}
  /\ late \subseteq started /\ unlisted \subseteq started /\ started \subseteq Conns
  /\ SE!IsInjective(listed) /\ SE!ToSet(listed) \subseteq started

(***************************************************************************)
(* When the server has stopped, no connection that it ever started is open, *)
(* except one that handle_client put on the list after stop had emptied it, *)
(* or did not put there because its write thread could not be started       *)
(* (socket.py 74-94, 116-120, client.py 51-53).                             *)
(***************************************************************************)
StopCloses == mpc = "joined" => \A c \in started : open[c] => c \in late \cup unlisted

(***************************************************************************)
(* A closed connection does not stay in the registry, whichever of its      *)
(* threads or the main thread closed it, unless its id is empty             *)
(* (handler.py 210-213, 293-299, 313-348, broker.py 88-93).                 *)
(***************************************************************************)
ClosedLeaves == \A c \in {c \in Conns : IdOf[c] # EmptyId} : ~open[c] ~> clients[IdOf[c]] # c

\* stop has connection c still to disconnect, or has begun to.
Doomed(c) == \/ mpc = "drain" /\ c \in SE!ToSet(listed)
             \/ pc[Stopper(c)] = "unsubscribe"

(***************************************************************************)
(* A connection on the list when stop begins has its last will published,   *)
(* however far its own threads have got with linking it or with their own   *)
(* cleanup, if its CONNECT has come.  It is not if publish raises for it,   *)
(* or if it is still on the list when publish raises for another one        *)
(* (socket.py 76-78, handler.py 210-213, 293-299).                          *)
(***************************************************************************)
StopPublishesWills == \A c \in HasWill :
  Doomed(c) /\ pc[Reader(c)] \notin Anonymous
    ~> \/ c \in published \cup lost \/ override[c]
       \/ mpc = "raised" /\ c \in SE!ToSet(listed)

(***************************************************************************)
(* Stopping a server ends: its thread leaves accept and the loop, and join  *)
(* returns, unless a last will raised in stop or the thread set alive again *)
(* after it had been cleared (server.py 33-37, socket.py 74-120).           *)
(***************************************************************************)
StopReturns == mpc = "drain" ~> (mpc \in {"joined", "raised"} \/ revived)
=============================================================================
