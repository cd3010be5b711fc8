------------------------------ MODULE Sessions ------------------------------
(***************************************************************************)
(* The life of a connection: the read loop and the write loop of its        *)
(* Handler, the broker's registry of clients and its table of               *)
(* subscriptions, and the threads that handle its subscribe and unsubscribe *)
(* packets.  The registry and the table know a client by its id; two        *)
(* connections may use the same one.  Only the table has a lock, which is   *)
(* held for one step at a time.                                             *)
(***************************************************************************)
EXTENDS Naturals

CONSTANTS Conns,    \* connections, each a Handler
          Ids,
          IdOf,     \* the client_id of each connection's CONNECT packet
          EmptyId,  \* the client_id ""
          Filters,
          HasWill,  \* connections with a last will
          Raising,  \* those among them whose will Broker.publish may raise for
          MaxOps    \* bound: subscribe and unsubscribe packets per filter

None == <<"none">>

ASSUME SessionsAssumption == /\ IdOf \in [Conns -> Ids]
                             /\ None \notin Conns
                             /\ HasWill \subseteq Conns /\ Raising \subseteq HasWill
                             /\ MaxOps \in Nat

VARIABLES pc,        \* where the read and the write thread of each connection are
          prev,      \* add_client's local prev_client
          open,      \* alive: the socket has not been closed
          linked,    \* Handler.linked
          override,  \* Handler.connection_override
          clients,   \* Broker.clients
          table,     \* Broker.subscriptions, as pairs of an id and a filter
          own,       \* Client.subscriptions
          op,        \* where the thread of a subscribe or unsubscribe packet is
          ops,       \* such packets so far (history)
          published, \* connections whose last will was published (history)
          lost       \* connections for whose last will publish raised (history)

flags == <<open, linked, override>>
subscribing == <<own, op, ops>>
wills == <<published, lost>>
vars == <<pc, prev, flags, clients, table, subscribing, wills>>

Reader(c) == <<c, "read">>
Stopper(c) == <<c, "stop">>    \* the main thread where it disconnects c: see Servers
Threads == Conns \X {"read", "write", "stop"}
Steps == Conns \X Filters

ConnectPc == {"new", "lookup", "flag", "drop", "sweep", "assign", "link"}
EndPc == {"final", "unsubscribe", "check", "remove", "will", "done"}
Anonymous == {"new", "refuse", "gone"}        \* no CONNECT has come, and no id
NeverServed == Anonymous \cup {"reject", "rejected"}

Goto(t, place) == pc' = [pc EXCEPT ![t] = place]

FirstPc(role) == CASE role = "read" -> "new" [] role = "write" -> "loop" [] role = "stop" -> "idle"

Init == /\ pc = [t \in Threads |-> FirstPc(t[2])]
        /\ prev = [c \in Conns |-> None]
        /\ open = [c \in Conns |-> TRUE]
        /\ linked = [c \in Conns |-> FALSE]
        /\ override = [c \in Conns |-> FALSE]
        /\ clients = [i \in Ids |-> None]
        /\ table = {}
        /\ own = [c \in Conns |-> {}]
        /\ op = [s \in Steps |-> "idle"]
        /\ ops = [s \in Steps |-> 0]
        /\ published = {} /\ lost = {}

-----------------------------------------------------------------------------
(* read_loop, up to the loop: CONNECT, CONNACK, add_client, linked *)

\* mutant: linked is set before add_client.
ConnectLinked(c) == /\ pc[Reader(c)] = "new"
                    /\ linked' = [linked EXCEPT ![c] = TRUE]
                    /\ Goto(Reader(c), "lookup")
                    /\ UNCHANGED <<prev, open, override, clients, table, subscribing, wills>>

Connect(c) == /\ pc[Reader(c)] = "new"
              /\ \/ Goto(Reader(c), "lookup")
                 \/ Goto(Reader(c), "refuse")   \* no CONNECT
                 \/ Goto(Reader(c), "reject")   \* CONNACK cannot be written
              /\ UNCHANGED <<prev, flags, clients, table, subscribing, wills>>

\* prev_client = self.clients.get(client.id)
LookUp(c) == /\ pc[Reader(c)] = "lookup"
             /\ prev' = [prev EXCEPT ![c] = clients[IdOf[c]]]
             /\ Goto(Reader(c), IF clients[IdOf[c]] = None THEN "assign" ELSE "flag")
             /\ UNCHANGED <<flags, clients, table, subscribing, wills>>

\* prev_client.override_connection(), which runs in the thread of c ...
Override(c) == /\ pc[Reader(c)] = "flag"
               /\ override' = [override EXCEPT ![prev[c]] = TRUE]
               /\ Goto(Reader(c), "drop")
               /\ UNCHANGED <<prev, open, linked, clients, table, subscribing, wills>>

\* ... disconnect(): linked = False, close() ...
Disconnect(c) == /\ pc[Reader(c)] = "drop"
                 /\ linked' = [linked EXCEPT ![prev[c]] = FALSE]
                 /\ open' = [open EXCEPT ![prev[c]] = FALSE]
                 /\ Goto(Reader(c), "sweep")
                 /\ UNCHANGED <<prev, override, clients, table, subscribing, wills>>

Entries(c) == {<<IdOf[c], f>> : f \in own[c]}

\* ... handle_disconnected(): unsubscribe(self, *self.subscriptions) and, since
\* connection_override is set, nothing more.
SweepPrevious(c) == /\ pc[Reader(c)] = "sweep"
                    /\ table' = table \ Entries(prev[c])
                    /\ Goto(Reader(c), "assign")
                    /\ UNCHANGED <<prev, flags, clients, subscribing, wills>>

\* self.clients[client.id] = client
Assign(c) == /\ pc[Reader(c)] = "assign"
             /\ clients' = [clients EXCEPT ![IdOf[c]] = c]
             /\ Goto(Reader(c), "link")
             /\ UNCHANGED <<prev, flags, table, subscribing, wills>>

\* self.linked = True, and on to the loop.
Link(c) == /\ pc[Reader(c)] = "link"
           /\ linked' = [linked EXCEPT ![c] = TRUE]
           /\ Goto(Reader(c), "loop")
           /\ UNCHANGED <<prev, open, override, clients, table, subscribing, wills>>

-----------------------------------------------------------------------------
(* The end of both loops *)

\* A read fails: the peer is gone or silent, sends nonsense, or the socket was
\* closed.  A write fails likewise, once there is something to write.
Fail(t) == /\ pc[t] = "loop"
           /\ pc[Reader(t[1])] \notin ConnectPc \cup NeverServed
           /\ Goto(t, "final")
           /\ UNCHANGED <<prev, flags, clients, table, subscribing, wills>>

\* mutant: close() also clears linked.
CloseUnlinked(t) == /\ pc[t] = "final"
                    /\ open' = [open EXCEPT ![t[1]] = FALSE]
                    /\ Goto(t, "done")
                    /\ UNCHANGED <<prev, linked, override, clients, table, subscribing, wills>>

\* self.close(); if self.linked: self.handle_disconnected()
Close(t) == /\ pc[t] = "final"
            /\ open' = [open EXCEPT ![t[1]] = FALSE]
            /\ Goto(t, IF linked[t[1]] THEN "unsubscribe" ELSE "done")
            /\ UNCHANGED <<prev, linked, override, clients, table, subscribing, wills>>

\* The same before add_client: the connection is not linked.
Refuse(c) == /\ pc[Reader(c)] \in {"refuse", "reject"}
             /\ open' = [open EXCEPT ![c] = FALSE]
             /\ Goto(Reader(c), IF pc[Reader(c)] = "refuse" THEN "gone" ELSE "rejected")
             /\ UNCHANGED <<prev, linked, override, clients, table, subscribing, wills>>

UnsubscribeAll(t) == /\ pc[t] = "unsubscribe"
                     /\ table' = table \ Entries(t[1])
                     /\ Goto(t, "check")
                     /\ UNCHANGED <<prev, flags, clients, subscribing, wills>>

CheckOverride(t) == /\ pc[t] = "check"
                    /\ Goto(t, IF override[t[1]] \/ pc[Reader(t[1])] \in Anonymous
                               THEN "done" ELSE "remove")
                    /\ UNCHANGED <<prev, flags, clients, table, subscribing, wills>>

\* mutant: the KeyError of a missing id ends the thread.
RemoveRaises(t) == /\ pc[t] = "remove"
                   /\ clients' = [clients EXCEPT ![IdOf[t[1]]] = None]
                   /\ Goto(t, IF t[1] \in HasWill /\ clients[IdOf[t[1]]] # None
                              THEN "will" ELSE "done")
                   /\ UNCHANGED <<prev, flags, table, subscribing, wills>>

\* remove_client: self.clients.pop(client.id), whoever is there, "if client.id".
Remove(t) == /\ pc[t] = "remove"
             /\ clients' = [clients EXCEPT ![IdOf[t[1]]] = IF IdOf[t[1]] = EmptyId THEN @ ELSE None]
             /\ Goto(t, IF t[1] \in HasWill THEN "will" ELSE "done")
             /\ UNCHANGED <<prev, flags, table, subscribing, wills>>

PublishWill(t) == /\ pc[t] = "will"
                  /\ published' = published \cup {t[1]}
                  /\ Goto(t, "done")
                  /\ UNCHANGED <<prev, flags, clients, table, subscribing, lost>>

\* Broker.publish raises: a topic with wildcards that is not to be retained, a walk
\* over a node that another thread adds to, an empty first node.  The thread ends.
WillRaises(t) == /\ pc[t] = "will" /\ t[1] \in Raising
                 /\ lost' = lost \cup {t[1]}
                 /\ Goto(t, "done")
                 /\ UNCHANGED <<prev, flags, clients, table, subscribing, published>>

-----------------------------------------------------------------------------
(* handle_subscribe and handle_unsubscribe, each in a thread of its own *)

Packet(c, f, kind) == /\ pc[Reader(c)] = "loop"
                      /\ op[<<c, f>>] = "idle"
                      /\ ops[<<c, f>>] < MaxOps
                      /\ ops' = [ops EXCEPT ![<<c, f>>] = @ + 1]
                      /\ op' = [op EXCEPT ![<<c, f>>] = kind]
                      /\ UNCHANGED <<pc, prev, flags, clients, table, own, wills>>

\* Broker.subscribe, then self.subscriptions.add
AddToTable(c, f) == /\ op[<<c, f>>] = "subscribe"
                    /\ table' = table \cup {<<IdOf[c], f>>}
                    /\ op' = [op EXCEPT ![<<c, f>>] = "add"]
                    /\ UNCHANGED <<pc, prev, flags, clients, own, ops, wills>>

AddToOwn(c, f) == /\ op[<<c, f>>] = "add"
                  /\ own' = [own EXCEPT ![c] = @ \cup {f}]
                  /\ op' = [op EXCEPT ![<<c, f>>] = "idle"]
                  /\ UNCHANGED <<pc, prev, flags, clients, table, ops, wills>>

\* Broker.unsubscribe, then self.subscriptions.remove
RemoveFromTable(c, f) == /\ op[<<c, f>>] = "unsubscribe"
                         /\ table' = table \ {<<IdOf[c], f>>}
                         /\ op' = [op EXCEPT ![<<c, f>>] = "remove"]
                         /\ UNCHANGED <<pc, prev, flags, clients, own, ops, wills>>

\* mutant: the own set keeps the filter.
KeepOwn(c, f) == /\ op[<<c, f>>] = "remove"
                 /\ op' = [op EXCEPT ![<<c, f>>] = "idle"]
                 /\ UNCHANGED <<pc, prev, flags, clients, table, own, ops, wills>>

RemoveFromOwn(c, f) == /\ op[<<c, f>>] = "remove"
                       /\ own' = [own EXCEPT ![c] = @ \ {f}]
                       /\ op' = [op EXCEPT ![<<c, f>>] = "idle"]
                       /\ UNCHANGED <<pc, prev, flags, clients, table, ops, wills>>

ConnectStep(c) == \/ LookUp(c) \/ Override(c) \/ Disconnect(c) \/ SweepPrevious(c)
                  \/ Assign(c) \/ Link(c) \/ Refuse(c)
CleanUp(t) == Close(t) \/ UnsubscribeAll(t) \/ CheckOverride(t) \/ Remove(t) \/ PublishWill(t)
EndStep(t) == CleanUp(t) \/ WillRaises(t)
OpStep(c, f) == \/ AddToTable(c, f) \/ AddToOwn(c, f)
                \/ RemoveFromTable(c, f) \/ RemoveFromOwn(c, f)

Next == \/ \E c \in Conns : Connect(c) \/ ConnectStep(c)
        \/ \E t \in Threads : Fail(t) \/ EndStep(t)
        \/ \E c \in Conns, f \in Filters : \/ OpStep(c, f)
                                           \/ \E kind \in {"subscribe", "unsubscribe"} :
                                                Packet(c, f, kind)

Spec == Init /\ [][Next]_vars

-----------------------------------------------------------------------------
(* Properties *)

\* The variables keep their types; a connection is linked only once it is
\* registered, and overrides only what it found under its own id.
TypeOK == /\ pc \in [Threads -> ConnectPc \cup EndPc \cup NeverServed \cup {"loop", "idle"}]
          /\ prev \in [Conns -> Conns \cup {None}]
          /\ \A c \in Conns : prev[c] # None => prev[c] \in Conns \ {c} /\ IdOf[prev[c]] = IdOf[c]
          /\ open \in [Conns -> BOOLEAN]
          /\ linked \in [Conns -> BOOLEAN]
          /\ \A c \in Conns : linked[c] => pc[Reader(c)] \notin ConnectPc
          /\ override \in [Conns -> BOOLEAN]
          /\ clients \in [Ids -> Conns \cup {None}]
          /\ \A i \in Ids : clients[i] # None => IdOf[clients[i]] = i
          /\ table \subseteq Ids \X Filters
          /\ own \in [Conns -> SUBSET Filters]
          /\ op \in [Steps -> {"idle", "subscribe", "add", "unsubscribe", "remove"}]
          /\ ops \in [Steps -> 0..MaxOps]
          /\ published \subseteq HasWill /\ lost \subseteq Raising

\* Neither thread of c is on its way out, and no one else has taken its place.
InService(c) == /\ pc[Reader(c)] = "loop" /\ pc[<<c, "write">>] = "loop"
                /\ open[c] /\ ~override[c]

\* No other connection has come as far as using the id of c.
Alone(c) == \A d \in Conns \ {c} : IdOf[d] = IdOf[c] => pc[Reader(d)] \in Anonymous \cup {"lookup"}

(***************************************************************************)
(* The broker's table and the client's own set of subscriptions, which are  *)
(* changed one after the other by whichever thread handles the packet,      *)
(* agree on every filter that no packet is being handled for: otherwise the *)
(* client would miss updates, or its cleanup would leave an entry behind.   *)
(* That is so as long as no other connection uses the id                    *)
(* (handler.py 258-299, broker.py 131-146).                                 *)
(***************************************************************************)
SubscriptionsAgree == \A c \in Conns : InService(c) /\ Alone(c) =>
  \A f \in Filters : op[<<c, f>>] = "idle" => (f \in own[c] <=> <<IdOf[c], f>> \in table)

(***************************************************************************)
(* "Adds a client to the list of connected clients" (test_broker.py 36): a  *)
(* connection in service is the one the registry has for its id, or no      *)
(* message reaches it (broker.py 82-93, 104-106).                           *)
(***************************************************************************)
LiveRegistered == \A c \in Conns : InService(c) => clients[IdOf[c]] = c

\* No thread of c, nor of a connection that replaces it, has work left to do for it.
Settled(c) == /\ pc[Reader(c)] \in {"done", "gone", "rejected"}
              /\ pc[<<c, "write">>] \in {"loop", "done"}
              /\ pc[Stopper(c)] \in {"idle", "done"}
              /\ \A d \in Conns : prev[d] = c => pc[Reader(d)] \notin ConnectPc

(***************************************************************************)
(* Whatever two contending connections do to each other, one whose threads  *)
(* have all finished is not registered, and its last will has been          *)
(* published, or publish has raised for it, if it was registered and nobody *)
(* took its place (broker.py 82-93, handler.py 210-217, 293-299, 313-348).  *)
(***************************************************************************)
SettledLeaves == \A c \in Conns : Settled(c) =>
  /\ IdOf[c] # EmptyId => clients[IdOf[c]] # c
  /\ c \in HasWill => c \in published \cup lost \/ override[c] \/ pc[Reader(c)] # "done"
=============================================================================
