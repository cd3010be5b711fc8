# TLA+ models of mote-broker

Mote-broker is a publish/subscribe broker derived from MQTT. It keeps a tree of retained
messages in memory and in a database, answers a subscription with one JSON message for all the
topics it matches, and runs one thread per packet, two per connection, one main loop and a
background process. This directory holds TLA+ models of its concurrent core, the TLC runs that
check them on small instances and the TLAPS proofs about them. Paths are relative to `src/`.

## Inventory

| Component | State | Operations | Interacts with |
|---|---|---|---|
| Background process, `backends/` | shared list `tasks`, `status` (running flag, query/response slot), two conditions, `query_lock` | `add_tasks`, `query`, `__enter__`, `__exit__`; the worker's loop, `run_tasks` | called by handler threads; the worker writes the database |
| Tree manager, `tree/manager.py` | `tree` in memory; the table `tree.Message` | `preload`, `process_message`, `retain_rows`, `get_message`; `TreeWorker.run_tasks` | rows come from `protocols/`, tasks go to the background process |
| Broker, `broker/broker.py` | `subscriptions` (under `subscription_lock`), `clients` (no lock), `broadcast_queue` | `publish`, `subscribe`, `unsubscribe`, `add_client`, `remove_client`, `main_loop` | handler threads call it, the main loop fills the clients' queues |
| Handler, `servers/handler.py`, `models/client.py` | `linked`, `alive`, `connection_override`, own `subscriptions`, `message_queue`, `packet_conditions`, `used_ids` | `read_loop`, `write_loop`, packet handlers, `override_connection`, `handle_disconnected` | a thread per packet calls the broker; another connection's thread may close this one |
| Topic algorithms, `protocols/`, `models/topic.py`, `utils/recursive_default_dict.py` | none (trees are arguments) | `get_applicable_rows`, `flatten_message_into_rows`, `filter_tree_with_topic`, `create_messages_for_subscriptions`, `get_everything_as_rows` | walk over the live tree without a lock |
| Packet codec, `packet/`, `servers/streams.py` | none | read and write of packets, flags, remaining length | `Handler`; reads from and writes to the transport |
| Transport, `servers/socket.py`, `servers/websocket/` | `outgoing_lock`, the WebSocket buffer `buf` | `read`, `write`, `close`, frames | packet threads write, the read loop reads |
| Socket servers, `servers/server.py`, `servers/socket.py` | `alive`, list of clients, the socket | accept, `stop`, join | create handlers; the main thread stops them |
| Tables, `tables/` | table models | `create_table`, `drop_table`, `query` | unfinished; a second background process that the broker never starts |
| Configuration, logging, TLS, admin | - | - | - |

What is hard here is concurrency: almost every call of the broker runs in a thread of its own,
only the subscription table has a lock, and the worker shares memory with the broker through
condition variables. The hazards, each with its line and the properties that cover it, are listed
in `PROJECT.json`. What makes each part correct:

* background process: tasks are neither lost, repeated nor reordered; queries get their own
  answers; tasks run and exit returns;
* tree and database: the last message of a topic is the one stored, a restart gives back what was
  there;
* broker: a subscriber gets every update from its registration on, and in the end knows what the
  tree retains;
* handler: a live connection is the registered one, a closed one leaves nothing behind, the table
  and the connection agree on its subscriptions;
* QoS 1 and 2 exchanges: an acknowledgement follows its publish, nobody waits for ever;
* algorithms: the nested tree and the nested table of subscriptions behave as a flat map of topics
  and a set of filters that match them;
* codec and transport: what is written is what is read, packet by packet;
* servers: stopping one ends, and leaves no connection open or registered.

## Modules

| Module | Models |
|---|---|
| `TaskPipe` | abstract: the FIFO pipe the background process promises to be |
| `Backend` | `ProcessManager` and `ProcessWorker`, one action per section between two points where they can interleave; `Pipe` maps it to `TaskPipe` |
| `Rows` | rows of the tree and how publish requests become rows |
| `Publishing` | a handler thread in `Broker.publish`, up to the broadcast queue; extended by the next two |
| `Delivery` | `Publishing` with the broadcast queue, the main loop, `subscribe` with and without sync, `unsubscribe` |
| `Retention` | `Publishing` with `TreeWorker.run_tasks`, the database, crashes and `preload`; uses the actions of `TaskPipe` for the background process |
| `Sessions` | the read and write loops of connections, the registry, takeover by a connection with the same id, cleanup, last wills, subscribe and unsubscribe threads |
| `Servers` | extends `Sessions` with the thread that accepts connections and the main thread that stops the server |
| `Exchange` | the packets of one connection: requests of every qos, outgoing messages of every qos, `packet_conditions`, `used_ids`, the end of the connection |
| `Transport` | packets as bytes, written by several threads over TCP or in WebSocket fragments, read back field by field |
| `FlatStore` | abstract: retained messages as a flat map from topics to data |
| `TopicTree` | the nested tree and table of subscriptions and the algorithms over them; `Store` maps it to `FlatStore` |
| `BackendProofs`, `SessionsProofs`, `ServersProofs`, `ExchangeProofs`, `DeliveryProofs`, `RetentionProofs`, `TransportProofs` | theorems about the module each is named after |
| `PublishingProofs` | lemmas about rows and publishing threads that `DeliveryProofs` and `RetentionProofs` share |
| `MCBackend`, `MCDelivery`, `MCRetention`, `MCSessions`, `MCServers`, `MCExchange`, `MCTransport`, `MCTopicTree` | constants for TLC |

A definition marked `mutant` in a comment is a wrong version of the definition below it, used to
test that the properties can fail; no specification uses it.

### State and steps

`Backend`: `wpc` is the worker's place, `mpc` the main thread's, `qpc` that of the threads that
query. The worker holds `task_condition` exactly in `Holding`; manager threads take and release it
within one step. `status[QUERY]` and `status[RESPONSE]` are the same element in the code
(`backends/worker.py` 8-9) and one variable here, `slot`. A `ListProxy` is read element by
element, so the running flag and the slot are read in two steps. `log` and `done` are
history. A stale response that is read as a query raises `TypeError` in `self.query(*query)`,
which is `crashed`.

`Rows`, `Publishing`: topics are children of one node; a wildcard filter is the set of topics it
matches. `Absent` is a topic without a node, `Empty` a leaf that was deleted and stays in its
node. An empty payload is read as `None`, so it is a deletion. A payload is never the empty byte
string (a graft can produce one, which the broker stores but does not show), topics have no empty
node, and qos is left out. A walk over a dictionary is two steps, and raises if a key was added in
between, as CPython does; writing rows into memory is one step per row. `contended` remembers the
topics whose last publishes overlapped: nothing in the code orders the tasks, the writes and the
puts of one thread with those of the other.

`Delivery`: a subscription is a client and a filter; `inbox` is what was queued for it. Subscribing
with sync is: begin the walk, read each leaf, queue the snapshot, register. The main loop takes
rows in one step and processes them in another, under the lock. Filters are those without `#`.
`ProcessRows` tells any part of the subscriptions, because a client may be missing from
`Broker.clients` at its look-up (`broker.py` 104-105; who is in the registry is the subject of
`Sessions`), and none of them if a message cannot be made (77-80): `Raises` finds data that is not
UTF-8 (`Unreadable`) for a wildcard filter, at which `stringify` raises, and `Garbled` the same in a
snapshot. `reached` remembers whom each list was processed for. `since` and `mark` remember where
the stream was when a subscription was registered, `passing` the topics that were published
without being retained. `View` is what a client that merges the messages believes.

`Retention`: a batch is run as a DELETE and an INSERT (one transaction each); `torn` remembers the
topics whose DELETE was committed by a batch that a crash cut short, `revived` those that a batch
created although their last row deletes them. For equal topics in one
INSERT the last wins, as with SQLite's upsert.

`Sessions`: threads are `<<connection, "read">>`, `<<connection, "write">>` and, where the main
thread disconnects a connection, `<<connection, "stop">>`; takeover runs in the new connection's
read thread. Until its CONNECT a connection has no id (`Anonymous`): its cleanup removes nothing. `publish` may
raise for the last wills of `Raising` (`WillRaises`): a topic with wildcards that is not to be
retained (`messages.py` 80-83), a walk over a node that another thread adds to, an empty first node
(`topic.py` 54). The thread ends, and `lost` remembers it.
A packet for a filter is sent only after the previous one for that filter was handled, as a client
that waits for acknowledgements does.

`Servers`: `spc` is the accepting thread's place, `mpc` the main thread's. `knock` is the
connection of `stop_socket`. The broker's own interrupt may come at any time after the server's
thread was started. `late` remembers connections that were listed after `stop` had emptied the
list, `unlisted` those whose `start_threads` raised after the read thread had been started
(`HandleRaises`; they run without a write thread), `revived` that the server's thread set `alive`
after `stop` had cleared it. A last will that raises while the main thread disconnects takes it out
of `stop` (`StopRaises`). The actions of
`Sessions` are used unchanged, `HandlerStep` leaves the server's variables alone.

`Exchange`: a thread is the sequence of operations it has still to do (`todo`), each one that may
interleave with others: create a condition, write a packet, wait, publish, subscribe, unsubscribe,
get a message. A handler method is such a sequence, so the order of its calls is its definition. A condition is the
packet it waits for; `results` are the conditions that were met. `packet_notify` takes two steps,
and `stirred` says that the set changed in between, where CPython raises or may miss an element.
Any write may fail, on an open connection too, where the send times out (`WriteFails`), and
`publish` and `subscribe` may raise (`CallRaises`): a packet's thread then ends where it is, and
`broken` remembers its request; only the write loop closes the connection. A subscription may queue
its synchronisation first. A SUBSCRIBE has one filter here. An UNSUBSCRIBE has two, and the code
writes an UNSUBACK for each of them (`handler.py` 284-291): the first one ends the client's request.
`Broker.unsubscribe` raises nothing that `handle_unsubscribe` meets.
The client is external: it answers in the order it receives, or leaves.

`Transport`: a byte is its position in the stream, so a payload is a pair of numbers; bytes that
carry lengths and flags have values. `due` is where the reader should be, `handed` what it was
given; `parse` is its place in a packet, with what remains of `kwargs["length"]`. Packets that
only clients write are laid out as their fields say. A send raises on a closed socket or when its
time is up, with the connection open (`WriteFails`); the lock is released and other threads go on.
`Frame.recv` asks once for each part of a frame (`RecvShort`): a short header ends the connection, a
short length is a wrong one, and the rest of a payload becomes the next header (`astray`). From
there on, and behind a packet that a failed send has cut short, the reader may find anything
(`Lost`), so the model stops following it. Control frames carry payloads of any of `ControlSizes`,
as a pong returns what the ping held; at 65535 bytes the length is written in seven bytes and read
as eight.

`TopicTree`: a dictionary is a record of its leaf (the key `/`) and its kids. `Retain`, `Publish`,
`Graft`, `Subscribe` and `Restart` are whole requests, one at a time: their interleaving is in
`Delivery` and `Retention`. The recursion is that of the code. `FlatStore` knows no nesting: a
publish writes every known topic its filter matches, the literal topic if it is new and the filter
static, and so on; where the code depends on which nodes exist, `Nodes` names them. The order in
which a restart reads two topics that become one is left open (`FlatStore!Restart`).

## Runs

| Run | Checks | Result |
|---|---|---|
| `backend` | `TypeOK`, `Conservation`, `AnswerMatches`, `PipeSpec`, `WakeupRunsAll` | hold |
| `backend_starves` | `TasksRun` | violated: a notification sent while the worker is busy is lost |
| `delivery` | `TypeOK`, `GapFree`, `ViewCurrent`, `EventuallyCurrent` | hold |
| `delivery_sync_gap` | `SyncComplete` | violated: an update between snapshot and registration |
| `retention` | `TypeOK`, `LastCreateStored`, `DatabaseCurrent` | hold |
| `sessions` | `TypeOK`, `SubscriptionsAgree`, `SettledLeaves`, one id shared | hold |
| `sessions_unlisted` | `LiveRegistered` | violated: unlocked look-up and removal by id |
| `servers` | `ServersTypeOK`, `StopCloses`, `ClosedLeaves`, `StopPublishesWills`, `StopReturns` | hold |
| `exchange` | `TypeOK`, `AckMeansPublished`, `AckAwaited`, `OneInFlight`, `Answered`, `MessagesSent` | hold |
| `transport` | `TypeOK`, `StreamIntact`, `ReadExact`, `Aligned`, `AllRead`, where `recv` may be short over a WebSocket | hold |
| `transport_overread` | `ReadExact`, where it may be over TCP | violated: `read` asks for the whole size again |
| `topictree` | `TypeOK`, `SyncIsRetained`, `UpdatesExact`, `SubscriptionsExact`, `FlatSpec` | hold |

Each violated property states what the README, a docstring or a test says; `PROJECT.json`
quotes the line.

What the properties that hold leave out is as much a result as what they say, because the models
do reach it:

* `contended`: without the exception `ViewCurrent` and `DatabaseCurrent` fail. Two threads that
  publish one topic at once can leave the tree with one value and the subscribers, or the
  database, with the other.
* `Resynced`: a client that subscribes again with sync may be sent a snapshot older than an update
  it already has.
* `revived`: the deletes of a batch run before its creates, so a topic created and then deleted
  within one batch comes back after a restart.
* `SnapshotRaises`: a topic created during a snapshot ends the subscribe thread, and the client
  gets neither an answer nor a subscription.
* `Alone`: a connection that ends while it is replaced may remove what its successor, with the
  same id, has subscribed, so `SubscriptionsAgree` speaks of ids one connection uses.
* `EmptyId`: a connection with the empty id stays in the registry for ever.
* `late` and `revived` of `Servers`: a connection accepted while the list is being emptied stays
  open, and a server stopped before its thread's first step may never end.
* `reached` in `GapFree`, `ViewCurrent` and `EventuallyCurrent`: a list of rows passes over a
  client that is not in the registry when its id is looked up, and one message that cannot be made
  gives the list up for every subscriber. What the properties say is that the others are told, in
  order and once, and that the main loop goes on.
* `lost` in `SettledLeaves` and `StopPublishesWills`: a last will for which `publish` raises is not
  published. Where that happens in `stop`, the main thread leaves it (`raised`): the connections
  still on the list stay open, their wills are not published and the server is not closed
  (`StopReturns`).
* `unlisted` in `StopCloses`: a connection whose write thread could not be started is never put on
  the list, so `stop` does not find it.
* `~alive` in `Answered` and `MessagesSent`: when the connection closes, threads that wait for an
  acknowledgement wait for ever, and queued messages stay.
* `broken` in `Answered`: a request whose `publish` or `subscribe` raises, or whose acknowledgement
  cannot be sent in time, is never answered, and its client is not told: the connection stays open.
* `Failed` in `StreamIntact`, `Cut` and `SomeCut` in `Aligned` and `AllRead`: after a send that
  timed out between two fragments another message may follow one without an end, and the reader takes
  its bytes for the packet that was cut short.
* `astray`: a WebSocket frame that `recv` does not return whole is truncated, and the connection
  is out of step from there on.
* Leaving the background process: if the flag is cleared and the notification sent between the
  worker's check and its wait, `join` never returns. `WakeupRunsAll` speaks of a woken worker
  only: the worker may end with tasks pending when the broker leaves. A query may wait for ever if
  its answer is signalled before it waits, or end the worker if its answer is still in the slot
  when a task wakes it; these two concern the table manager alone, the only one with queries.
* A filter that ends in `#` is answered once and is never sent an update:
  `create_messages_for_subscriptions.py` 64-68 looks `#` up among the nodes of the rows, like any
  other node that is not `+`. `README.md` 34 says of a subscription that the broker "will send the
  client an update" on every change, and 79 that it builds "a single message for each subscription".
  `UpdatesExact` therefore speaks of the filters without `#`, alone, and of them says that
  subscriptions with `#` do not disturb them.

### Bounds

Two tasks in lists of up to two, three in all, let the worker find the list empty, with one list,
with several, and growing during a copy. Two queriers let a second query meet the first one's
leftovers. Two topics are enough to tell a filter's topics apart and to add a key
during a walk; two publishes give every order of two writes of a topic, and two subscribe packets
per subscription a registration, a second one and one after unsubscribing. Three publishes of up
to two rows give batches with a create and a delete of a topic in both orders and a crash between
them. Two connections with one id give every interleaving of a takeover with an ending, and two
packets for a filter a subscription, its end and a race of either with the cleanup. `Servers` has
one connection that connects and one that sends no CONNECT (`Silent`), so that `stop` meets a
connection in every state, twice; its clients send no packets, whose threads no server touches.
Only one of the two has a last will, so the second disjunct of `StopPublishesWills`, where another
one's will raises first, is not reached by this instance: two wills make it too large.
`Exchange` has two requests (`Ids`, one each by `MaxRequests`) whose ids are also those the broker
uses (`MaxId`), and two outgoing messages: enough for an id that comes free and for a condition of
each kind that changes the set during a search. `Kinds` shares the requests out between the two ids,
so that every kind occurs, each against several others. The lengths in
`MCTransport` lie on both sides of every boundary of the remaining length, of the frame length up
to `OUT_SIZE`, and at one and two full fragments; packets above that (`LargePackets`) are written
over TCP only, which keeps the number of fragments small. One control frame (`MaxControls`) falls
anywhere between fragments, empty or of 65535 bytes (`ControlSizes`). Short payloads are of one byte
or of all but one of a full fragment (`ShortSizes`). `ShortReads` has the WebSocket in `transport`;
over TCP nothing can be said of the stream after a short read, so that is left to
`transport_overread`. `TopicTree` has ten filters over two
nodes and the empty one, with each wildcard first, last and in the middle, tree publishes with and
without the mirror flag, and four requests (`MaxRequests`): three that make a tree and one that
meets it, or a restart in between. One of its tree publishes makes a topic with an empty first
node, which a plain publish cannot (`Written`): for that the restart merges two topics. Every bound is a named constant (also `MaxTasks`,
`MaxPublishes`, `MaxSubscribes`, `MaxRows`, `MaxCrashes`, `MaxOps`, `MaxMessages`). Deadlock is
not checked: clients may stop sending, and the bounds end behaviours.

### Fairness

Each thread, and each of the two processes, is weakly fair: the operating system runs it. Nothing
is assumed of clients: publishing, subscribing, failing and leaving the manager may never happen.
In `Servers` a read from a socket that was closed locally fails eventually; no client need
connect, and no interrupt need come. In `Exchange` a client that is there reads what it was sent
and answers, which the broker cannot enforce and `Answered` needs; it may leave at any time, and a
read loop whose peer has left ends. In `Transport` a reader whose peer has closed sees it.

## Proofs

Every theorem holds for every value of the constants: any number of topics, filters, threads,
clients and connections, and any bounds. Each comes from an invariant that the steps keep and that
TLC had confirmed on the instances above; the invariants that the runs check are seldom kept by
themselves, and what follows says what had to be added.

`BackendProofs`

* `BackendType`: `TypeOK` is an invariant.
* `TasksConserved`: `Conservation` is an invariant. It is not inductive alone: `BatchInv` adds that
  between the copy and the pops the batch equals the shared list (`add_tasks` is locked out), and
  that the batch is empty wherever the worker is about to overwrite it.
* `BackendIsPipe`: `Spec => PipeSpec`. `AddTasks` is `Submit`, `PopTasks` is `Take`, `RunTasks` is
  `Run` or a stutter; every other step is a stutter. The mapping takes `batch` to `Taken`.
* `AnswersMatch`: `AnswerMatches` is an invariant, by `QueryInv`: one thread at a time is inside
  `query`; a query in the slot or in the worker's hands belongs to a thread that still waits; a
  thread that was notified finds its own answer or an empty slot.

`SessionsProofs`

* `SessionsType`, `SettledLeavesAlways`: from `SettleInv`. A connection that is registered and will
  not remove itself, because it was overridden or has already looked at the registry, is being
  replaced by one that still holds it in `prev_client` (`RegistryInv`). For that, only the thread
  that overrides a connection, or the main thread, ever unlinks a served one (`LinkInv`); a
  connection in its handshake can be neither found nor overridden (`FreshInv`); the places of its
  threads exclude each other (`PlaceInv`); a last will is published, has raised, or somebody is
  about to publish it (`WillInv`). The invariants name the main thread, which `Sessions` never starts: so they also
  hold for `Servers`.
* `SubscriptionsAgreeAlways`: `AgreeInv` says what the table and the connection have between the two
  steps of a packet, `OwnerInv` that before the handshake there is nothing to agree on.

`ServersProofs`

* `ServersType`, `StopClosesAlways`: from `StopInv`, an open connection that was started is on the
  list, or its thread is about to put it there, unless its start raised (`unlisted`); after `stop`
  has found the list empty whatever is on it came too late.
* `StopSettles`: `SettledLeaves` again, with the main thread disconnecting connections in any state.
  The handlers' steps keep `SettleInv` by the lemmas of `SessionsProofs`, and `PopClient` does.

`ExchangeProofs`

* `ExchangeType`, `AckMeansPublishedAlways`, `AckAwaitedAlways`, `OneInFlightAlways`: from
  `ExchangeInv`. For every packet id it says which stage the client's exchange is at (`Stage`): the
  rest of the thread's program, the one packet of the exchange that may be on either wire, whether
  its condition exists or was met, and what the client waits for. `SendInv` says the same of the
  one exchange of the broker's own. Each operation of a thread takes one stage to another. The
  stages allow for the connection, or the thread, ending at any point.

`PublishingProofs` has no theorem of its own. `PubInv` says that a request makes each topic's row
once, that what is left to write are the last rows of the list, that a topic that is not
`contended` is in the hands of one thread at most (`AloneInv`), and that the tree has what that
thread has written (`WrittenInv`). It also has what "the last row about a topic" needs: it exists,
and of two lists one after the other it is that of the second, if that has one (`LastOfConcat`).

`DeliveryProofs`: `DeliveryInv` adds to `PubInv`

* `QueueInv`: the queue is the end of what was put, and what the main loop has taken comes right
  before it;
* `GapFree`, which is kept as it stands given `QueueInv`. It states that there is an
  order-preserving map of what is due onto what was told, so each step extends the map or leaves it;
* `TreeInv`: if nobody holds a topic, the tree has what was put last about it. The step that matters
  is `Put`, where a thread lets go of its topics.

They give `DeliveryType`, `GapFreeAlways` and `ViewCurrentAlways`; the last one takes the last
update that has the topic, and follows the map back to the last rows that were put.

`RetentionProofs`: `RetentionInv` adds to `PubInv`

* `CreatesInv`: `LastCreateStored` between the two transactions of a batch, where the topics it
  deletes are gone, and a crash makes them `torn`;
* `StoreInv`: of a topic that nobody holds, the tree has what the database will have once the
  pending rows (`batch \o tasks`) are run; where a thread has submitted its rows and is still
  writing them, those decide. `DeletedInv` is needed for a topic whose last row deletes it.

They give `RetentionType`, `LastCreateStoredAlways` and `DatabaseCurrentAlways`, with crashes at
any point.

`TransportProofs`, for any threads and packets: `StreamIntactAlways`, over a WebSocket, from

* `WrittenInv`: only the thread that began last may be in the middle of its packet, and any other
  one that has sent part of it has failed, so the next one begins where it ended (`outgoing_lock`);
* `FrameInv`: the data frames under way take the stream from what was received to what was sent
  (`Chain`). A fragment extends the chain at one end (`ChainData`), the reader takes its first frame
  at the other (`ChainTail`), a control frame falls anywhere (`ChainControl`).

`LengthRead` is the fact about bytes that this needs: whatever the size of a fragment, what
`Frame.recv` reads of its length is what `Frame.bytes` wrote. `FragmentSize` says that looking one
fragment ahead finds the last one also where it fills `OUT_SIZE`. Over TCP there are no frames and
`StreamIntact` says nothing.

`TypeOKAlways`, `ReadExactAlways` and `AlignedAlways` are about the reader, and say what holds where
a read over TCP returns what it asks for (`Whole`, which says no more than that: frames may be cut
short); where it may not, `transport_overread` refutes `ReadExact`. They come from `ReadInv`, which adds to
`TransportInv`

* `OrderInv`: packets follow one another in the stream;
* `BytesInv`: what was handed out and what is at hand add up to what was received. Over a WebSocket
  the frames under way lie between that and the writer (`Ahead`); over TCP what is under way makes
  up the difference to what was sent, and
  the buffer is empty or is the read that was asked for;
* `PlaceInv`: the reader is at the first byte of a packet, or somewhere in one (`Midway`). In the
  length, the bytes that are left say what is missing from the value so far; in the fields, what
  remains of `kwargs["length"]` is the sum of the reads to come and of what may follow them: the
  data of a PUBLISH, or a number of whole items of a list. Otherwise it has lost its place, in a
  packet that was cut short or behind a frame that was.

A read takes one such place to the next or to the end of the packet (`ReadPlace`). Its parts are
that a byte of the length leaves the rest of it, and that a fifth is never needed
(`LengthBytePlace`), and that the reader goes on to the data or to the next item as long as
something remains (`OnFieldsPlace`). The reader does not run ahead of the writers, as the bytes it
has were sent (`Reached`).

`HeaderBytes` and `Sum` are recursive functions, and what they compute is proved by induction. The
library's induction theorems take an operator as a parameter, which the provers do not accept, so
the module proves its own for sets (`LeastNumber`, `Induction`), from the theorem that the order of
the naturals is well-founded. That such a function exists at all is part of the proof (`SumsExist`,
`UpToExists`, `HeaderBytesLaw`).

Assumptions are those the modules name: constants have the types their comments say
(`BackendAssumption`, `SessionsAssumption`, `SilentAssumption`, `ExchangeAssumption`,
`DeliveryAssumption`, `RetentionAssumption`); `None` is no connection; `PublishingAssumption` adds
that topics are finitely many, as the keys of a dictionary are, that a payload is neither `Empty`
nor `Absent`, that requests are of the three kinds there are, and that no empty record is
preloaded; `PacketAssumption` that packets are of the layouts of `packet/packets.py`, and
`LengthAssumption`, which `StreamIntactAlways` does not need, that four bytes say the length of
each: `get_header_bytes` would write a fifth, and `decode_packet_length` raises at it. Each is
checked by TLC on the instances. `Whole` is a hypothesis of the three theorems about the reader, not
an assumption of the module.

Only model-checked: all liveness (`WakeupRunsAll`, `EventuallyCurrent`, `ClosedLeaves`,
`StopPublishesWills`, `StopReturns`, `Answered`, `MessagesSent`, `AllRead`), which rests on
fairness and `ENABLED`; `TopicTree`, whose operators are recursive, and with them the refinement of
`FlatStore`; and that two ends of a TCP connection whose `recv` is short disagree, which is a
finding and no theorem.

## Not modelled

Tables (unfinished: the broker does not enter their manager, and `TableWorker.run_tasks` does not
accept what the worker passes), and with them publishes to and subscriptions of topics that begin
with `@`; TLS, administration, settings, migrations and logging. The WebSocket handshake and the
masking of frames: text and a pure function, which nothing else depends on. The look-up of a
packet's class, the text of strings and of JSON. The interrupt in the worker, and the end of the
interpreter. The broker has two servers, which share nothing but the registry: `Servers` has one.
A client that sends a PUBLISH again with the same id. A `send` that takes only part of its bytes.
`test_broker.py` 58-62 expects `remove_client` to raise `KeyError`, where `broker.py` 88-93 logs a
warning; the model follows the code.

## Plan

1. `TopicTree` over recursive functions on trees of bounded depth in place of its recursive
   operators, and the invariants of the tree by the induction of `TransportProofs`.
2. `Exchange` with a client that repeats a PUBLISH, and `Transport` with a partial send, each with
   what still holds.
