-------------------------------- MODULE Rows --------------------------------
(***************************************************************************)
(* Rows of the message tree and the requests they are made from.            *)
(*                                                                          *)
(* The tree in memory is one leaf per topic.  A topic whose node was never  *)
(* created is Absent; a deleted leaf stays in its node as Empty (None).  A  *)
(* wildcard filter is the set of topics it matches, all children of one     *)
(* node; a static filter matches one topic.                                 *)
(***************************************************************************)
EXTENDS Naturals, Sequences, FiniteSets, SequencesExt

CONSTANTS Topics,   \* complete topics, without wildcards
          Filters,  \* topic strings of subscriptions and wildcard publishes
          Wild,     \* those with a wildcard
          Match,    \* the topics each filter matches
          Data      \* payloads that are not empty

Empty == <<"empty">>    \* an empty payload is read as None
Absent == <<"absent">>

Leaf == Data \cup {Empty, Absent}
Row == [topic : Topics, data : Data \cup {Empty}]
Filled(topic_data) == {t \in DOMAIN topic_data : topic_data[t] \in Data}

\* The topics under a filter that have a node in the tree.
Known(tree, f) == {t \in Match[f] : tree[t] # Absent}

(* Publish requests, by what IncomingMessage makes of the packet *)
Plain(retain, t, d) == [kind |-> "plain", retain |-> retain, topic |-> t, data |-> d]
Spread(f, d) == [kind |-> "spread", retain |-> TRUE, filter |-> f, data |-> d]
Graft(f, fn, mirror) == [kind |-> "graft", retain |-> TRUE, filter |-> f, data |-> fn,
                         mirror |-> mirror]
PlainRequests == {Plain(retain, t, d) : retain \in BOOLEAN, t \in Topics, d \in Data \cup {Empty}}
SpreadRequests == {Spread(f, d) : f \in Filters, d \in Data \cup {Empty}}
GraftRequests == {Graft(f, fn, mirror) : f \in Filters, mirror \in BOOLEAN,
                    fn \in UNION {[T -> Data \cup {Empty}] : T \in SUBSET Topics}}

\* get_applicable_rows: a static topic is one row, whatever the tree holds; a
\* wildcard is a row for every key the tree has under it, deleted ones too.
ApplicableRows(req, keys) ==
  IF req.kind = "plain" THEN {[topic |-> req.topic, data |-> req.data]}
  ELSE {[topic |-> t, data |-> req.data] : t \in keys}

\* flatten_message_into_rows: a row for every key of the payload and, with the
\* "+" flag, an empty one for every other leaf of the tree.
FlattenedRows(req, keys) ==
  {[topic |-> t, data |-> req.data[t]] : t \in DOMAIN req.data}
    \cup (IF req.mirror THEN {[topic |-> t, data |-> Empty] : t \in keys \ DOMAIN req.data}
          ELSE {})

\* The rows of a request, in any order the dictionaries may have.
RowLists(req, keys) == SetToSeqs(IF req.kind = "graft" THEN FlattenedRows(req, keys)
                                 ELSE ApplicableRows(req, keys))

\* Making the rows walks over the keys of a node of the shared tree.
Walks(req) == req.kind = "spread" \/ (req.kind = "graft" /\ req.mirror)

RowTopics(rows) == {rows[i].topic : i \in DOMAIN rows}
=============================================================================
