----------------------------- MODULE TopicTree -----------------------------
(***************************************************************************)
(* The nested dictionaries behind the message tree and the subscriptions,   *)
(* and the recursive algorithms of protocols/ on them.  Each request is one *)
(* step here; how requests interleave is the subject of Delivery and        *)
(* Retention, and what data that is not UTF-8 leads to that of Delivery.    *)
(* Recursive operators: for TLC only.                                       *)
(***************************************************************************)
EXTENDS Naturals, Sequences, SequencesExt, FiniteSets, FiniteSetsExt, TLC

CONSTANTS Filters, Values, Grafts,
          Clients,
          MaxRequests  \* bound: publishes, subscribes, unsubscribes and restarts

VARIABLES tree,        \* TreeManager.tree
          subs,        \* Broker.subscriptions
          subscribed,  \* the live subscriptions, as pairs of a client and a filter (history)
          requests     \* requests so far (history)

vars == <<tree, subs, subscribed, requests>>

None == "null"
NoLeaf == "no leaf"     \* the key "/" is missing
Wild == {"+", "#"}

\* A dictionary: the value of the key "/", and one dictionary for every other key.
Dict(leaf, kids) == [leaf |-> leaf, kids |-> kids]
NoKids == [k \in {} |-> None]
EmptyTree == Dict(NoLeaf, NoKids)
Keys(t) == DOMAIN t.kids

-----------------------------------------------------------------------------
(* RecursiveDefaultDict.  A missing key is created, with the leaf `missing`. *)

Kid(t, node, missing) == IF node \in Keys(t) THEN t.kids[node] ELSE Dict(missing, NoKids)
WithKid(t, node, kid) == Dict(t.leaf, node :> kid @@ t.kids)

RECURSIVE SetLeaf(_, _, _, _), LeafAt(_, _, _), CascadeDelete(_, _), Paths(_), Nest(_)

SetLeaf(t, path, leaf, missing) ==
  IF path = <<>> THEN Dict(leaf, t.kids)
  ELSE WithKid(t, path[1], SetLeaf(Kid(t, path[1], missing), Tail(path), leaf, missing))

LeafAt(t, path, missing) == IF path = <<>> THEN t.leaf
                            ELSE LeafAt(Kid(t, path[1], missing), Tail(path), missing)

\* mutant: a branch is removed whether it is empty or not.
NeverNeeded(t) == TRUE
\* "if not self[node]": neither a leaf nor a key
IsEmpty(t) == t.leaf = {} /\ Keys(t) = {}

CascadeDelete(t, path) ==
  LET kid == IF Tail(path) = <<>> THEN Dict({}, Kid(t, path[1], {}).kids)
             ELSE CascadeDelete(Kid(t, path[1], {}), Tail(path))
  IN  IF IsEmpty(kid) THEN Dict(t.leaf, [k \in Keys(t) \ {path[1]} |-> t.kids[k]])
      ELSE WithKid(t, path[1], kid)

\* All paths of a tree, and the tree of a map from paths to leaves: what
\* preload builds from the database.
Paths(t) == {<<>>} \cup UNION {{<<k>> \o p : p \in Paths(t.kids[k])} : k \in Keys(t)}
Nest(map) == Dict(IF <<>> \in DOMAIN map THEN map[<<>>] ELSE NoLeaf,
                  [k \in {p[1] : p \in DOMAIN map \ {<<>>}} |->
                     Nest([q \in {Tail(p) : p \in {r \in DOMAIN map \ {<<>>} : r[1] = k}} |->
                             map[<<k>> \o q]])])

Flat(t) == [p \in {q \in Paths(t) : LeafAt(t, q, NoLeaf) # NoLeaf} |-> LeafAt(t, p, NoLeaf)]
Store == INSTANCE FlatStore WITH flat <- Flat(tree)

-----------------------------------------------------------------------------
(* protocols/ *)

RECURSIVE GetEverything(_, _, _), GetApplicable(_, _, _, _), Flatten(_, _, _, _, _),
          FilterTree(_, _), CreateMessages(_, _, _)

IsStatic(f) == \A k \in DOMAIN f : f[k] \notin Wild

\* get_everything_as_rows: the leaf where it starts is left out.
GetEverything(t, base, start) ==
  (IF t.leaf # NoLeaf /\ ~start THEN {base} ELSE {})
    \cup UNION {GetEverything(t.kids[k], Append(base, k), FALSE) : k \in Keys(t)}

\* mutant: a static node after a wildcard may be new too.
GrowAnyway(found_wildcard, next) == IsStatic(next)
\* mutant: a new topic may have wildcards in what follows.
GrowWild(found_wildcard, next) == ~found_wildcard
\* A branch that is missing is a new topic if no wildcard precedes or follows.
MayGrow(found_wildcard, next) == ~found_wildcard /\ IsStatic(next)

\* get_applicable_rows, which raises where # is not the last node.
GetApplicable(f, base, t, found_wildcard) ==
  LET node == f[1]
      next == Tail(f)
  IN CASE node = "#" /\ next = <<>> -> GetEverything(t, base, TRUE)
       [] node = "#" /\ next # <<>> -> {}
       [] node = "+" /\ next = <<>> -> {Append(base, k) : k \in Keys(t)}
       [] node = "+" /\ next # <<>> ->
            UNION {GetApplicable(next, Append(base, k), t.kids[k], TRUE) : k \in Keys(t)}
       [] node \notin Wild /\ next = <<>> -> {Append(base, node)}
       [] node \notin Wild /\ next # <<>> /\ node \notin Keys(t) ->
            IF MayGrow(found_wildcard, next) THEN {base \o f} ELSE {}
       [] OTHER -> GetApplicable(next, Append(base, node), t.kids[node], found_wildcard)

\* flatten_message_into_rows; the payload is a dictionary of the same kind.
Flatten(f, data, base, t, mirror) ==
  LET node == f[1]
      next == Tail(f)
      missing == {k \in Keys(t) \ Keys(data) : t.kids[k].leaf # NoLeaf}
  IN CASE node = "+" /\ next = <<>> ->
            {<<Append(base, k), data.kids[k].leaf>> : k \in Keys(data)}
              \cup (IF mirror THEN {<<Append(base, k), None>> : k \in missing} ELSE {})
       [] node = "+" /\ next # <<>> ->
            UNION {Flatten(next, data.kids[k], Append(base, k), Kid(t, k, NoLeaf), mirror) :
                     k \in Keys(data)}
       [] node # "+" /\ next = <<>> -> {<<Append(base, node), data.leaf>>}
       [] node # "+" /\ next # <<>> ->
            Flatten(next, data, Append(base, node), Kid(t, node, NoLeaf), mirror)

\* filter_tree_with_topic; a value is a dictionary with a leaf only.
Value(v) == Dict(v, NoKids)
LeafOrNone(t) == IF t.leaf = NoLeaf THEN None ELSE t.leaf

\* mutant: the nodes are chosen by their being there, not by their leaves.
AllLeaves(t) == [k \in {k \in Keys(t) : Keys(t.kids[k]) = {}} |-> Value(t.kids[k].leaf)]
\* The values of the topics one node below.
Leaves(t) == [k \in {k \in Keys(t) : t.kids[k].leaf \in Values} |-> Value(t.kids[k].leaf)]

FilterTree(f, t) ==
  LET node == f[1]
      next == Tail(f)
      branch == [k \in Keys(t) |-> FilterTree(next, t.kids[k])]
  IN CASE node = "#" -> t
       [] node = "+" /\ next = <<>> ->
            Dict(NoLeaf, Leaves(t))
       [] node = "+" /\ next # <<>> ->
            Dict(NoLeaf, [k \in {k \in Keys(t) : branch[k] \notin {Value(""), EmptyTree}}
                            |-> branch[k]])
       [] node \notin Wild /\ node \notin Keys(t) ->
            IF next # <<>> /\ Last(next) \in Wild THEN EmptyTree ELSE Value("")
       [] node \notin Wild /\ node \in Keys(t) /\ next = <<>> -> Value(LeafOrNone(t.kids[node]))
       [] OTHER -> FilterTree(next, t.kids[node])

\* build_message_data: the nodes that stand for wildcards lead to the data.
BuildData(leaf_rows, f) == {<<Store!Binding(f, r[1]), r[2]>> : r \in leaf_rows}

\* mutant: a wildcard goes on with the rows of its own node only.
OwnRows(rows, depth, node) == {r \in rows : Len(r[1]) > depth /\ r[1][depth + 1] = node}
\* rows_by_current_node, or all rows for +; # is looked up like any other node.
RowsFor(rows, depth, node) ==
  IF node = "+" THEN rows ELSE {r \in rows : Len(r[1]) > depth /\ r[1][depth + 1] = node}

\* _create_messages_for_subscriptions
CreateMessages(t, rows, base) ==
  LET leaf_rows == {r \in rows : Len(r[1]) = Len(base)} IN
  (IF t.leaf # {} /\ leaf_rows # {}
   THEN {[clients |-> t.leaf, topic |-> base, data |-> BuildData(leaf_rows, base)]} ELSE {})
  \cup UNION {CreateMessages(t.kids[k], RowsFor(rows, Len(base), k), Append(base, k)) :
                k \in {k \in Keys(t) : RowsFor(rows, Len(base), k) # {}}}

-----------------------------------------------------------------------------
(* Requests *)

Init == tree = EmptyTree /\ subs = Dict({}, NoKids) /\ subscribed = {} /\ requests = 0

Count == requests < MaxRequests /\ requests' = requests + 1

\* retain_rows
Retain(rows) == tree' = FoldSet(LAMBDA r, t : SetLeaf(t, r[1], r[2], NoLeaf), tree, rows)

\* Whether a publish is for a table is told by the first character of its topic: a
\* topic whose first node is empty raises before there is a row.
Written(f) == IF f[1] = "" THEN {} ELSE GetApplicable(f, <<>>, tree, FALSE)

Publish(f, d) == /\ Count
                 /\ Retain({<<p, d>> : p \in Written(f)})
                 /\ UNCHANGED <<subs, subscribed>>

Graft(g) == /\ Count
            /\ Retain(Flatten(g.filter, Nest(g.data), <<>>, tree, g.mirror))
            /\ UNCHANGED <<subs, subscribed>>

\* A topic that starts with a separator asks for the retained messages as well.
SubscribedTopic(request) == IF request[1] = "" THEN Tail(request) ELSE request

Subscribe(c, request) ==
  LET f == SubscribedTopic(request) IN
  /\ Count
  /\ subs' = SetLeaf(subs, f, LeafAt(subs, f, {}) \cup {c}, {})
  /\ subscribed' = subscribed \cup {<<c, f>>}
  /\ UNCHANGED tree

\* The topic is taken as it is, with its leading separator.  Its path is followed,
\* and so created, before the client is taken out of it.
Unsubscribe(c, f) ==
  LET left == LeafAt(subs, f, {}) \ {c}
      followed == SetLeaf(subs, f, left, {}) IN
  /\ Count
  /\ subs' = IF left = {} THEN CascadeDelete(followed, f) ELSE followed
  /\ subscribed' = subscribed \ {<<c, f>>}
  /\ UNCHANGED tree

\* The broker ends and preloads what the database has: topics with data, their
\* empty nodes skipped; of two topics that become one, either may be read last.
Stripped(p) == SelectSeq(p, LAMBDA n : n # "")
Restart == LET stored == Flat(tree)
               db == {p \in DOMAIN stored : stored[p] # None}
               read == {Stripped(p) : p \in db} IN
           /\ Count
           /\ \E last \in {g \in [read -> db] : \A s \in read : Stripped(g[s]) = s} :
                tree' = Nest([s \in read |-> stored[last[s]]])
           /\ subs' = Dict({}, NoKids) /\ subscribed' = {}

Next == \/ \E f \in Filters, d \in Values \cup {None} : Publish(f, d)
        \/ \E g \in Grafts : Graft(g)
        \/ \E c \in Clients, f \in Filters : Subscribe(c, f) \/ Unsubscribe(c, f)
        \/ Restart

Spec == Init /\ [][Next]_vars

-----------------------------------------------------------------------------
(* Properties *)

flat == Flat(tree)

\* Both trees hold what they are meant to hold: a deleted topic holds None, and no
\* wildcard gets into a retained topic, whatever is there when one is published to.
TypeOK == /\ \A p \in DOMAIN flat : flat[p] \in Values \cup {None} /\ IsStatic(p)
          /\ \A p \in Paths(subs) : LeafAt(subs, p, {}) \subseteq Clients
          /\ subscribed \subseteq Clients \X ({SubscribedTopic(f) : f \in Filters})
          /\ requests \in 0..MaxRequests

(***************************************************************************)
(* The nested dictionaries, searched node by node and grown where a static  *)
(* topic is new, are the flat map from topics to data that FlatStore        *)
(* describes with matching alone, for publishes, tree publishes with and    *)
(* without the mirror flag, and restarts (get_applicable_rows.py,           *)
(* flatten_message.py, tree/manager.py 52-81).                              *)
(***************************************************************************)
FlatSpec == Store!Spec

(***************************************************************************)
(* What a new tree subscription is sent: the data of every retained topic   *)
(* that its filter stands for and of no other, each at the nodes that stand *)
(* for the wildcards; below a base the base itself too                      *)
(* (filter_tree.py).                                                        *)
(***************************************************************************)
StandsFor(f, t) == IF Store!HasEverything(f) THEN Store!Under(f, t) \/ Store!Matches(Store!Base(f), t)
                   ELSE Store!Matches(f, t)
SyncIsRetained == \A f \in {f \in Filters : ~Store!Invalid(f)} :
  LET sent == Flat(FilterTree(f, tree)) IN
  {<<p, sent[p]>> : p \in {p \in DOMAIN sent : sent[p] \in Values}} =
  {<<Store!Binding(f, t), flat[t]>> : t \in {t \in Store!Filled : StandsFor(f, t)}}

\* The rows of the publishes that could come next.
SomeRows == {{<<p, d>> : p \in Written(f)} : f \in Filters, d \in Values}
              \cup {Flatten(g.filter, Nest(g.data), <<>>, tree, g.mirror) : g \in Grafts}

(***************************************************************************)
(* Each subscription without # that a publish concerns gets one message,    *)
(* with the rows its filter matches and no other, and the others get none   *)
(* (create_messages_for_subscriptions.py, broker.py 96-111).                *)
(***************************************************************************)
Updated(f, rows) == \E r \in rows : Store!Matches(f, r[1])
NoEverything(f) == \A k \in DOMAIN f : f[k] # "#"
UpdatesExact == \A rows \in SomeRows :
  {m \in CreateMessages(subs, rows, <<>>) : NoEverything(m.topic)} =
  {[clients |-> {c \in Clients : <<c, f>> \in subscribed},
    topic |-> f,
    data |-> BuildData({r \in rows : Store!Matches(f, r[1])}, f)] :
       f \in {s[2] : s \in {s \in subscribed : NoEverything(s[2]) /\ Updated(s[2], rows)}}}

(***************************************************************************)
(* The table of subscriptions has the live ones and nothing else, not even  *)
(* an empty branch, after any number of subscribes and unsubscribes of      *)
(* filters that share nodes (recursive_default_dict.py 31-55, broker.py     *)
(* 123-146).                                                                *)
(***************************************************************************)
SubscriptionsExact ==
  /\ subscribed = {<<c, p>> \in Clients \X Paths(subs) : c \in LeafAt(subs, p, {})}
  /\ Paths(subs) = {<<>>} \cup UNION {Prefixes(s[2]) : s \in subscribed}
=============================================================================
