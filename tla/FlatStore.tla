----------------------------- MODULE FlatStore -----------------------------
(***************************************************************************)
(* What the message tree promises: a map from topics to data, and which     *)
(* topics a filter stands for.  A topic is a sequence of nodes; a deleted   *)
(* one stays in the map with the data None.                                 *)
(***************************************************************************)
EXTENDS Naturals, Sequences, SequencesExt, FiniteSets

CONSTANTS Filters,  \* topics of publish and subscribe requests, with and without wildcards
          Values,   \* payloads, as strings
          Grafts    \* tree publishes: [filter, data, mirror], data by the nodes that stand for +

VARIABLE flat

None == "null"
Wild == {"+", "#"}
IsStatic(f) == \A k \in DOMAIN f : f[k] \notin Wild

Matches(f, t) == Len(f) = Len(t) /\ \A k \in DOMAIN f : f[k] \in {"+", t[k]}
HasEverything(f) == Last(f) = "#"
Base(f) == Front(f)
Under(f, t) == Len(t) >= Len(f) /\ Matches(Base(f), SubSeq(t, 1, Len(f) - 1))
Invalid(f) == \E k \in 1..Len(f) - 1 : f[k] = "#"
NoFirstNode(f) == f[1] = ""

\* The nodes of t that stand for wildcards of f
Binding(f, t) == LET here == SelectSeq([k \in DOMAIN t |-> k],
                                       LAMBDA k : k > Len(f) \/ f[k] \in Wild)
                 IN  [k \in DOMAIN here |-> t[here[k]]]

Nodes == {<<>>} \cup UNION {Prefixes(t) : t \in DOMAIN flat}
Below == {Append(p, n) : p \in Nodes, n \in UNION {{f[k] : k \in DOMAIN f} : f \in Filters} \ Wild}

(***************************************************************************)
(* The topics a publish to f writes: f itself if it has no wildcard; every  *)
(* topic below its base if it ends in #; the nodes it matches if it ends in *)
(* +, topics or not; otherwise also topics that are new, below the nodes    *)
(* that the filter without its last node matches.  None if # is not last or *)
(* the first node is empty.                                                 *)
(***************************************************************************)
Addressed(f) == IF Invalid(f) \/ NoFirstNode(f) THEN {}
                ELSE IF IsStatic(f) THEN {f}
                ELSE IF HasEverything(f) THEN {t \in DOMAIN flat : Under(f, t)}
                ELSE {t \in IF Last(f) = "+" THEN Nodes ELSE Below : Matches(f, t)}

\* With the mirror flag also the topics that the payload could name and does not,
\* where the payload says anything of their siblings.
Cleared(g) == {t \in DOMAIN flat :
  /\ Last(g.filter) = "+" /\ Matches(g.filter, t)
  /\ LET there == Binding(g.filter, t) IN
     /\ there \notin DOMAIN g.data
     /\ Len(there) = 1 \/ \E b \in DOMAIN g.data : Front(b) = Front(there)}
GraftRows(g) ==
  {<<t, g.data[Binding(g.filter, t)]>> :
      t \in {[k \in DOMAIN g.filter |->
                IF g.filter[k] = "+"
                THEN b[Cardinality({j \in 1..k : g.filter[j] = "+"})] ELSE g.filter[k]] :
             b \in DOMAIN g.data}}
  \cup (IF g.mirror THEN {<<t, None>> : t \in Cleared(g)} ELSE {})

Write(rows) == flat' = [t \in DOMAIN flat \cup {r[1] : r \in rows} |->
  IF \E r \in rows : r[1] = t THEN (CHOOSE r \in rows : r[1] = t)[2] ELSE flat[t]]

\* A restart forgets deleted topics, and loses the empty nodes of the others.
Filled == {t \in DOMAIN flat : flat[t] # None}
Stripped(t) == SelectSeq(t, LAMBDA n : n # "")

Init == flat = [t \in {} |-> None]
Publish(f, d) == Write({<<t, d>> : t \in Addressed(f)})
Graft(g) == Write(GraftRows(g))
Restart == /\ DOMAIN flat' = {Stripped(t) : t \in Filled}
           /\ \A s \in DOMAIN flat' : \E t \in Filled : Stripped(t) = s /\ flat'[s] = flat[t]

Next == \/ \E f \in Filters, d \in Values \cup {None} : Publish(f, d)
        \/ \E g \in Grafts : Graft(g)
        \/ Restart
Spec == Init /\ [][Next]_flat
=============================================================================
