----------------------------- MODULE MCDelivery -----------------------------
(* Small instances of Delivery for TLC. *)
EXTENDS Delivery

CONSTANTS a, b, d1, d2, d3

MCMatchWild == "+" :> {a, b}
MCMatchStatic == "a" :> {a}

OneShotRequests == {Plain(FALSE, a, d1)}
TreeRequests == {Spread("+", d1), Graft("+", a :> d2, TRUE), Graft("+", a :> d1 @@ b :> d2, FALSE)}

\* d3 is not UTF-8.
MCRequests == {Plain(TRUE, a, d3), Plain(TRUE, b, Empty)} \cup TreeRequests \cup OneShotRequests
MCPlain == {Plain(TRUE, a, d) : d \in Data}

MCInitial == a :> d1 @@ b :> Absent
MCFull == a :> d1 @@ b :> d2
=============================================================================
