----------------------------- MODULE MCRetention ----------------------------
(* Small instances of Retention for TLC. *)
EXTENDS Retention

CONSTANTS a, b, d1, d2

MCMatch == "+" :> {a, b}
MCInitial == a :> d1 @@ b :> Absent

MCRequests == {Plain(TRUE, a, d1), Plain(TRUE, a, d2), Plain(TRUE, a, Empty), Spread("+", d2),
               Graft("+", b :> d1, TRUE), Plain(FALSE, b, d1)}
=============================================================================
