----------------------------- MODULE MCSessions -----------------------------
(* Small instances of Sessions for TLC. *)
EXTENDS Sessions, TLC

CONSTANTS c1, c2, i1, i2

SharedByTwo == c1 :> i1 @@ c2 :> i1
=============================================================================
