----------------------------- MODULE MCServers -----------------------------
(* A small instance of Servers for TLC. *)
EXTENDS Servers, TLC

CONSTANTS c1, c2, i1, i2, i3

OneEach == c1 :> i1 @@ c2 :> i2
=============================================================================
