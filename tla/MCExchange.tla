----------------------------- MODULE MCExchange -----------------------------
(* Small instances of Exchange for TLC. *)
EXTENDS Exchange, TLC

\* Both ids have a qos 2 exchange, and every request is made under one of them.
MCKinds == (0 :> {"PUBLISH1", "PUBLISH2", "SUBSCRIBE"})
           @@ (1 :> {"PUBLISH0", "PUBLISH2", "UNSUBSCRIBE", "PINGREQ"})
=============================================================================
