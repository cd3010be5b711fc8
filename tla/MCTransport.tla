---------------------------- MODULE MCTransport ----------------------------
(* Small instances of Transport for TLC. *)
EXTENDS Transport

P(type, qos, str, data) == [type |-> type, qos |-> qos, retain |-> FALSE, str |-> str,
                            data |-> data, flags |-> 0]

\* Topics of one byte: 3 bytes, or 5 with an id, precede the data.  Totals of
\* 126, of OutSize and twice OutSize, lengths around the first two boundaries.
Publishes == {P("PUBLISH", 0, 1, d) : d \in {0, 121, 125}}
             \cup {P("PUBLISH", 2, 1, d) : d \in {2032, 2033, 4072}}
Requests == {[P("CONNECT", 0, 0, 1) EXCEPT !.flags = 4 + 64], P("SUBSCRIBE", 0, 1, 2)}
Simple == {P("PUBLISH", 0, 1, 124), P("SUBACK", 0, 0, 2),
           [P("CONNECT", 0, 2, 0) EXCEPT !.flags = 128], P("CONNACK", 0, 0, 0), P("PUBACK", 0, 0, 0),
           P("UNSUBSCRIBE", 0, 0, 1), P("PINGREQ", 0, 0, 0)}
Small == Publishes \cup Requests
Large == Simple \cup {[P("PUBLISH", 1, 0, n - 4) EXCEPT !.retain = TRUE] :
                        n \in {16383, 16384, 2097151, 2097152, 268435455}}
=============================================================================
