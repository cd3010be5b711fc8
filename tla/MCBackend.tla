----------------------------- MODULE MCBackend ------------------------------
(* Small instances of Backend for TLC. *)
EXTENDS Backend

MCTaskLists == {<<>>} \cup {<<t>> : t \in Task} \cup {<<t, u>> : t, u \in Task}
MCSingleLists == {<<>>} \cup {<<t>> : t \in Task}
=============================================================================
