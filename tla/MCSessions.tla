----------------------------- MODULE MCSessions ------------------------------
(* Small instances of Sessions for TLC. *)
EXTENDS Sessions

CONSTANTS s1, sync1, sync2, replay, check, review

At(s, p) == [addr |-> s, vt |-> p, deleted |-> FALSE]
Gone     == [addr |-> s1, vt |-> 1, deleted |-> TRUE]

\* A record in s1, nowhere, and deleted.
ComesAndGoes == {At(s1, 1), At(None, 1), Gone}

NeedOne == [s \in Segments |-> {1}]
=============================================================================
