---------------------------- MODULE MCCollection -----------------------------
(* Small instances of Collection for TLC. *)
EXTENDS Collection

CONSTANTS s1, s2

At(s, p) == [addr |-> s, vt |-> p, deleted |-> FALSE]
Gone     == [addr |-> s1, vt |-> 1, deleted |-> TRUE]

\* A record at position 1 of s1, at position 2 of s2, and deleted.
CoreContents == {At(s1, 1), At(s2, 2), Gone}

\* Files that list s1 alone, or s2 too with one more position for s1.
CoreFiles == {[s \in {s1} |-> {1}], [s \in {s1, s2} |-> IF s = s1 THEN {1, 2} ELSE {2}]}

\* A record that comes and goes.
ComesAndGoes == {At(s1, 1), Gone}
=============================================================================
