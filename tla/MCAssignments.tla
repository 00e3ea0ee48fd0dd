---------------------------- MODULE MCAssignments ----------------------------
(* Small instances of Assignments for TLC: two segments in a ward each. *)
EXTENDS Assignments, TLC

CONSTANTS s1, s2, w1, w2

MCWardOf == (s1 :> w1) @@ (s2 :> w2)
=============================================================================
