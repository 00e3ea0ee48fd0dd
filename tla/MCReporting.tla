----------------------------- MODULE MCReporting -----------------------------
(* Small instances of Reporting for TLC. *)
EXTENDS Reporting

CONSTANTS s1, s2

\* s1 needs two positions at first, s2 one; one province, two groups, one branch.
NeedThree == [s \in Segments |-> IF s = s1 THEN {1, 2} ELSE {1}]
OneOrTwo == {{1}, {1, 2}}
OneProvince == [s \in Segments |-> "p"]
TwoGroups == [s \in Segments |-> IF s = s1 THEN "A" ELSE "C"]
OneBranch == [s \in Segments |-> "b"]

\* No filter, and one that selects s1.
TwoScopes == {Segments, {s1}}
=============================================================================
