---------------------------- MODULE MCBranchRules ----------------------------
(* Small instances of BranchRules for TLC. *)
EXTENDS BranchRules, TLC

CONSTANTS s1, s2, s3, w1, w2, p1, p2

\* Two segments of one province in wards of their own, and one elsewhere
\* whose ward name is that of the first (ward rules ignore the province).
MCWardOf     == (s1 :> w1) @@ (s2 :> w2) @@ (s3 :> w1)
MCProvinceOf == (s1 :> p1) @@ (s2 :> p1) @@ (s3 :> p2)
=============================================================================
