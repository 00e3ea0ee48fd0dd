---------------------------- MODULE MCRouteImport ----------------------------
(* Small instances of RouteImport for TLC: prices 1, 2 and 3 are the groups  *)
(* A, B and C.                                                               *)
EXTENDS RouteImport, TLC

CONSTANTS k1, k2, k3, p1, p2, w1

MCProvinceOf == (k1 :> p1) @@ (k2 :> p1) @@ (k3 :> p2)
MCWardOf     == (k1 :> w1) @@ (k2 :> w1) @@ (k3 :> w1)

\* The files of p1 as its prices change and segments come and go, that of p2,
\* and one with rows of both.
MasterFiles ==
    { [first |-> p1, rows |-> (k1 :> 1) @@ (k2 :> 2)],
      [first |-> p1, rows |-> (k1 :> 3)],
      [first |-> p1, rows |-> (k1 :> None) @@ (k2 :> 1)],
      [first |-> p2, rows |-> (k3 :> 2)],
      [first |-> p2, rows |-> (k2 :> 3) @@ (k3 :> 1)] }

\* One price, and another.
TwoPrices == { [first |-> p1, rows |-> (k1 :> 1)], [first |-> p1, rows |-> (k1 :> 3)] }

\* A file whose rows are of two provinces.
TwoProvinces == { [first |-> p1, rows |-> (k1 :> 1) @@ (k3 :> 2)] }
=============================================================================
