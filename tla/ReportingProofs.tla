--------------------------- MODULE ReportingProofs ---------------------------
(* Theorems about Reporting, for every value of its constants. *)
EXTENDS Reporting, FiniteSetTheorems, TLAPS

-----------------------------------------------------------------------------
(* Sums.  What Total computes for a finite set, whatever element the fold    *)
(* takes first: the tables of a report are sums of sums.                     *)

\* Induction over the subsets of a finite set, for a set of good ones.
LEMMA SubsetInduction ==
  ASSUME NEW S, IsFiniteSet(S), NEW Good, {} \in Good,
         \A T \in SUBSET S : T # {} /\ (\A x \in T : T \ {x} \in Good) => T \in Good
  PROVE  SUBSET S \subseteq Good
<1> DEFINE Bad == (SUBSET S) \ Good
<1> SUFFICES ASSUME Bad # {} PROVE FALSE
  OBVIOUS
<1>1. IsWellFoundedOn(StrictSubsetOrdering(S), SUBSET S)
  BY FS_StrictSubsetOrderingWellFounded, FS_FiniteSubsetsOfFinite
<1>2. PICK m \in Bad : \A T \in Bad : <<T, m>> \notin StrictSubsetOrdering(S)
  <2>1. Bad \subseteq SUBSET S
    OBVIOUS
  <2> HIDE DEF Bad
  <2> QED BY <1>1, <2>1, WFMin
<1>3. \A x \in m : m \ {x} \in Good
  <2> TAKE x \in m
  <2>1. m \ {x} \in SUBSET S /\ <<m \ {x}, m>> \in StrictSubsetOrdering(S)
    BY DEF StrictSubsetOrdering
  <2> QED BY <1>2, <2>1
<1> QED BY <1>3

-----------------------------------------------------------------------------
(* The fold behind Total satisfies the equation it is defined by.           *)

Pick(T) == CHOOSE x \in T : TRUE
SumAt(f, g, T) == IF T = {} THEN 0 ELSE f[Pick(T)] + g[T \ {Pick(T)}]
IsTable(f, g, S) == g = [T \in SUBSET S |-> SumAt(f, g, T)]
SumTable(f, S) == CHOOSE g : IsTable(f, g, S)

\* A total is the entry of the whole set in the table of sums.
LEMMA TotalTable ==
  ASSUME NEW f, NEW S
  PROVE  Total(f, S) = SumTable(f, S)[S]
BY DEF Total, MapThenSumSet, MapThenFoldSet, SumTable, IsTable, SumAt, Pick

\* Two tables agree where both are defined.
LEMMA TableUnique ==
  ASSUME NEW f, NEW g, NEW h, NEW U, NEW V, IsFiniteSet(U), U \subseteq V,
         IsTable(f, g, U), IsTable(f, h, V)
  PROVE  g[U] = h[U]
<1> DEFINE Good == {T \in SUBSET U : g[T] = h[T]}
<1>1. \A T \in SUBSET U : g[T] = SumAt(f, g, T) /\ h[T] = SumAt(f, h, T)
  BY DEF IsTable
<1>2. {} \in Good
  BY <1>1 DEF SumAt
<1>3. ASSUME NEW T \in SUBSET U, T # {}, \A x \in T : T \ {x} \in Good PROVE T \in Good
  BY <1>1, <1>3 DEF SumAt, Pick
<1>4. SUBSET U \subseteq Good
  <2> HIDE DEF Good
  <2> QED BY <1>2, <1>3, SubsetInduction
<1> QED BY <1>4

\* A table of T and of every smaller set gives one of T.
LEMMA TableExists ==
  ASSUME NEW f, NEW S, IsFiniteSet(S)
  PROVE  \A U \in SUBSET S : IsTable(f, SumTable(f, U), U)
<1> DEFINE Good == {U \in SUBSET S : \A T \in SUBSET U : IsTable(f, SumTable(f, T), T)}
<1>1. ASSUME NEW m \in SUBSET S,
             \A T \in SUBSET m : T # m => IsTable(f, SumTable(f, T), T)
      PROVE IsTable(f, SumTable(f, m), m)
  <2> DEFINE value(T) == SumTable(f, T)[T]
             g == [T \in SUBSET m |-> IF T = m
                     THEN IF m = {} THEN 0 ELSE f[Pick(m)] + value(m \ {Pick(m)})
                     ELSE value(T)]
  <2>1. ASSUME NEW T \in SUBSET m PROVE g[T] = SumAt(f, g, T)
    <3>1. T # {} => Pick(T) \in T
      BY DEF Pick
    <3>2. CASE T = m
      BY <3>1, <3>2 DEF SumAt
    <3>3. CASE T # m
      <4>1. value(T) = SumAt(f, SumTable(f, T), T)
        BY <1>1, <3>3 DEF IsTable
      <4>2. CASE T = {}
        BY <3>3, <4>1, <4>2 DEF SumAt
      <4>3. CASE T # {}
        <5> DEFINE R == T \ {Pick(T)}
        <5>1. R \in SUBSET m /\ R # m /\ R \subseteq T
          BY <3>1, <4>3
        <5>2. SumTable(f, R)[R] = SumTable(f, T)[R]
          BY <1>1, <3>3, <5>1, TableUnique, FS_Subset
        <5>3. g[R] = value(R) /\ g[T] = value(T)
          BY <3>3, <5>1
        <5> QED BY <4>1, <4>3, <5>2, <5>3 DEF SumAt
      <4> QED BY <4>2, <4>3
    <3> QED BY <3>2, <3>3
  <2>2. IsTable(f, g, m)
    <3> HIDE DEF value
    <3> QED BY <2>1 DEF IsTable
  <2> HIDE DEF g
  <2> QED BY <2>2 DEF SumTable
<1>2. {} \in Good
  BY <1>1
<1>3. ASSUME NEW U \in SUBSET S, U # {}, \A x \in U : U \ {x} \in Good PROVE U \in Good
  <2>1. \A T \in SUBSET U : T # U => IsTable(f, SumTable(f, T), T)
    <3> TAKE T \in SUBSET U
    <3> HAVE T # U
    <3>1. PICK x \in U : x \notin T
      OBVIOUS
    <3> QED BY <1>3, <3>1
  <2> QED BY <1>1, <2>1
<1>4. SUBSET S \subseteq Good
  <2> HIDE DEF Good
  <2> QED BY <1>2, <1>3, SubsetInduction
<1> QED BY <1>4

-----------------------------------------------------------------------------
(* Laws of sums.                                                            *)

\* Nothing adds up to 0.
LEMMA TotalEmpty == \A f : Total(f, {}) = 0
<1> TAKE f
<1>1. IsTable(f, SumTable(f, {}), {})
  BY TableExists, FS_EmptySet
<1> QED BY <1>1, TotalTable DEF IsTable, SumAt

\* A total is the entry that is picked and the rest.
LEMMA TotalPick ==
  ASSUME NEW f, NEW S, IsFiniteSet(S), S # {}
  PROVE  Pick(S) \in S /\ Total(f, S) = f[Pick(S)] + Total(f, S \ {Pick(S)})
<1> DEFINE R == S \ {Pick(S)}
<1>1. Pick(S) \in S
  BY DEF Pick
<1>2. IsFiniteSet(R) /\ R \subseteq S
  BY FS_Subset
<1>3. IsTable(f, SumTable(f, S), S) /\ IsTable(f, SumTable(f, R), R)
  BY <1>2, TableExists
<1>4. SumTable(f, R)[R] = SumTable(f, S)[R]
  BY <1>2, <1>3, TableUnique
<1>5. SumTable(f, S)[S] = SumAt(f, SumTable(f, S), S)
  BY <1>3 DEF IsTable
<1> QED BY <1>1, <1>4, <1>5, TotalTable DEF SumAt

Numbers(f, S) == \A s \in S : f[s] \in Nat

\* Numbers add up to a number.
LEMMA TotalNat ==
  ASSUME NEW S, IsFiniteSet(S), NEW f, Numbers(f, S)
  PROVE  Total(f, S) \in Nat
<1> DEFINE Good == {T \in SUBSET S : Total(f, T) \in Nat}
<1>1. {} \in Good
  BY TotalEmpty
<1>2. ASSUME NEW T \in SUBSET S, T # {}, \A x \in T : T \ {x} \in Good PROVE T \in Good
  <2>1. Pick(T) \in T /\ Total(f, T) = f[Pick(T)] + Total(f, T \ {Pick(T)})
    BY <1>2, TotalPick, FS_Subset
  <2> QED BY <1>2, <2>1 DEF Numbers
<1>3. SUBSET S \subseteq Good
  <2> HIDE DEF Good
  <2> QED BY <1>1, <1>2, SubsetInduction
<1> QED BY <1>3

\* Any element may be taken out first.
LEMMA TotalRemove ==
  ASSUME NEW S, IsFiniteSet(S), NEW f, Numbers(f, S)
  PROVE  \A x \in S : Total(f, S) = f[x] + Total(f, S \ {x})
<1> DEFINE Good == {T \in SUBSET S : \A x \in T : Total(f, T) = f[x] + Total(f, T \ {x})}
<1>1. {} \in Good
  OBVIOUS
<1>2. ASSUME NEW T \in SUBSET S, T # {}, \A x \in T : T \ {x} \in Good PROVE T \in Good
  <2>1. ASSUME NEW x \in T PROVE Total(f, T) = f[x] + Total(f, T \ {x})
    <3> DEFINE p == Pick(T)
    <3>1. p \in T /\ Total(f, T) = f[p] + Total(f, T \ {p})
      BY <1>2, TotalPick, FS_Subset
    <3>2. CASE p # x
      <4> DEFINE R == (T \ {p}) \ {x}
      <4>1. Total(f, T \ {p}) = f[x] + Total(f, R)
        BY <1>2, <3>1, <3>2
      <4>2. Total(f, T \ {x}) = f[p] + Total(f, R)
        <5>1. R = (T \ {x}) \ {p}
          OBVIOUS
        <5> QED BY <1>2, <3>1, <3>2, <5>1
      <4>3. Total(f, R) \in Nat /\ f[p] \in Nat /\ f[x] \in Nat
        <5>1. IsFiniteSet(R) /\ Numbers(f, R)
          BY FS_Subset DEF Numbers
        <5> QED BY <3>1, <5>1, TotalNat DEF Numbers
      <4> HIDE DEF R
      <4> QED BY <3>1, <4>1, <4>2, <4>3
    <3> QED BY <3>1, <3>2
  <2> QED BY <2>1
<1>3. SUBSET S \subseteq Good
  <2> HIDE DEF Good
  <2> QED BY <1>1, <1>2, SubsetInduction
<1> QED BY <1>3

\* A sum over two disjoint sets.
LEMMA TotalUnion ==
  ASSUME NEW A, NEW B, IsFiniteSet(A), IsFiniteSet(B), A \cap B = {},
         NEW f, Numbers(f, A \cup B)
  PROVE  Total(f, A \cup B) = Total(f, A) + Total(f, B)
<1> DEFINE Good == {T \in SUBSET B : Total(f, A \cup T) = Total(f, A) + Total(f, T)}
<1>1. {} \in Good
  <2>1. Total(f, A) \in Nat
    BY TotalNat DEF Numbers
  <2> QED BY <2>1, TotalEmpty
<1>2. ASSUME NEW T \in SUBSET B, T # {}, \A x \in T : T \ {x} \in Good PROVE T \in Good
  <2>1. PICK x \in T : TRUE
    BY <1>2
  <2>2. /\ IsFiniteSet(T) /\ IsFiniteSet(A \cup T) /\ IsFiniteSet(T \ {x})
        /\ Numbers(f, T) /\ Numbers(f, A) /\ Numbers(f, A \cup T) /\ Numbers(f, T \ {x})
    BY FS_Subset, FS_Union DEF Numbers
  <2>3. Total(f, T) = f[x] + Total(f, T \ {x})
    BY <2>2, TotalRemove
  <2>4. Total(f, A \cup T) = f[x] + Total(f, A \cup (T \ {x}))
    <3>1. A \cup (T \ {x}) = (A \cup T) \ {x}
      BY <2>1
    <3> QED BY <2>2, <3>1, TotalRemove
  <2>5. f[x] \in Nat /\ Total(f, T \ {x}) \in Nat /\ Total(f, A) \in Nat
    BY <2>2, TotalNat DEF Numbers
  <2> QED BY <1>2, <2>3, <2>4, <2>5
<1>3. SUBSET B \subseteq Good
  <2> HIDE DEF Good
  <2> QED BY <1>1, <1>2, SubsetInduction
<1> QED BY <1>3

\* A part is no more than the whole.
LEMMA TotalSubset ==
  ASSUME NEW S, IsFiniteSet(S), NEW T \in SUBSET S, NEW f, Numbers(f, S)
  PROVE  Total(f, T) <= Total(f, S)
<1>1. S = T \cup (S \ T) /\ T \cap (S \ T) = {}
  OBVIOUS
<1>2. /\ IsFiniteSet(T) /\ IsFiniteSet(S \ T)
      /\ Numbers(f, T) /\ Numbers(f, S \ T) /\ Numbers(f, T \cup (S \ T))
  BY FS_Subset DEF Numbers
<1>3. Total(f, T) \in Nat /\ Total(f, S \ T) \in Nat
  BY <1>2, TotalNat
<1>4. Total(f, T \cup (S \ T)) = Total(f, T) + Total(f, S \ T)
  BY <1>1, <1>2, TotalUnion
<1>5. Total(f, T \cup (S \ T)) = Total(f, S)
  BY <1>1
<1> QED BY <1>3, <1>4, <1>5

\* Sums are added, and compared, term by term.
LEMMA TotalTerms ==
  ASSUME NEW S, IsFiniteSet(S), NEW f, NEW g, NEW h,
         Numbers(f, S), Numbers(g, S), Numbers(h, S)
  PROVE  /\ (\A s \in S : f[s] = g[s]) => Total(f, S) = Total(g, S)
         /\ (\A s \in S : f[s] <= g[s]) => Total(f, S) <= Total(g, S)
         /\ (\A s \in S : f[s] <= g[s] + h[s]) => Total(f, S) <= Total(g, S) + Total(h, S)
<1> DEFINE Same(T) == (\A s \in T : f[s] = g[s]) => Total(f, T) = Total(g, T)
           Less(T) == (\A s \in T : f[s] <= g[s]) => Total(f, T) <= Total(g, T)
           Below(T) == (\A s \in T : f[s] <= g[s] + h[s]) => Total(f, T) <= Total(g, T) + Total(h, T)
           Good == {T \in SUBSET S : Same(T) /\ Less(T) /\ Below(T)}
<1>1. {} \in Good
  BY TotalEmpty
<1>2. ASSUME NEW T \in SUBSET S, T # {}, \A x \in T : T \ {x} \in Good PROVE T \in Good
  <2>1. PICK x \in T : TRUE
    BY <1>2
  <2> DEFINE R == T \ {x}
  <2>2. /\ IsFiniteSet(T) /\ IsFiniteSet(R)
        /\ Numbers(f, T) /\ Numbers(g, T) /\ Numbers(h, T)
        /\ Numbers(f, R) /\ Numbers(g, R) /\ Numbers(h, R)
    BY FS_Subset DEF Numbers
  <2>3. /\ Total(f, T) = f[x] + Total(f, R) /\ Total(g, T) = g[x] + Total(g, R)
        /\ Total(h, T) = h[x] + Total(h, R)
    BY <2>2, TotalRemove
  <2>4. /\ f[x] \in Nat /\ g[x] \in Nat /\ h[x] \in Nat
        /\ Total(f, R) \in Nat /\ Total(g, R) \in Nat /\ Total(h, R) \in Nat
    BY <2>2, TotalNat DEF Numbers
  <2>5. Same(R) /\ Less(R) /\ Below(R)
    BY <1>2
  <2>6. x \in T /\ \A s \in R : s \in T
    BY <2>1
  <2> HIDE DEF R
  <2> QED BY <2>3, <2>4, <2>5, <2>6
<1>3. SUBSET S \subseteq Good
  <2> HIDE DEF Good
  <2> QED BY <1>1, <1>2, SubsetInduction
<1> QED BY <1>3

\* The sum of equal terms.
LEMMA TotalConstant ==
  ASSUME NEW S, IsFiniteSet(S), NEW c \in Nat, NEW f, \A s \in S : f[s] = c
  PROVE  Total(f, S) = Cardinality(S) * c
<1> DEFINE Good == {T \in SUBSET S : Total(f, T) = Cardinality(T) * c}
<1>1. {} \in Good
  BY TotalEmpty, FS_EmptySet
<1>2. ASSUME NEW T \in SUBSET S, T # {}, \A x \in T : T \ {x} \in Good PROVE T \in Good
  <2>1. PICK x \in T : TRUE
    BY <1>2
  <2>2. IsFiniteSet(T) /\ Numbers(f, T)
    BY FS_Subset DEF Numbers
  <2>3. Total(f, T) = c + Total(f, T \ {x})
    BY <2>2, TotalRemove
  <2>4. Cardinality(T \ {x}) = Cardinality(T) - 1 /\ Cardinality(T) \in Nat
    BY <2>1, <2>2, FS_RemoveElement, FS_CardinalityType
  <2> DEFINE n == Cardinality(T)
  <2>5. Total(f, T) = c + (n - 1) * c
    BY <1>2, <2>1, <2>3, <2>4
  <2>6. n \in Nat
    BY <2>4
  <2> HIDE DEF n
  <2>7. c + (n - 1) * c = n * c
    BY <2>6
  <2> QED BY <2>5, <2>7 DEF n
<1>3. SUBSET S \subseteq Good
  <2> HIDE DEF Good
  <2> QED BY <1>1, <1>2, SubsetInduction
<1> QED BY <1>3

\* The members of S whose key is k.
Members(S, key, k) == {s \in S : key[s] = k}

\* A sum may be taken group by group.
LEMMA TotalGroups ==
  ASSUME NEW S, IsFiniteSet(S), NEW f, Numbers(f, S), NEW K, IsFiniteSet(K), NEW key,
         \A s \in S : key[s] \in K,
         NEW g, \A k \in K : g[k] = Total(f, Members(S, key, k))
  PROVE  Total(g, K) = Total(f, S) /\ Numbers(g, K)
<1> DEFINE In(J) == {s \in S : key[s] \in J}
           Good == {J \in SUBSET K : Total(g, J) = Total(f, In(J))}
<1>0. \A T \in SUBSET S : IsFiniteSet(T) /\ Numbers(f, T) /\ Total(f, T) \in Nat
  BY FS_Subset, TotalNat DEF Numbers
<1>9. \A k \in K : g[k] \in Nat
  BY <1>0 DEF Members
<1>1. {} \in Good
  <2>1. In({}) = {}
    OBVIOUS
  <2> QED BY <2>1, TotalEmpty
<1>2. ASSUME NEW J \in SUBSET K, J # {}, \A x \in J : J \ {x} \in Good PROVE J \in Good
  <2>1. PICK x \in J : TRUE
    BY <1>2
  <2>2. IsFiniteSet(J) /\ Numbers(g, J)
    BY <1>9, FS_Subset DEF Numbers
  <2>3. Total(g, J) = g[x] + Total(g, J \ {x})
    BY <2>2, TotalRemove
  <2> DEFINE A == {s \in S : key[s] = x}
             B == In(J \ {x})
  <2>4. A \cup B = In(J) /\ A \cap B = {} /\ A \in SUBSET S /\ B \in SUBSET S /\ In(J) \in SUBSET S
    BY <2>1
  <2>5. g[x] = Total(f, A) /\ Total(g, J \ {x}) = Total(f, B)
    BY <1>2, <2>1 DEF Members
  <2> HIDE DEF A, B, In
  <2>6. Total(f, A \cup B) = Total(f, A) + Total(f, B)
    BY <1>0, <2>4, TotalUnion
  <2> QED BY <2>3, <2>4, <2>5, <2>6
<1>3. SUBSET K \subseteq Good
  <2> HIDE DEF Good
  <2> QED BY <1>1, <1>2, SubsetInduction
<1>4. Numbers(g, K)
  BY <1>9 DEF Numbers
<1>5. In(K) = S
  OBVIOUS
<1> QED BY <1>3, <1>4, <1>5

-----------------------------------------------------------------------------
(* Types.                                                                   *)

\* Records can be counted.
LEMMA CountType ==
  ASSUME NEW X \in SUBSET Records PROVE Cardinality(X) \in Nat /\ IsFiniteSet(X)
BY RecordsAssumption, FS_Subset, FS_CardinalityType

LEMMA NoReportType == NoReport \in ReportType
<1>1. Nobody \in Assigned
  BY DateAssumption DEF Nobody, Assigned
<1>2. Zero \in Count
  BY DEF Zero, Count
<1>3. [s \in Segments |-> NotStarted] \in [Segments -> Statuses]
      /\ [s \in Segments |-> Nobody] \in [Segments -> Assigned]
  BY <1>1 DEF Statuses
<1> QED BY <1>2, <1>3, NeedAssumption DEF NoReport, ReportType

LEMMA InitType == Init => TypeOK
<1>1. Nobody \in Assigned
  BY DateAssumption DEF Nobody, Assigned
<1> QED BY <1>1, NoReportType, NeedAssumption DEF Init, TypeOK, Statuses

\* A recalculation gives a status.
LEMMA RecalculatedType ==
  ASSUME NEW c, NEW s \in Segments, NEW pos, NEW old \in Statuses
  PROVE  Recalculated(c, s, pos, old) \in Statuses
<1>1. StatusOfData(c, s, pos) \in Statuses
  BY DEF StatusOfData, Statuses
<1> QED BY <1>1 DEF Recalculated

\* What a sync and a replay do alike: a record is written, and the segments it
\* is in and was in are touched.
Written(r, x) ==
    /\ rows' = [rows EXCEPT ![r] = x]
    /\ touched' = touched \cup ({x.seg} \ {None}) \cup Left(r) /\ changes' = changes + 1
    /\ UNCHANGED <<asg, need, day, rep>>

LEMMA PutWrites ==
  ASSUME NEW r \in Records, NEW x \in SeenRow, Put(r, x)
  PROVE  Written(r, x)
<1> DEFINE T == ({x.seg} \ {None}) \cup Left(r)
<1>1. /\ rows' = [rows EXCEPT ![r] = x] /\ touched' = touched \cup T
      /\ changes' = changes + 1 /\ UNCHANGED <<asg, need, day, rep>>
  BY DEF Put, Changed
<1> QED BY <1>1 DEF Written

LEMMA ReplayWrites ==
  ASSUME TypeOK, NEW r \in Records, NEW s \in Segments, Replay(r, s)
  PROVE  /\ [rows[r] EXCEPT !.seg = s] \in SeenRow
         /\ Written(r, [rows[r] EXCEPT !.seg = s])
<1>1. rows[r] \in SeenRow
  BY DEF TypeOK, Replay
<1>2. [rows[r] EXCEPT !.seg = s] \in SeenRow /\ [rows[r] EXCEPT !.seg = s].seg = s
  BY <1>1 DEF SeenRow
<1>3. /\ rows' = [rows EXCEPT ![r] = [rows[r] EXCEPT !.seg = s]]
      /\ touched' = touched \cup ({s} \cup Left(r))
      /\ changes' = changes + 1 /\ UNCHANGED <<asg, need, day, rep>>
  BY DEF Replay, Changed
<1> QED BY <1>2, <1>3, NoneAssumption DEF Written

LEMMA LeftType ==
  ASSUME TypeOK, NEW r \in Records PROVE Left(r) \subseteq Segments
BY DEF Left, TypeOK, SeenRow

\* A write of a record keeps the types of what it writes.
LEMMA WrittenType ==
  ASSUME TypeOK, NEW r \in Records, NEW x \in SeenRow, Written(r, x),
         status' \in [Segments -> Statuses], stale' \subseteq Segments
  PROVE  TypeOK'
<1>1. rows' \in [Records -> SeenRow \cup {None}]
  BY DEF TypeOK, Written
<1>2. touched' \subseteq Segments /\ changes' \in Nat
  BY LeftType DEF TypeOK, SeenRow, Written
<1> QED BY <1>1, <1>2 DEF TypeOK, Written

LEMMA PutType ==
  ASSUME TypeOK, NEW r \in Records, NEW x \in SeenRow, Put(r, x)
  PROVE  TypeOK'
<1> DEFINE T == ({x.seg} \ {None}) \cup Left(r)
<1>1. /\ status' = [s \in Segments |->
                      IF s \in T THEN Recalculated(rows', s, need[s], status[s]) ELSE status[s]]
      /\ stale' = stale \ T
  BY DEF Put, Recount
<1>2. status' \in [Segments -> Statuses] /\ stale' \subseteq Segments
  BY <1>1, RecalculatedType DEF TypeOK
<1> QED BY <1>2, PutWrites, WrittenType

\* The rows of segment s that the statements of a report count.
Active(s) == {r \in Records : rows[r] # None /\ rows[r].seg = s /\ rows[r].active}
Recent(s) == {r \in Active(s) : rows[r].seen + AlertDays >= rep.from}
Early(s)  == {r \in Active(s) : asg[s].deadline # None /\ rows[r].seen <= asg[s].deadline}
After(s)  == {r \in Active(s) : asg[s].deadline # None /\ rows[r].seen > asg[s].deadline}

Counted(f, s, X) == s \in rep.scope => f[s] = Cardinality(X)

LEMMA ReadCollectedStep ==
  ASSUME TypeOK, ReadCollected
  PROVE  /\ rep' = [rep EXCEPT !.pc = "collected", !.collected = rep'.collected]
         /\ rep'.collected \in Count /\ \A s \in Segments : Counted(rep'.collected, s, Active(s))
         /\ rep.pc = "assignments" /\ UNCHANGED <<rows, asg, status, need, day, touched, stale, changes>>
<1> DEFINE f == [s \in Segments |-> IF s \in rep.scope
                   THEN Cardinality({r \in Records : rows[r] # None /\ rows[r].seg = s /\ rows[r].active})
                   ELSE 0]
<1>1. /\ rep' = [rep EXCEPT !.pc = "collected", !.collected = f]
      /\ rep.pc = "assignments" /\ UNCHANGED <<rows, asg, status, need, day, touched, stale, changes>>
  BY DEF ReadCollected, Read, CountBy
<1>2. f \in Count /\ \A s \in Segments : Counted(f, s, Active(s))
  BY CountType DEF Counted, Count, Active
<1> HIDE DEF f
<1> QED BY <1>1, <1>2 DEF TypeOK, ReportType

LEMMA ReadRecentStep ==
  ASSUME TypeOK, ReadRecent
  PROVE  /\ rep' = [rep EXCEPT !.pc = IF rep.daily THEN "done" ELSE "recent", !.recent = rep'.recent]
         /\ rep'.recent \in Count /\ \A s \in Segments : Counted(rep'.recent, s, Recent(s))
         /\ rep.pc = "collected" /\ UNCHANGED <<rows, asg, status, need, day, touched, stale, changes>>
<1> DEFINE X(s) == {r \in Records : rows[r] # None /\ rows[r].seg = s
                                    /\ rows[r].active /\ rows[r].seen + AlertDays >= rep.from}
           f == [s \in Segments |-> IF s \in rep.scope THEN Cardinality(X(s)) ELSE 0]
<1>1. /\ rep' = [rep EXCEPT !.pc = IF rep.daily THEN "done" ELSE "recent", !.recent = f]
      /\ rep.pc = "collected" /\ UNCHANGED <<rows, asg, status, need, day, touched, stale, changes>>
  BY DEF ReadRecent, Read, CountBy
<1>2. \A s \in Segments : X(s) = Recent(s)
  BY DEF Active, Recent
<1>3. f \in Count /\ \A s \in Segments : Counted(f, s, Recent(s))
  <2>1. f \in Count
    BY CountType DEF Count
  <2> QED BY <1>2, <2>1 DEF Counted
<1> HIDE DEF f
<1> QED BY <1>1, <1>3 DEF TypeOK, ReportType

LEMMA ReadBeforeStep ==
  ASSUME TypeOK, ReadBefore
  PROVE  /\ rep' = [rep EXCEPT !.pc = "before", !.today = day, !.before = rep'.before]
         /\ rep'.before \in Count /\ \A s \in Segments : Counted(rep'.before, s, Early(s))
         /\ rep.pc = "window" /\ UNCHANGED <<rows, asg, status, need, day, touched, stale, changes>>
<1> DEFINE X(s) == {r \in Records : rows[r] # None /\ rows[r].seg = s
                      /\ LET d == asg[rows[r].seg].deadline
                         IN rows[r].active /\ d # None /\ rows[r].seen <= d}
           f == [s \in Segments |-> IF s \in rep.scope THEN Cardinality(X(s)) ELSE 0]
<1>1. /\ rep' = [rep EXCEPT !.pc = "before", !.today = day, !.before = f]
      /\ rep.pc = "window" /\ UNCHANGED <<rows, asg, status, need, day, touched, stale, changes>>
  BY DEF ReadBefore, Read, CountBy
<1>2. \A s \in Segments : X(s) = Early(s)
  BY DEF Active, Early
<1>3. f \in Count /\ \A s \in Segments : Counted(f, s, Early(s))
  <2>1. f \in Count
    BY CountType DEF Count
  <2> QED BY <1>2, <2>1 DEF Counted
<1> HIDE DEF f
<1> QED BY <1>1, <1>3 DEF TypeOK, ReportType

LEMMA ReadAfterStep ==
  ASSUME TypeOK, ReadAfter
  PROVE  /\ rep' = [rep EXCEPT !.pc = "after", !.after = rep'.after]
         /\ rep'.after \in Count /\ \A s \in Segments : Counted(rep'.after, s, After(s))
         /\ rep.pc = "before" /\ UNCHANGED <<rows, asg, status, need, day, touched, stale, changes>>
<1> DEFINE X(s) == {r \in Records : rows[r] # None /\ rows[r].seg = s
                      /\ LET d == asg[rows[r].seg].deadline
                         IN rows[r].active /\ d # None /\ rows[r].seen > d}
           f == [s \in Segments |-> IF s \in rep.scope THEN Cardinality(X(s)) ELSE 0]
<1>1. /\ rep' = [rep EXCEPT !.pc = "after", !.after = f]
      /\ rep.pc = "before" /\ UNCHANGED <<rows, asg, status, need, day, touched, stale, changes>>
  BY DEF ReadAfter, Read, CountBy
<1>2. \A s \in Segments : X(s) = After(s)
  BY DEF Active, After
<1>3. f \in Count /\ \A s \in Segments : Counted(f, s, After(s))
  <2>1. f \in Count
    BY CountType DEF Count
  <2> QED BY <1>2, <2>1 DEF Counted
<1> HIDE DEF f
<1> QED BY <1>1, <1>3 DEF TypeOK, ReportType

LEMMA ReadWindowStep ==
  ASSUME TypeOK, ReadWindow
  PROVE  /\ rep' = [rep EXCEPT !.pc = "window", !.etaDay = day, !.window = rep'.window]
         /\ rep'.window \in Nat
         /\ rep.pc = "recent" /\ UNCHANGED <<rows, asg, status, need, day, touched, stale, changes>>
<1> DEFINE n == Cardinality(Sighted(EtaDays))
<1>1. /\ rep' = [rep EXCEPT !.pc = "window", !.etaDay = day, !.window = n]
      /\ rep.pc = "recent" /\ UNCHANGED <<rows, asg, status, need, day, touched, stale, changes>>
  BY DEF ReadWindow, Read
<1>2. n \in Nat
  BY CountType DEF Sighted
<1> HIDE DEF n
<1> QED BY <1>1, <1>2 DEF TypeOK, ReportType

LEMMA ReadInactiveStep ==
  ASSUME TypeOK, ReadInactive
  PROVE  /\ rep' = [rep EXCEPT !.pc = "done", !.inactive = rep'.inactive]
         /\ rep'.inactive \in Count
         /\ rep.pc = "after" /\ UNCHANGED <<rows, asg, status, need, day, touched, stale, changes>>
<1> DEFINE f == [s \in Segments |-> IF s \in rep.scope
                   THEN Cardinality({r \in Records : rows[r] # None /\ rows[r].seg = s /\ ~rows[r].active})
                   ELSE 0]
<1>1. /\ rep' = [rep EXCEPT !.pc = "done", !.inactive = f]
      /\ rep.pc = "after" /\ UNCHANGED <<rows, asg, status, need, day, touched, stale, changes>>
  BY DEF ReadInactive, Read, CountBy
<1>2. f \in Count
  BY CountType DEF Count
<1> HIDE DEF f
<1> QED BY <1>1, <1>2 DEF TypeOK, ReportType

LEMMA TypeStep == TypeOK /\ [Next]_vars => TypeOK'
<1> SUFFICES ASSUME TypeOK, [Next]_vars PROVE TypeOK'
  OBVIOUS
<1>1. ASSUME NEW r \in Records, NEW s \in Segments \cup {None}, NEW p \in Positions,
             Collect(r, s, p) \/ Move(r, s, p)
      PROVE TypeOK'
  <2>1. CASE Collect(r, s, p)
    <3>1. [seg |-> s, vt |-> p, active |-> TRUE, seen |-> day] \in SeenRow
      BY DEF SeenRow, TypeOK
    <3> QED BY <2>1, <3>1, PutType DEF Collect
  <2>2. CASE Move(r, s, p)
    <3>1. [seg |-> s, vt |-> p, active |-> TRUE, seen |-> rows[r].seen] \in SeenRow
      BY <2>2 DEF SeenRow, TypeOK, Move
    <3> QED BY <2>2, <3>1, PutType DEF Move
  <2> QED BY <1>1, <2>1, <2>2
<1>2. ASSUME NEW r \in Records, Delete(r) PROVE TypeOK'
  <2>1. [rows[r] EXCEPT !.active = FALSE] \in SeenRow
    BY <1>2 DEF SeenRow, TypeOK, Delete
  <2> QED BY <1>2, <2>1, PutType DEF Delete
<1>3. ASSUME NEW s \in Segments, Verify(s) PROVE TypeOK'
  <2>1. status' \in [Segments -> Statuses]
    BY <1>3 DEF Verify, TypeOK, Statuses
  <2> QED BY <1>3, <2>1 DEF Verify, Changed, TypeOK
<1>4. ASSUME NEW r \in Records, NEW s \in Segments, Replay(r, s) PROVE TypeOK'
  <2>1. /\ status' = [status EXCEPT ![s] = Recalculated(rows', s, need[s], status[s])]
        /\ stale' = (stale \cup Left(r)) \ {s}
    BY <1>4 DEF Replay, TypeOK
  <2>2. status' \in [Segments -> Statuses] /\ stale' \subseteq Segments
    BY <2>1, LeftType, RecalculatedType DEF TypeOK
  <2> QED BY <1>4, <2>2, ReplayWrites, WrittenType
<1>5. ASSUME NEW s \in Segments, NEW st \in Statuses, Review(s, st) \/ Miscount(s, st)
       PROVE TypeOK'
  BY <1>5 DEF Review, Miscount, Changed, TypeOK
<1>6. ASSUME NEW s \in Segments, NEW pos \in Pricings, Reprice(s, pos) PROVE TypeOK'
  BY <1>6 DEF Reprice, Changed, TypeOK
<1>7. ASSUME NEW s \in Segments, NEW a \in Assigned, Assign(s, a) PROVE TypeOK'
  BY <1>7 DEF Assign, Changed, TypeOK
<1>8. CASE NewDay
  BY <1>8 DEF NewDay, TypeOK
<1>9. ASSUME NEW daily \in BOOLEAN, NEW scope \in Scopes, NEW date \in 0..MaxDay,
             ReadSegments(daily, scope, date)
      PROVE TypeOK'
  <2>1. rep' = [NoReport EXCEPT !.pc = "segments", !.daily = daily, !.scope = scope,
                                !.from = date, !.begun = changes, !.status = status, !.need = need]
        /\ UNCHANGED <<rows, asg, status, need, day, stale, changes>> /\ touched' = {}
    BY <1>9 DEF ReadSegments
  <2>2. scope \in SUBSET Segments /\ date \in Nat
    BY PlaceAssumption, LimitAssumption
  <2>3. rep' \in ReportType
    BY <2>1, <2>2, NoReportType DEF ReportType, TypeOK
  <2> QED BY <2>1, <2>3 DEF TypeOK
<1>10. CASE ReadAssignments
  <2>1. rep' = [rep EXCEPT !.pc = "assignments", !.asg = asg]
        /\ UNCHANGED <<rows, asg, status, need, day, touched, stale, changes>>
    BY <1>10 DEF ReadAssignments, Read
  <2>2. rep' \in ReportType
    BY <2>1 DEF ReportType, TypeOK
  <2> QED BY <2>1, <2>2 DEF TypeOK
<1>11. CASE ReadCollected
  <2>1. rep' \in ReportType
    BY <1>11, ReadCollectedStep DEF ReportType, TypeOK
  <2> QED BY <1>11, <2>1, ReadCollectedStep DEF TypeOK
<1>12. CASE ReadRecent
  <2>1. rep' \in ReportType
    BY <1>12, ReadRecentStep DEF ReportType, TypeOK
  <2> QED BY <1>12, <2>1, ReadRecentStep DEF TypeOK
<1>13. CASE ReadWindow
  <2>1. rep' \in ReportType
    BY <1>13, ReadWindowStep DEF ReportType, TypeOK
  <2> QED BY <1>13, <2>1, ReadWindowStep DEF TypeOK
<1>14. CASE ReadBefore
  <2>1. rep' \in ReportType
    BY <1>14, ReadBeforeStep DEF ReportType, TypeOK
  <2> QED BY <1>14, <2>1, ReadBeforeStep DEF TypeOK
<1>15. CASE ReadAfter
  <2>1. rep' \in ReportType
    BY <1>15, ReadAfterStep DEF ReportType, TypeOK
  <2> QED BY <1>15, <2>1, ReadAfterStep DEF TypeOK
<1>16. CASE ReadInactive
  <2>1. rep' \in ReportType
    BY <1>16, ReadInactiveStep DEF ReportType, TypeOK
  <2> QED BY <1>16, <2>1, ReadInactiveStep DEF TypeOK
<1>17. CASE UNCHANGED vars
  BY <1>17 DEF vars, TypeOK
<1> QED BY <1>1, <1>2, <1>3, <1>4, <1>5, <1>6, <1>7, <1>8, <1>9, <1>10, <1>11, <1>12, <1>13,
         <1>14, <1>15, <1>16, <1>17 DEF Next, ReportStep

\* The variables keep their types: every figure a report reads is a number.
THEOREM TypeCorrect == Spec => []TypeOK
BY InitType, TypeStep, PTL DEF Spec

-----------------------------------------------------------------------------
(* The figures of a segment nobody touches.                                 *)

Readable == {"collected", "recent", "window", "before", "after", "done"}

\* What has been read of s is what is there.
Fits(s) ==
    /\ rep.need[s] = need[s]
    /\ rep.pc \in Readable \cup {"assignments"} => rep.asg[s] = asg[s]
    /\ rep.pc \in Readable => rep.collected[s] = Cardinality(Active(s))
    /\ rep.pc \in Readable \ {"collected"} => rep.recent[s] = Cardinality(Recent(s))
    /\ rep.pc \in {"before", "after"} \/ Dashboard => rep.before[s] = Cardinality(Early(s))
    /\ rep.pc = "after" \/ Dashboard => rep.after[s] = Cardinality(After(s))

ReportInv ==
    /\ TypeOK
    /\ rep.pc \in {"recent", "window", "before", "after"} => ~rep.daily
    /\ \A s \in Quiet : Fits(s)

\* A change that leaves the rows and the assignment of s alone.
LEMMA FitsUntouched ==
  ASSUME NEW s \in Segments, Fits(s), rep' = rep, asg'[s] = asg[s], need'[s] = need[s],
         \A r \in Records : rows'[r] = rows[r]
                          \/ /\ rows[r] = None \/ rows[r].seg # s
                             /\ rows'[r] = None \/ rows'[r].seg # s
  PROVE  Fits(s)'
<1>1. Active(s)' = Active(s)
  BY DEF Active
<1>2. \A r \in Active(s) : rows'[r] = rows[r]
  BY DEF Active
<1>3. Recent(s)' = Recent(s) /\ Early(s)' = Early(s) /\ After(s)' = After(s)
  BY <1>1, <1>2 DEF Recent, Early, After
<1> QED BY <1>1, <1>3 DEF Fits, Dashboard, Done

\* A write of a record keeps what a report has read of quiet segments.
LEMMA WrittenFits ==
  ASSUME ReportInv, TypeOK', NEW r \in Records, NEW x \in SeenRow, Written(r, x)
  PROVE  ReportInv'
<1>1. /\ rows' = [rows EXCEPT ![r] = x] /\ UNCHANGED <<asg, need, day, rep>>
      /\ touched' = touched \cup ({x.seg} \ {None}) \cup Left(r)
  BY DEF Written
<1>2. ASSUME NEW s \in Quiet' PROVE Fits(s)'
  <2>1. s \in Segments /\ s \in Quiet /\ s # x.seg /\ (rows[r] = None \/ rows[r].seg # s)
    BY <1>1, NoneAssumption DEF Quiet, ReportInv, TypeOK, ReportType, Left
  <2>2. \A q \in Records : rows'[q] = rows[q]
                          \/ /\ rows[q] = None \/ rows[q].seg # s
                             /\ rows'[q] = None \/ rows'[q].seg # s
    BY <1>1, <2>1 DEF ReportInv, TypeOK
  <2> QED BY <1>1, <2>1, <2>2, FitsUntouched DEF ReportInv
<1> QED BY <1>1, <1>2 DEF ReportInv

\* So does a change of one segment's status, positions or assignment.
LEMMA ChangeFits ==
  ASSUME ReportInv, TypeOK', NEW s \in Segments, UNCHANGED <<rows, rep>>, touched' = touched \cup {s},
         \A q \in Segments \ {s} : asg'[q] = asg[q] /\ need'[q] = need[q]
  PROVE  ReportInv'
<1>1. Quiet' \subseteq Quiet \ {s} /\ Quiet \subseteq Segments
  BY DEF Quiet, ReportInv, TypeOK, ReportType
<1>2. \A q \in Quiet' : Fits(q)'
  BY <1>1, FitsUntouched DEF ReportInv
<1> QED BY <1>2 DEF ReportInv

\* A statement of the report.
LEMMA ReadFits ==
  ASSUME ReportInv, TypeOK', ReportStep
  PROVE  ReportInv'
<1>1. CASE ReadAssignments
  <2>1. /\ rep' = [rep EXCEPT !.pc = "assignments", !.asg = asg]
        /\ UNCHANGED <<asg, need, touched>>
    BY <1>1 DEF ReadAssignments, Read
  <2>2. /\ rep'.pc = "assignments" /\ rep'.asg = asg /\ rep'.need = rep.need
        /\ Quiet' = Quiet /\ Quiet \subseteq Segments
    BY <2>1 DEF ReportInv, TypeOK, ReportType, Quiet
  <2> QED BY <2>1, <2>2 DEF ReportInv, Fits, Readable, Dashboard, Done
<1>2. CASE ReadCollected
  <2>1. /\ rep'.pc = "collected"
        /\ rep'.scope = rep.scope /\ rep'.asg = rep.asg /\ rep'.from = rep.from
        /\ rep'.need = rep.need /\ need' = need
        /\ rep'.daily = rep.daily
        /\ UNCHANGED <<rows, asg, touched>> /\ Quiet' = Quiet /\ Quiet \subseteq Segments
    BY <1>2, ReadCollectedStep DEF ReportInv, TypeOK, ReportType, Quiet
  <2>2. \A s \in Segments : /\ Active(s)' = Active(s) /\ Recent(s)' = Recent(s)
                           /\ Early(s)' = Early(s) /\ After(s)' = After(s)
    BY <2>1 DEF Active, Recent, Early, After
  <2>3. \A s \in Quiet : rep'.collected[s] = Cardinality(Active(s))
    BY <1>2, <2>1, ReadCollectedStep DEF ReportInv, Counted, Quiet
  <2>4. ASSUME NEW s \in Quiet PROVE Fits(s)'
    BY <1>2, <2>1, <2>2, <2>3, ReadCollectedStep DEF ReportInv, Fits, Readable, Dashboard, Done
  <2> QED BY <1>2, <2>1, <2>2, <2>3, <2>4, ReadCollectedStep DEF ReportInv
<1>3. CASE ReadRecent
  <2>1. /\ rep'.pc = IF rep.daily THEN "done" ELSE "recent"
        /\ rep'.scope = rep.scope /\ rep'.asg = rep.asg /\ rep'.from = rep.from
        /\ rep'.need = rep.need /\ need' = need
        /\ rep'.daily = rep.daily /\ rep'.collected = rep.collected
        /\ UNCHANGED <<rows, asg, touched>> /\ Quiet' = Quiet /\ Quiet \subseteq Segments
    BY <1>3, ReadRecentStep DEF ReportInv, TypeOK, ReportType, Quiet
  <2>2. \A s \in Segments : /\ Active(s)' = Active(s) /\ Recent(s)' = Recent(s)
                           /\ Early(s)' = Early(s) /\ After(s)' = After(s)
    BY <2>1 DEF Active, Recent, Early, After
  <2>3. \A s \in Quiet : rep'.recent[s] = Cardinality(Recent(s))
    BY <1>3, <2>1, ReadRecentStep DEF ReportInv, Counted, Quiet
  <2>4. ASSUME NEW s \in Quiet PROVE Fits(s)'
    BY <1>3, <2>1, <2>2, <2>3, ReadRecentStep DEF ReportInv, Fits, Readable, Dashboard, Done
  <2> QED BY <1>3, <2>1, <2>2, <2>3, <2>4, ReadRecentStep DEF ReportInv
<1>4. CASE ReadWindow
  <2>1. /\ rep'.pc = "window"
        /\ rep'.scope = rep.scope /\ rep'.asg = rep.asg /\ rep'.from = rep.from
        /\ rep'.need = rep.need /\ need' = need
        /\ rep'.daily = rep.daily /\ rep'.collected = rep.collected /\ rep'.recent = rep.recent
        /\ UNCHANGED <<rows, asg, touched>> /\ Quiet' = Quiet /\ Quiet \subseteq Segments
    BY <1>4, ReadWindowStep DEF ReportInv, TypeOK, ReportType, Quiet
  <2>2. \A s \in Segments : /\ Active(s)' = Active(s) /\ Recent(s)' = Recent(s)
                           /\ Early(s)' = Early(s) /\ After(s)' = After(s)
    BY <2>1 DEF Active, Recent, Early, After
  <2>3. ASSUME NEW s \in Quiet PROVE Fits(s)'
    BY <1>4, <2>1, <2>2, ReadWindowStep DEF ReportInv, Fits, Readable, Dashboard, Done
  <2> QED BY <1>4, <2>1, <2>2, <2>3, ReadWindowStep DEF ReportInv
<1>5. CASE ReadBefore
  <2>1. /\ rep'.pc = "before"
        /\ rep'.scope = rep.scope /\ rep'.asg = rep.asg /\ rep'.from = rep.from
        /\ rep'.need = rep.need /\ need' = need
        /\ rep'.daily = rep.daily /\ rep'.collected = rep.collected /\ rep'.recent = rep.recent
        /\ UNCHANGED <<rows, asg, touched>> /\ Quiet' = Quiet /\ Quiet \subseteq Segments
    BY <1>5, ReadBeforeStep DEF ReportInv, TypeOK, ReportType, Quiet
  <2>2. \A s \in Segments : /\ Active(s)' = Active(s) /\ Recent(s)' = Recent(s)
                           /\ Early(s)' = Early(s) /\ After(s)' = After(s)
    BY <2>1 DEF Active, Recent, Early, After
  <2>3. \A s \in Quiet : rep'.before[s] = Cardinality(Early(s))
    BY <1>5, <2>1, ReadBeforeStep DEF ReportInv, Counted, Quiet
  <2>4. ASSUME NEW s \in Quiet PROVE Fits(s)'
    BY <1>5, <2>1, <2>2, <2>3, ReadBeforeStep DEF ReportInv, Fits, Readable, Dashboard, Done
  <2> QED BY <1>5, <2>1, <2>2, <2>3, <2>4, ReadBeforeStep DEF ReportInv
<1>6. CASE ReadAfter
  <2>1. /\ rep'.pc = "after"
        /\ rep'.scope = rep.scope /\ rep'.asg = rep.asg /\ rep'.from = rep.from
        /\ rep'.need = rep.need /\ need' = need
        /\ rep'.daily = rep.daily /\ rep'.collected = rep.collected /\ rep'.recent = rep.recent /\ rep'.before = rep.before
        /\ UNCHANGED <<rows, asg, touched>> /\ Quiet' = Quiet /\ Quiet \subseteq Segments
    BY <1>6, ReadAfterStep DEF ReportInv, TypeOK, ReportType, Quiet
  <2>2. \A s \in Segments : /\ Active(s)' = Active(s) /\ Recent(s)' = Recent(s)
                           /\ Early(s)' = Early(s) /\ After(s)' = After(s)
    BY <2>1 DEF Active, Recent, Early, After
  <2>3. \A s \in Quiet : rep'.after[s] = Cardinality(After(s))
    BY <1>6, <2>1, ReadAfterStep DEF ReportInv, Counted, Quiet
  <2>4. ASSUME NEW s \in Quiet PROVE Fits(s)'
    BY <1>6, <2>1, <2>2, <2>3, ReadAfterStep DEF ReportInv, Fits, Readable, Dashboard, Done
  <2> QED BY <1>6, <2>1, <2>2, <2>3, <2>4, ReadAfterStep DEF ReportInv
<1>7. CASE ReadInactive
  <2>1. /\ rep'.pc = "done"
        /\ rep'.scope = rep.scope /\ rep'.asg = rep.asg /\ rep'.from = rep.from
        /\ rep'.need = rep.need /\ need' = need
        /\ rep'.daily = rep.daily /\ rep'.collected = rep.collected /\ rep'.recent = rep.recent /\ rep'.before = rep.before /\ rep'.after = rep.after
        /\ UNCHANGED <<rows, asg, touched>> /\ Quiet' = Quiet /\ Quiet \subseteq Segments
    BY <1>7, ReadInactiveStep DEF ReportInv, TypeOK, ReportType, Quiet
  <2>2. \A s \in Segments : /\ Active(s)' = Active(s) /\ Recent(s)' = Recent(s)
                           /\ Early(s)' = Early(s) /\ After(s)' = After(s)
    BY <2>1 DEF Active, Recent, Early, After
  <2>3. ASSUME NEW s \in Quiet PROVE Fits(s)'
    BY <1>7, <2>1, <2>2, ReadInactiveStep DEF ReportInv, Fits, Readable, Dashboard, Done
  <2> QED BY <1>7, <2>1, <2>2, <2>3, ReadInactiveStep DEF ReportInv
<1> QED BY <1>1, <1>2, <1>3, <1>4, <1>5, <1>6, <1>7 DEF ReportStep

LEMMA ReportInit == Init => ReportInv
<1> SUFFICES ASSUME Init PROVE ReportInv
  OBVIOUS
<1>1. rep.pc = "none" /\ rep.scope = {}
  BY DEF Init, NoReport
<1> QED BY <1>1, InitType DEF ReportInv, Quiet

LEMMA ReportInvStep == ReportInv /\ [Next]_vars => ReportInv'
<1> SUFFICES ASSUME ReportInv, [Next]_vars PROVE ReportInv'
  OBVIOUS
<1>0. TypeOK' /\ TypeOK
  BY TypeStep DEF ReportInv
<1>1. ASSUME NEW r \in Records, NEW s \in Segments \cup {None}, NEW p \in Positions,
             Collect(r, s, p) \/ Move(r, s, p)
      PROVE ReportInv'
  <2>1. CASE Collect(r, s, p)
    <3>1. [seg |-> s, vt |-> p, active |-> TRUE, seen |-> day] \in SeenRow
      BY <1>0 DEF SeenRow, TypeOK
    <3> QED BY <1>0, <2>1, <3>1, PutWrites, WrittenFits DEF Collect
  <2>2. CASE Move(r, s, p)
    <3>1. [seg |-> s, vt |-> p, active |-> TRUE, seen |-> rows[r].seen] \in SeenRow
      BY <1>0, <2>2 DEF SeenRow, TypeOK, Move
    <3> QED BY <1>0, <2>2, <3>1, PutWrites, WrittenFits DEF Move
  <2> QED BY <1>1, <2>1, <2>2
<1>2. ASSUME NEW r \in Records, Delete(r) PROVE ReportInv'
  <2>1. [rows[r] EXCEPT !.active = FALSE] \in SeenRow
    BY <1>0, <1>2 DEF SeenRow, TypeOK, Delete
  <2> QED BY <1>0, <1>2, <2>1, PutWrites, WrittenFits DEF Delete
<1>3. ASSUME NEW s \in Segments, Verify(s) PROVE ReportInv'
  BY <1>0, <1>3, ChangeFits DEF Verify, Changed
<1>4. ASSUME NEW s \in Segments, NEW a \in Assigned, Assign(s, a) PROVE ReportInv'
  <2>1. \A q \in Segments \ {s} : asg'[q] = asg[q] /\ need'[q] = need[q]
    BY <1>0, <1>4 DEF Assign, TypeOK
  <2> QED BY <1>0, <1>4, <2>1, ChangeFits DEF Assign, Changed
<1>5. ASSUME NEW r \in Records, NEW s \in Segments, Replay(r, s) PROVE ReportInv'
  BY <1>0, <1>5, ReplayWrites, WrittenFits
<1>6. ASSUME NEW s \in Segments, NEW st \in Statuses, Review(s, st) \/ Miscount(s, st)
      PROVE ReportInv'
  BY <1>0, <1>6, ChangeFits DEF Review, Miscount, Changed
<1>7. ASSUME NEW s \in Segments, NEW pos \in Pricings, Reprice(s, pos) PROVE ReportInv'
  <2>1. \A q \in Segments \ {s} : asg'[q] = asg[q] /\ need'[q] = need[q]
    BY <1>0, <1>7 DEF Reprice, TypeOK
  <2> QED BY <1>0, <1>7, <2>1, ChangeFits DEF Reprice, Changed
<1>8. CASE NewDay \/ UNCHANGED vars
  <2>1. UNCHANGED <<rows, asg, need, rep, touched>> /\ Quiet' = Quiet /\ Quiet \subseteq Segments
    BY <1>0, <1>8 DEF NewDay, vars, Quiet, TypeOK, ReportType
  <2>2. \A q \in Quiet' : Fits(q)'
    BY <2>1, FitsUntouched DEF ReportInv
  <2> QED BY <1>0, <2>1, <2>2 DEF ReportInv
<1>9. ASSUME NEW daily \in BOOLEAN, NEW scope \in Scopes, NEW date \in 0..MaxDay,
             ReadSegments(daily, scope, date)
      PROVE ReportInv'
  <2>1. rep' = [NoReport EXCEPT !.pc = "segments", !.daily = daily, !.scope = scope,
                                !.from = date, !.begun = changes, !.status = status, !.need = need]
        /\ UNCHANGED need
    BY <1>9 DEF ReadSegments
  <2>2. rep'.pc = "segments" /\ rep'.need = need
    BY <2>1 DEF NoReport
  <2> QED BY <1>0, <2>1, <2>2 DEF ReportInv, Fits, Readable, Dashboard, Done
<1>10. CASE ReportStep
  BY <1>0, <1>10, ReadFits
<1> QED BY <1>1, <1>2, <1>3, <1>4, <1>5, <1>6, <1>7, <1>8, <1>9, <1>10 DEF Next

LEMMA ReportInvariant == Spec => []ReportInv
BY ReportInit, ReportInvStep, PTL DEF Spec

\* The counts of one segment, read by four statements at four moments, fit
\* together however many other transactions commit in between, as long as none
\* of them touches that segment.
THEOREM ReportFits == Spec => []FiguresAgree
<1>1. ASSUME ReportInv, NEW s \in Quiet
      PROVE /\ Done => rep.recent[s] <= rep.collected[s]
            /\ Dashboard => rep.before[s] + rep.after[s]
                              = IF rep.asg[s].deadline = None THEN 0 ELSE rep.collected[s]
  <2>1. Fits(s) /\ TypeOK /\ s \in Segments
    BY <1>1 DEF ReportInv, Quiet, TypeOK, ReportType
  <2>2. /\ Active(s) \subseteq Records /\ Recent(s) \subseteq Active(s)
        /\ Early(s) \subseteq Active(s) /\ After(s) \subseteq Active(s)
    BY DEF Active, Recent, Early, After
  <2>3. /\ IsFiniteSet(Active(s)) /\ IsFiniteSet(Early(s)) /\ IsFiniteSet(After(s))
        /\ Cardinality(Early(s)) \in Nat /\ Cardinality(After(s)) \in Nat
    BY <2>2, CountType
  <2>4. ASSUME Done PROVE rep.recent[s] <= rep.collected[s]
    <3>1. Cardinality(Recent(s)) <= Cardinality(Active(s))
      BY <2>2, <2>3, FS_Subset
    <3> QED BY <2>1, <2>4, <3>1 DEF Fits, Readable, Done
  <2>5. ASSUME Dashboard
        PROVE rep.before[s] + rep.after[s]
                = IF rep.asg[s].deadline = None THEN 0 ELSE rep.collected[s]
    <3>1. /\ rep.asg[s] = asg[s] /\ rep.collected[s] = Cardinality(Active(s))
          /\ rep.before[s] = Cardinality(Early(s)) /\ rep.after[s] = Cardinality(After(s))
      BY <2>1, <2>5 DEF Fits, Readable, Dashboard, Done
    <3>2. CASE asg[s].deadline = None
      <4>1. Early(s) = {} /\ After(s) = {}
        BY <3>2 DEF Early, After
      <4> QED BY <3>1, <3>2, <4>1, FS_EmptySet
    <3>3. CASE asg[s].deadline # None
      <4>1. asg[s].deadline \in Nat
        BY <2>1, <3>3, DateAssumption DEF TypeOK, Assigned
      <4>2. \A r \in Active(s) : rows[r].seen \in Nat
        BY <2>1 DEF Active, TypeOK, SeenRow
      <4>3. Early(s) \cup After(s) = Active(s) /\ Early(s) \cap After(s) = {}
        BY <3>3, <4>1, <4>2 DEF Early, After
      <4>4. Cardinality(Active(s)) = Cardinality(Early(s)) + Cardinality(After(s)) - 0
        BY <2>3, <4>3, FS_Union, FS_EmptySet
      <4> QED BY <2>3, <3>1, <3>3, <4>4
    <3> QED BY <3>2, <3>3
  <2> QED BY <2>4, <2>5
<1>2. ReportInv => FiguresAgree
  BY <1>1 DEF FiguresAgree
<1> QED BY <1>2, ReportInvariant, PTL

-----------------------------------------------------------------------------
(* The tables of a report.                                                  *)

\* What is added up is numbers, and nothing collected hides what is missing.
LEMMA FigureTypes ==
  ASSUME TypeOK
  PROVE  /\ \A S \in SUBSET rep.scope :
               /\ IsFiniteSet(S) /\ Numbers(Needed, S) /\ Numbers(Missing, S)
               /\ Numbers(rep.collected, S) /\ Numbers(rep.recent, S)
         /\ \A s \in rep.scope : Needed[s] <= Missing[s] + rep.collected[s]
<1>1. rep.scope \subseteq Segments /\ IsFiniteSet(Segments)
  BY PlaceAssumption DEF TypeOK, ReportType
<1>2. \A s \in Segments : rep.collected[s] \in Nat /\ rep.recent[s] \in Nat
  BY DEF TypeOK, ReportType, Count
<1>3. \A s \in Segments : Needed[s] \in Nat
  <2> TAKE s \in Segments
  <2>1. rep.need[s] \in Pricings
    BY DEF TypeOK, ReportType
  <2>2. Cardinality(rep.need[s]) \in Nat
    BY <2>1, NeedAssumption, FS_CardinalityType
  <2> QED BY <2>2, QuotaAssumption DEF Needed
<1>4. \A s \in Segments : Missing[s] \in Nat /\ Needed[s] <= Missing[s] + rep.collected[s]
  BY <1>2, <1>3 DEF Missing, AtLeastZero
<1> QED BY <1>1, <1>2, <1>3, <1>4, FS_Subset DEF Numbers

\* A figure that is summed for each group of a table is summed for the scope.
LEMMA GroupSums ==
  ASSUME TypeOK, NEW f, Numbers(f, rep.scope), NEW K, NEW key \in Surjection(rep.scope, K),
         NEW g, \A k \in K : g[k] = Total(f, Members(rep.scope, key, k))
  PROVE  Total(g, K) = Total(f, rep.scope) /\ Numbers(g, K) /\ IsFiniteSet(K)
<1>1. IsFiniteSet(rep.scope)
  BY FigureTypes
<1>2. IsFiniteSet(K)
  BY <1>1, FS_Surjection
<1>3. \A s \in rep.scope : key[s] \in K
  BY DEF Surjection
<1> QED BY <1>1, <1>2, <1>3, TotalGroups

\* The breakdown by province and group adds up.
LEMMA BreakdownSums ==
  ASSUME TypeOK
  PROVE  /\ Total([k \in DOMAIN Breakdown |-> Breakdown[k].collected], DOMAIN Breakdown)
               = Total(rep.collected, rep.scope)
         /\ Total([k \in DOMAIN Breakdown |-> Breakdown[k].missing], DOMAIN Breakdown)
               = Total(Missing, rep.scope)
<1> DEFINE key == [s \in rep.scope |-> BreakdownKey(s)]
           K == DOMAIN Breakdown
           c == [k \in K |-> Breakdown[k].collected]
           m == [k \in K |-> Breakdown[k].missing]
<1>1. key \in Surjection(rep.scope, K)
  BY DEF Breakdown, Surjection
<1>2. ASSUME NEW k \in K
      PROVE /\ c[k] = Total(rep.collected, Members(rep.scope, key, k))
            /\ m[k] = Total(Missing, Members(rep.scope, key, k))
  <2>1. Members(rep.scope, key, k) = {s \in rep.scope : BreakdownKey(s) = k}
    BY DEF Members
  <2> QED BY <2>1 DEF Breakdown, Sums
<1>3. Numbers(rep.collected, rep.scope) /\ Numbers(Missing, rep.scope)
  BY FigureTypes
<1> SUFFICES Total(c, K) = Total(rep.collected, rep.scope) /\ Total(m, K) = Total(Missing, rep.scope)
  OBVIOUS
<1> HIDE DEF c, m, K, key
<1> QED BY <1>1, <1>2, <1>3, GroupSums

\* The branches add up, the segments without one included.
LEMMA BranchSums ==
  ASSUME TypeOK
  PROVE  /\ Total([k \in DOMAIN BranchActivity |-> BranchActivity[k].collected], DOMAIN BranchActivity)
               = Total(rep.collected, rep.scope)
         /\ Total([k \in DOMAIN BranchActivity |-> BranchActivity[k].missing], DOMAIN BranchActivity)
               = Total(Missing, rep.scope)
<1> DEFINE key == [s \in rep.scope |-> BranchKey(s)]
           K == DOMAIN BranchActivity
           c == [k \in K |-> BranchActivity[k].collected]
           m == [k \in K |-> BranchActivity[k].missing]
<1>1. key \in Surjection(rep.scope, K)
  BY DEF BranchActivity, Surjection
<1>2. ASSUME NEW k \in K
      PROVE /\ c[k] = Total(rep.collected, Members(rep.scope, key, k))
            /\ m[k] = Total(Missing, Members(rep.scope, key, k))
  <2>1. Members(rep.scope, key, k) = {s \in rep.scope : BranchKey(s) = k}
    BY DEF Members
  <2> QED BY <2>1 DEF BranchActivity, Sums
<1>3. Numbers(rep.collected, rep.scope) /\ Numbers(Missing, rep.scope)
  BY FigureTypes
<1> SUFFICES Total(c, K) = Total(rep.collected, rep.scope) /\ Total(m, K) = Total(Missing, rep.scope)
  OBVIOUS
<1> HIDE DEF c, m, K, key
<1> QED BY <1>1, <1>2, <1>3, GroupSums

\* The shortage of a person, whose surpluses fill the gaps of the same row.
LEMMA EmployeeShort ==
  ASSUME TypeOK, NEW S \in SUBSET rep.scope
  PROVE  /\ EmployeeRow(S).missing \in Nat
         /\ Total(Needed, S) <= EmployeeRow(S).missing + Total(rep.collected, S)
         /\ EmployeeRow(S).missing <= Total(Missing, S)
<1>1. /\ IsFiniteSet(S) /\ Numbers(Needed, S) /\ Numbers(Missing, S) /\ Numbers(rep.collected, S)
      /\ \A s \in S : Needed[s] <= Missing[s] + rep.collected[s]
  BY FigureTypes
<1>2. Total(Needed, S) \in Nat /\ Total(Missing, S) \in Nat /\ Total(rep.collected, S) \in Nat
  BY <1>1, TotalNat
<1>3. Total(Needed, S) <= Total(Missing, S) + Total(rep.collected, S)
  BY <1>1, TotalTerms
<1>4. EmployeeRow(S).missing = AtLeastZero(Total(Needed, S) - Total(rep.collected, S))
  BY DEF EmployeeRow
<1> QED BY <1>2, <1>3, <1>4 DEF AtLeastZero

\* The employees add up, to a shortage between the net one and that of the segments.
LEMMA EmployeeSums ==
  ASSUME TypeOK
  PROVE  LET short == Total([k \in DOMAIN Employees |-> Employees[k].missing], DOMAIN Employees)
         IN  /\ Total([k \in DOMAIN Employees |-> Employees[k].collected], DOMAIN Employees)
                   = Total(rep.collected, rep.scope)
             /\ Total(Needed, rep.scope) - Total(rep.collected, rep.scope) <= short
             /\ short <= Total(Missing, rep.scope)
<1> DEFINE key == [s \in rep.scope |-> EmployeeKey(s)]
           K == DOMAIN Employees
           n == [k \in K |-> Employees[k].needed]
           c == [k \in K |-> Employees[k].collected]
           e == [k \in K |-> Employees[k].missing]
           m == [k \in K |-> Total(Missing, Members(rep.scope, key, k))]
<1>1. key \in Surjection(rep.scope, K)
  BY DEF Employees, Surjection
<1>2. ASSUME NEW k \in K
      PROVE /\ n[k] = Total(Needed, Members(rep.scope, key, k))
            /\ c[k] = Total(rep.collected, Members(rep.scope, key, k))
            /\ m[k] = Total(Missing, Members(rep.scope, key, k))
            /\ e[k] \in Nat /\ n[k] <= e[k] + c[k] /\ e[k] <= m[k]
  <2>1. Members(rep.scope, key, k) = {s \in rep.scope : EmployeeKey(s) = k}
    BY DEF Members
  <2>2. Employees[k] = EmployeeRow(Members(rep.scope, key, k))
    BY <2>1 DEF Employees
  <2>3. Members(rep.scope, key, k) \in SUBSET rep.scope
    BY DEF Members
  <2>4. n[k] = Total(Needed, Members(rep.scope, key, k))
        /\ c[k] = Total(rep.collected, Members(rep.scope, key, k))
        /\ e[k] = EmployeeRow(Members(rep.scope, key, k)).missing
    BY <2>2 DEF EmployeeRow
  <2> QED BY <2>3, <2>4, EmployeeShort
<1>3. /\ Numbers(rep.collected, rep.scope) /\ Numbers(Missing, rep.scope)
      /\ Numbers(Needed, rep.scope) /\ IsFiniteSet(rep.scope)
  BY FigureTypes
<1> SUFFICES /\ Total(c, K) = Total(rep.collected, rep.scope)
             /\ Total(Needed, rep.scope) - Total(rep.collected, rep.scope) <= Total(e, K)
             /\ Total(e, K) <= Total(Missing, rep.scope)
  OBVIOUS
<1> HIDE DEF n, c, e, m, K, key
<1>4. /\ Total(c, K) = Total(rep.collected, rep.scope) /\ Numbers(c, K)
      /\ Total(m, K) = Total(Missing, rep.scope) /\ Numbers(m, K)
      /\ Total(n, K) = Total(Needed, rep.scope) /\ Numbers(n, K)
      /\ IsFiniteSet(K)
  BY <1>1, <1>2, <1>3, GroupSums
<1>5. Numbers(e, K)
  BY <1>2 DEF Numbers
<1>6. Total(n, K) <= Total(e, K) + Total(c, K)
  BY <1>2, <1>4, <1>5, TotalTerms
<1>7. Total(e, K) <= Total(m, K)
  BY <1>2, <1>4, <1>5, TotalTerms
<1>8. Total(n, K) \in Nat /\ Total(e, K) \in Nat /\ Total(c, K) \in Nat
  BY <1>4, <1>5, TotalNat
<1> QED BY <1>4, <1>6, <1>7, <1>8

LEMMA StatusesFinite == IsFiniteSet(Statuses)
<1>1. Statuses = {NotStarted} \cup ({Collecting} \cup ({Full} \cup ({Complete} \cup {Faulty})))
  BY DEF Statuses
<1> QED BY <1>1, FS_Singleton, FS_Union

\* The status counts add up to the segments.
LEMMA StatusSums ==
  ASSUME TypeOK
  PROVE  Total(StatusCounts, Statuses) = Cardinality(rep.scope)
<1> DEFINE one == [s \in rep.scope |-> 1]
<1>1. IsFiniteSet(rep.scope) /\ Numbers(one, rep.scope)
  BY FigureTypes DEF Numbers
<1>2. \A s \in rep.scope : rep.status[s] \in Statuses
  BY DEF TypeOK, ReportType
<1>3. \A S \in SUBSET rep.scope : Total(one, S) = Cardinality(S)
  <2> TAKE S \in SUBSET rep.scope
  <2>1. IsFiniteSet(S) /\ \A s \in S : one[s] = 1
    BY <1>1, FS_Subset
  <2>2. Cardinality(S) \in Nat
    BY <2>1, FS_CardinalityType
  <2> HIDE DEF one
  <2>3. Total(one, S) = Cardinality(S) * 1
    BY <2>1, TotalConstant
  <2> QED BY <2>2, <2>3
<1>4. ASSUME NEW st \in Statuses
      PROVE StatusCounts[st] = Total(one, Members(rep.scope, rep.status, st))
  <2>1. Members(rep.scope, rep.status, st) = {s \in rep.scope : rep.status[s] = st}
    BY DEF Members
  <2> HIDE DEF one
  <2> QED BY <1>3, <2>1 DEF StatusCounts
<1> HIDE DEF one
<1>5. Total(StatusCounts, Statuses) = Total(one, rep.scope)
  BY <1>1, <1>2, <1>4, StatusesFinite, TotalGroups
<1> QED BY <1>3, <1>5

\* The rows of the breakdown divide those of the branches.
LEMMA AlertsSilent ==
  ASSUME TypeOK, NEW k \in DOMAIN Breakdown, Alert(k)
  PROVE  Breakdown[k].recent = 0
<1> DEFINE S == {s \in rep.scope : BreakdownKey(s) = k}
           T == {s \in rep.scope : BranchKey(s) = <<k[1], k[2]>>}
<1>1. S \in SUBSET T /\ T \in SUBSET rep.scope
  BY DEF BreakdownKey, BranchKey
<1>2. <<k[1], k[2]>> \in DOMAIN BranchActivity
  BY DEF Breakdown, BranchActivity, BreakdownKey, BranchKey
<1>3. Breakdown[k].recent = Total(rep.recent, S)
  BY DEF Breakdown, Sums
<1>4. Total(rep.recent, T) = 0
  BY <1>2 DEF BranchActivity, Sums, Alert
<1> HIDE DEF S, T
<1>5. IsFiniteSet(T) /\ Numbers(rep.recent, T) /\ IsFiniteSet(S) /\ Numbers(rep.recent, S)
  BY <1>1, FigureTypes
<1>6. Total(rep.recent, S) <= Total(rep.recent, T) /\ Total(rep.recent, S) \in Nat
  BY <1>1, <1>5, TotalSubset, TotalNat
<1> QED BY <1>3, <1>4, <1>6

\* However many segments, branches and people there are, the tables of a report
\* add up to the same records, the shortage of the people lies between that of
\* the scope as a whole and that of its segments, every segment is counted
\* under one status, and no row with recent records carries an alert.
THEOREM TablesAgree == Spec => []TablesAddUp
<1>1. TypeOK => TablesAddUp
  <2> SUFFICES ASSUME TypeOK PROVE TablesAddUp
    OBVIOUS
  <2> DEFINE all == Sums(rep.scope)
  <2>1. /\ all.needed = Total(Needed, rep.scope) /\ all.collected = Total(rep.collected, rep.scope)
        /\ all.missing = Total(Missing, rep.scope)
    BY DEF Sums
  <2> QED BY <2>1, BreakdownSums, BranchSums, EmployeeSums, StatusSums, AlertsSilent
          DEF TablesAddUp
<1> QED BY <1>1, TypeCorrect, PTL

-----------------------------------------------------------------------------
(* The shortage of a segment, against its positions and its status.         *)

\* What the positions lack and the rows that are there make up the quota.
LEMMA DeficitCovers ==
  ASSUME TypeOK, NEW s \in Segments, rep.need[s] = need[s]
  PROVE  Deficit(s) \in Nat /\ Needed[s] <= Deficit(s) + Cardinality(Active(s))
<1> DEFINE pos == need[s]
           quota == [p \in pos |-> RecordsPerPosition]
           lack == [p \in pos |-> AtLeastZero(RecordsPerPosition - CountAt(rows, s, p))]
           has == [p \in pos |-> CountAt(rows, s, p)]
           S == {r \in Active(s) : rows[r].vt \in pos}
           one == [r \in S |-> 1]
           key == [r \in S |-> rows[r].vt]
<1>1. /\ IsFiniteSet(pos) /\ Active(s) \in SUBSET Records /\ S \in SUBSET Active(s)
      /\ IsFiniteSet(Active(s)) /\ IsFiniteSet(S) /\ RecordsPerPosition \in Nat
  <2>1. Active(s) \in SUBSET Records /\ S \in SUBSET Active(s)
    BY DEF Active
  <2>2. pos \in Pricings
    BY DEF TypeOK
  <2> QED BY <2>1, <2>2, NeedAssumption, QuotaAssumption, CountType
<1>2. Active(s) = ActiveRows(rows, s)
  BY DEF Active, ActiveRows
<1>3. \A p \in pos : CountAt(rows, s, p) = Cardinality(Members(S, key, p))
  <2> TAKE p \in pos
  <2>1. Members(S, key, p) = {r \in ActiveRows(rows, s) : rows[r].vt = p}
    BY <1>2 DEF Members
  <2> QED BY <2>1 DEF CountAt
<1>4. \A p \in pos : Members(S, key, p) \in SUBSET S
  BY DEF Members
<1>5. \A T \in SUBSET S : Total(one, T) = Cardinality(T) /\ Cardinality(T) \in Nat
  <2> TAKE T \in SUBSET S
  <2>1. IsFiniteSet(T) /\ \A r \in T : one[r] = 1
    BY <1>1, FS_Subset
  <2>2. Cardinality(T) \in Nat
    BY <2>1, FS_CardinalityType
  <2> HIDE DEF one, S
  <2>3. Total(one, T) = Cardinality(T) * 1
    BY <2>1, TotalConstant
  <2> QED BY <2>2, <2>3
<1>6. \A p \in pos : has[p] = Total(one, Members(S, key, p)) /\ has[p] \in Nat
  <2> HIDE DEF one, S, key
  <2> QED BY <1>3, <1>4, <1>5
<1>7. Numbers(one, S) /\ \A r \in S : key[r] \in pos
  BY DEF Numbers
<1>8. Total(has, pos) = Cardinality(S)
  <2>1. S \in SUBSET S
    OBVIOUS
  <2> HIDE DEF one, S, key, has, pos
  <2>2. Total(has, pos) = Total(one, S)
    BY <1>1, <1>6, <1>7, TotalGroups
  <2> QED BY <1>5, <2>1, <2>2
<1>9. Cardinality(S) <= Cardinality(Active(s)) /\ Cardinality(Active(s)) \in Nat
  BY <1>1, FS_Subset, FS_CardinalityType
<1>10. Numbers(has, pos) /\ Numbers(lack, pos) /\ Numbers(quota, pos)
       /\ \A p \in pos : quota[p] <= lack[p] + has[p]
  <2>1. \A p \in pos : CountAt(rows, s, p) \in Nat
    BY <1>6
  <2> QED BY <1>1, <2>1 DEF Numbers, AtLeastZero
<1>11. Total(quota, pos) = Needed[s]
  <2>1. \A p \in pos : quota[p] = RecordsPerPosition
    OBVIOUS
  <2>2. Needed[s] = Cardinality(pos) * RecordsPerPosition
    BY DEF Needed
  <2> HIDE DEF quota, pos
  <2> QED BY <1>1, <2>1, <2>2, TotalConstant
<1>12. Deficit(s) = Total(lack, pos)
  BY DEF Deficit
<1> HIDE DEF quota, lack, has, pos
<1>13. Total(quota, pos) <= Total(lack, pos) + Total(has, pos)
  BY <1>1, <1>10, TotalTerms
<1>14. Total(lack, pos) \in Nat /\ Total(has, pos) \in Nat /\ Total(quota, pos) \in Nat
  BY <1>1, <1>10, TotalNat
<1> QED BY <1>8, <1>9, <1>11, <1>12, <1>13, <1>14

\* Whatever a report calls missing of an untouched segment is missing of its
\* positions too: the total never hides records that are there.
THEOREM ShortageIsReal == Spec => []ShortageNotOverstated
<1>1. ReportInv => ShortageNotOverstated
  <2> SUFFICES ASSUME ReportInv, NEW s \in Quiet, Done PROVE Missing[s] <= Deficit(s)
    BY DEF ShortageNotOverstated
  <2>1. s \in Segments /\ TypeOK /\ Fits(s)
    BY DEF ReportInv, Quiet, TypeOK, ReportType
  <2>2. rep.collected[s] = Cardinality(Active(s)) /\ rep.collected[s] \in Nat
    BY <2>1 DEF Fits, Done, Readable, TypeOK, ReportType, Count
  <2>3. Missing[s] = AtLeastZero(Needed[s] - rep.collected[s]) /\ Needed[s] \in Nat
    <3>1. s \in rep.scope /\ {s} \in SUBSET rep.scope
      BY DEF Quiet
    <3> QED BY <2>1, <3>1, FigureTypes DEF Missing, Numbers
  <2>4. Deficit(s) \in Nat /\ Needed[s] <= Deficit(s) + rep.collected[s]
    BY <2>1, <2>2, DeficitCovers DEF Fits
  <2> QED BY <2>2, <2>3, <2>4 DEF AtLeastZero
<1> QED BY <1>1, ReportInvariant, PTL

\* Every position of a segment whose status says so is full, unless it is stale.
StatusBacked ==
    \A s \in Segments \ stale : status[s] \in {Full, Complete} => QuotaMet(rows, s, need[s])

\* The status a report has read of an untouched segment is its status.
StatusRead == \A s \in Quiet : rep.status[s] = status[s]

StatusInv == TypeOK /\ StatusBacked /\ StatusRead

\* Only data that meet the quota make a segment full.
LEMMA RecalculatedBacked ==
  ASSUME NEW c, NEW s, NEW pos, NEW old, Recalculated(c, s, pos, old) \in {Full, Complete}
  PROVE  QuotaMet(c, s, pos)
<1>1. CASE pos = {}
  BY <1>1 DEF QuotaMet
<1>2. CASE pos # {}
  <2>1. StatusOfData(c, s, pos) \in {Full, Complete}
    BY <1>2 DEF Recalculated, Full, Complete, Faulty
  <2>2. /\ ~ (\A p \in pos : CountAt(c, s, p) = 0)
        /\ ~ ((\E p \in pos : CountAt(c, s, p) # 0) /\ ~QuotaMet(c, s, pos))
    BY <2>1 DEF StatusOfData, NotStarted, Collecting, Full, Complete
  <2> QED BY <2>2
<1> QED BY <1>1, <1>2

\* The rows of other segments do not count.
LEMMA QuotaUntouched ==
  ASSUME NEW s, NEW pos, QuotaMet(rows, s, pos),
         \A r \in Records : rows'[r] = rows[r]
                          \/ /\ rows[r] = None \/ rows[r].seg # s
                             /\ rows'[r] = None \/ rows'[r].seg # s
  PROVE  QuotaMet(rows', s, pos)
<1>1. ActiveRows(rows', s) = ActiveRows(rows, s)
  BY DEF ActiveRows
<1>2. \A r \in ActiveRows(rows, s) : rows'[r] = rows[r]
  BY DEF ActiveRows
<1>3. ASSUME NEW p PROVE CountAt(rows', s, p) = CountAt(rows, s, p)
  <2>1. {r \in ActiveRows(rows', s) : rows'[r].vt = p} = {r \in ActiveRows(rows, s) : rows[r].vt = p}
    BY <1>1, <1>2
  <2> QED BY <2>1 DEF CountAt
<1> QED BY <1>3 DEF QuotaMet

\* A write of a record keeps full statuses backed by the data, when the segments
\* it is in and was in are recalculated or go stale.
LEMMA WrittenBacked ==
  ASSUME StatusInv, TypeOK', NEW r \in Records, NEW x \in SeenRow, Written(r, x),
         \A s \in Segments \ stale' :
            \/ status'[s] = Recalculated(rows', s, need[s], status[s])
            \/ s \notin stale /\ s # x.seg /\ s \notin Left(r),
         \A s \in Segments : s # x.seg /\ s \notin Left(r) => status'[s] = status[s]
  PROVE  StatusInv'
<1>1. /\ rows' = [rows EXCEPT ![r] = x] /\ rep' = rep /\ need' = need
      /\ touched' = touched \cup ({x.seg} \ {None}) \cup Left(r)
  BY DEF Written
<1>2. ASSUME NEW s \in Segments \ stale', status'[s] \in {Full, Complete}
      PROVE QuotaMet(rows', s, need'[s])
  <2>1. CASE status'[s] = Recalculated(rows', s, need[s], status[s])
    BY <1>1, <1>2, <2>1, RecalculatedBacked
  <2>2. CASE s \notin stale /\ s # x.seg /\ s \notin Left(r)
    <3>1. QuotaMet(rows, s, need[s])
      BY <1>2, <2>2 DEF StatusInv, StatusBacked
    <3>2. rows[r] = None \/ rows[r].seg # s
      BY <2>2, NoneAssumption DEF Left
    <3>3. \A q \in Records : rows'[q] = rows[q]
                          \/ /\ rows[q] = None \/ rows[q].seg # s
                             /\ rows'[q] = None \/ rows'[q].seg # s
      BY <1>1, <2>2, <3>2 DEF StatusInv, TypeOK
    <3>4. QuotaMet(rows', s, need[s])
      BY <3>1, <3>3, QuotaUntouched
    <3> QED BY <1>1, <3>4
  <2> QED BY <2>1, <2>2
<1>3. ASSUME NEW s \in Quiet' PROVE rep'.status[s] = status'[s]
  <2>1. s \in Quiet /\ s \in Segments /\ s # x.seg /\ s \notin Left(r)
    BY <1>1, NoneAssumption DEF Quiet, StatusInv, TypeOK, ReportType
  <2> QED BY <1>1, <2>1 DEF StatusInv, StatusRead
<1> QED BY <1>2, <1>3 DEF StatusInv, StatusBacked, StatusRead

LEMMA PutBacked ==
  ASSUME StatusInv, TypeOK', NEW r \in Records, NEW x \in SeenRow, Put(r, x)
  PROVE  StatusInv'
<1> DEFINE T == ({x.seg} \ {None}) \cup Left(r)
<1>1. /\ status' = [s \in Segments |->
                      IF s \in T THEN Recalculated(rows', s, need[s], status[s]) ELSE status[s]]
      /\ stale' = stale \ T
  BY DEF Put, Recount
<1>2. \A s \in Segments : IF s \in T THEN status'[s] = Recalculated(rows', s, need[s], status[s])
                                     ELSE status'[s] = status[s]
  BY <1>1
<1>3. \A s \in Segments : s \in T <=> s = x.seg \/ s \in Left(r)
  BY NoneAssumption
<1> HIDE DEF T
<1>4. \A s \in Segments \ stale' :
            \/ status'[s] = Recalculated(rows', s, need[s], status[s])
            \/ s \notin stale /\ s # x.seg /\ s \notin Left(r)
  BY <1>1, <1>2, <1>3
<1>5. \A s \in Segments : s # x.seg /\ s \notin Left(r) => status'[s] = status[s]
  BY <1>2, <1>3
<1> QED BY <1>4, <1>5, PutWrites, WrittenBacked

LEMMA ReplayBacked ==
  ASSUME StatusInv, TypeOK', NEW r \in Records, NEW s \in Segments, Replay(r, s)
  PROVE  StatusInv'
<1> DEFINE x == [rows[r] EXCEPT !.seg = s]
<1>1. TypeOK
  BY DEF StatusInv
<1>2. x \in SeenRow /\ Written(r, x) /\ x.seg = s
  <2>1. rows[r] \in SeenRow
    BY <1>1 DEF TypeOK, Replay
  <2>2. x.seg = s
    BY <2>1 DEF SeenRow
  <2> QED BY <1>1, <2>2, ReplayWrites
<1>3. /\ status' = [status EXCEPT ![s] = Recalculated(rows', s, need[s], status[s])]
      /\ stale' = (stale \cup Left(r)) \ {s}
  BY <1>1 DEF Replay, TypeOK
<1>4. /\ status'[s] = Recalculated(rows', s, need[s], status[s])
      /\ \A q \in Segments \ {s} : status'[q] = status[q]
  BY <1>1, <1>3 DEF TypeOK
<1> HIDE DEF x
<1> QED BY <1>2, <1>3, <1>4, WrittenBacked

\* A change of one segment's status or positions, when it goes stale or is checked.
LEMMA ChangeBacked ==
  ASSUME StatusInv, TypeOK', NEW s \in Segments, UNCHANGED <<rows, rep>>, touched' = touched \cup {s},
         stale \ {s} \subseteq stale',
         \A q \in Segments \ {s} : status'[q] = status[q] /\ need'[q] = need[q],
         s \notin stale' /\ status'[s] \in {Full, Complete} => QuotaMet(rows, s, need'[s])
  PROVE  StatusInv'
<1>1. StatusBacked'
  BY DEF StatusInv, StatusBacked
<1>2. StatusRead'
  BY DEF StatusInv, StatusRead, Quiet, TypeOK, ReportType
<1> QED BY <1>1, <1>2 DEF StatusInv

LEMMA StatusInit == Init => StatusInv
<1> SUFFICES ASSUME Init PROVE StatusInv
  OBVIOUS
<1>1. rep.scope = {} /\ \A s \in Segments : status[s] = NotStarted
  BY DEF Init, NoReport
<1> QED BY <1>1, InitType DEF StatusInv, StatusBacked, StatusRead, Quiet, NotStarted, Full, Complete

\* No statement of a report changes the scope or the statuses it began with.
LEMMA ReadKeeps ==
  ASSUME TypeOK, ReportStep
  PROVE  /\ rep'.scope = rep.scope /\ rep'.status = rep.status /\ rep'.from = rep.from
         /\ rep'.daily = rep.daily /\ rep'.need = rep.need
         /\ UNCHANGED <<rows, asg, status, need, day, touched, stale, changes>>
<1>1. CASE ReadAssignments
  BY <1>1 DEF ReadAssignments, Read, TypeOK, ReportType
<1>2. CASE ReadCollected
  BY <1>2, ReadCollectedStep DEF TypeOK, ReportType
<1>3. CASE ReadRecent
  BY <1>3, ReadRecentStep DEF TypeOK, ReportType
<1>4. CASE ReadWindow
  BY <1>4, ReadWindowStep DEF TypeOK, ReportType
<1>5. CASE ReadBefore
  BY <1>5, ReadBeforeStep DEF TypeOK, ReportType
<1>6. CASE ReadAfter
  BY <1>6, ReadAfterStep DEF TypeOK, ReportType
<1>7. CASE ReadInactive
  BY <1>7, ReadInactiveStep DEF TypeOK, ReportType
<1> QED BY <1>1, <1>2, <1>3, <1>4, <1>5, <1>6, <1>7 DEF ReportStep

LEMMA StatusStep == StatusInv /\ [Next]_vars => StatusInv'
<1> SUFFICES ASSUME StatusInv, [Next]_vars PROVE StatusInv'
  OBVIOUS
<1>0. TypeOK /\ TypeOK'
  BY TypeStep DEF StatusInv
<1>1. ASSUME NEW r \in Records, NEW s \in Segments \cup {None}, NEW p \in Positions,
             Collect(r, s, p) \/ Move(r, s, p)
      PROVE StatusInv'
  <2>1. CASE Collect(r, s, p)
    <3>1. [seg |-> s, vt |-> p, active |-> TRUE, seen |-> day] \in SeenRow
      BY <1>0 DEF SeenRow, TypeOK
    <3> QED BY <1>0, <2>1, <3>1, PutBacked DEF Collect
  <2>2. CASE Move(r, s, p)
    <3>1. [seg |-> s, vt |-> p, active |-> TRUE, seen |-> rows[r].seen] \in SeenRow
      BY <1>0, <2>2 DEF SeenRow, TypeOK, Move
    <3> QED BY <1>0, <2>2, <3>1, PutBacked DEF Move
  <2> QED BY <1>1, <2>1, <2>2
<1>2. ASSUME NEW r \in Records, Delete(r) PROVE StatusInv'
  <2>1. [rows[r] EXCEPT !.active = FALSE] \in SeenRow
    BY <1>0, <1>2 DEF SeenRow, TypeOK, Delete
  <2> QED BY <1>0, <1>2, <2>1, PutBacked DEF Delete
<1>3. ASSUME NEW s \in Segments, Verify(s) PROVE StatusInv'
  <2>1. /\ status' = [status EXCEPT ![s] = IF ChecksPass(rows, s, need[s]) THEN Complete ELSE Faulty]
        /\ UNCHANGED <<rows, need, rep>> /\ touched' = touched \cup {s} /\ stale' = stale \ {s}
    BY <1>3 DEF Verify, Changed
  <2>2. \A q \in Segments \ {s} : status'[q] = status[q]
    BY <1>0, <2>1 DEF TypeOK
  <2>3. status'[s] \in {Full, Complete} => QuotaMet(rows, s, need'[s])
    BY <1>0, <2>1 DEF ChecksPass, TypeOK, Faulty, Full, Complete
  <2> QED BY <1>0, <2>1, <2>2, <2>3, ChangeBacked
<1>4. ASSUME NEW s \in Segments, NEW st \in Statuses, Review(s, st) \/ Miscount(s, st)
      PROVE StatusInv'
  <2>1. /\ status' = [status EXCEPT ![s] = st] /\ stale' = stale \cup {s}
        /\ UNCHANGED <<rows, need, rep>> /\ touched' = touched \cup {s}
    BY <1>4 DEF Review, Miscount, Changed
  <2>2. \A q \in Segments \ {s} : status'[q] = status[q]
    BY <1>0, <2>1 DEF TypeOK
  <2> QED BY <1>0, <2>1, <2>2, ChangeBacked
<1>5. ASSUME NEW s \in Segments, NEW pos \in Pricings, Reprice(s, pos) PROVE StatusInv'
  <2>1. /\ need' = [need EXCEPT ![s] = pos] /\ stale' = stale \cup {s}
        /\ UNCHANGED <<rows, status, rep>> /\ touched' = touched \cup {s}
    BY <1>5 DEF Reprice, Changed
  <2>2. \A q \in Segments \ {s} : need'[q] = need[q]
    BY <1>0, <2>1 DEF TypeOK
  <2> QED BY <1>0, <2>1, <2>2, ChangeBacked
<1>6. CASE UNCHANGED <<rows, status, need, stale>> /\ Quiet' \subseteq Quiet /\ UNCHANGED rep
  BY <1>0, <1>6 DEF StatusInv, StatusBacked, StatusRead
<1>7. ASSUME NEW s \in Segments, NEW a \in Assigned, Assign(s, a) PROVE StatusInv'
  BY <1>6, <1>7 DEF Assign, Changed, Quiet
<1>8. CASE NewDay \/ UNCHANGED vars
  BY <1>6, <1>8 DEF NewDay, vars, Quiet
<1>9. ASSUME NEW r \in Records, NEW s \in Segments, Replay(r, s) PROVE StatusInv'
  BY <1>0, <1>9, ReplayBacked
<1>10. ASSUME NEW daily \in BOOLEAN, NEW scope \in Scopes, NEW date \in 0..MaxDay,
             ReadSegments(daily, scope, date)
      PROVE StatusInv'
  <2>1. rep'.status = status /\ UNCHANGED <<rows, status, need, stale>>
    BY <1>10 DEF ReadSegments, NoReport
  <2> QED BY <1>0, <2>1 DEF StatusInv, StatusBacked, StatusRead
<1>11. CASE ReportStep
  BY <1>0, <1>11, ReadKeeps DEF StatusInv, StatusBacked, StatusRead, Quiet
<1> QED BY <1>1, <1>2, <1>3, <1>4, <1>5, <1>7, <1>8, <1>9, <1>10, <1>11 DEF Next

\* A segment whose status says that it is full is never chased: the status is
\* kept by position and by other services, the shortage is worked out from a
\* total and read at another moment, and still the two agree.  The exception is
\* a stale status: one an inspector gave, or which no sync, replay or check
\* worked out anew since an overlap, an import that changed the positions, or
\* a replay that took a record from the segment.
THEOREM FullIsLeftAlone == Spec => []FullIsNotChased
<1>1. ReportInv /\ StatusInv /\ ShortageNotOverstated => FullIsNotChased
  <2> SUFFICES ASSUME ReportInv, StatusInv, ShortageNotOverstated,
                      NEW s \in Quiet \ stale, Done, rep.status[s] \in {Full, Complete}
               PROVE  s \notin WhiteZones /\ ~Overdue(s)
    BY DEF FullIsNotChased
  <2>1. s \in Segments \ stale /\ s \in Quiet /\ TypeOK /\ s \in rep.scope
    BY DEF ReportInv, Quiet, TypeOK, ReportType
  <2>2. QuotaMet(rows, s, need[s])
    BY <2>1 DEF StatusInv, StatusBacked, StatusRead
  <2>3. Deficit(s) = 0
    <3> DEFINE lack == [p \in need[s] |-> AtLeastZero(RecordsPerPosition - CountAt(rows, s, p))]
    <3>1. \A p \in need[s] : CountAt(rows, s, p) \in Nat
      <4> TAKE p \in need[s]
      <4>1. {r \in ActiveRows(rows, s) : rows[r].vt = p} \in SUBSET Records
        BY DEF ActiveRows
      <4> QED BY <4>1, CountType DEF CountAt
    <3>2. \A p \in need[s] : lack[p] = 0
      BY <2>2, <3>1, QuotaAssumption DEF QuotaMet, AtLeastZero
    <3>3. IsFiniteSet(need[s]) /\ Cardinality(need[s]) \in Nat
      BY <2>1, NeedAssumption, FS_CardinalityType DEF TypeOK
    <3>4. Deficit(s) = Total(lack, need[s])
      BY DEF Deficit
    <3> HIDE DEF lack
    <3>5. Total(lack, need[s]) = Cardinality(need[s]) * 0
      BY <3>2, <3>3, TotalConstant
    <3> QED BY <3>3, <3>4, <3>5
  <2>4. Missing[s] <= 0
    BY <2>1, <2>3 DEF ShortageNotOverstated
  <2>5. Missing[s] \in Nat
    <3>1. rep.scope \in SUBSET rep.scope
      OBVIOUS
    <3> QED BY <2>1, <3>1, FigureTypes DEF Numbers
  <2> QED BY <2>4, <2>5 DEF WhiteZones, Overdue
<1>2. Spec => []StatusInv
  BY StatusInit, StatusStep, PTL DEF Spec
<1> QED BY <1>1, <1>2, ReportInvariant, ShortageIsReal, PTL

-----------------------------------------------------------------------------
(* The window of the ETA.                                                   *)

Undisturbed == rep.scope \cap touched = {}

\* The count of the window is that of the rows, until one of its scope changes.
WindowInv ==
    /\ TypeOK
    /\ Undisturbed /\ (rep.pc \in {"window", "before", "after"} \/ Dashboard)
         => rep.window = Cardinality(Sighted(EtaDays))

\* A write of a record keeps the count of the window, unless it disturbs the report.
LEMMA WindowWritten ==
  ASSUME WindowInv, TypeOK', NEW r \in Records, NEW x \in SeenRow, Written(r, x)
  PROVE  WindowInv'
<1> DEFINE T == ({x.seg} \ {None}) \cup Left(r)
<1>1. rows' = [rows EXCEPT ![r] = x] /\ rep' = rep /\ touched' = touched \cup T
  BY DEF Written
<1>2. ASSUME Undisturbed' PROVE Undisturbed /\ Sighted(EtaDays)' = Sighted(EtaDays)
  <2>1. Undisturbed /\ rep.scope \cap T = {} /\ rep.scope \subseteq Segments
    BY <1>1, <1>2 DEF Undisturbed, WindowInv, TypeOK, ReportType
  <2>2. x.seg \notin rep.scope /\ (rows[r] = None \/ rows[r].seg \notin rep.scope)
    BY <2>1, NoneAssumption DEF Left
  <2>3. rows'[r] = x /\ \A q \in Records \ {r} : rows'[q] = rows[q]
    BY <1>1 DEF WindowInv, TypeOK
  <2> QED BY <1>1, <2>1, <2>2, <2>3 DEF Sighted
<1> QED BY <1>1, <1>2 DEF WindowInv, Dashboard, Done

\* What changes neither rows nor report changes nothing of the window.
LEMMA WindowSame ==
  ASSUME WindowInv, TypeOK', UNCHANGED <<rows, rep>>, touched \subseteq touched'
  PROVE  WindowInv'
<1>1. Sighted(EtaDays)' = Sighted(EtaDays)
  BY DEF Sighted
<1> QED BY <1>1 DEF WindowInv, Undisturbed, Dashboard, Done

\* The queries of a report keep the count of the window.
LEMMA WindowRead ==
  ASSUME WindowInv, TypeOK', ReportStep
  PROVE  WindowInv'
<1>1. TypeOK /\ Sighted(EtaDays)' = Sighted(EtaDays) /\ Undisturbed' = Undisturbed
  <2>1. TypeOK
    BY DEF WindowInv
  <2> QED BY <2>1, ReadKeeps DEF Sighted, Undisturbed
<1>2. CASE ReadAssignments
  <2>1. rep'.pc = "assignments"
    BY <1>1, <1>2 DEF ReadAssignments, Read, TypeOK, ReportType
  <2> QED BY <2>1 DEF WindowInv, Dashboard, Done
<1>3. CASE ReadCollected
  <2>1. rep'.pc = "collected"
    BY <1>1, <1>3, ReadCollectedStep DEF TypeOK, ReportType
  <2> QED BY <2>1 DEF WindowInv, Dashboard, Done
<1>4. CASE ReadRecent
  <2>1. rep'.pc = IF rep.daily THEN "done" ELSE "recent"
    BY <1>1, <1>4, ReadRecentStep DEF TypeOK, ReportType
  <2>2. rep'.daily = rep.daily /\ rep'.daily \in BOOLEAN
    BY <1>1, ReadKeeps DEF TypeOK, ReportType
  <2> QED BY <2>1, <2>2 DEF WindowInv, Dashboard, Done
<1>5. CASE ReadWindow
  <2>1. rep' = [rep EXCEPT !.pc = "window", !.etaDay = day, !.window = Cardinality(Sighted(EtaDays))]
    BY <1>5 DEF ReadWindow, Read
  <2>2. rep'.window = Cardinality(Sighted(EtaDays))
    BY <1>1, <2>1 DEF TypeOK, ReportType
  <2> QED BY <1>1, <2>2 DEF WindowInv
<1>6. CASE ReadBefore
  <2>1. rep'.window = rep.window /\ rep.pc = "window"
    BY <1>1, <1>6, ReadBeforeStep DEF TypeOK, ReportType
  <2> QED BY <1>1, <2>1 DEF WindowInv
<1>7. CASE ReadAfter
  <2>1. rep'.window = rep.window /\ rep.pc = "before"
    BY <1>1, <1>7, ReadAfterStep DEF TypeOK, ReportType
  <2> QED BY <1>1, <2>1 DEF WindowInv
<1>8. CASE ReadInactive
  <2>1. rep'.window = rep.window /\ rep.pc = "after"
    BY <1>1, <1>8, ReadInactiveStep DEF TypeOK, ReportType
  <2> QED BY <1>1, <2>1 DEF WindowInv
<1> QED BY <1>2, <1>3, <1>4, <1>5, <1>6, <1>7, <1>8 DEF ReportStep

LEMMA WindowStep == WindowInv /\ [Next]_vars => WindowInv'
<1> SUFFICES ASSUME WindowInv, [Next]_vars PROVE WindowInv'
  OBVIOUS
<1>0. TypeOK /\ TypeOK'
  BY TypeStep DEF WindowInv
<1>1. ASSUME NEW r \in Records, NEW s \in Segments \cup {None}, NEW p \in Positions,
             Collect(r, s, p) \/ Move(r, s, p)
      PROVE WindowInv'
  <2>1. CASE Collect(r, s, p)
    <3>1. [seg |-> s, vt |-> p, active |-> TRUE, seen |-> day] \in SeenRow
      BY <1>0 DEF SeenRow, TypeOK
    <3> QED BY <1>0, <2>1, <3>1, PutWrites, WindowWritten DEF Collect
  <2>2. CASE Move(r, s, p)
    <3>1. [seg |-> s, vt |-> p, active |-> TRUE, seen |-> rows[r].seen] \in SeenRow
      BY <1>0, <2>2 DEF SeenRow, TypeOK, Move
    <3> QED BY <1>0, <2>2, <3>1, PutWrites, WindowWritten DEF Move
  <2> QED BY <1>1, <2>1, <2>2
<1>2. ASSUME NEW r \in Records, Delete(r) PROVE WindowInv'
  <2>1. [rows[r] EXCEPT !.active = FALSE] \in SeenRow
    BY <1>0, <1>2 DEF SeenRow, TypeOK, Delete
  <2> QED BY <1>0, <1>2, <2>1, PutWrites, WindowWritten DEF Delete
<1>3. ASSUME NEW r \in Records, NEW s \in Segments, Replay(r, s) PROVE WindowInv'
  BY <1>0, <1>3, ReplayWrites, WindowWritten
<1>4. ASSUME NEW s \in Segments,
             \/ \E st \in Statuses : Review(s, st) \/ Miscount(s, st)
             \/ \E pos \in Pricings : Reprice(s, pos)
      PROVE WindowInv'
  BY <1>0, <1>4, WindowSame DEF Review, Miscount, Reprice, Changed
<1>5. ASSUME NEW s \in Segments, Verify(s) PROVE WindowInv'
  BY <1>0, <1>5, WindowSame DEF Verify, Changed
<1>6. ASSUME NEW s \in Segments, NEW a \in Assigned, Assign(s, a) PROVE WindowInv'
  BY <1>0, <1>6, WindowSame DEF Assign, Changed
<1>7. CASE NewDay \/ UNCHANGED vars
  BY <1>0, <1>7, WindowSame DEF NewDay, vars
<1>8. ASSUME NEW daily \in BOOLEAN, NEW scope \in Scopes, NEW date \in 0..MaxDay,
             ReadSegments(daily, scope, date)
      PROVE WindowInv'
  <2>1. rep'.pc = "segments"
    BY <1>8 DEF ReadSegments, NoReport
  <2> QED BY <1>0, <2>1 DEF WindowInv, Dashboard, Done
<1>9. CASE ReportStep
  BY <1>0, <1>9, WindowRead
<1> QED BY <1>1, <1>2, <1>3, <1>4, <1>5, <1>6, <1>7, <1>8, <1>9 DEF Next

\* A recent record of an undisturbed scope is one of the window as well.
LEMMA RecentIsSighted ==
  ASSUME ReportInv, Dashboard, Undisturbed, Total(rep.recent, rep.scope) > 0
  PROVE  Cardinality(Sighted(EtaDays)) > 0
<1>1. TypeOK /\ IsFiniteSet(rep.scope) /\ Numbers(rep.recent, rep.scope)
  <2>1. rep.scope \in SUBSET rep.scope
    OBVIOUS
  <2> QED BY <2>1, FigureTypes DEF ReportInv
<1>2. PICK s \in rep.scope : rep.recent[s] # 0
  <2>1. ASSUME \A s \in rep.scope : rep.recent[s] = 0 PROVE FALSE
    <3>1. Total(rep.recent, rep.scope) = Cardinality(rep.scope) * 0
      BY <1>1, <2>1, TotalConstant
    <3>2. Cardinality(rep.scope) \in Nat
      BY <1>1, FS_CardinalityType
    <3> QED BY <3>1, <3>2
  <2> QED BY <2>1
<1>3. s \in Quiet /\ Fits(s) /\ s \in Segments
  BY <1>1 DEF Undisturbed, Quiet, ReportInv, TypeOK, ReportType
<1>4. rep.recent[s] = Cardinality(Recent(s))
  BY <1>3 DEF Fits, Dashboard, Done, Readable
<1>5. PICK r \in Recent(s) : TRUE
  BY <1>2, <1>4, FS_EmptySet
<1>6. r \in Sighted(EtaDays)
  <2>1. r \in Records /\ rows[r] # None /\ rows[r].seg = s /\ rows[r].active
        /\ rows[r].seen + AlertDays >= rep.from
    BY DEF Recent, Active
  <2>2. rows[r].seen \in Nat /\ rep.from \in Nat
    BY <1>1, <2>1 DEF TypeOK, SeenRow, ReportType
  <2>3. rows[r].seen + EtaDays >= rep.from
    BY <2>1, <2>2, WindowAssumption
  <2> QED BY <2>1, <2>3 DEF Sighted
<1>7. Sighted(EtaDays) \in SUBSET Records
  BY DEF Sighted
<1>8. IsFiniteSet(Sighted(EtaDays)) /\ Cardinality(Sighted(EtaDays)) \in Nat
  BY <1>7, CountType
<1> QED BY <1>6, <1>8, FS_EmptySet

\* A dashboard that counts recent records in a scope nobody disturbs gives a
\* date for its ETA: the division by the rate is reached with a rate above zero.
THEOREM EtaIsGiven == Spec => []EtaIsKnown
<1>1. ReportInv /\ WindowInv => EtaIsKnown
  <2> SUFFICES ASSUME ReportInv, WindowInv, Dashboard, Undisturbed,
                      Total(rep.recent, rep.scope) > 0
               PROVE  Eta # None
    BY DEF EtaIsKnown, Undisturbed
  <2>1. TypeOK /\ rep.window = Cardinality(Sighted(EtaDays)) /\ rep.window > 0
    BY RecentIsSighted DEF WindowInv
  <2>2. rep.window \in Nat /\ rep.etaDay \in Nat
    BY <2>1 DEF TypeOK, ReportType
  <2> DEFINE remaining == Total(Needed, rep.scope) - Total(rep.collected, rep.scope)
  <2>3. remaining \in Int
    <3>1. rep.scope \in SUBSET rep.scope
      OBVIOUS
    <3>2. IsFiniteSet(rep.scope) /\ Numbers(Needed, rep.scope) /\ Numbers(rep.collected, rep.scope)
      BY <2>1, <3>1, FigureTypes
    <3>3. Total(Needed, rep.scope) \in Nat /\ Total(rep.collected, rep.scope) \in Nat
      BY <3>2, TotalNat
    <3> QED BY <3>3
  <2>4. Eta = IF remaining <= 0 THEN rep.etaDay
              ELSE IF rep.window = 0 THEN None
              ELSE rep.etaDay + (remaining * EtaDays) \div rep.window
    BY DEF Eta
  <2> HIDE DEF remaining
  <2>5. CASE remaining <= 0
    BY <2>2, <2>4, <2>5, DateAssumption
  <2>6. CASE ~(remaining <= 0)
    <3> DEFINE work == remaining * EtaDays
    <3>1. work \in Nat
      BY <2>3, <2>6, WindowAssumption
    <3> HIDE DEF work
    <3>2. work \div rep.window \in Nat
      BY <2>1, <2>2, <3>1
    <3> QED BY <2>1, <2>2, <2>4, <2>6, <3>2, DateAssumption DEF work
  <2> QED BY <2>5, <2>6
<1>2. Init => WindowInv
  BY InitType DEF Init, NoReport, WindowInv, Dashboard, Done
<1>3. Spec => []WindowInv
  BY <1>2, WindowStep, PTL DEF Spec
<1> QED BY <1>1, <1>3, ReportInvariant, PTL
=============================================================================
