-------------------------- MODULE AssignmentsProofs --------------------------
(***************************************************************************)
(* Proofs about Assignments: the types, the round trip of an untouched     *)
(* workbook, and, with one workbook in circulation, that what was filled   *)
(* in stays.                                                               *)
(***************************************************************************)
EXTENDS Assignments, TLAPS

\* An assignment is known by its fields, and so is a row of a workbook.
LEMMA FieldByField ==
    ASSUME NEW e, e = [f \in Fields |-> e[f]]
    PROVE  /\ (\A f \in Fields : e[f] \in Values[f] \cup {None}) => e \in Assignment
           /\ (\A f \in Fields : e[f] \in CellsOf(f)) => e \in Row
  <1>1. \A f \in Fields : Values[f] \subseteq Cells /\ CellsOf(f) \subseteq Cells
    BY DEF Fields, Values, Cells, CellsOf
  <1>2. (\A f \in Fields : e[f] \in Cells) => e \in [Fields -> Cells]
    OBVIOUS
  <1> QED BY <1>1, <1>2 DEF Assignment, Row, Cells

\* A legible value of a cell is a value of its field.
LEMMA LegibleCells ==
    ASSUME NEW f \in Fields, NEW v \in CellsOf(f)
    PROVE  v \in {None, Illegible} <=> v \notin Values[f]
  BY ValuesAssumption DEF CellsOf

\* Importing a row, and remembering what was filled in, keep the types.
LEMMA UpdateType ==
    ASSUME NEW a \in Assignment, NEW c \in Row
    PROVE  Updated(a, c) \in Assignment /\ Kept(a, c) \in Assignment
  <1>1. \A f \in Fields : a[f] \in Values[f] \cup {None} /\ c[f] \in CellsOf(f)
    BY DEF Assignment, Row
  <1>2. \A f \in Fields : Updated(a, c)[f] \in Values[f] \cup {None}
    BY <1>1, LegibleCells DEF Updated
  <1>3. \A f \in Fields : Kept(a, c)[f] \in Values[f] \cup {None}
    BY <1>1 DEF Kept
  <1>4. Updated(a, c) = [f \in Fields |-> Updated(a, c)[f]] /\ Kept(a, c) = [f \in Fields |-> Kept(a, c)[f]]
    BY DEF Updated, Kept
  <1> QED BY <1>2, <1>3, <1>4, FieldByField

\* An exported row is a row.
LEMMA ExportType ==
    ASSUME NEW a \in Assignment, NEW d \in Branches \cup {None}
    PROVE  ExportRow(a, d) \in Row
  <1>1. \A f \in Fields : ExportRow(a, d)[f] \in CellsOf(f)
    BY DEF ExportRow, Assignment, CellsOf, Fields, Values
  <1>2. ExportRow(a, d) = [f \in Fields |-> ExportRow(a, d)[f]]
    BY DEF ExportRow
  <1> QED BY <1>1, <1>2, FieldByField

-----------------------------------------------------------------------------
\* The rows of a workbook are a function from some of the segments.
LEMMA SheetRows ==
    ASSUME NEW x
    PROVE  /\ x \in Sheet => /\ DOMAIN x.rows \subseteq Segments
                             /\ x.rows \in [DOMAIN x.rows -> Row]
                             /\ x.edited \subseteq Segments \X Fields
           /\ \A S \in SUBSET Segments : \A r, e :
                r \in [S -> Row] /\ e \subseteq Segments \X Fields
                    => [rows |-> r, edited |-> e] \in Sheet
  BY DEF Sheet

\* The initial values have their types.
LEMMA InitTyped == Init => TypeOK
  <1> SUFFICES ASSUME Init PROVE TypeOK
    OBVIOUS
  <1>1. Nobody \in Assignment
    <2>1. \A f \in Fields : Nobody[f] \in Values[f] \cup {None}
      BY DEF Nobody
    <2>2. Nobody = [f \in Fields |-> Nobody[f]]
      BY DEF Nobody
    <2> QED BY <2>1, <2>2, FieldByField
  <1>2. Empty \in Sheet
    <2>1. [s \in {} |-> Nobody] \in [{} -> Row]
      OBVIOUS
    <2> QED BY <2>1, SheetRows DEF Empty
  <1>3. \A s \in Segments : assigned[s]["branch"] \in branches \cup {None}
    BY DEF Init, Nobody, Fields
  <1> QED BY <1>1, <1>2, <1>3 DEF Init, TypeOK

\* Every step keeps the types.
LEMMA NextTyped == TypeOK /\ [Next]_vars => TypeOK'
  <1> SUFFICES ASSUME TypeOK, [Next]_vars PROVE TypeOK'
    OBVIOUS
  <1>1. ASSUME NEW n \in Branches, AddBranch(n) PROVE TypeOK'
    BY <1>1 DEF AddBranch, TypeOK
  <1>2. ASSUME NEW w \in Wards, NEW n \in Branches, SaveMapping(w, n) PROVE TypeOK'
    <2>1. rule' \in [Wards -> branches \cup {None}] /\ default' \in [Segments -> branches \cup {None}]
      BY <1>2 DEF SaveMapping, TypeOK
    <2> QED BY <1>2, <2>1 DEF SaveMapping, TypeOK
  <1>3. ASSUME NEW file \in SUBSET Segments, ImportMaster(file) PROVE TypeOK'
    <2>1. default' \in [Segments -> branches \cup {None}]
      BY <1>3, WardsAssumption DEF ImportMaster, TypeOK
    <2> QED BY <1>3, <2>1 DEF ImportMaster, TypeOK
  <1>4. ASSUME NEW b \in Workbooks, NEW wards \in SUBSET Wards, Export(b, wards) PROVE TypeOK'
    <2> DEFINE S == {s \in live : WardOf[s] \in wards}
               r == [s \in S |-> ExportRow(assigned[s], default[s])]
    <2>1. S \in SUBSET Segments
      BY DEF TypeOK
    <2>2. \A s \in Segments : assigned[s] \in Assignment /\ default[s] \in Branches \cup {None}
      BY DEF TypeOK
    <2>3. r \in [S -> Row]
      BY <2>1, <2>2, ExportType
    <2>4. [rows |-> r, edited |-> {}] \in Sheet
      BY <2>1, <2>3, SheetRows
    <2>5. book' \in [Workbooks -> Sheet]
      BY <1>4, <2>4 DEF Export, TypeOK
    <2> QED BY <1>4, <2>5 DEF Export, TypeOK
  <1>5. ASSUME NEW b \in Workbooks, NEW s \in Segments, NEW f \in Fields, NEW value \in CellsOf(f),
               Fill(b, s, f, value)
        PROVE  TypeOK'
    <2> DEFINE r == book[b].rows
               row == [r[s] EXCEPT ![f] = value]
    <2>1. book[b] \in Sheet /\ DOMAIN r \subseteq Segments /\ r \in [DOMAIN r -> Row] /\ s \in DOMAIN r
      BY <1>5, SheetRows DEF TypeOK, Fill
    <2>2. row \in Row
      <3>1. r[s] \in [Fields -> Cells] /\ \A g \in Fields : r[s][g] \in CellsOf(g)
        BY <2>1 DEF Row
      <3>2. \A g \in Fields : row[g] \in CellsOf(g)
        BY <3>1
      <3>3. row = [g \in Fields |-> row[g]]
        BY <3>1
      <3> QED BY <3>2, <3>3, FieldByField
    <2>3. [r EXCEPT ![s] = row] \in [DOMAIN r -> Row]
      BY <2>1, <2>2
    <2>4. book[b].edited \cup {<<s, f>>} \subseteq Segments \X Fields
      BY <2>1, SheetRows
    <2>5. [rows |-> [r EXCEPT ![s] = row], edited |-> book[b].edited \cup {<<s, f>>}] \in Sheet
      BY <2>1, <2>3, <2>4, SheetRows
    <2>6. book' = [book EXCEPT ![b] = [rows |-> [r EXCEPT ![s] = row],
                                       edited |-> book[b].edited \cup {<<s, f>>}]]
      BY <1>5 DEF Fill, TypeOK
    <2>7. book' \in [Workbooks -> Sheet]
      BY <2>5, <2>6 DEF TypeOK
    <2>8. fills' \in Nat
      BY <1>5 DEF Fill, TypeOK
    <2> QED BY <1>5, <2>7, <2>8 DEF Fill, TypeOK
  <1>6. ASSUME NEW b \in Workbooks, NEW ids \in BOOLEAN, ImportAssignments(b, ids) PROVE TypeOK'
    <2> DEFINE rows == book[b].rows
               matched == DOMAIN rows \cap Found(ids)
               typed(s) == [f \in Fields |-> IF <<s, f>> \in book[b].edited THEN rows[s][f] ELSE None]
    <2>1. DOMAIN rows \subseteq Segments /\ rows \in [DOMAIN rows -> Row]
      BY SheetRows DEF TypeOK
    <2>2. /\ branches' = branches \cup Named(rows, matched)
          /\ assigned' = [s \in Segments |->
                            IF s \in matched THEN Updated(assigned[s], rows[s]) ELSE assigned[s]]
          /\ filled' = [s \in Segments |->
                          IF s \in matched THEN Kept(filled[s], typed(s)) ELSE filled[s]]
          /\ UNCHANGED <<rule, live, default, book, fills, saves>>
      BY <1>6 DEF ImportAssignments
    <2>3. \A s \in matched : rows[s] \in Row /\ rows[s]["branch"] \in Branches \cup {None}
      BY <2>1 DEF Row, Fields, CellsOf, Values
    <2>4. branches' \subseteq Branches /\ branches \subseteq branches'
      BY <2>2, <2>3 DEF Named, TypeOK
    <2>5. assigned' \in [Segments -> Assignment]
      BY <2>2, <2>3, UpdateType DEF TypeOK
    <2>6. \A s \in matched : typed(s) \in Row
      <3> SUFFICES ASSUME NEW s \in matched PROVE typed(s) \in Row
        OBVIOUS
      <3>1. \A f \in Fields : rows[s][f] \in CellsOf(f) /\ None \in CellsOf(f)
        BY <2>3 DEF Row, CellsOf
      <3>2. \A f \in Fields : typed(s)[f] \in CellsOf(f)
        BY <3>1
      <3>3. typed(s) = [f \in Fields |-> typed(s)[f]]
        OBVIOUS
      <3> QED BY <3>2, <3>3, FieldByField
    <2>7. filled' \in [Segments -> Assignment]
      <3> HIDE DEF typed
      <3> QED BY <2>2, <2>6, UpdateType DEF TypeOK
    <2>8. \A s \in Segments : assigned'[s]["branch"] \in branches' \cup {None}
      <3> SUFFICES ASSUME NEW s \in Segments PROVE assigned'[s]["branch"] \in branches' \cup {None}
        OBVIOUS
      <3>1. assigned[s]["branch"] \in branches' \cup {None}
        BY <2>4 DEF TypeOK
      <3>2. CASE s \notin matched
        BY <2>2, <3>1, <3>2
      <3>3. CASE s \in matched
        <4>1. rows[s]["branch"] \in branches' \cup {None}
          BY <2>2, <3>3 DEF Named
        <4>2. assigned'[s]["branch"] \in {rows[s]["branch"], assigned[s]["branch"]}
          BY <2>2, <3>3 DEF Updated, Fields
        <4> QED BY <3>1, <4>1, <4>2
      <3> QED BY <3>2, <3>3
    <2> QED BY <2>2, <2>4, <2>5, <2>7, <2>8 DEF TypeOK
  <1>7. CASE UNCHANGED vars
    BY <1>7 DEF vars, TypeOK
  <1> QED BY <1>1, <1>2, <1>3, <1>4, <1>5, <1>6, <1>7 DEF Next

\* The types hold for any number of workbooks, segments and branches.
THEOREM TypeCorrect == Spec => []TypeOK
  <1>1. Init => TypeOK
    BY InitTyped
  <1>2. TypeOK /\ [Next]_vars => TypeOK'
    BY NextTyped
  <1> QED BY <1>1, <1>2, PTL DEF Spec

-----------------------------------------------------------------------------
\* Importing a fresh row, one cell filled in, shows exactly that cell anew.
LEMMA FreshRow ==
    ASSUME NEW a \in Assignment, NEW d \in Branches \cup {None},
           NEW f \in Fields, NEW value \in Values[f]
    PROVE  Shown(Updated(a, [ExportRow(a, d) EXCEPT ![f] = value]), d)
               = [Shown(a, d) EXCEPT ![f] = value]
  <1> DEFINE row == [ExportRow(a, d) EXCEPT ![f] = value]
  <1>1. value \notin {None, Illegible} /\ d # Illegible
    BY ValuesAssumption, CellsAssumption DEF Fields, Values
  <1>2. \A g \in Fields : a[g] # Illegible
    BY ValuesAssumption, CellsAssumption DEF Assignment
  <1>3. \A g \in Fields : row[g] = IF g = f THEN value ELSE ExportRow(a, d)[g]
    BY DEF ExportRow
  <1>4. \A g \in Fields \ {f} : Shown(Updated(a, row), d)[g] = Shown(a, d)[g]
    <2> SUFFICES ASSUME NEW g \in Fields \ {f}
                 PROVE  Shown(Updated(a, row), d)[g] = Shown(a, d)[g]
      OBVIOUS
    <2>1. row[g] = IF g # "branch" \/ a[g] # None THEN a[g] ELSE d
      BY <1>3 DEF ExportRow
    <2>2. Updated(a, row)[g] = IF row[g] \in {None, Illegible} THEN a[g] ELSE row[g]
      BY DEF Updated
    <2>3. Updated(a, row)[g] = row[g]
      BY <1>1, <1>2, <2>1, <2>2
    <2> QED BY <2>1, <2>3 DEF Shown
  <1>5. Shown(Updated(a, row), d)[f] = value
    <2>1. Updated(a, row)[f] = value
      BY <1>1, <1>3 DEF Updated
    <2> QED BY <1>1, <2>1 DEF Shown
  <1> QED BY <1>4, <1>5 DEF Shown

\* A workbook can be exported, filled in and imported at once without a side
\* effect on what the reports show: RoundTrip, for any number of workbooks.
THEOREM RoundTripHolds == Spec => []RoundTrip
  <1>1. TypeOK => RoundTrip
    <2> SUFFICES ASSUME TypeOK, NEW s \in live, NEW f \in Fields, NEW value \in Values[f]
                 PROVE  Shown(Updated(assigned[s],
                                      [ExportRow(assigned[s], default[s]) EXCEPT ![f] = value]), default[s])
                            = [Shown(assigned[s], default[s]) EXCEPT ![f] = value]
      BY DEF RoundTrip
    <2>1. assigned[s] \in Assignment /\ default[s] \in Branches \cup {None}
      BY DEF TypeOK
    <2> QED BY <2>1, FreshRow
  <1> QED BY <1>1, TypeCorrect, PTL

-----------------------------------------------------------------------------
(***************************************************************************)
(* One workbook.  A column holds what was last filled in for it (Stored),  *)
(* and a cell of the workbook that was not filled in since its export      *)
(* still says so too (Believed): a later import cannot undo it.            *)
(***************************************************************************)
OneWorkbook == \A b, c \in Workbooks : b = c

Stored ==
    \A s \in Segments, f \in Fields : filled[s][f] # None => assigned[s][f] = filled[s][f]

Believed ==
    \A b \in Workbooks : \A s \in DOMAIN book[b].rows, f \in Fields :
        <<s, f>> \notin book[b].edited /\ filled[s][f] # None => book[b].rows[s][f] = filled[s][f]

FilledInv == Stored /\ Believed

\* A step of anything but the workbooks leaves the invariant alone.
LEMMA FilledUntouched ==
    ASSUME FilledInv, UNCHANGED <<assigned, book, filled>> PROVE FilledInv'
  BY DEF FilledInv, Stored, Believed

\* A fresh export says of every segment what is stored.
LEMMA ExportKeeps ==
    ASSUME TypeOK, FilledInv, NEW b \in Workbooks, NEW wards \in SUBSET Wards, Export(b, wards)
    PROVE  FilledInv'
  <1> DEFINE S == {s \in live : WardOf[s] \in wards}
  <1>1. /\ UNCHANGED <<assigned, filled>>
        /\ book' = [book EXCEPT ![b] =
                      [rows |-> [s \in S |-> ExportRow(assigned[s], default[s])], edited |-> {}]]
    BY DEF Export
  <1>2. Stored'
    BY <1>1 DEF FilledInv, Stored
  <1>3. Believed'
    <2> SUFFICES ASSUME NEW c \in Workbooks, NEW s \in DOMAIN book'[c].rows, NEW f \in Fields,
                        <<s, f>> \notin book'[c].edited, filled[s][f] # None
                 PROVE  book'[c].rows[s][f] = filled[s][f]
      BY <1>1 DEF Believed
    <2>1. CASE c # b
      <3>1. book'[c] = book[c]
        BY <1>1, <2>1 DEF TypeOK
      <3> QED BY <3>1 DEF FilledInv, Believed
    <2>2. CASE c = b
      <3>1. book'[b].rows = [t \in S |-> ExportRow(assigned[t], default[t])]
        BY <1>1 DEF TypeOK
      <3>2. s \in S /\ s \in Segments
        BY <2>2, <3>1 DEF TypeOK
      <3>3. assigned[s][f] = filled[s][f]
        BY <3>2 DEF FilledInv, Stored
      <3>4. book'[b].rows[s][f] = assigned[s][f]
        BY <3>1, <3>2, <3>3 DEF ExportRow
      <3> QED BY <2>2, <3>3, <3>4
    <2> QED BY <2>1, <2>2
  <1> QED BY <1>2, <1>3 DEF FilledInv

\* A cell that is filled in is marked, and no other cell changes.
LEMMA FillKeeps ==
    ASSUME TypeOK, FilledInv, NEW b \in Workbooks, NEW s \in Segments, NEW f \in Fields,
           NEW value \in CellsOf(f), Fill(b, s, f, value)
    PROVE  FilledInv'
  <1> DEFINE r == book[b].rows
  <1>1. /\ UNCHANGED <<assigned, filled>>
        /\ book' = [book EXCEPT ![b] = [rows   |-> [r EXCEPT ![s][f] = value],
                                        edited |-> book[b].edited \cup {<<s, f>>}]]
    BY DEF Fill, TypeOK
  <1>2. Stored'
    BY <1>1 DEF FilledInv, Stored
  <1>3. Believed'
    <2> SUFFICES ASSUME NEW c \in Workbooks, NEW t \in DOMAIN book'[c].rows, NEW g \in Fields,
                        <<t, g>> \notin book'[c].edited, filled[t][g] # None
                 PROVE  book'[c].rows[t][g] = filled[t][g]
      BY <1>1 DEF Believed
    <2>1. CASE c # b
      <3>1. book'[c] = book[c]
        BY <1>1, <2>1 DEF TypeOK
      <3> QED BY <3>1 DEF FilledInv, Believed
    <2>2. CASE c = b
      <3>1. book'[b].rows = [r EXCEPT ![s][f] = value] /\ book'[b].edited = book[b].edited \cup {<<s, f>>}
        BY <1>1 DEF TypeOK
      <3>2. r \in [DOMAIN r -> Row]
        BY SheetRows DEF TypeOK
      <3>3. t \in DOMAIN r /\ <<t, g>> \notin book[b].edited /\ (t # s \/ g # f)
        BY <2>2, <3>1
      <3>4. r[t] \in [Fields -> Cells]
        BY <3>2, <3>3 DEF Row
      <3>5. book'[b].rows[t][g] = r[t][g]
        BY <3>1, <3>3, <3>4
      <3> QED BY <2>2, <3>3, <3>5 DEF FilledInv, Believed
    <2> QED BY <2>1, <2>2
  <1> QED BY <1>2, <1>3 DEF FilledInv

\* An import brings in what was filled in; for the other cells it writes what
\* is stored already, because it is the only workbook.
LEMMA ImportKeeps ==
    ASSUME OneWorkbook, TypeOK, FilledInv, NEW b \in Workbooks, NEW ids \in BOOLEAN,
           ImportAssignments(b, ids)
    PROVE  FilledInv'
  <1> DEFINE rows == book[b].rows
             matched == DOMAIN rows \cap Found(ids)
             typed(s) == [f \in Fields |-> IF <<s, f>> \in book[b].edited THEN rows[s][f] ELSE None]
  <1>1. /\ assigned' = [s \in Segments |->
                          IF s \in matched THEN Updated(assigned[s], rows[s]) ELSE assigned[s]]
        /\ filled' = [s \in Segments |->
                        IF s \in matched THEN Kept(filled[s], typed(s)) ELSE filled[s]]
        /\ book' = book
    BY DEF ImportAssignments
  <1>2. DOMAIN rows \subseteq Segments /\ rows \in [DOMAIN rows -> Row]
    BY SheetRows DEF TypeOK
  <1>3. ASSUME NEW s \in matched, NEW f \in Fields
        PROVE  /\ filled'[s][f] = IF <<s, f>> \in book[b].edited /\ rows[s][f] \in Values[f]
                                  THEN rows[s][f] ELSE filled[s][f]
               /\ assigned'[s][f] = IF rows[s][f] \in Values[f] THEN rows[s][f] ELSE assigned[s][f]
    <2>1. s \in Segments /\ rows[s][f] \in CellsOf(f)
      BY <1>2 DEF Row
    <2>2. filled'[s][f] = Kept(filled[s], typed(s))[f] /\ assigned'[s][f] = Updated(assigned[s], rows[s])[f]
      BY <1>1, <2>1
    <2>3. None \notin Values[f]
      BY ValuesAssumption
    <2>4. Kept(filled[s], typed(s))[f] = IF typed(s)[f] \in Values[f] THEN typed(s)[f] ELSE filled[s][f]
      BY DEF Kept
    <2>5. Updated(assigned[s], rows[s])[f]
            = IF rows[s][f] \in {None, Illegible} THEN assigned[s][f] ELSE rows[s][f]
      BY DEF Updated
    <2> QED BY <2>1, <2>2, <2>3, <2>4, <2>5, LegibleCells
  <1>4. \A s \in Segments, f \in Fields : filled[s][f] \in Values[f] \cup {None}
    BY DEF TypeOK, Assignment
  <1>5. Stored'
    <2> SUFFICES ASSUME NEW s \in Segments, NEW f \in Fields, filled'[s][f] # None
                 PROVE  assigned'[s][f] = filled'[s][f]
      BY DEF Stored
    <2>1. CASE s \notin matched
      BY <1>1, <2>1 DEF FilledInv, Stored
    <2>2. CASE s \in matched /\ <<s, f>> \in book[b].edited
      BY <1>3, <2>2 DEF FilledInv, Stored
    <2>3. CASE s \in matched /\ <<s, f>> \notin book[b].edited
      <3>1. filled'[s][f] = filled[s][f] /\ filled[s][f] \in Values[f]
        BY <1>3, <1>4, <2>3
      <3>2. rows[s][f] = filled[s][f]
        BY <2>3, <3>1 DEF FilledInv, Believed
      <3> QED BY <1>3, <2>3, <3>1, <3>2
    <2> QED BY <2>1, <2>2, <2>3
  <1>6. Believed'
    <2> SUFFICES ASSUME NEW s \in DOMAIN rows, NEW f \in Fields,
                        <<s, f>> \notin book[b].edited, filled'[s][f] # None
                 PROVE  rows[s][f] = filled'[s][f]
      BY <1>1 DEF Believed, OneWorkbook
    <2>1. filled'[s][f] = filled[s][f]
      BY <1>1, <1>2, <1>3
    <2> QED BY <2>1 DEF FilledInv, Believed
  <1> QED BY <1>5, <1>6 DEF FilledInv

\* With one workbook in circulation, what was filled in and imported last for
\* a segment is what the reports show: FilledStays.
THEOREM FilledIsKept == OneWorkbook /\ Spec => []FilledStays
  <1> SUFFICES ASSUME OneWorkbook PROVE Spec => []FilledStays
    OBVIOUS
  <1>1. Init => FilledInv
    BY DEF Init, FilledInv, Stored, Believed, Empty, Nobody
  <1>2. TypeOK /\ FilledInv /\ [Next]_vars => FilledInv'
    <2> SUFFICES ASSUME TypeOK, FilledInv, [Next]_vars PROVE FilledInv'
      OBVIOUS
    <2>1. ASSUME NEW n \in Branches, AddBranch(n) PROVE FilledInv'
      BY <2>1, FilledUntouched DEF AddBranch
    <2>2. ASSUME NEW w \in Wards, NEW n \in Branches, SaveMapping(w, n) PROVE FilledInv'
      BY <2>2, FilledUntouched DEF SaveMapping
    <2>3. ASSUME NEW file \in SUBSET Segments, ImportMaster(file) PROVE FilledInv'
      BY <2>3, FilledUntouched DEF ImportMaster
    <2>4. CASE UNCHANGED vars
      BY <2>4, FilledUntouched DEF vars
    <2> QED BY <2>1, <2>2, <2>3, <2>4, ExportKeeps, FillKeeps, ImportKeeps DEF Next
  <1>3. FilledInv => FilledStays
    BY DEF FilledInv, Stored, FilledStays, Shown
  <1> QED BY <1>1, <1>2, <1>3, TypeCorrect, PTL DEF Spec
=============================================================================
