----------------------------- MODULE Assignments -----------------------------
(***************************************************************************)
(* Assignment files (T2): a workbook is exported with a row for each       *)
(* active segment, people fill in who collects it, until when and for      *)
(* which branch, and the workbook is imported again, perhaps much later    *)
(* or more than once.  An assignment's branch overrides the default branch *)
(* of its segment, which follows the branch mapping.                       *)
(*                                                                         *)
(* Each service call is one transaction and one step here.  A segment      *)
(* without a row in assignments is one whose fields are all None: exports  *)
(* and reports do not tell them apart.  The default branch is kept by the  *)
(* ward's rule alone; BranchRules has its interleavings and the provinces. *)
(***************************************************************************)
EXTENDS Naturals, FiniteSets

CONSTANTS
    Segments, Wards, WardOf,
    People, Dates, Branches,  \* phu_trach, deadlines, branch names
    None,                     \* an empty column or cell
    Illegible,                \* a deadline that is no date
    Workbooks,                \* the exported files in circulation
    MaxFills,                 \* bound on cells filled in
    MaxSaves                  \* bound on branch rules saved

Fields == {"phu_trach", "deadline", "branch"}
Values == [phu_trach |-> People, deadline |-> Dates, branch |-> Branches]

ASSUME WardsAssumption == WardOf \in [Segments -> Wards]
ASSUME ValuesAssumption == \A f \in Fields : {None, Illegible} \cap Values[f] = {}
ASSUME CellsAssumption == None # Illegible
ASSUME LimitsAssumption == MaxFills \in Nat /\ MaxSaves \in Nat

VARIABLES
    branches,  \* names in the table branches
    rule,      \* branch_mappings: the branch of a ward, or None
    live,      \* segments.is_active
    default,   \* segments.branch_id
    assigned,  \* assignments: the value of each field, or None
    book,      \* the rows of each workbook, and the cells filled in since its export
    filled,    \* history: the last value of a filled cell that was imported, or None
    fills, saves

vars == <<branches, rule, live, default, assigned, book, filled, fills, saves>>

Cells      == People \cup Dates \cup Branches \cup {None, Illegible}
CellsOf(f) == Values[f] \cup {None} \cup (IF f = "deadline" THEN {Illegible} ELSE {})
Row        == {c \in [Fields -> Cells] : \A f \in Fields : c[f] \in CellsOf(f)}
Assignment == {a \in [Fields -> Cells] : \A f \in Fields : a[f] \in Values[f] \cup {None}}

Nobody == [f \in Fields |-> None]
Empty  == [rows |-> [s \in {} |-> Nobody], edited |-> {}]

\* The values of cells, over what was there for the others.
Kept(old, cells) == [f \in Fields |-> IF cells[f] \in Values[f] THEN cells[f] ELSE old[f]]

Init ==
    /\ branches = {} /\ rule = [w \in Wards |-> None]
    /\ live = Segments /\ default = [s \in Segments |-> None]
    /\ assigned = [s \in Segments |-> Nobody]
    /\ book = [b \in Workbooks |-> Empty]
    /\ filled = [s \in Segments |-> Nobody]
    /\ fills = 0 /\ saves = 0

-----------------------------------------------------------------------------
(* What is shown, exported and imported, of one segment.                    *)

\* _resolve_branch_name, and the person and deadline of the reports: the
\* assignment a with the default branch d behind it.
Shown(a, d) ==
    [f \in Fields |-> IF f = "branch" /\ a[f] = None THEN d ELSE a[f]]

\* Mutant: the branch column shows the mapping's branch only.
ExportRow_DefaultOnly(a, d) == [f \in Fields |-> IF f = "branch" THEN d ELSE a[f]]

\* The cells export_assignment_excel writes for an assignment and a default.
ExportRow(a, d) == [f \in Fields |-> IF f # "branch" \/ a[f] # None THEN a[f] ELSE d]

\* Mutant: an empty cell empties the column.
Updated_BlankClears(a, cells) == [f \in Fields |-> IF cells[f] = Illegible THEN a[f] ELSE cells[f]]

\* import_assignment_excel, one row: an empty cell, or a deadline that cannot
\* be parsed, leaves its column alone.
Updated(a, cells) == [f \in Fields |-> IF cells[f] \in {None, Illegible} THEN a[f] ELSE cells[f]]

\* _find_segment: by segment_id, active or not; without ids in the workbook by
\* the text key, which finds active segments only.
Found(ids) == IF ids THEN Segments ELSE live

\* Mutant: an unknown branch is not created.
Named_Known(rows, S) == {rows[s]["branch"] : s \in S} \cap branches

\* _get_or_create_branch: the branches that importing the rows S needs.
Named(rows, S) == {rows[s]["branch"] : s \in S} \ {None}

-----------------------------------------------------------------------------
\* Add Branch.
AddBranch(n) ==
    /\ n \notin branches
    /\ branches' = branches \cup {n}
    /\ UNCHANGED <<rule, live, default, assigned, book, filled, fills, saves>>

\* Save Mapping and apply_single_mapping, for a ward.
SaveMapping(w, n) ==
    /\ n \in branches /\ saves < MaxSaves
    /\ rule' = [rule EXCEPT ![w] = n]
    /\ default' = [s \in Segments |-> IF s \in live /\ WardOf[s] = w THEN n ELSE default[s]]
    /\ saves' = saves + 1
    /\ UNCHANGED <<branches, live, assigned, book, filled, fills>>

\* import_excel of a master file that lists the segments of file.
ImportMaster(file) ==
    /\ live' = file
    /\ default' = [s \in Segments |-> IF s \in file THEN rule[WardOf[s]] ELSE default[s]]
    /\ UNCHANGED <<branches, rule, assigned, book, filled, fills, saves>>

\* export_assignment_excel of some wards: a fresh workbook.
Export(b, wards) ==
    /\ book' = [book EXCEPT ![b] =
                  [rows   |-> [s \in {s \in live : WardOf[s] \in wards} |->
                                 ExportRow(assigned[s], default[s])],
                   edited |-> {}]]
    /\ UNCHANGED <<branches, rule, live, default, assigned, filled, fills, saves>>

\* Somebody fills in a cell, or empties it.
Fill(b, s, f, value) ==
    /\ s \in DOMAIN book[b].rows /\ fills < MaxFills
    /\ book' = [book EXCEPT ![b] = [rows   |-> [@.rows EXCEPT ![s][f] = value],
                                    edited |-> @.edited \cup {<<s, f>>}]]
    /\ fills' = fills + 1
    /\ UNCHANGED <<branches, rule, live, default, assigned, filled, saves>>

\* import_assignment_excel; a branch that is not in the table is created.
ImportAssignments(b, ids) ==
    LET rows    == book[b].rows
        matched == DOMAIN rows \cap Found(ids)
        typed(s) == [f \in Fields |-> IF <<s, f>> \in book[b].edited THEN rows[s][f] ELSE None]
    IN /\ branches' = branches \cup Named(rows, matched)
       /\ assigned' = [s \in Segments |->
                         IF s \in matched THEN Updated(assigned[s], rows[s]) ELSE assigned[s]]
       /\ filled' = [s \in Segments |->
                       IF s \in matched THEN Kept(filled[s], typed(s)) ELSE filled[s]]
       /\ UNCHANGED <<rule, live, default, book, fills, saves>>

Next ==
    \/ \E n \in Branches : AddBranch(n)
    \/ \E w \in Wards, n \in Branches : SaveMapping(w, n)
    \/ \E file \in SUBSET Segments : ImportMaster(file)
    \/ \E b \in Workbooks :
         \/ \E wards \in SUBSET Wards : Export(b, wards)
         \/ \E s \in Segments, f \in Fields : \E value \in CellsOf(f) : Fill(b, s, f, value)
         \/ \E ids \in BOOLEAN : ImportAssignments(b, ids)

Spec == Init /\ [][Next]_vars

-----------------------------------------------------------------------------
Sheet == [rows : UNION {[S -> Row] : S \in SUBSET Segments}, edited : SUBSET (Segments \X Fields)]

\* The types of the variables; every branch in use is in the table.
TypeOK ==
    /\ branches \subseteq Branches /\ live \subseteq Segments
    /\ rule \in [Wards -> branches \cup {None}]
    /\ default \in [Segments -> branches \cup {None}]
    /\ assigned \in [Segments -> Assignment]
    /\ \A s \in Segments : assigned[s]["branch"] \in branches \cup {None}
    /\ book \in [Workbooks -> Sheet]
    /\ filled \in [Segments -> Assignment]
    /\ fills \in Nat /\ saves \in Nat

\* What a fresh workbook says is what the reports show, and importing it,
\* with any one cell filled in, changes in them exactly that cell.
RoundTrip ==
    \A s \in live, f \in Fields :
        LET shown == Shown(assigned[s], default[s])
            row   == ExportRow(assigned[s], default[s])
        IN \A value \in Values[f] :
             Shown(Updated(assigned[s], [row EXCEPT ![f] = value]), default[s])
                 = [shown EXCEPT ![f] = value]

\* assigner_service.py:7: "Assignments survive master Excel re-imports".  What
\* was last filled in for a segment stays in force, through master imports,
\* branch rules, fresh exports and imports of the same workbook again, until
\* something else is filled in.  With one workbook in circulation.
FilledStays ==
    \A s \in Segments, f \in Fields :
        filled[s][f] # None => Shown(assigned[s], default[s])[f] = filled[s][f]
=============================================================================
