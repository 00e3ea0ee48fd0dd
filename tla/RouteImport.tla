----------------------------- MODULE RouteImport -----------------------------
(***************************************************************************)
(* The register of route segments: import_excel (T1) brings in the master  *)
(* file of a province, the classifier groups each segment by its first     *)
(* price, and the head office (HO) sets groups by hand on the HO Review    *)
(* page.  Users work at once, each in a session of its own; an import      *)
(* reads the register in one statement and writes it in later ones, and    *)
(* the page shows what it loaded some time ago.                            *)
(*                                                                         *)
(* A file is its rows, a price for each normalised key (a later row of the *)
(* same key wins), and the province of its first row.  A file whose prices *)
(* cannot be parsed is rejected before the transaction and changes nothing.*)
(* Branches are in BranchRules, the effect on statuses in Collection.      *)
(***************************************************************************)
EXTENDS Naturals, FiniteSets

CONSTANTS
    Users, Keys, Provinces, Wards, None,
    ProvinceOf, WardOf,   \* tinh_thanh_norm and xa_phuong_norm of a key
    Prices,               \* values of vt1
    AMax, BMax,           \* CLASSIFICATION_A_MAX, CLASSIFICATION_B_MAX
    Files,                \* the master files that may be uploaded
    MaxImports,           \* bound on imports
    MaxSaves,             \* bound on saves of the HO Review page
    MaxFaults             \* bound on interrupted imports

Groups == {"A", "B", "C"}

File == [first : Provinces, rows : UNION {[K -> Prices \cup {None}] : K \in SUBSET Keys}]

ASSUME PlacesAssumption ==
    ProvinceOf \in [Keys -> Provinces] /\ WardOf \in [Keys -> Wards]
ASSUME PricesAssumption ==
    /\ Prices \subseteq Nat /\ AMax \in Nat /\ BMax \in Nat
    /\ None \notin Prices /\ None \notin Groups
ASSUME FilesAssumption == Files \subseteq File
ASSUME LimitsAssumption == MaxImports \in Nat /\ MaxSaves \in Nat /\ MaxFaults \in Nat

VARIABLES
    seg,      \* segments: [live, price, nhom, manual], or None when there is no row
    task,     \* the import each user is running, with the rows it loaded
    page,     \* the HO Review table of each user: the group shown for each key
    decided,  \* history: the group HO last chose for a key, or None
    listed,   \* history: what the last import that covers a key says: {price}, or {}
    imported, refused,        \* history: files committed, files stopped by the unique key
    imports, saves, faults

history == <<decided, listed, imported, refused>>
bounds  == <<imports, saves, faults>>
vars    == <<seg, task, page, history, bounds>>

Segment == [live : BOOLEAN, price : Prices \cup {None}, nhom : Groups, manual : BOOLEAN]

ASSUME NoneAssumption == None \notin Segment

Idle    == [op |-> "idle"]
NoTable == [k \in {} |-> "A"]

Init ==
    /\ seg = [k \in Keys |-> None]
    /\ task = [u \in Users |-> Idle]
    /\ page = [u \in Users |-> NoTable]
    /\ decided = [k \in Keys |-> None]
    /\ listed = [k \in Keys |-> {}]
    /\ imported = {} /\ refused = {}
    /\ imports = 0 /\ saves = 0 /\ faults = 0

-----------------------------------------------------------------------------
(* T1: ClassifierService and ImporterService.                               *)

\* Mutant: no group for a segment without a first price.
Classify_NoDefault(price) ==
    IF price = None THEN None ELSE IF price <= AMax THEN "A" ELSE IF price <= BMax THEN "B" ELSE "C"

\* classify: the group of a first price; "C" is CLASSIFICATION_DEFAULT.
Classify(price) ==
    CASE price = None                  -> "C"
      [] price # None /\ price <= AMax -> "A"
      [] OTHER                         -> IF price <= BMax THEN "B" ELSE "C"

\* A column in an UPDATE: only a value other than the one loaded is written.
Column(new, loaded, stored) == IF new # loaded THEN new ELSE stored

\* Mutant: nhom_manual is not looked at.
Updated_Reclassifies(price, loaded, stored) ==
    [stored EXCEPT !.live  = Column(TRUE, loaded.live, @),
                   !.price = Column(price, loaded.price, @),
                   !.nhom  = Column(Classify(price), loaded.nhom, @)]

\* Mutant: a segment that comes back stays inactive.
Updated_StaysInactive(price, loaded, stored) ==
    [stored EXCEPT !.price = Column(price, loaded.price, @),
                   !.nhom  = IF loaded.manual THEN @ ELSE Column(Classify(price), loaded.nhom, @)]

\* _upsert_segment_fast of a segment in the map, flushed over the stored row.
Updated(price, loaded, stored) ==
    [stored EXCEPT !.live  = Column(TRUE, loaded.live, @),
                   !.price = Column(price, loaded.price, @),
                   !.nhom  = IF loaded.manual THEN @ ELSE Column(Classify(price), loaded.nhom, @)]

\* _upsert_segment_fast of a segment that is not.
Inserted(price) == [live |-> TRUE, price |-> price, nhom |-> Classify(price), manual |-> FALSE]

\* _load_segment_map: the segments of the FIRST row's province, active or not.
LoadFile(u, f) ==
    /\ task[u] = Idle /\ imports < MaxImports
    /\ task' = [task EXCEPT ![u] =
                  [op |-> "write", file |-> f,
                   seen |-> [k \in Keys |-> IF ProvinceOf[k] = f.first THEN seg[k] ELSE None]]]
    /\ imports' = imports + 1
    /\ UNCHANGED <<seg, page, history, saves, faults>>

\* A row to be inserted is there already: uq_segments_norm_key.
Clash(t) == \E k \in DOMAIN t.file.rows : t.seen[k] = None /\ seg[k] # None

\* The rows are upserted and what the file no longer lists is deactivated.
WriteFile(u) ==
    LET t    == task[u]
        rows == t.file.rows
        gone == {k \in Keys \ DOMAIN rows : t.seen[k] # None /\ t.seen[k].live}
    IN /\ t.op = "write" /\ ~Clash(t)
       /\ seg' = [k \in Keys |->
                    IF k \in DOMAIN rows
                    THEN IF t.seen[k] = None THEN Inserted(rows[k])
                         ELSE Updated(rows[k], t.seen[k], seg[k])
                    ELSE IF k \in gone THEN [seg[k] EXCEPT !.live = FALSE]
                    ELSE seg[k]]
       /\ listed' = [k \in Keys |->
                       IF k \in DOMAIN rows THEN {rows[k]}
                       ELSE IF ProvinceOf[k] = t.file.first THEN {} ELSE listed[k]]
       /\ imported' = imported \cup {t.file}
       /\ task' = [task EXCEPT ![u] = Idle]
       /\ UNCHANGED <<page, decided, refused, bounds>>

\* The flush fails and the import is rolled back.
RefuseFile(u) ==
    /\ task[u].op = "write" /\ Clash(task[u])
    /\ refused' = refused \cup {task[u].file}
    /\ task' = [task EXCEPT ![u] = Idle]
    /\ UNCHANGED <<seg, page, decided, listed, imported, bounds>>

\* Any other error, or a closed browser.
Interrupt(u) ==
    /\ task[u].op = "write" /\ faults < MaxFaults
    /\ task' = [task EXCEPT ![u] = Idle]
    /\ faults' = faults + 1
    /\ UNCHANGED <<seg, page, history, imports, saves>>

-----------------------------------------------------------------------------
(* The HO Review page.                                                      *)

\* Load Segments: the active segments of a province and ward.
LoadSegments(u, p, w) ==
    /\ task[u] = Idle
    /\ page' = [page EXCEPT ![u] =
                  [k \in {k \in Keys : seg[k] # None /\ seg[k].live
                                       /\ ProvinceOf[k] = p /\ WardOf[k] = w} |-> seg[k].nhom]]
    /\ UNCHANGED <<seg, task, history, bounds>>

\* Mutant: every row shown is saved, edited or not.
SaveChanges_AllRows(u, edited) ==
    /\ task[u] = Idle /\ saves < MaxSaves
    /\ seg' = [k \in Keys |->
                 IF k \in DOMAIN edited
                 THEN [seg[k] EXCEPT !.nhom = edited[k], !.manual = TRUE] ELSE seg[k]]
    /\ decided' = [k \in Keys |-> IF k \in DOMAIN edited /\ edited[k] # page[u][k]
                                  THEN edited[k] ELSE decided[k]]
    /\ page' = [page EXCEPT ![u] = edited]
    /\ saves' = saves + 1
    /\ UNCHANGED <<task, listed, imported, refused, imports, faults>>

\* Save Changes: the rows whose group differs from the one loaded are set by
\* hand, whatever the register holds by now; the table shown is the new base.
SaveChanges(u, edited) ==
    LET changed == {k \in DOMAIN edited : edited[k] # page[u][k]}
    IN /\ task[u] = Idle /\ saves < MaxSaves
       /\ seg' = [k \in Keys |->
                    IF k \in changed
                    THEN [seg[k] EXCEPT !.nhom = edited[k], !.manual = TRUE] ELSE seg[k]]
       /\ decided' = [k \in Keys |-> IF k \in changed THEN edited[k] ELSE decided[k]]
       /\ page' = [page EXCEPT ![u] = edited]
       /\ saves' = saves + 1
       /\ UNCHANGED <<task, listed, imported, refused, imports, faults>>

Next ==
    \E u \in Users :
        \/ \E f \in Files : LoadFile(u, f)
        \/ WriteFile(u)
        \/ RefuseFile(u)
        \/ Interrupt(u)
        \/ \E p \in Provinces, w \in Wards : LoadSegments(u, p, w)
        \/ \E edited \in [DOMAIN page[u] -> Groups] : SaveChanges(u, edited)

Spec == Init /\ [][Next]_vars

-----------------------------------------------------------------------------
Tables    == UNION {[K -> Groups] : K \in SUBSET Keys}
WriteTask == [op : {"write"}, file : Files, seen : [Keys -> Segment \cup {None}]]

\* The types of the variables; a key on a page has a row.
TypeOK ==
    /\ seg \in [Keys -> Segment \cup {None}]
    /\ task \in [Users -> {Idle} \cup WriteTask]
    /\ page \in [Users -> Tables]
    /\ \A u \in Users : \A k \in DOMAIN page[u] : seg[k] # None
    /\ decided \in [Keys -> Groups \cup {None}]
    /\ listed \in [Keys -> SUBSET (Prices \cup {None})]
    /\ imported \subseteq Files /\ refused \subseteq Files
    /\ imports \in Nat /\ saves \in Nat /\ faults \in Nat

\* features.md:104: manual nhom overrides are preserved.  The group HO last
\* chose for a segment stays, through imports that change its price, drop it
\* or bring it back, until HO chooses another.
HandSetKept ==
    \A k \in Keys : decided[k] # None =>
        seg[k] # None /\ seg[k].nhom = decided[k] /\ seg[k].manual

\* Every other segment, inactive ones included, is in the group of its price:
\* an import reclassifies it and a save of the page leaves it alone.
GroupFollowsPrice ==
    \A k \in Keys : seg[k] # None /\ decided[k] = None =>
        seg[k].nhom = Classify(seg[k].price) /\ ~seg[k].manual

\* A segment is active, at the price of its row, exactly when the last import
\* that covers it lists it; a file covers its rows and all of the province of
\* its first row.  Refused and interrupted imports leave no trace.
RegisterIsMaster ==
    \A k \in Keys :
        IF listed[k] = {} THEN seg[k] = None \/ ~seg[k].live
        ELSE seg[k] # None /\ seg[k].live /\ listed[k] = {seg[k].price}

\* importer_service.py:85: "Safe to call multiple times - fully idempotent".
\* A file that was imported is never refused.
SafeToRepeat == imported \cap refused = {}
=============================================================================
