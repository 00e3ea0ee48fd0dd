---------------------------- MODULE SegmentStatus ----------------------------
(***************************************************************************)
(* The rules that turn the collected records of a route segment into its  *)
(* workflow status (trang_thai).  They are pure functions of a table of   *)
(* collected records; SyncerService and VerifierService both evaluate     *)
(* them, each with its own copy of the query.                             *)
(*                                                                         *)
(* A collected record is [seg, vt, active, ts]: its segment_id, its vi_tri *)
(* column, is_active, and the stamp of the payload held in raw_data.  A   *)
(* table maps every source record id to its row, or to None when the      *)
(* record was never stored (source_record_id is UNIQUE, so one row each). *)
(***************************************************************************)
EXTENDS Naturals, FiniteSets

CONSTANTS
    Records,             \* source record ids; numbers, because the feed orders them
    Segments,            \* route segments, one for each normalised key
    Positions,           \* values of vi_tri that occur (1..4, and any other the source sends)
    RecordsPerPosition,  \* RECORDS_PER_POSITION: so_can_vtX of every position that exists
    None                 \* Python's None: no segment, no position, no row

ASSUME RecordsAssumption == Records \subseteq Nat /\ IsFiniteSet(Records)
ASSUME QuotaAssumption == RecordsPerPosition \in Nat \ {0}
ASSUME NoneAssumption ==
    None \notin Segments /\ None \notin Positions /\ None \notin Records

(***************************************************************************)
(* trang_thai, in the order of the workflow: chua bat dau (not started),   *)
(* dang thu thap (collecting), du vi tri (every position full), hoan thanh *)
(* (complete) and du lieu sai hoac loi (data wrong).                       *)
(***************************************************************************)
NotStarted == "chua_bat_dau"
Collecting == "dang_thu_thap"
Full       == "du_vi_tri"
Complete   == "hoan_thanh"
Faulty     == "du_lieu_sai_hoac_loi"

Statuses == {NotStarted, Collecting, Full, Complete, Faulty}

\* Mutant: auto-checks look at complete segments only.
Checkable_OnlyComplete == {Complete}

\* What run_auto_checks selects, and _REVIEWABLE_STATES.
Checkable == {Full, Complete}
Reviewable == {Full, Complete, Faulty}

Row == [seg    : Segments \cup {None},
        vt     : Positions \cup {None},
        active : BOOLEAN,
        ts     : Nat]

Table == [Records -> Row \cup {None}]

ASSUME RowAssumption == None \notin Row

-----------------------------------------------------------------------------
\* The active rows of segment s in table c.
ActiveRows(c, s) == {r \in Records : c[r] # None /\ c[r].seg = s /\ c[r].active}

\* count_active_collected_by_segment_vitri.
CountAt(c, s, p) == Cardinality({r \in ActiveRows(c, s) : c[r].vt = p})

\* Every position the segment needs (the set pos) has its quota.
QuotaMet(c, s, pos) == \A p \in pos : CountAt(c, s, p) >= RecordsPerPosition

\* vi_tri NOT IN (pos): SQL leaves a null vi_tri out, unless the list is
\* empty, which makes NOT IN true of every row, the null ones included.
\* The duplicate query beside it groups by a UNIQUE column and finds nothing.
WrongPosition(c, s, pos) ==
    \E r \in ActiveRows(c, s) : c[r].vt \notin pos /\ (c[r].vt # None \/ pos = {})

\* _check_segment reports no error: the verdict of an auto-check.
ChecksPass(c, s, pos) == QuotaMet(c, s, pos) /\ ~WrongPosition(c, s, pos)

\* The status the rows alone call for, when the segment has positions.
StatusOfData(c, s, pos) ==
    CASE \A p \in pos : CountAt(c, s, p) = 0 -> NotStarted
      [] (\E p \in pos : CountAt(c, s, p) # 0) /\ ~QuotaMet(c, s, pos) -> Collecting
      [] OTHER -> IF WrongPosition(c, s, pos) THEN Full ELSE Complete

\* Mutant: a faulty segment is recalculated like any other.
Recalculated_ClearsFaulty(c, s, pos, old) ==
    IF pos = {} THEN old ELSE StatusOfData(c, s, pos)

\* _recalculate_status: a segment without positions and a faulty one keep
\* the status they have.
Recalculated(c, s, pos, old) ==
    IF pos = {} \/ old = Faulty THEN old ELSE StatusOfData(c, s, pos)
=============================================================================
