------------------------------ MODULE Reporting ------------------------------
(***************************************************************************)
(* T4: the dashboard and the daily report of ReporterService.  A report is *)
(* one transaction at READ COMMITTED, so each of its statements sees what  *)
(* is committed when it runs: the workflow statuses, the assignments and   *)
(* the several counts of collected records come from as many moments, and  *)
(* the figures derived from them are put side by side.                     *)
(*                                                                         *)
(*   rows, asg, status,  what the report reads: collected_records,         *)
(*   need                assignments, segments.trang_thai, so_can_vtX      *)
(*   day                 the day, by which records and deadlines are dated *)
(*   rep                 the report: its place and what it has read        *)
(*   touched             history: the segments of which any of these       *)
(*                       changed since the report began                    *)
(*   stale               history: the segments whose status is not that of *)
(*                       their rows, because nobody recalculated it since  *)
(*                                                                         *)
(* A row here has the day of first_seen_at beside its segment, position    *)
(* and is_active.  Days are whole: the seven hours between the UTC of the  *)
(* cutoffs and the Vietnam time of the deadlines are left out.  Commits of *)
(* others are one step each; Miscount is what their overlaps may leave.    *)
(***************************************************************************)
EXTENDS SegmentStatus, Integers, FiniteSetsExt

CONSTANTS
    FirstNeed,               \* the positions each segment had in its first master file
    Pricings,                \* the sets of positions a later one may give it
    Province, Group, Branch, \* tinh_thanh, nhom and the default branch of each segment
    People,                  \* phu_trach, as normalised; None is the empty cell
    Overrides,               \* branches an assignment may name
    Deadlines,               \* deadlines that occur, None among them
    Scopes,                  \* the sets of segments a province or ward filter selects
    AlertDays, EtaDays,      \* BRANCH_ALERT_DAYS, ETA_WINDOW_DAYS
    MaxDay,                  \* bound on days
    MaxChanges,              \* bound on what the other transactions change
    MaxDisturbances          \* bound on how much of it while one report runs

ASSUME NeedAssumption ==
    /\ Pricings \subseteq SUBSET Positions /\ \A pos \in Pricings : IsFiniteSet(pos)
    /\ FirstNeed \in [Segments -> Pricings]
ASSUME PlaceAssumption ==
    /\ DOMAIN Province = Segments /\ DOMAIN Group = Segments /\ DOMAIN Branch = Segments
    /\ IsFiniteSet(Segments) /\ Scopes \subseteq SUBSET Segments
ASSUME DateAssumption == Deadlines \subseteq Nat \cup {None} /\ None \notin Nat /\ None \in Deadlines
ASSUME WindowAssumption == AlertDays \in Nat /\ EtaDays \in Nat /\ AlertDays <= EtaDays
ASSUME LimitAssumption == MaxDay \in Nat /\ MaxChanges \in Nat /\ MaxDisturbances \in Nat

VARIABLES rows, asg, status, need, day, rep, touched, stale, changes

vars == <<rows, asg, status, need, day, rep, touched, stale, changes>>

SeenRow == [seg : Segments \cup {None}, vt : Positions, active : BOOLEAN, seen : Nat]
Assigned == [branch : Overrides \cup {None}, person : People \cup {None}, deadline : Deadlines]
Nobody == [branch |-> None, person |-> None, deadline |-> None]

ASSUME RowsAssumption == None \notin SeenRow

Zero == [s \in Segments |-> 0]

NoReport ==
    [pc |-> "none", daily |-> FALSE, scope |-> {}, from |-> 0, begun |-> 0,
     status |-> [s \in Segments |-> NotStarted], need |-> FirstNeed,
     asg |-> [s \in Segments |-> Nobody],
     collected |-> Zero, recent |-> Zero, window |-> 0, etaDay |-> 0, today |-> 0,
     before |-> Zero, after |-> Zero, inactive |-> Zero]

Init ==
    /\ rows = [r \in Records |-> None]
    /\ asg = [s \in Segments |-> Nobody]
    /\ status = [s \in Segments |-> NotStarted] /\ need = FirstNeed
    /\ day = 0 /\ changes = 0
    /\ rep = NoReport /\ touched = {} /\ stale = {}

-----------------------------------------------------------------------------
(* What other transactions commit.                                          *)

Changed(T) ==
    /\ changes < MaxChanges /\ changes' = changes + 1
    /\ rep.pc # "none" => changes < rep.begun + MaxDisturbances
    /\ touched' = touched \cup T

Left(r) == IF rows[r] = None THEN {} ELSE {rows[r].seg} \ {None}

\* _recalculate_status of the segments in T, over the rows just written.
Recount(T) ==
    /\ status' = [s \in Segments |->
                    IF s \in T THEN Recalculated(rows', s, need[s], status[s]) ELSE status[s]]
    /\ stale' = stale \ T

\* Mutant: the segment a record left is forgotten.
Put_EnteredOnly(r, x) ==
    /\ rows' = [rows EXCEPT ![r] = x]
    /\ Recount({x.seg} \ {None})
    /\ Changed(({x.seg} \ {None}) \cup Left(r))
    /\ UNCHANGED <<asg, need, day, rep>>

\* A sync makes row r into x, and recalculates the segments it is in and left.
Put(r, x) ==
    LET T == ({x.seg} \ {None}) \cup Left(r)
    IN /\ rows' = [rows EXCEPT ![r] = x]
       /\ Recount(T)
       /\ Changed(T)
       /\ UNCHANGED <<asg, need, day, rep>>

\* A sync meets a new record.
Collect(r, s, p) ==
    /\ rows[r] = None
    /\ Put(r, [seg |-> s, vt |-> p, active |-> TRUE, seen |-> day])

\* A sync meets a known one, and moves it or not; first_seen_at stays.
Move(r, s, p) ==
    /\ rows[r] # None
    /\ Put(r, [seg |-> s, vt |-> p, active |-> TRUE, seen |-> rows[r].seen])

\* A sync meets a deletion.
Delete(r) ==
    /\ rows[r] # None
    /\ Put(r, [rows[r] EXCEPT !.active = FALSE])

\* replay_unmapped changes the segment of a row and nothing else of it; the
\* chosen segment is recalculated, the one it takes the record from is not.  An
\* unmapped record always has its row, so the INSERT of the code is never taken.
Replay(r, s) ==
    /\ rows[r] # None
    /\ rows' = [rows EXCEPT ![r].seg = s]
    /\ status' = [status EXCEPT ![s] = Recalculated(rows', s, need[s], @)]
    /\ stale' = (stale \cup Left(r)) \ {s}
    /\ Changed({s} \cup Left(r))
    /\ UNCHANGED <<asg, need, day, rep>>

\* An auto-check settles the status of a segment.
Verify(s) ==
    /\ status[s] \in Checkable
    /\ status' = [status EXCEPT ![s] = IF ChecksPass(rows, s, need[s]) THEN Complete ELSE Faulty]
    /\ stale' = stale \ {s}
    /\ Changed({s})
    /\ UNCHANGED <<rows, asg, need, day, rep>>

\* save_manual_finding: an inspector's word, whatever the rows say.
Review(s, st) ==
    /\ status[s] \in Reviewable /\ st \in {Complete, Faulty}
    /\ status' = [status EXCEPT ![s] = st]
    /\ stale' = stale \cup {s}
    /\ Changed({s})
    /\ UNCHANGED <<rows, asg, need, day, rep>>

\* The later of two overlapping sessions writes a status it worked out before
\* the other one's commit (Sessions has how): here, any.
Miscount(s, st) ==
    /\ st # status[s]
    /\ status' = [status EXCEPT ![s] = st]
    /\ stale' = stale \cup {s}
    /\ Changed({s})
    /\ UNCHANGED <<rows, asg, need, day, rep>>

\* import_excel gives a segment other positions, and leaves its status.
Reprice(s, pos) ==
    /\ pos # need[s]
    /\ need' = [need EXCEPT ![s] = pos]
    /\ stale' = stale \cup {s}
    /\ Changed({s})
    /\ UNCHANGED <<rows, asg, status, day, rep>>

\* import_assignment_excel changes what a segment is assigned.
Assign(s, a) ==
    /\ a # asg[s]
    /\ asg' = [asg EXCEPT ![s] = a]
    /\ Changed({s})
    /\ UNCHANGED <<rows, status, need, stale, day, rep>>

NewDay ==
    /\ day < MaxDay
    /\ day' = day + 1
    /\ UNCHANGED <<rows, asg, status, need, rep, touched, stale, changes>>

-----------------------------------------------------------------------------
(* The statements of a report.                                              *)

\* count(*) of the rows of each segment of the scope that satisfy P, group by.
CountBy(P(_)) ==
    [s \in Segments |->
        IF s \in rep.scope THEN Cardinality({r \in Records : rows[r] # None /\ rows[r].seg = s /\ P(r)})
        ELSE 0]

Read(pc, new) ==
    /\ rep.pc = pc
    /\ rep' = new
    /\ UNCHANGED <<rows, asg, status, need, day, touched, stale, changes>>

\* get_dashboard_data and generate_daily_report up to _get_filtered_segments.
\* The daily report counts back from the date on the page, the dashboard from now.
ReadSegments(daily, scope, date) ==
    /\ rep.pc \in {"none", "done"}
    /\ daily => scope = Segments
    /\ ~daily => date = day
    /\ rep' = [NoReport EXCEPT !.pc = "segments", !.daily = daily, !.scope = scope, !.from = date,
                               !.begun = changes, !.status = status, !.need = need]
    /\ touched' = {}
    /\ UNCHANGED <<rows, asg, status, need, day, stale, changes>>

ReadAssignments == Read("segments", [rep EXCEPT !.pc = "assignments", !.asg = asg])

ReadCollected ==
    Read("assignments", [rep EXCEPT !.pc = "collected", !.collected = CountBy(LAMBDA r : rows[r].active)])

ReadRecent ==
    Read("collected", [rep EXCEPT !.pc = IF rep.daily THEN "done" ELSE "recent",
        !.recent = CountBy(LAMBDA r : rows[r].active /\ rows[r].seen + AlertDays >= rep.from)])

Sighted(days) ==
    {r \in Records : /\ rows[r] # None /\ rows[r].seg \in rep.scope
                     /\ rows[r].active /\ rows[r].seen + days >= rep.from}

\* Mutant: no rows are no number.
ReadWindow_Null ==
    Read("recent", [rep EXCEPT !.pc = "window", !.etaDay = day,
        !.window = IF Sighted(EtaDays) = {} THEN None ELSE Cardinality(Sighted(EtaDays))])

\* Mutant: the window of the ETA ends where it should begin.
ReadWindow_Before ==
    Read("recent", [rep EXCEPT !.pc = "window", !.etaDay = day,
        !.window = Cardinality({r \in Records : /\ rows[r] # None /\ rows[r].seg \in rep.scope
                                                /\ rows[r].active /\ rows[r].seen + EtaDays < rep.from})])

\* The count of _compute_eta, which is not used unless something is missing.
ReadWindow ==
    Read("recent", [rep EXCEPT !.pc = "window", !.etaDay = day,
        !.window = Cardinality(Sighted(EtaDays))])

\* The counts of _build_employee_stats_rows, each with its join to assignments.
ReadBefore ==
    Read("window", [rep EXCEPT !.pc = "before", !.today = day,
        !.before = CountBy(LAMBDA r : LET d == asg[rows[r].seg].deadline
                                      IN rows[r].active /\ d # None /\ rows[r].seen <= d)])

\* Mutant: a record of the day of the deadline is late too.
ReadAfter_SameDay ==
    Read("before", [rep EXCEPT !.pc = "after",
        !.after = CountBy(LAMBDA r : LET d == asg[rows[r].seg].deadline
                                     IN rows[r].active /\ d # None /\ rows[r].seen >= d)])

ReadAfter ==
    Read("before", [rep EXCEPT !.pc = "after",
        !.after = CountBy(LAMBDA r : LET d == asg[rows[r].seg].deadline
                                     IN rows[r].active /\ d # None /\ rows[r].seen > d)])

ReadInactive ==
    Read("after", [rep EXCEPT !.pc = "done", !.inactive = CountBy(LAMBDA r : ~rows[r].active)])

ReportStep ==
    \/ ReadAssignments \/ ReadCollected \/ ReadRecent \/ ReadWindow
    \/ ReadBefore \/ ReadAfter \/ ReadInactive

Next ==
    \/ \E r \in Records, s \in Segments \cup {None}, p \in Positions : Collect(r, s, p)
    \/ \E r \in Records, s \in Segments \cup {None}, p \in Positions : Move(r, s, p)
    \/ \E r \in Records : Delete(r)
    \/ \E r \in Records, s \in Segments : Replay(r, s)
    \/ \E s \in Segments : Verify(s)
    \/ \E s \in Segments, st \in Statuses : Review(s, st) \/ Miscount(s, st)
    \/ \E s \in Segments, pos \in Pricings : Reprice(s, pos)
    \/ \E s \in Segments, a \in Assigned : Assign(s, a)
    \/ NewDay
    \/ \E daily \in BOOLEAN, scope \in Scopes, date \in 0..MaxDay : ReadSegments(daily, scope, date)
    \/ ReportStep

Spec == Init /\ [][Next]_vars

-----------------------------------------------------------------------------
(* The figures of a report, from what rep has read.                         *)

Total(f, S) == MapThenSumSet(LAMBDA s : f[s], S)

AtLeastZero(n) == IF n > 0 THEN n ELSE 0

\* Mutant: positions the segment does not have are needed as well.
Needed_AllPositions == [s \in Segments |-> Cardinality(Positions) * RecordsPerPosition]

\* _segment_needed.
Needed == [s \in Segments |-> Cardinality(rep.need[s]) * RecordsPerPosition]

\* Mutant: a surplus is a negative shortage.
Missing_Signed == [s \in Segments |-> Needed[s] - rep.collected[s]]

\* By the segment's total, whatever the positions of its records.
Missing == [s \in Segments |-> AtLeastZero(Needed[s] - rep.collected[s])]

\* What Segment Record Detail calls missing: position by position.
Deficit(s) ==
    Total([p \in need[s] |-> AtLeastZero(RecordsPerPosition - CountAt(rows, s, p))], need[s])

\* _resolve_branch_name.
BranchOf(s) == IF rep.asg[s].branch # None THEN rep.asg[s].branch ELSE Branch[s]

\* The sums of a group of segment rows.
Sums(S) ==
    [segments |-> Cardinality(S), needed |-> Total(Needed, S), collected |-> Total(rep.collected, S),
     missing |-> Total(Missing, S), recent |-> Total(rep.recent, S)]

\* _build_breakdown_rows and _build_branch_activity_rows.
BreakdownKey(s) == <<Province[s], BranchOf(s), Group[s]>>
BranchKey(s) == <<Province[s], BranchOf(s)>>

Breakdown == [k \in {BreakdownKey(s) : s \in rep.scope} |->
                 Sums({s \in rep.scope : BreakdownKey(s) = k})]
BranchActivity == [k \in {BranchKey(s) : s \in rep.scope} |->
                      Sums({s \in rep.scope : BranchKey(s) = k})]

\* "No new records", on the rows of both tables.
Alert(k) == BranchActivity[<<k[1], k[2]>>].recent = 0

\* _build_white_zone_rows.
WhiteZones == {s \in rep.scope : Group[s] \in {"A", "B"} /\ Missing[s] > 0}

\* _compute_eta: a date, as a day, or None for Unknown.
Eta ==
    LET remaining == Total(Needed, rep.scope) - Total(rep.collected, rep.scope)
    IN IF remaining <= 0 THEN rep.etaDay
       ELSE IF rep.window = 0 THEN None
       ELSE rep.etaDay + (remaining * EtaDays) \div rep.window

\* A segment with a past deadline that still misses records.
Overdue(s) ==
    LET d == rep.asg[s].deadline IN d # None /\ d < rep.today /\ Missing[s] > 0

\* _build_employee_stats_rows: one row for each branch and person.
EmployeeKey(s) == <<BranchOf(s), rep.asg[s].person>>

EmployeeRow(S) ==
    LET needed == Total(Needed, S)
        collected == Total(rep.collected, S)
        recent == Total(rep.recent, S)
        missing == AtLeastZero(needed - collected)
        overdue == Cardinality({s \in S : Overdue(s)})
    IN [segments |-> Cardinality(S), needed |-> needed, collected |-> collected,
        missing |-> missing, recent |-> recent,
        before |-> Total(rep.before, S), after |-> Total(rep.after, S),
        noDeadline |-> Total(rep.collected, {s \in S : rep.asg[s].deadline = None}),
        inactive |-> Total(rep.inactive, S),
        errors |-> Cardinality({s \in S : rep.status[s] = Faulty}),
        overdue |-> overdue,
        colour |-> IF overdue > 0 THEN "red"
                   ELSE IF recent = 0 /\ missing > 0 THEN "yellow" ELSE "none"]

Employees == [k \in {EmployeeKey(s) : s \in rep.scope} |->
                 EmployeeRow({s \in rep.scope : EmployeeKey(s) = k})]

\* _build_status_counts.
StatusCounts == [st \in Statuses |-> Cardinality({s \in rep.scope : rep.status[s] = st})]

-----------------------------------------------------------------------------
(* Properties.                                                              *)

Count == [Segments -> Nat]

ReportType ==
    [pc : {"none", "segments", "assignments", "collected", "recent", "window", "before", "after",
           "done"},
     daily : BOOLEAN, scope : SUBSET Segments, from : Nat, begun : Nat,
     status : [Segments -> Statuses], need : [Segments -> Pricings], asg : [Segments -> Assigned],
     collected : Count, recent : Count, window : Nat, etaDay : Nat, today : Nat,
     before : Count, after : Count, inactive : Count]

\* The types of the variables.
TypeOK ==
    /\ rows \in [Records -> SeenRow \cup {None}]
    /\ asg \in [Segments -> Assigned]
    /\ status \in [Segments -> Statuses] /\ need \in [Segments -> Pricings]
    /\ day \in Nat /\ changes \in Nat
    /\ rep \in ReportType /\ touched \subseteq Segments /\ stale \subseteq Segments

Done == rep.pc = "done"
Dashboard == Done /\ ~rep.daily
Quiet == rep.scope \ touched

\* The counts of a segment that come from different statements fit together,
\* unless another transaction touched that very segment while the report ran:
\* recent records are among the collected ones, and each collected one is
\* before or after the deadline, or under "no deadline".
FiguresAgree ==
    \A s \in Quiet :
        /\ Done => rep.recent[s] <= rep.collected[s]
        /\ Dashboard => rep.before[s] + rep.after[s]
                          = IF rep.asg[s].deadline = None THEN 0 ELSE rep.collected[s]

\* A segment whose status says that every position is full is neither a white
\* zone nor overdue, although the status is kept by position and by other
\* services, and the shortage is worked out here from a total.  Not so when the
\* status is not that of the rows: after an inspector's word, new positions, an
\* overlap, or a replay that took a record away, until the next recalculation.
FullIsNotChased ==
    \A s \in Quiet \ stale :
        Done /\ rep.status[s] \in {Full, Complete} => s \notin WhiteZones /\ ~Overdue(s)

\* The shortage reported is never more than what the positions lack.
ShortageNotOverstated == \A s \in Quiet : Done => Missing[s] <= Deficit(s)

\* features.md:379: white zones are the A and B segments that are still
\* incomplete; streamlit_app.py:662: by position, "not total-row based".
WhiteZonesAreIncomplete ==
    \A s \in Quiet : Dashboard /\ Group[s] \in {"A", "B"} => (s \in WhiteZones <=> Deficit(s) > 0)

\* Every table of a report adds up to the same records, and a surplus of one
\* segment may hide the shortage of another only in the coarser ones; no row
\* with recent records carries an alert.
TablesAddUp ==
    Done =>
      LET sum(f) == Total([k \in DOMAIN f |-> f[k].collected], DOMAIN f)
          short(f) == Total([k \in DOMAIN f |-> f[k].missing], DOMAIN f)
          all == Sums(rep.scope)
      IN /\ sum(Breakdown) = all.collected /\ sum(BranchActivity) = all.collected
         /\ sum(Employees) = all.collected
         /\ short(Breakdown) = all.missing /\ short(BranchActivity) = all.missing
         /\ all.needed - all.collected <= short(Employees) /\ short(Employees) <= all.missing
         /\ Total(StatusCounts, Statuses) = Cardinality(rep.scope)
         /\ \A k \in DOMAIN Breakdown : Alert(k) => Breakdown[k].recent = 0

\* A dashboard that counts recent records somewhere and misses some in all
\* has a date for its ETA, unless the counts were disturbed.
EtaIsKnown ==
    Dashboard /\ rep.scope \cap touched = {} /\ Total(rep.recent, rep.scope) > 0 => Eta # None
=============================================================================
