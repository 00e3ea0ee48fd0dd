# Formal model of the e-form data collection backend

The system keeps a register of priced road segments, follows the field collection of three records per price
position of each segment, lets the head office (HO) verify what was collected, and reports on it. This directory holds
TLA+ models of the parts that decide what is in its database and in its reports, TLC configurations that check them on
small instances, and TLAPS proofs of the properties that matter most. Paths below are relative to the repository (`src/`
here is the repository root, so the services are in `src/src/service/`).

## 1. Inventory

| Component | State | Operations | Modules |
|---|---|---|---|
| Sync, T3 (`src/src/service/syncer_service.py`, `src/sync.py`) | `collected_records`, `unmapped_records`, `sync_cursor`, `segments.trang_thai`, `sync_log` | `run` (pages, records, cursor), `replay_unmapped`, `_recalculate_status` | Collection, Sessions, SegmentStatus |
| Collection client (`src/src/clients/collection_client.py`) | none (a JSON feed) | `fetch_records` | CollectionClient |
| Verification, T5 (`verifier_service.py`) | `segments.trang_thai`, `verification_log` | `run_auto_checks`, `save_manual_finding` | Collection, Sessions, SegmentStatus |
| Route import, T1 (`importer_service.py`) | `segments`, `branch_mappings` (read) | `import_excel`, `apply_single_mapping`, `reapply_all_branch_mappings` | BranchRules, RouteImport, Collection (its effect on collected segments) |
| Classifier (`classifier_service.py`) | none | `classify` | RouteImport |
| Assignment, T2 (`assigner_service.py`) | `assignments` | `export_assignment_excel`, `import_assignment_excel` | Assignments |
| Reporting, T4 (`reporter_service.py`) | none (read only) | dashboard, daily report | Reporting |
| Repository (`eform_repository.py`) | transactions | `session_scope`, queries | the unit of atomicity everywhere; what open transactions see in Sessions |
| Streamlit pages (`streamlit_app.py`) | per-session forms | Sync, Resolve, Run Auto-Checks, findings, Save Mapping, Add Branch, imports, exports | Collection, Sessions, BranchRules, RouteImport, Assignments |
| Normalisation (`utils/text.py`) | none | `normalize` | not modelled: a key is a model value |
| Flask, health route, configuration, migrations | none | wiring | not modelled |

How they interact: all components share one PostgreSQL database through `session_scope`, one transaction per service
call at the default READ COMMITTED level. Cron runs `sync.py` once a day; any number of people use the pages at the
same time. A sync is one long transaction; the auto-check of the segments it affected is a second one, called by the
process that ran the sync with the set of ids `run` returned. The Unmapped Records page does the same: `replay_unmapped`
in one transaction, the auto-check of the chosen segment in the next. `segments.trang_thai` is written by the sync and
replay (from the data), by auto-checks (from the data, to complete or faulty) and by inspectors (by decision). A report
is one transaction of up to eight queries, each of which sees what is committed when it runs.

What is hard here: records that are edited, moved, deleted and undeleted in any order against a queue of unmapped
records; a cursor with ties, pages and re-delivery; a rollback in mid-run and a crash between two transactions; a form
that acts on a row shown minutes ago; a status maintained incrementally from both sides of a move, and written by
transactions that overlap; three copies of the rule that a ward beats a province, applied by different people at once;
figures that are put side by side and were counted at different moments. PROJECT.json lists each hazard at its line.

## 2. Modules

**SegmentStatus** - pure operators: the status a segment's rows call for (`_recalculate_status`), and the verdict of an
auto-check (`_check_segment`). `WrongPosition` keeps SQL's treatment of NULL in `NOT IN`. The duplicate check groups by
a unique column and can find nothing; it is left out and said so at its place.

**CollectionClient** - pure operators: how `FileCollectionClient` filters, sorts and cuts the feed into pages.

**StatusLifecycle** and **SourceMirror** - abstract specifications. StatusLifecycle says how the status and the newest log
line of one segment may move, and knows nothing of records. SourceMirror says what a sync is for: a copy of the source
that is complete up to a horizon, where copy and horizon advance in one step and neither ever goes back to an older
version; it knows nothing of pages, transactions or crashes. Collection implements both (`ObeysLifecycle` under the
identity, `ObeysMirror` under the mapping: source = the versions that are not late, copy = position and stamp of the
active rows, horizon = the stamp of the cursor).

**Collection** - the core: feed, sync, replay, auto-checks, findings, and what an import does to collected segments.

| Variable | Code |
|---|---|
| `feed`, `clock`, `sealed` | the collection app's records, its clock, the clock at the last fetch |
| `need`, `live`, `status`, `verdict` | `so_can_vtX IS NOT NULL`, `is_active`, `trang_thai`, newest `verification_log` line |
| `coll`, `unmapped`, `cursor` | `collected_records`, `unmapped_records` (count of unresolved rows and newest payload), `sync_cursor` |
| `tx` | local variables of `run` and its uncommitted writes |
| `post`, `form` | affected ids held by the process after the commit; the Unmapped Records page |
| `stale`, `unchecked`, `late` | history: why a status may differ from the data, why a full segment may lack its check, which versions were published with a stamp already fetched |

`SyncBegin`, `SyncFetch`, `SyncRecord`, `SyncCommit` step through `run`; `SyncAbort` is `session_scope`'s rollback, and
`SyncVerify`/`SyncCrash` the second transaction or its loss. A record is processed whole: the collected row, the unmapped
rows, the recalculation of the segments it left and entered, and the cursor bookkeeping are one step. While a sync is
open the other writers of the same tables wait; the feed goes on changing.

**Sessions** - the transactions of Collection open at once. Each session (a sync, a replay, an auto-check, a manual
finding) steps from query to query and from flush to flush: it sees what is committed and its own pending writes, an
UPDATE names the columns that differ from what it had loaded (`Merged`), a written row and a new key stay locked to the
end (`Blockers`), a key that is taken by then aborts the session (`Store`), and a circle of waiting sessions loses one of
them (`DeadlockAbort`). `BeginSync` has both ends of the race on the first row of `sync_cursor`, so there may be several
cursor rows, and a run picks any of them, as `first()` of an unordered query may.

| Variable | Code |
|---|---|
| `feed`, `clock`, `sealed` | the collection app's records, its clock, the clock at the last fetch; no version comes with a stamp that was fetched before (Collection has those that do) |
| `coll`, `tickets`, `status`, `cursors` | the committed tables |
| `sess` | of each session: its place, what it fetched and loaded, the segments still to recalculate, its uncommitted writes |
| `stored`, `newest`, `crossed` | history: the version last stored and the newest a sync was through with; records last stored over a row that was not the one loaded |

**BranchRules** - ward and province rules and their copies in `segments.branch_id`, for several users at READ COMMITTED:
each statement of Save Mapping, `apply_single_mapping` and `import_excel` is a step of its own, so that what one user read
can be stale when used. The recompute starts with an UPDATE that locks every active segment, so it is one step.

**RouteImport** - the register of segments: who sets a segment's group, and what an import leaves active.

| Variable | Code |
|---|---|
| `seg` | the row of a key in `segments`: `is_active`, `vt1`, `nhom`, `nhom_manual` |
| `task` | the import a user is running: the parsed file and the segments `_load_segment_map` read |
| `page` | the HO Review table of a session: the group each row had when it was loaded or last saved |
| `decided`, `listed`, `imported`, `refused` | history: HO's last choice, what the last import said, the fate of the files |

`LoadFile` is `import_excel` up to its loops, `WriteFile` the loops and the commit. In between the register may change:
the UPDATE of a segment writes only the columns whose value differs from the loaded one (`Column`), and the INSERT of a
key that another import has inserted breaks `uq_segments_norm_key` (`Clash`, `RefuseFile`). The map holds one province,
that of the file's first row, and so does the deactivation at the end; rows of another province are inserted all the same.

**Assignments** - the assignment workbooks that leave the system and come back filled in.

| Variable | Code |
|---|---|
| `branches`, `rule`, `live`, `default` | `branches`, the ward's `branch_mappings`, `is_active`, `segments.branch_id` |
| `assigned` | `phu_trach`, `deadline` and `branch_id` of the segment's row in `assignments` |
| `book` | the workbooks in circulation: their rows, and the cells filled in since the export |
| `filled` | history: for each segment and column, the last filled-in value that was imported |

`ExportRow`, `Updated` and `Shown` are the row an export writes, what an import makes of a row, and what the reports show.
`Export` and `ImportAssignments` are one transaction each; between them anything may happen, and a workbook may be
imported again. `Fill` is what people do to it, empty cells and an illegible deadline included.

**Reporting** - the dashboard and the daily report. `ReadSegments`, `ReadAssignments`, `ReadCollected`, `ReadRecent`,
`ReadWindow`, `ReadBefore`, `ReadAfter` and `ReadInactive` are the queries in the order the code makes them, with the other
transactions' commits between them; `rep` holds what they returned. Those commits are a sync's (`Collect`, `Move`, `Delete`),
which recalculates the segments a record enters and leaves; a replay's (`Replay`), which recalculates the chosen one only; an
auto-check's and an inspector's (`Verify`, `Review`); an import's of other positions (`Reprice`), which recalculates nothing, and of
assignments (`Assign`). Each is one step; what the overlaps of Sessions can leave behind is `Miscount`, any status. The
figures (`Missing`, `Breakdown`, `BranchActivity`, `Alert`, `WhiteZones`, `Eta`, `Employees`, `StatusCounts`) are operators over
`rep`, one for each `_build_...` function; `Deficit` is the other way to count a shortage, by position, of the Segment Record
Detail page. `touched` is history: the segments that changed since the report began; so is `stale`: the segments whose status
nobody has worked out from their rows since something else changed it or them, as in Collection.

The MC modules define the small sets the configurations use.

## 3. Runs

Every bound is a constant: `MaxTime` (stamps), `MaxImports`, `MaxFaults`, `MaxSaves`, `MaxFills`, `MaxBegins` (sessions),
`MaxDay`, `MaxChanges`, `MaxDisturbances`. Each run is the smallest in which its case happens: two segments for a record that moves, two
records for a tie, pages of one for a page boundary inside a group of ties, one fault for each place a fault can come (a
second one repeats the first from a reachable state without one), three sessions for a sync that meets another sync and
a third party, one commit between the queries of a report (`MaxDisturbances`; it can come between any two, and each
property excuses a segment on its first) after up to three that made the state the report finds. The quota is one record per position in the runs and any number in the proofs.

| Run | Question | Result |
|---|---|---|
| `core` | Do edits, moves, replays, reviews, imports and faults keep the queue, the statuses, the log and the pending checks right? | TypeOK, OneTicketEach, StatusFollowsData, FaultyIsLogged, FullIsChecked, ObeysLifecycle hold |
| `mirror` | Does every published version arrive, and is none skipped, in spite of ties, pages and an aborted run? | CursorCoversSource, ObeysMirror, RunTakesAll hold; SourceIsMirrored under FairSpec |
| `sessions` | What do overlapping syncs, replays, checks and findings do to queue, cursors and statuses, and do they end? | TypeOK, OneTicketUnlessCrossed, CursorsCoverSource, FaultyClearedKnowingly, SomeoneCanGoOn, SessionsGetOn hold; EverySessionEnds under FairSpec |
| `only_review` | Is a failure cleared by inspectors only? | violated: see findings |
| `rules` | Do the copies of the branch rules agree for one user, with interruptions? | TypeOK, RulesApplied, RecomputeRepairs hold |
| `ward_race` | Does the ward win when two users save rules at once? | violated: see findings |
| `register` | For one user, does every import leave the register as its file says, and HO's groups as HO set them? | TypeOK, HandSetKept, GroupFollowsPrice, RegisterIsMaster hold |
| `override_race` | Does a group set by hand during an import stay? | violated: see findings |
| `two_provinces` | Can a file with rows of two provinces be imported twice? | violated: see findings |
| `assign` | Does a workbook change only what was filled in, and does that stay? | TypeOK, RoundTrip, FilledStays hold |
| `reports` | Do the figures of a report fit together although they were counted at different moments? | TypeOK, FiguresAgree, FullIsNotChased, ShortageNotOverstated, TablesAddUp, EtaIsKnown hold |
| `white_zones` | Are the white zones the A and B segments that are still incomplete? | violated: see findings |

The files of `core` list one segment, or both with one more position for the first, so that positions, surplus rows and
rows at wrong positions come and go. The files of `register` cover a price that crosses both thresholds, a missing price,
a dropped and a returning segment, and rows of a second province. In `reports` a record is recent on its own day, in the
window of the ETA for a day longer, and due on the first of two days, so that there are old and late records.

What each property excuses is part of what it says:

- `StatusFollowsData` excludes the segments of `stale`. That set grows in three actions only: a manual finding (intended),
  an import that changes a segment's positions, and a replay that takes a record out of another segment (the code
  recalculates the chosen segment only). Everything else, in particular both sides of every move during a sync, is shown
  accurate. `unchecked` grows only by a crash between two transactions, by an abandoned page and by deactivation.
- `CursorCoversSource`, `ObeysMirror` and `SourceIsMirrored` exempt the versions of `late`: published after a fetch with a
  stamp that fetch had reached already. At the boundary stamp the client drops every record whose id is not greater than
  `last_record_id`, seen or not, so such a version may be skipped for good; stamps shared between two fetches are harmless.
  The other half of the same tie rule is that the cursor names the first record of the newest stamp, so the rest of them
  is delivered and processed again by the next run; the properties hold with that, but a manual resolve of one of them is
  undone when its address still maps to nothing.
- `OneTicketUnlessCrossed` exempts the records of `crossed`: the session that stored the row last had loaded a version of
  the row that another one then changed. `CursorsCoverSource` exempts these and the records where a slower sync stored an
  older version than another sync was through with; the first are left again by the next sync that stores the record
  undisturbed, the second stay as they are until the source changes the record again, if the cursor is past it.
- `FaultyClearedKnowingly` exempts statuses written over a value that was not the one loaded (`over`); `only_review` shows
  that the exemption is needed, and that the service's own documentation does not make it.
- The properties of reports exempt the segments of `touched`: a commit about one segment never disturbs the figures of
  another. `FullIsNotChased` exempts those of Reporting's `stale` as well: a segment that an inspector passed, that was given
  another position, that lost a record to a replay or whose status an overlap left wrong stays complete while its
  total falls short, so it is shown as complete and as a white zone or overdue, until its next recalculation. Both sides
  of every move of a sync are shown not to do that. `TablesAddUp` exempts nothing.

One more observation, of no run: the export of assignments fills the branch column with the default branch, and the
import stores every branch cell, so a workbook exported and imported untouched turns today's default into an override
that a later mapping no longer reaches. `src/docs/features.md:219` keeps the two apart and does not say which of them an
untouched cell is.

Fairness. `Collection!FairSpec`: weak fairness of the next step of a sync, which includes starting one, because cron
starts one every day and a started one goes on unless aborted; weak fairness of the post-sync check, because the same
process calls it at once. `Sessions!FairSpec`: while some open session can step, one does, because processes run and
PostgreSQL grants free locks and detects deadlocks. Nothing is assumed of users, of the source, or of faults except that
they are finite.

Findings: (1) a ward's rule can lose against its province's when two users save at once; (2) an import that loaded a
segment before HO set its group by hand writes the classifier's group over it, and leaves it marked as set by hand; (3) a
master file that also lists a segment of another province is imported once and refused from then on, because the map does
not hold that segment and the insert meets the unique key; (4) a sync or an auto-check that loaded a segment before a
failure was committed clears the failure, which only an inspector may; (5) a surplus at one position hides a lack at
another from White Zones, although Segment Record Detail counts it.

`CHECK_DEADLOCK FALSE` is set for Sessions only, where the system stops once every session that may begin has ended; that
open sessions never block each other for good is `EverySessionEnds`, and `SomeoneCanGoOn` (one can step, or a circle of
waiting ones is there to be broken) and `SessionsGetOn` (each step leaves fewer) are the two facts it comes from.

## 4. Proofs

TLAPS proves for every value of the constants, under the ASSUMEs of the modules:

- **CollectionProofs.** `TypeCorrect`, `TicketsBalance`, `FaultyMeansFailed`, `StatusIsAccurate`, `FullGetsChecked` (every safety
  property of `core`) and `ImplementsLifecycle` (the refinement). The inductive invariant joins four parts. *TypeInv*: the
  types, and that a page's batch holds published records only. *TicketInv*: the ledger of unresolved rows, for the
  committed tables and also for the open transaction's view, since a commit makes that view the tables; that a form's
  record is stored (so the replay's INSERT branch is never taken); and that an open transaction never drops a row.
  *FaultyInv*: faulty and logged agree in the view too, since the sync writes statuses but no log. *StatusInv*: accuracy in
  both views, each with its own set of excused segments. The lemmas show that processing a record disturbs the counts of
  no segment but the ones it recalculates.
- **MirrorProofs.** `CursorCovers` and `ImplementsMirror`. The first lemmas are about paging: `Before` orders a feed totally, the
  ranks of a list have no gap (`SlotFilled`, by the well-foundedness of strict inclusion of finite sets), so a page that is
  not the last is full and a run that has seen no next page has seen everything. `MirrorInv` adds what an open run relies
  on: every record it owes is stored in its view, in the rest of the page, or on a page still to come; stamps of the
  fetched feed lie between the cursor and `sealed`. Records before a page boundary may be delivered twice; `Between` says that
  the row of a record is meanwhile the old one or a version the run has fetched, which is what the refinement needs. `NothingLeftBehind`
  follows from the same invariant: a run that commits has stored every version it fetched that is still the newest.
  `RunsEnd` is the inductive core of `SourceIsMirrored`: every step of an open run ends it, takes a record from its page, or turns
  one of at most as many pages as there are records (`PagesBounded`).
- **SessionsProofs.** `TypeCorrect`, `OneTicketPerRecord` and `FaultyStays`, for any number of sessions of each kind. *TypeInv* says
  what a session holds at each of its places (`Shape`): a sync never meets a record twice, a loaded row still exists
  when it is written, a row and its unmapped rows are written together. *TicketInv*: a row is pending in one session at a
  time (`RowLocks`), and what is pending is right, or was written over another row than the one loaded (`Pending`). *StatusInv*:
  the same locks for statuses, no check or sync is about to clear what it loaded as faulty (`Settled`), and while it holds
  the row nobody else makes it faulty (`Knowing`). The history sets `mixed` and `over` are what keeps the invariants
  inductive: they record that a lost update happened instead of assuming it away. `EachStepCounts` and `NobodyWaitsForTheEnded`
  are the core of `EverySessionEnds`: `Effort` bounds the steps a session still has, no step of another raises it, and if nobody
  can step then everybody waits for an open session, since what has ended holds no lock (`EndedInv`).
- **CursorProofs.** `CursorsCover`, for any number of syncs and cursor rows. A stamp is *covered* when a sync was through with
  every newest version up to it and each is stored or excused; `CursorInv` says that every cursor row and every stamp an open
  session began with is covered, and adds what an open sync relies on: a record that changed since its fetch is newer than
  all it fetched (`Follows`, from `sealed`); what it is about to write says what it fetched (`Writes`); a record it went past
  without a write is the deletion of one that was not there, and whoever stored it since stored that deletion, an older
  version, or a crossed row (`Passed`). A commit then covers the new cursor, and disturbs no stamp that others began with.
  `AloneIsExact` and `AloneOnlyReviewClears` say what overlaps cost: in a behaviour in which at most one session is open at a
  time (`Alone`, a hypothesis about the behaviour, so the theorems are about `Spec /\ []Alone`), queue and cursors are right with
  nothing excused, and only inspectors clear failures. `AloneInv` adds that what the open session has loaded and seen is
  still what is committed (`Undisturbed`), and that no record was stored over a changed row or older than another sync had.
  `only_review` shows that the second one fails without `Alone`.
- **BranchRulesProofs.** `TypeCorrect` and `RecomputeIsFull` for any number of users. `RulesAreApplied` assumes one user at a
  time. `RulesApplied` speaks of quiet states, so the invariant adds what holds in the middle of an operation: the rule
  being applied is the one in the table, the covered wards read are still the covered ones, an import's rules are
  current, and each `branch_id` is either what that import loaded or what the rules say (a recompute may come between). A
  province's unapplied rule reaches only segments whose ward has none (`Awaits`); without that refinement the invariant
  is not inductive, because applying a province leaves the segments of covered wards alone.
- **RouteImportProofs.** `TypeCorrect` for any number of users (it needs that a row, once there, stays: a page and a loaded map
  point at rows). `HandSetStays`, `GroupIsRight` and `RegisterHolds`, for one user at a time, are the three properties of
  `register`. The invariant adds what a running import relies on (`Fresh`): the segments it loaded are still as it loaded
  them, since nobody else can save between its load and its write; and it is shown for one key at a time (`KeyRight`).
  `override_race` shows that the assumption of one user cannot be dropped. `RepeatIsSafe` is the other side of
  `two_provinces`: if each file lists one province, the loaded map covers every row of it and, being fresh, leaves no key to
  be inserted twice, so no import of the one user is ever refused.
- **AssignmentsProofs.** `TypeCorrect` and `RoundTripHolds` for any number of workbooks. `FilledIsKept` assumes one workbook in
  circulation: the invariant adds that a cell nobody touched since the export still says what is stored (`Believed`), so a
  later import of it changes nothing. With two workbooks the older one carries old values back, as one expects of a file.
- **ReportingProofs.** Every property of `reports`, for any windows, deadlines, quotas and numbers of changes and days.
  `ReportFits`: `ReportInv` says that whatever has been read of a quiet segment is still what is there (`Fits`); the counts
  before and after the deadline then split one set, and the recent records are a subset of the collected ones. That the
  days go on while a report runs does not matter, because its cutoff is taken once, at the start. `TablesAgree` needs the
  types only: the tables are sums over partitions of one scope. `FullIsLeftAlone` adds that a full status is backed by the
  data unless it is stale, and that what a report read of it still holds (`StatusInv`), its positions included (`Fits`); `ShortageIsReal`, that the shortage by position covers
  what the total lacks (`DeficitCovers`); `EtaIsGiven`, that the count of the window is that of the records it looks at
  (`WindowInv`). The laws of `Total` (a sum over disjoint sets, over the classes of a function, of a part) need induction over
  finite sets; the library's theorem takes an operator and cannot be used, so `SubsetInduction` states it for a *set* of good
  subsets and is proved from a smallest counterexample.

Every safety and action property of a passing run is a theorem. Only model-checked are `SourceIsMirrored` and
`EverySessionEnds`: liveness under fairness, which needs ENABLED. The assumptions that theorems make beyond those of the modules
are stated with them: one user at a time in BranchRules and RouteImport, one workbook in Assignments, sessions one after
the other in the two theorems of CursorProofs named above.

## 5. Not modelled, and why

- Wording, layout, logging, percentages, sorting of tables and the counters of `sync_log`: nothing is decided by them.
- Text normalisation and price parsing: functions of one string, which the unit tests reach; a normalised key is a
  value and a price is a number or missing.
- The Flask shell, configuration and migrations: no state.
- Time zones: `Reporting` counts whole days. The cutoff of a report is in UTC and the deadlines in Vietnam time.
- Imports that overlap with other imports of assignments, and imports of segments that overlap with syncs: an import is one
  step in Assignments and in Collection. RouteImport and BranchRules have the overlaps of imports with each other and with
  the pages that edit the same columns.
- A malformed record in the feed (no id, a stamp without a zone) makes every run fail; the source here is well formed.
- A fixture uploaded on the Sync page shares the cursor with the live feed; here there is one source.

## 6. Plan

1. *Done*: Collection with CollectionClient, SegmentStatus, StatusLifecycle and SourceMirror; Sessions; BranchRules;
   RouteImport with the classifier; Assignments; Reporting; a proof for each safety and action property of their runs.
2. Possible next: a refinement from Sessions, one session at a time, to the rows and statuses of Collection; what remains
   true of the register with several users (a key is only ever grouped by HO or by a price it had); sessions of imports
   in Sessions, with positions that change under an open sync.
