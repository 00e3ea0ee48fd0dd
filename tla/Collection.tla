----------------------------- MODULE Collection ------------------------------
(***************************************************************************)
(* The core of the system: T3 (SyncerService and the client it pages      *)
(* through) and T5 (VerifierService), working on the tables they share,    *)
(* with the part of T1 (import_excel) that moves the ground under them.    *)
(*                                                                         *)
(*   feed                the collection app's records, outside the system  *)
(*   need, live          segments: positions with a so_can, and is_active  *)
(*   status, verdict     segments.trang_thai, newest verification_log line *)
(*   coll, unmapped      collected_records, unmapped_records               *)
(*   cursor              sync_cursor                                       *)
(*   tx                  the sync run in progress, with its open           *)
(*                       transaction's view of the tables it writes        *)
(*   post                segments whose post-sync auto-check has yet to run*)
(*   form                the Unmapped Records page of one user             *)
(*                                                                         *)
(* A sync is ONE transaction, stepped record by record: its writes stay in *)
(* tx until SyncCommit, and SyncAbort forgets them.  While it is open the  *)
(* other writers of these tables wait; Sessions has the interleavings that *)
(* READ COMMITTED allows between open transactions.                        *)
(* Every other transaction is one action.  What runs in a transaction of   *)
(* its own, such as the auto-check that follows a sync or a resolve, is an *)
(* action of its own, and a crash may come between the two.                *)
(*                                                                         *)
(* History variables: stale, unchecked and late, explained where they      *)
(* change.                                                                 *)
(***************************************************************************)
EXTENDS CollectionClient

CONSTANTS
    Contents,     \* what the source may say of a record: [addr, vt, deleted]
    Files,        \* master files: each maps the segments it lists to their positions
    TiesAllowed,  \* TRUE: a version may carry a stamp that was already fetched
    MaxTime,      \* bound on source stamps
    MaxImports,   \* bound on imports
    MaxFaults     \* bound on aborted transactions, crashes and abandoned pages

Content == [addr : Segments \cup {None}, vt : Positions \cup {None}, deleted : BOOLEAN]

ASSUME SourceAssumption == Contents \subseteq Content
ASSUME FilesAssumption ==
    \A f \in Files : DOMAIN f \subseteq Segments /\ DOMAIN f # {}
                     /\ \A s \in DOMAIN f : f[s] \subseteq Positions
ASSUME BoundsAssumption ==
    /\ MaxTime \in Nat /\ MaxImports \in Nat /\ MaxFaults \in Nat
    /\ TiesAllowed \in BOOLEAN

VARIABLES
    feed, clock, sealed,             \* the source: versions, newest stamp, newest stamp fetched
    need, live, status, verdict,     \* segments and verification_log
    coll, unmapped, cursor,          \* collected_records, unmapped_records, sync_cursor
    tx, post, form,                  \* what is in progress
    stale, unchecked, late,          \* history
    imports, faults                  \* counters of the bounds

source  == <<feed, clock, sealed, late>>
routes  == <<need, live>>
reviews == <<status, verdict>>
rows    == <<coll, unmapped>>
history == <<stale, unchecked>>
bounds  == <<imports, faults>>
vars    == <<source, routes, reviews, rows, cursor, tx, post, form, history, bounds>>

Verdicts == {"none", "auto_pass", "auto_fail", "manual_pass", "manual_fail"}

\* How many unresolved unmapped_records rows a record has, and the raw_data
\* of its newest row, from which a replay would rebuild a missing record.
Ticket == [open : Nat, raw : Version \cup {None}]

NoTx   == [running |-> FALSE]
NoForm == [stage |-> "closed"]

Init ==
    /\ feed = [r \in Records |-> None]
    /\ clock = 0 /\ sealed = 0
    /\ need = [s \in Segments |-> {}]
    /\ live = {}
    /\ status = [s \in Segments |-> NotStarted]
    /\ verdict = [s \in Segments |-> "none"]
    /\ coll = [r \in Records |-> None]
    /\ unmapped = [r \in Records |-> [open |-> 0, raw |-> None]]
    /\ cursor = [ts |-> 0, rid |-> None]
    /\ tx = NoTx /\ post = {} /\ form = NoForm
    /\ stale = {} /\ unchecked = {} /\ late = {}
    /\ imports = 0 /\ faults = 0

-----------------------------------------------------------------------------
(* The source.                                                              *)

\* A record is created, edited or soft-deleted in the collection app.  Its
\* clock never goes back; unless ties are allowed it has moved on since the
\* last fetch, so a stamp that was fetched is never given out again.  A
\* version is late when its stamp was.
Publish(r, x) ==
    /\ \E t \in {clock, clock + 1} :
         /\ t \in 1..MaxTime
         /\ t > sealed \/ TiesAllowed
         /\ feed' = [feed EXCEPT ![r] = [addr |-> x.addr, vt |-> x.vt,
                                         deleted |-> x.deleted, ts |-> t]]
         /\ clock' = t
         /\ late' = IF t > sealed THEN late \ {r} ELSE late \cup {r}
    /\ UNCHANGED <<sealed, routes, reviews, rows, cursor, tx, post, form, history, bounds>>

-----------------------------------------------------------------------------
(* T3: SyncerService.                                                       *)

\* _find_segment: the active segment with the record's normalised key.
FindSegment(v) == IF v.addr \in live THEN v.addr ELSE None

SegmentOf(c, r) == IF c[r] = None THEN None ELSE c[r].seg

\* Mutant: a record that comes back keeps its is_active.
Stored_StaysDeleted(c, r, v) ==
    IF v.deleted
    THEN IF c[r] = None THEN c ELSE [c EXCEPT ![r].active = FALSE]
    ELSE [c EXCEPT ![r] = [seg |-> FindSegment(v), vt |-> v.vt, ts |-> v.ts,
                           active |-> IF c[r] = None THEN TRUE ELSE c[r].active]]

\* What _process_record leaves in collected_records ...
Stored(c, r, v) ==
    IF v.deleted
    THEN IF c[r] = None THEN c ELSE [c EXCEPT ![r].active = FALSE]
    ELSE [c EXCEPT ![r] = [seg |-> FindSegment(v), vt |-> v.vt, active |-> TRUE, ts |-> v.ts]]

\* Mutant: no look for an unresolved row that is there already.
Ticketed_Again(c, u, r, v) ==
    IF v.deleted THEN u
    ELSE IF FindSegment(v) # None THEN [u EXCEPT ![r].open = 0]
    ELSE [u EXCEPT ![r] = [open |-> @.open + 1, raw |-> v]]

\* Mutant: resolving takes one row off a count instead of resolving them all.
Ticketed_CountsDown(c, u, r, v) ==
    IF v.deleted THEN u
    ELSE IF FindSegment(v) # None THEN [u EXCEPT ![r].open = @ - 1]
    ELSE IF c[r] # None /\ u[r].open > 0 THEN u
    ELSE [u EXCEPT ![r] = [open |-> @.open + 1, raw |-> v]]

\* ... and in unmapped_records: resolved when the record maps, else one row
\* more, unless a known record already has an unresolved one.
Ticketed(c, u, r, v) ==
    IF v.deleted THEN u
    ELSE IF FindSegment(v) # None THEN [u EXCEPT ![r].open = 0]
    ELSE IF c[r] # None /\ u[r].open > 0 THEN u
    ELSE [u EXCEPT ![r] = [open |-> @.open + 1, raw |-> v]]

\* Mutant: the segment a record left is forgotten.
Touched_NewOnly(c, r, v) ==
    {IF v.deleted THEN SegmentOf(c, r) ELSE FindSegment(v)} \ {None}

\* The segments it recalculates: the one the record is in and the one it left.
Touched(c, r, v) ==
    {SegmentOf(c, r), IF v.deleted THEN None ELSE FindSegment(v)} \ {None}

\* _recalculate_status of the segments in T, over the table c.
Refreshed(c, st, T) ==
    [s \in Segments |-> IF s \in T THEN Recalculated(c, s, need[s], st[s]) ELSE st[s]]

\* run opens its transaction and reads the cursor; the client sorts the feed.
SyncBegin ==
    /\ ~tx.running /\ post = {}
    /\ tx' = [running  |-> TRUE,
              feed     |-> feed,
              since    |-> cursor.ts,  newMax |-> cursor.ts,  lastId |-> cursor.rid,
              page     |-> 0,          more   |-> TRUE,       batch  |-> {},
              coll     |-> coll,       unmapped |-> unmapped,
              status   |-> status,     stale  |-> stale,      affected |-> {}]
    /\ sealed' = clock
    /\ UNCHANGED <<feed, clock, late, routes, reviews, rows, cursor, post, form, history, bounds>>

\* The next page; last_record_id goes with page 1 only.
SyncFetch ==
    /\ tx.running /\ tx.more /\ tx.batch = {}
    /\ LET page   == tx.page + 1
           lastId == IF page = 1 THEN tx.lastId ELSE None
           batch  == Page(tx.feed, tx.since, lastId, page)
       IN tx' = [tx EXCEPT !.page = page,
                           !.batch = batch,
                           !.more = batch # {} /\ HasNext(tx.feed, tx.since, lastId, page)]
    /\ UNCHANGED <<source, routes, reviews, rows, cursor, post, form, history, bounds>>

\* _process_record and the cursor bookkeeping, for the next record of the page.
SyncRecord(r) ==
    /\ tx.running /\ r \in tx.batch
    /\ \A q \in tx.batch \ {r} : Before(tx.feed, r, q)
    /\ LET v == tx.feed[r]
           c == Stored(tx.coll, r, v)
           T == Touched(tx.coll, r, v)
       IN tx' = [tx EXCEPT !.batch    = @ \ {r},
                           !.coll     = c,
                           !.unmapped = Ticketed(tx.coll, @, r, v),
                           !.status   = Refreshed(c, @, T),
                           !.stale    = @ \ T,
                           !.affected = @ \cup T,
                           !.newMax   = IF v.ts > @ THEN v.ts ELSE @,
                           !.lastId   = IF v.ts > tx.newMax THEN r ELSE @]
    /\ UNCHANGED <<source, routes, reviews, rows, cursor, post, form, history, bounds>>

\* The last page is done: records, statuses and cursor commit together, and
\* run hands the affected segments to its caller.
SyncCommit ==
    /\ tx.running /\ ~tx.more /\ tx.batch = {}
    /\ coll' = tx.coll /\ unmapped' = tx.unmapped
    /\ status' = tx.status /\ stale' = tx.stale
    /\ cursor' = IF tx.newMax > tx.since THEN [ts |-> tx.newMax, rid |-> tx.lastId] ELSE cursor
    /\ post' = tx.affected
    /\ unchecked' = unchecked \ tx.affected
    /\ tx' = NoTx
    /\ UNCHANGED <<source, routes, verdict, form, bounds>>

\* Mutant: the cursor is saved although the rows are rolled back.
SyncAbort_KeepsCursor ==
    /\ tx.running /\ faults < MaxFaults
    /\ cursor' = [ts |-> tx.newMax, rid |-> tx.lastId]
    /\ tx' = NoTx
    /\ faults' = faults + 1
    /\ UNCHANGED <<source, routes, reviews, rows, post, form, history, imports>>

\* An exception, or the process dies: session_scope rolls back.
SyncAbort ==
    /\ tx.running /\ faults < MaxFaults
    /\ tx' = NoTx
    /\ faults' = faults + 1
    /\ UNCHANGED <<source, routes, reviews, rows, cursor, post, form, history, imports>>

-----------------------------------------------------------------------------
(* T5: VerifierService.                                                     *)

\* run_auto_checks of the segments in T.  A full segment the query leaves
\* out because it is not active stays unchecked.
AutoCheck(T) ==
    LET eligible == {s \in T : s \in live /\ status[s] \in Checkable}
        passes(s) == ChecksPass(coll, s, need[s])
    IN /\ ~tx.running
       /\ status' = [s \in Segments |->
                       IF s \in eligible THEN IF passes(s) THEN Complete ELSE Faulty
                       ELSE status[s]]
       /\ verdict' = [s \in Segments |->
                       IF s \in eligible THEN IF passes(s) THEN "auto_pass" ELSE "auto_fail"
                       ELSE verdict[s]]
       /\ stale' = stale \ eligible
       /\ unchecked' = (unchecked \cup {s \in T \ live : status[s] = Full}) \ eligible

\* sync.py and the Sync page: the auto-check of what the sync affected ...
SyncVerify ==
    /\ post # {}
    /\ AutoCheck(post)
    /\ post' = {}
    /\ UNCHANGED <<source, routes, rows, cursor, tx, form, bounds>>

\* ... unless the process dies first: affected_ids were only in its memory.
SyncCrash ==
    /\ post # {} /\ faults < MaxFaults
    /\ unchecked' = unchecked \cup post
    /\ post' = {}
    /\ faults' = faults + 1
    /\ UNCHANGED <<source, routes, reviews, rows, cursor, tx, form, stale, imports>>

\* Verification page, Run Auto-Checks: every segment.
RunAutoChecks ==
    /\ AutoCheck(Segments)
    /\ UNCHANGED <<source, routes, rows, cursor, tx, post, form, bounds>>

\* save_manual_finding: the inspector's word, whatever the data say.
SaveManualFinding(s, outcome) ==
    /\ ~tx.running
    /\ status[s] \in Reviewable
    /\ status' = [status EXCEPT ![s] = IF outcome = "pass" THEN Complete ELSE Faulty]
    /\ verdict' = [verdict EXCEPT ![s] =
                     IF outcome = "pass" THEN "manual_pass" ELSE "manual_fail"]
    /\ stale' = stale \cup {s}
    /\ UNCHANGED <<source, routes, rows, cursor, tx, post, form, unchecked, bounds>>

-----------------------------------------------------------------------------
(* The Unmapped Records page, and replay_unmapped behind its button.        *)

\* The page lists an unresolved row and offers the active segments.
ChooseSegment(r, s) ==
    /\ ~tx.running
    /\ form.stage = "closed"
    /\ unmapped[r].open > 0 /\ s \in live
    /\ form' = [stage |-> "chosen", rec |-> r, seg |-> s]
    /\ UNCHANGED <<source, routes, reviews, rows, cursor, tx, post, history, bounds>>

\* The user goes away without pressing Resolve.
ClosePage ==
    /\ form.stage = "chosen"
    /\ form' = NoForm
    /\ UNCHANGED <<source, routes, reviews, rows, cursor, tx, post, history, bounds>>

\* replay_unmapped, with what the page showed: by now a sync may have mapped
\* the record, or an import deactivated the segment.  The segment the record
\* leaves, if any, is not recalculated.
Resolve ==
    /\ ~tx.running
    /\ form.stage = "chosen"
    /\ LET r   == form.rec
           s   == form.seg
           raw == unmapped[r].raw
           c   == IF coll[r] # None
                  THEN [coll EXCEPT ![r].seg = s]
                  ELSE [coll EXCEPT ![r] = [seg |-> s, vt |-> raw.vt, active |-> TRUE, ts |-> raw.ts]]
       IN /\ coll' = c
          /\ unmapped' = [unmapped EXCEPT ![r].open = 0]
          /\ status' = Refreshed(c, status, {s})
          /\ stale' = (stale \cup ({SegmentOf(coll, r)} \ {None})) \ {s}
          /\ form' = [stage |-> "check", seg |-> s]
    /\ UNCHANGED <<source, routes, verdict, cursor, tx, post, unchecked, bounds>>

\* The auto-check of the chosen segment, in the next transaction ...
ResolveVerify ==
    /\ form.stage = "check"
    /\ AutoCheck({form.seg})
    /\ form' = NoForm
    /\ UNCHANGED <<source, routes, rows, cursor, tx, post, bounds>>

\* ... unless the page is interrupted in between.
ResolveCrash ==
    /\ form.stage = "check" /\ faults < MaxFaults
    /\ unchecked' = unchecked \cup {form.seg}
    /\ form' = NoForm
    /\ faults' = faults + 1
    /\ UNCHANGED <<source, routes, reviews, rows, cursor, tx, post, stale, imports>>

-----------------------------------------------------------------------------
(* T1: what import_excel does to segments already collected for.            *)

\* A master file of the province: the segments it lists become active with
\* the positions it prices, the others inactive.  No status is recalculated.
ImportExcel(f) ==
    /\ ~tx.running /\ imports < MaxImports
    /\ need' = [s \in Segments |-> IF s \in DOMAIN f THEN f[s] ELSE need[s]]
    /\ live' = DOMAIN f
    /\ stale' = stale \cup {s \in DOMAIN f : f[s] # need[s]}
    /\ imports' = imports + 1
    /\ UNCHANGED <<source, reviews, rows, cursor, tx, post, form, unchecked, faults>>

-----------------------------------------------------------------------------
Next ==
    \/ \E r \in Records, x \in Contents : Publish(r, x)
    \/ SyncBegin
    \/ SyncFetch
    \/ \E r \in Records : SyncRecord(r)
    \/ SyncCommit
    \/ SyncAbort
    \/ SyncVerify
    \/ SyncCrash
    \/ RunAutoChecks
    \/ \E s \in Segments, outcome \in {"pass", "fail"} : SaveManualFinding(s, outcome)
    \/ \E r \in Records, s \in Segments : ChooseSegment(r, s)
    \/ ClosePage
    \/ Resolve
    \/ ResolveVerify
    \/ ResolveCrash
    \/ \E f \in Files : ImportExcel(f)

Spec == Init /\ [][Next]_vars
-----------------------------------------------------------------------------
(* Properties.                                                              *)

TxType ==
    [running : {TRUE}, feed : [Records -> Version \cup {None}],
     since : Nat, newMax : Nat, lastId : Records \cup {None},
     page : Nat, more : BOOLEAN, batch : SUBSET Records,
     coll : Table, unmapped : [Records -> Ticket],
     status : [Segments -> Statuses], stale : SUBSET Segments, affected : SUBSET Segments]

FormType ==
    {NoForm} \cup [stage : {"chosen"}, rec : Records, seg : Segments]
             \cup [stage : {"check"}, seg : Segments]

\* The types of the variables.
TypeOK ==
    /\ feed \in [Records -> Version \cup {None}] /\ clock \in Nat /\ sealed \in Nat
    /\ need \in [Segments -> SUBSET Positions] /\ live \subseteq Segments
    /\ status \in [Segments -> Statuses] /\ verdict \in [Segments -> Verdicts]
    /\ coll \in Table /\ unmapped \in [Records -> Ticket]
    /\ cursor \in [ts : Nat, rid : Records \cup {None}]
    /\ tx \in {NoTx} \cup TxType
    /\ post \subseteq Segments /\ form \in FormType
    /\ stale \subseteq Segments /\ unchecked \subseteq Segments /\ late \subseteq Records
    /\ imports \in Nat /\ faults \in Nat

\* The tables c and u hold exactly one unresolved unmapped row for each
\* stored record without a segment, and none for any other record.
Ledger(c, u) ==
    \A r \in Records :
        u[r].open = IF c[r] # None /\ c[r].seg = None THEN 1 ELSE 0

\* Every collected record is either in a segment or waiting, once, on the
\* Unmapped Records page: no sync, edit, soft delete, replay (even of a row
\* the page showed before a sync resolved it) or rollback loses or doubles it.
OneTicketEach == Ledger(coll, unmapped)

\* In the view (c, st, d) a segment's status is the one its rows call for,
\* unless an inspector decided it or d says why it was left behind.
Accurate(c, st, d) ==
    \A s \in Segments \ d :
        need[s] # {} /\ st[s] # Faulty => st[s] = StatusOfData(c, s, need[s])

\* A status goes out of date in three ways only: a manual review, an import
\* that changes the positions, and a replay that takes a record out of
\* another segment.  Every other transaction leaves trang_thai accurate for
\* every segment, those a record moved out of or was deleted from included.
StatusFollowsData == Accurate(coll, status, stale)

\* A segment is faulty exactly when the newest line of its verification log
\* is a failure: the status and the log, written side by side, never diverge.
FaultyIsLogged ==
    \A s \in Segments : status[s] = Faulty <=> verdict[s] \in {"auto_fail", "manual_fail"}

\* The auto-check that is to follow a sync or a resolve reaches every
\* segment they left full, unless a crash or a deactivation came between.
FullIsChecked ==
    \A s \in live : status[s] = Full =>
        \/ s \in post
        \/ form.stage = "check" /\ form.seg = s
        \/ s \in unchecked

\* Nothing the cursor has moved past is missing: every version stamped at or
\* before last_synced_at is in collected_records, across pages, ties, aborted
\* runs and restarts.  Only a version that came late, with a stamp that had
\* been fetched before, may be skipped.
CursorCoversSource ==
    \A r \in Records \ late :
        feed[r] # None /\ feed[r].ts <= cursor.ts => Mirrors(coll, r, feed[r])

\* A run that commits leaves nothing behind: each version that was there when
\* it began, and has not been replaced since, is in collected_records,
\* wherever in the pages it came.  Only a late version may be skipped.
RunTakesAll ==
    [][SyncCommit => \A r \in Records \ late :
         feed[r] # None /\ feed[r] = tx.feed[r] => Mirrors(coll', r, feed[r])]_vars

\* The workflow of one segment: the status moves along the edges of
\* StatusLifecycle only, and a faulty segment is cleared by a manual pass only.
Lifecycle == INSTANCE StatusLifecycle WITH status <- status, verdict <- verdict
ObeysLifecycle == Lifecycle!Spec

\* The active rows, as a copy of what the source says of their records.
Held == [r \in Records |->
            IF coll[r] = None THEN None
            ELSE IF coll[r].active THEN [vt |-> coll[r].vt, ts |-> coll[r].ts] ELSE None]

\* The versions that are not late.
InTime == [r \in Records |-> IF r \in late THEN None ELSE feed[r]]

\* However a sync is paged, aborted and repeated, and whatever replays move in
\* between, collected_records is a copy of the source up to the cursor, and
\* copy and cursor advance together: Collection implements SourceMirror.
Mirror == INSTANCE SourceMirror WITH source <- InTime, copy <- Held, horizon <- cursor.ts
ObeysMirror == Mirror!Spec

-----------------------------------------------------------------------------
(* Fairness: cron starts a sync every day and a started sync goes on.       *)

SyncSteps == SyncBegin \/ SyncFetch \/ (\E r \in Records : SyncRecord(r)) \/ SyncCommit

FairSpec == Spec /\ WF_vars(SyncSteps) /\ WF_vars(SyncVerify)

\* Every version the source publishes reaches collected_records, unless it is
\* late or the source replaces it first: an aborted run is made good by a later
\* one.
SourceIsMirrored ==
    \A r \in Records, v \in {[addr |-> x.addr, vt |-> x.vt, deleted |-> x.deleted, ts |-> t] :
                               x \in Contents, t \in 1..MaxTime} :
        feed[r] = v ~> feed[r] # v \/ r \in late \/ Mirrors(coll, r, v)
=============================================================================
