------------------------------ MODULE Sessions -------------------------------
(***************************************************************************)
(* The transactions that Collection runs one at a time, open at once: the *)
(* syncs of cron and of the Sync page, replays of unmapped records, auto- *)
(* checks and manual findings.  Each is a SQLAlchemy session under         *)
(* PostgreSQL's READ COMMITTED:                                            *)
(*   - a query sees what is committed when it runs, and the session's own  *)
(*     pending writes, which autoflush sends before the query;             *)
(*   - an UPDATE names the columns that differ from the values the session *)
(*     loaded, and no others;                                              *)
(*   - a written row is locked until the session ends, and so is the key   *)
(*     of an inserted one: another session that writes it waits, then goes *)
(*     on from the committed row, or fails if the key is now taken;        *)
(*   - of sessions that wait for each other in a circle one is aborted.    *)
(*                                                                         *)
(* The steps of a session are where its queries and flushes are; the      *)
(* statements between two of them are one step.  Every segment is active  *)
(* and the positions a segment needs do not change.  The paging of a run  *)
(* is Collection's: here a fetch returns everything the cursor asks for.   *)
(***************************************************************************)
EXTENDS CollectionClient, Sequences

CONSTANTS
    Syncs, Replays, Checks, Reviews,  \* the sessions, by what they run
    Contents,   \* what the source may say of a record: [addr, vt, deleted]
    Need,       \* the positions each segment needs
    MaxTime,    \* bound on source stamps
    MaxBegins   \* bound on sessions begun

Sessions == Syncs \cup Replays \cup Checks \cup Reviews

ASSUME NeedAssumption == Need \in [Segments -> SUBSET Positions]
ASSUME ContentAssumption ==
    Contents \subseteq [addr : Segments \cup {None}, vt : Positions \cup {None}, deleted : BOOLEAN]
ASSUME SessionAssumption ==
    /\ Replays \cap Syncs = {} /\ Checks \cap (Syncs \cup Replays) = {}
    /\ Reviews \cap (Syncs \cup Replays \cup Checks) = {}
ASSUME ValueAssumption == None \notin Nat /\ None \notin Statuses /\ IsFiniteSet(Segments)

VARIABLES
    feed, clock,     \* the source, as in Collection
    sealed,          \* the clock at the last fetch
    coll, tickets,   \* collected_records; how many unresolved unmapped rows of each record
    status,          \* segments.trang_thai
    cursors,         \* the rows of sync_cursor
    sess,            \* what each session has loaded and written so far
    stored, newest,  \* history: the stamp of the version last stored of each record and
                     \* the newest any sync was through with; the records last stored
    crossed,         \* over a row that was not the one loaded
    begun            \* counter of the bound

source  == <<feed, clock, sealed>>
tables  == <<coll, tickets, status, cursors>>
history == <<stored, newest, crossed>>
vars    == <<source, tables, sess, history, begun>>

NoCursor == [ts |-> 0, rid |-> None]

\* A session that is not open.
Closed ==
    [pc |-> "closed",
     feed |-> [r \in Records |-> None],               \* sync: the records fetched,
     cur |-> 0, from |-> NoCursor, newMax |-> 0, lastId |-> None,  \* its cursor row (0: its own)
     rest |-> {},                                     \* and what is left of the page
     rec |-> None, row |-> None, to |-> None,         \* the record, its row as loaded, its segment
     todo |-> <<>>,                                   \* segments to recalculate or check
     seen |-> [s \in Segments |-> None],              \* trang_thai as loaded
     want |-> None,                                   \* trang_thai as assigned, not yet flushed
     put |-> [r \in Records |-> None],                \* uncommitted writes, by table
     tix |-> [r \in Records |-> None],
     sts |-> [s \in Segments |-> None],
     mixed |-> {}, over |-> {}]  \* history: rows and statuses written over values not loaded

Init ==
    /\ feed = [r \in Records |-> None] /\ clock = 0 /\ sealed = 0
    /\ coll = [r \in Records |-> None]
    /\ tickets = [r \in Records |-> 0]
    /\ status = [s \in Segments |-> NotStarted]
    /\ cursors = <<>>
    /\ sess = [w \in Sessions |-> Closed]
    /\ stored = [r \in Records |-> 0] /\ newest = [r \in Records |-> 0]
    /\ crossed = {}
    /\ begun = 0

-----------------------------------------------------------------------------
(* What a session sees, and what it waits for.                              *)

Over(own, committed) ==
    [k \in DOMAIN committed |-> IF own[k] # None THEN own[k] ELSE committed[k]]

Rows(w)   == Over(sess[w].put, coll)
Opened(w) == Over(sess[w].tix, tickets)
Status(w) == Over(sess[w].sts, status)

\* UPDATE of the columns the session changed, on the row as committed by now.
Merged(committed, loaded, new) ==
    [f \in DOMAIN committed |-> IF new[f] # loaded[f] THEN new[f] ELSE committed[f]]

\* The sessions that hold a lock w waits for.
Blockers(w) ==
    {x \in Sessions \ {w} :
        \/ sess[w].pc = "store" /\ sess[x].put[sess[w].rec] # None
        \/ sess[w].pc = "flush" /\ sess[x].sts[Head(sess[w].todo)] # None}

Set(w, s) == sess' = [sess EXCEPT ![w] = s]

-----------------------------------------------------------------------------
(* The source: as in Collection, no version comes late, with a stamp that   *)
(* was fetched before.                                                      *)

Publish(r, x) ==
    /\ \E t \in {clock, clock + 1} :
         /\ t \in 1..MaxTime /\ t > sealed
         /\ feed' = [feed EXCEPT ![r] = [addr |-> x.addr, vt |-> x.vt,
                                         deleted |-> x.deleted, ts |-> t]]
         /\ clock' = t
    /\ UNCHANGED <<sealed, tables, sess, history, begun>>

-----------------------------------------------------------------------------
(* Beginning a session.                                                     *)

Begin(w, s) ==
    /\ sess[w].pc = "closed" /\ begun < MaxBegins
    /\ begun' = begun + 1
    /\ Set(w, s)
    /\ UNCHANGED <<source, tables, history>>

\* get_or_create_sync_cursor: first() of an unordered query, or a new row.
BeginSync(w) ==
    \/ /\ cursors = <<>>
       /\ Begin(w, [Closed EXCEPT !.pc = "fetch"])
    \/ \E k \in DOMAIN cursors :
         Begin(w, [Closed EXCEPT !.pc = "fetch", !.cur = k, !.from = cursors[k],
                                 !.newMax = cursors[k].ts, !.lastId = cursors[k].rid])

\* The Unmapped Records page shows an unresolved row; the user picks a segment.
BeginReplay(w, r, s) ==
    /\ tickets[r] > 0
    /\ Begin(w, [Closed EXCEPT !.pc = "load", !.rec = r, !.to = s])

\* run_auto_checks loads the segments of T that it will check, in some order.
BeginChecks(w, T) ==
    LET eligible == {s \in T : status[s] \in Checkable}
    IN \E order \in [1..Cardinality(eligible) -> eligible] :
         /\ \A s \in eligible : \E k \in DOMAIN order : order[k] = s
         /\ Begin(w, [Closed EXCEPT !.pc = IF order = <<>> THEN "next" ELSE "count", !.todo = order,
                        !.seen = [s \in Segments |-> IF s \in eligible THEN status[s] ELSE None]])

\* save_manual_finding; an outcome that changes nothing sends no UPDATE.
BeginReview(w, s, outcome) ==
    LET new == IF outcome = "pass" THEN Complete ELSE Faulty
    IN /\ status[s] \in Reviewable
       /\ Begin(w, [Closed EXCEPT !.pc = IF new = status[s] THEN "next" ELSE "flush",
                                  !.todo = IF new = status[s] THEN <<>> ELSE <<s>>,
                                  !.want = new, !.seen[s] = status[s]])

-----------------------------------------------------------------------------
(* The steps of open sessions.                                              *)

\* fetch_records, once the cursor is read.
Fetch(w) ==
    /\ sess[w].pc = "fetch"
    /\ Set(w, [sess[w] EXCEPT !.pc = "next", !.feed = feed,
                              !.rest = Window(feed, sess[w].from.ts, sess[w].lastId)])
    /\ sealed' = clock
    /\ UNCHANGED <<feed, clock, tables, history, begun>>

\* _process_record up to its first write: the segment and the collected row
\* are loaded.  A deletion of an unknown record ends here.
NextRecord(w, r) ==
    LET S == sess[w]
        v == S.feed[r]
        row == Rows(w)[r]
        to == IF v.deleted THEN None ELSE v.addr
    IN /\ S.pc = "next" /\ r \in S.rest
       /\ \A q \in S.rest \ {r} : Before(S.feed, r, q)
       /\ Set(w, [S EXCEPT !.rest = @ \ {r},
                           !.newMax = IF v.ts > @ THEN v.ts ELSE @,
                           !.lastId = IF v.ts > S.newMax THEN r ELSE @,
                           !.pc = IF v.deleted /\ row = None THEN "next" ELSE "store",
                           !.rec = r, !.row = row, !.to = to,
                           !.seen = [s \in Segments |-> IF s = to THEN Status(w)[s] ELSE None]])
       /\ UNCHANGED <<source, tables, history, begun>>

\* replay_unmapped up to its first write.
LoadReplayed(w) ==
    /\ sess[w].pc = "load"
    /\ Set(w, [sess[w] EXCEPT !.pc = "store", !.row = coll[sess[w].rec]])
    /\ UNCHANGED <<source, tables, history, begun>>

\* The collected row w writes, given the row it loaded.
NewRow(w) ==
    LET S == sess[w] v == S.feed[S.rec]
    IN IF w \in Replays THEN [S.row EXCEPT !.seg = S.to]
       ELSE IF v.deleted THEN [S.row EXCEPT !.active = FALSE]
       ELSE [seg |-> S.to, vt |-> v.vt, active |-> TRUE, ts |-> v.ts]

\* Mutant: resolving takes one row off a count.
NewTickets_CountsDown(w) ==
    LET S == sess[w] n == Opened(w)[S.rec]
    IN IF S.to # None THEN n - 1
       ELSE IF S.feed[S.rec].deleted THEN n
       ELSE IF S.row = None \/ n = 0 THEN n + 1
       ELSE n

\* Mutant: whether a row is there is decided by the collected row loaded before.
NewTickets_ByLoadedRow(w) ==
    LET S == sess[w] n == Opened(w)[S.rec]
    IN IF S.to # None THEN 0
       ELSE IF S.feed[S.rec].deleted THEN n
       ELSE IF S.row = None \/ S.row.seg = None THEN n + 1
       ELSE n

\* The unresolved unmapped rows w leaves.  A new row is added unseen, a row
\* more for a known record only if none is there.
NewTickets(w) ==
    LET S == sess[w] n == Opened(w)[S.rec]
    IN IF S.to # None THEN 0
       ELSE IF S.feed[S.rec].deleted THEN n
       ELSE IF S.row = None \/ n = 0 THEN n + 1
       ELSE n

\* The segments w then recalculates: the record's, and the one it left.
LeftBehind(w) ==
    LET S == sess[w]
        old == IF w \in Replays \/ S.row = None THEN None ELSE S.row.seg
    IN (IF S.to = None THEN <<>> ELSE <<S.to>>)
         \o (IF old \in {S.to, None} THEN <<>> ELSE <<old>>)

\* After a step of S: on to the next segment, or done with the record.
Onward(S) ==
    IF S.todo # <<>> THEN [S EXCEPT !.pc = "count"]
    ELSE [S EXCEPT !.pc = "next", !.rec = None, !.row = None, !.to = None,
                   !.want = None, !.seen = Closed.seen]

\* Mutant: the key of a record inserted meanwhile is waited for in vain.
Store_Retries(w) ==
    LET S == sess[w] r == S.rec
    IN /\ S.pc = "store" /\ Blockers(w) = {}
       /\ S.row = None => coll[r] = None
       /\ Set(w, Onward([S EXCEPT
            !.todo = LeftBehind(w),
            !.put[r] = IF S.row = None THEN NewRow(w) ELSE Merged(coll[r], S.row, NewRow(w)),
            !.tix[r] = NewTickets(w),
            !.mixed = IF coll[r] # S.row THEN @ \cup {r} ELSE @]))
       /\ UNCHANGED <<source, tables, history, begun>>

\* Mutant: the row of a record inserted meanwhile is loaded, and tried again.
Store_LoadsAgain(w) ==
    LET S == sess[w] r == S.rec
    IN /\ S.pc = "store" /\ Blockers(w) = {}
       /\ IF S.row = None /\ coll[r] # None THEN Set(w, [S EXCEPT !.row = coll[r]])
          ELSE Set(w, Onward([S EXCEPT
                 !.todo = LeftBehind(w),
                 !.put[r] = IF S.row = None THEN NewRow(w) ELSE Merged(coll[r], S.row, NewRow(w)),
                 !.tix[r] = NewTickets(w),
                 !.mixed = IF coll[r] # S.row THEN @ \cup {r} ELSE @]))
       /\ UNCHANGED <<source, tables, history, begun>>

\* The collected row and its unmapped rows are flushed.  The INSERT of a
\* record that was inserted meanwhile violates the unique key.
Store(w) ==
    LET S == sess[w] r == S.rec
    IN /\ S.pc = "store" /\ Blockers(w) = {}
       /\ IF S.row = None /\ coll[r] # None THEN Set(w, Closed)
          ELSE Set(w, Onward([S EXCEPT
                 !.todo = LeftBehind(w),
                 !.put[r] = IF S.row = None THEN NewRow(w) ELSE Merged(coll[r], S.row, NewRow(w)),
                 !.tix[r] = NewTickets(w),
                 !.mixed = IF coll[r] # S.row THEN @ \cup {r} ELSE @]))
       /\ UNCHANGED <<source, tables, history, begun>>

\* The status the next segment is given: by the rows, or by an auto-check.
Verdict(w, s, old) ==
    IF w \in Checks THEN IF ChecksPass(Rows(w), s, Need[s]) THEN Complete ELSE Faulty
    ELSE Recalculated(Rows(w), s, Need[s], old)

\* _recalculate_status or _check_segment; assigning what was loaded sends no UPDATE.
Count(w) ==
    LET S == sess[w]
        s == Head(S.todo)
        old == IF S.seen[s] # None THEN S.seen[s] ELSE Status(w)[s]
        new == Verdict(w, s, old)
    IN /\ S.pc = "count"
       /\ IF new = old THEN Set(w, Onward([S EXCEPT !.todo = Tail(@)]))
          ELSE Set(w, [S EXCEPT !.pc = "flush", !.want = new, !.seen[s] = old])
       /\ UNCHANGED <<source, tables, history, begun>>

\* UPDATE segments SET trang_thai, whatever is committed there by now.
Flush(w) ==
    LET S == sess[w] s == Head(S.todo)
    IN /\ S.pc = "flush" /\ Blockers(w) = {}
       /\ Set(w, Onward([S EXCEPT !.todo = Tail(@), !.sts[s] = S.want,
                                  !.over = IF Status(w)[s] # S.seen[s] THEN @ \cup {s} ELSE @]))
       /\ UNCHANGED <<source, tables, history, begun>>

\* Mutant: the cursor takes the time of the commit.
Advanced_ToNow(w) ==
    LET S == sess[w]
        new == IF S.newMax > S.from.ts THEN [ts |-> clock, rid |-> S.lastId] ELSE S.from
    IN IF S.cur = 0 THEN Append(cursors, new)
       ELSE [cursors EXCEPT ![S.cur] = Merged(@, S.from, new)]

\* The rows of sync_cursor after the commit of w.
Advanced(w) ==
    LET S == sess[w]
        new == IF S.newMax > S.from.ts THEN [ts |-> S.newMax, rid |-> S.lastId] ELSE S.from
    IN IF S.cur = 0 THEN Append(cursors, new)
       ELSE [cursors EXCEPT ![S.cur] = Merged(@, S.from, new)]

\* session.commit().
Commit(w) ==
    LET S == sess[w]
        through == IF w \in Syncs THEN Window(S.feed, S.from.ts, S.from.rid) ELSE {}
        written == {r \in through : S.put[r] # None}
    IN /\ S.pc = "next" /\ S.rest = {}
       /\ coll' = Rows(w) /\ tickets' = Opened(w) /\ status' = Status(w)
       /\ cursors' = IF w \in Syncs THEN Advanced(w) ELSE cursors
       /\ stored' = [r \in Records |-> IF r \in written THEN S.feed[r].ts ELSE stored[r]]
       /\ newest' = [r \in Records |->
                       IF r \in through /\ S.feed[r].ts > newest[r] THEN S.feed[r].ts ELSE newest[r]]
       /\ crossed' = (crossed \ {r \in written : ~S.feed[r].deleted}) \cup S.mixed
       /\ Set(w, Closed)
       /\ UNCHANGED <<source, begun>>

\* Every session of X waits, and only for sessions of X.
Circle(X) == \A x \in X : Blockers(x) # {} /\ Blockers(x) \subseteq X

\* Mutant: the aborted session is not rolled back.
DeadlockAbort_KeepsLocks(w) ==
    /\ \E X \in SUBSET Sessions : w \in X /\ Circle(X)
    /\ Set(w, [sess[w] EXCEPT !.pc = "closed"])
    /\ UNCHANGED <<source, tables, history, begun>>

\* PostgreSQL breaks a circle of waiting sessions by aborting one of them.
DeadlockAbort(w) ==
    /\ \E X \in SUBSET Sessions : w \in X /\ Circle(X)
    /\ Set(w, Closed)
    /\ UNCHANGED <<source, tables, history, begun>>

Step(w) ==
    \/ Fetch(w) \/ (\E r \in Records : NextRecord(w, r)) \/ LoadReplayed(w)
    \/ Store(w) \/ Count(w) \/ Flush(w) \/ Commit(w)
    \/ DeadlockAbort(w)

Next ==
    \/ \E r \in Records, x \in Contents : Publish(r, x)
    \/ \E w \in Syncs : BeginSync(w)
    \/ \E w \in Replays, r \in Records, s \in Segments : BeginReplay(w, r, s)
    \/ \E w \in Checks, T \in SUBSET Segments : BeginChecks(w, T)
    \/ \E w \in Reviews, s \in Segments, outcome \in {"pass", "fail"} : BeginReview(w, s, outcome)
    \/ \E w \in Sessions : Step(w)

Spec == Init /\ [][Next]_vars

\* While some open session can go on, one does: processes run, and PostgreSQL
\* grants a free lock and breaks a deadlock.
FairSpec == Spec /\ WF_vars(\E w \in Sessions : Step(w))
-----------------------------------------------------------------------------
(* Properties.                                                              *)

SessionType ==
    [pc : {"closed", "fetch", "load", "next", "store", "count", "flush"},
     feed : [Records -> Version \cup {None}],
     cur : Nat, from : [ts : Nat, rid : Records \cup {None}],
     newMax : Nat, lastId : Records \cup {None},
     rest : SUBSET Records, rec : Records \cup {None}, row : Row \cup {None},
     to : Segments \cup {None}, todo : Seq(Segments),
     seen : [Segments -> Statuses \cup {None}], want : Statuses \cup {None},
     put : [Records -> Row \cup {None}], tix : [Records -> Nat \cup {None}],
     sts : [Segments -> Statuses \cup {None}],
     mixed : SUBSET Records, over : SUBSET Segments]

\* The types of the variables.
TypeOK ==
    /\ feed \in [Records -> Version \cup {None}] /\ clock \in Nat /\ sealed \in Nat
    /\ coll \in Table /\ tickets \in [Records -> Nat]
    /\ status \in [Segments -> Statuses]
    /\ cursors \in Seq([ts : Nat, rid : Records \cup {None}])
    /\ sess \in [Sessions -> SessionType]
    /\ stored \in [Records -> Nat] /\ newest \in [Records -> Nat] /\ crossed \subseteq Records
    /\ begun \in Nat

\* However syncs and replays overlap, a record without a segment waits once
\* on the Unmapped Records page and a mapped one does not wait, unless the
\* session that stored it last had loaded a row that was then changed under
\* it; the next sync that stores the record undisturbed repairs it.
OneTicketUnlessCrossed ==
    \A r \in Records \ crossed :
        tickets[r] = IF coll[r] # None /\ coll[r].seg = None THEN 1 ELSE 0

\* Records last stored at an older version than another sync was through with.
Overtaken == {r \in Records : coll[r] # None /\ stored[r] < newest[r]}

\* With several syncs, and even several cursor rows, no cursor row has moved
\* past a version that is not stored, unless a slower sync stored an older
\* version of the record, or stored it over a row changed under it.
CursorsCoverSource ==
    \A k \in DOMAIN cursors, r \in Records \ (crossed \cup Overtaken) :
        feed[r] # None /\ feed[r].ts <= cursors[k].ts => Mirrors(coll, r, feed[r])

\* A committed change of s is made by w.
Commits(w, s) == sess[w].pc # "closed" /\ sess[w].sts[s] # None /\ sess'[w].pc = "closed"

\* A faulty segment is cleared by an inspector's session, or by one that
\* loaded the segment before the failure it overwrites was committed.
FaultyClearedKnowingly ==
    [][\A s \in Segments : status[s] = Faulty /\ status'[s] # Faulty =>
         \E w \in Sessions : Commits(w, s) /\ (w \in Reviews \/ s \in sess[w].over)]_vars

\* verifier_service.py:42-43: "only manual inspector review can clear that
\* state".
OnlyReviewClears ==
    [][\A s \in Segments : status[s] = Faulty /\ status'[s] # Faulty =>
         \E w \in Reviews : Commits(w, s)]_vars

\* w can take its next step now.
CanGoOn(w) ==
    LET S == sess[w]
    IN \/ S.pc \in {"fetch", "load", "count"}
       \/ S.pc \in {"store", "flush"} /\ Blockers(w) = {}
       \/ S.pc = "next" /\ (S.rest = {} \/ \E r \in S.rest : \A q \in S.rest \ {r} : Before(S.feed, r, q))

\* While sessions are open one of them can go on, or they wait for each other
\* in a circle, which PostgreSQL breaks: no session waits for the rows of one
\* that has ended, whether it committed, failed or was aborted.
SomeoneCanGoOn ==
    LET open == {w \in Sessions : sess[w].pc # "closed"}
    IN open = {} \/ (\E w \in open : CanGoOn(w)) \/ Circle(open)

\* A bound on the steps a session has left: for each record of the page, for
\* each segment to recalculate or check, and for where it is now.
Effort(S) ==
    LET records == IF S.pc = "fetch" THEN Records ELSE S.rest
        segments == IF S.pc \in {"count", "flush"} THEN Len(S.todo) ELSE 0
    IN 6 * Cardinality(records) + 2 * segments
         + CASE S.pc \in {"closed", "flush"} -> 0
             [] S.pc \in {"next", "count"} -> 1
             [] S.pc = "fetch" -> 2
             [] S.pc = "store" -> 6
             [] S.pc = "load" -> 7

\* Each step of an open session leaves it fewer steps: a record is taken from
\* the page once and its segments are recalculated once, whatever others do;
\* nothing is tried again.
SessionsGetOn ==
    [][\A w \in Sessions : sess[w].pc # "closed" /\ sess'[w] # sess[w] =>
         Effort(sess'[w]) < Effort(sess[w])]_vars

\* Every session that begins ends (and all of them do, for a bounded number
\* begins): sessions that wait for each other's rows, whatever the order in
\* which they lock them, or for a key that is then taken, do not wait for ever.
EverySessionEnds == []<>(\A w \in Sessions : sess[w].pc = "closed")
=============================================================================
