-------------------------- MODULE CollectionProofs ---------------------------
(* Theorems about Collection, for every value of its constants. *)
EXTENDS Collection, FiniteSetTheorems, TLAPS

-----------------------------------------------------------------------------
(* What one _process_record does to the tables. *)

LEMMA FindSegmentType ==
  ASSUME live \subseteq Segments, NEW v \in Version
  PROVE  FindSegment(v) \in Segments \cup {None}
BY DEF FindSegment

LEMMA SegmentOfType ==
  ASSUME NEW c \in Table, NEW r \in Records
  PROVE  SegmentOf(c, r) \in Segments \cup {None}
BY DEF SegmentOf, Table, Row

LEMMA StoredType ==
  ASSUME live \subseteq Segments,
         NEW c \in Table, NEW r \in Records, NEW v \in Version
  PROVE  Stored(c, r, v) \in Table
<1>1. FindSegment(v) \in Segments \cup {None}
  BY FindSegmentType
<1>2. CASE v.deleted
  <2>1. CASE c[r] = None
    BY <1>2, <2>1 DEF Stored
  <2>2. CASE c[r] # None
    <3>1. [c[r] EXCEPT !.active = FALSE] \in Row
      BY <2>2 DEF Table, Row
    <3>2. Stored(c, r, v) = [c EXCEPT ![r] = [c[r] EXCEPT !.active = FALSE]]
      BY <1>2, <2>2 DEF Stored
    <3> QED BY <3>1, <3>2 DEF Table
  <2> QED BY <2>1, <2>2
<1>3. CASE ~v.deleted
  BY <1>1, <1>3 DEF Stored, Table, Row, Version
<1> QED BY <1>2, <1>3

LEMMA TicketedType ==
  ASSUME live \subseteq Segments, NEW c \in Table,
         NEW u \in [Records -> Ticket], NEW r \in Records, NEW v \in Version
  PROVE  Ticketed(c, u, r, v) \in [Records -> Ticket]
<1>1. [u[r] EXCEPT !.open = 0] \in Ticket
  BY DEF Ticket
<1>2. [open |-> u[r].open + 1, raw |-> v] \in Ticket
  BY DEF Ticket
<1> QED BY <1>1, <1>2 DEF Ticketed

\* The segments a record left and entered are segments.
LEMMA TouchedType ==
  ASSUME live \subseteq Segments, NEW c \in Table, NEW r \in Records, NEW v \in Version
  PROVE  Touched(c, r, v) \subseteq Segments
BY FindSegmentType, SegmentOfType DEF Touched

LEMMA StatusOfDataType ==
  ASSUME NEW c, NEW s, NEW pos
  PROVE  StatusOfData(c, s, pos) \in {NotStarted, Collecting, Full, Complete}
BY DEF StatusOfData

LEMMA RefreshedType ==
  ASSUME NEW c, NEW st \in [Segments -> Statuses], NEW T
  PROVE  Refreshed(c, st, T) \in [Segments -> Statuses]
BY StatusOfDataType DEF Refreshed, Recalculated, Statuses

-----------------------------------------------------------------------------
(* Types.  A page holds records of the feed only, so that the payload a    *)
(* step processes is a version and not None.                               *)

BatchKnown == tx.running => \A r \in tx.batch : tx.feed[r] # None

TypeInv == TypeOK /\ BatchKnown

LEMMA InitType == Init => TypeInv
BY DEF Init, TypeInv, TypeOK, BatchKnown, NoTx, NoForm, FormType, Table, Ticket,
       Statuses, NotStarted, Verdicts

LEMMA AutoCheckType ==
  ASSUME TypeOK, NEW T \in SUBSET Segments, AutoCheck(T)
  PROVE  /\ status' \in [Segments -> Statuses]
         /\ verdict' \in [Segments -> Verdicts]
         /\ stale' \subseteq Segments
         /\ unchecked' \subseteq Segments
BY DEF AutoCheck, TypeOK, Statuses, Verdicts, Complete, Faulty

LEMMA PublishType ==
  ASSUME TypeInv, NEW r \in Records, NEW x \in Contents, Publish(r, x)
  PROVE  TypeInv'
<1>1. PICK t \in {clock, clock + 1} :
         /\ feed' = [feed EXCEPT ![r] = [addr |-> x.addr, vt |-> x.vt,
                                         deleted |-> x.deleted, ts |-> t]]
         /\ clock' = t
  BY DEF Publish
<1>2. t \in Nat
  BY <1>1 DEF TypeInv, TypeOK
<1>3. [addr |-> x.addr, vt |-> x.vt, deleted |-> x.deleted, ts |-> t] \in Version
  BY <1>2, SourceAssumption DEF Content, Version
<1>4. feed' \in [Records -> Version \cup {None}]
  BY <1>1, <1>3 DEF TypeInv, TypeOK
<1> QED
  BY <1>1, <1>2, <1>4 DEF TypeInv, TypeOK, BatchKnown, Publish, source, routes, reviews,
     rows, history, bounds

LEMMA SyncBeginType ==
  ASSUME TypeInv, SyncBegin PROVE TypeInv'
<1>1. tx' \in TxType
  BY DEF SyncBegin, TypeInv, TypeOK, TxType
<1> QED
  BY <1>1 DEF TypeInv, TypeOK, BatchKnown, SyncBegin, routes, reviews, rows, history, bounds

\* A running transaction has its fields.
LEMMA TxRunning ==
  ASSUME TypeOK, tx.running PROVE tx \in TxType
BY DEF TypeOK, NoTx

LEMMA SyncFetchType ==
  ASSUME TypeInv, SyncFetch PROVE TypeInv'
<1>1. tx \in TxType
  BY TxRunning DEF TypeInv, SyncFetch
<1> DEFINE page   == tx.page + 1
           lastId == IF page = 1 THEN tx.lastId ELSE None
           batch  == Page(tx.feed, tx.since, lastId, page)
           more   == batch # {} /\ HasNext(tx.feed, tx.since, lastId, page)
<1>2. tx' = [tx EXCEPT !.page = page, !.batch = batch, !.more = more]
  BY DEF SyncFetch
<1>3. batch \subseteq {r \in Records : tx.feed[r] # None}
  BY DEF Page, Window
<1>4. more \in BOOLEAN /\ page \in Nat
  BY <1>1 DEF TxType, HasNext
<1> HIDE DEF lastId, batch, more, page
<1>5. tx' \in TxType
  BY <1>1, <1>2, <1>3, <1>4 DEF TxType
<1>6. tx'.feed = tx.feed /\ tx'.batch = batch
  BY <1>1, <1>2 DEF TxType
<1> QED
  BY <1>3, <1>5, <1>6 DEF TypeInv, TypeOK, BatchKnown, SyncFetch, source, routes, reviews, rows,
     history, bounds

LEMMA SyncRecordType ==
  ASSUME TypeInv, NEW r \in Records, SyncRecord(r) PROVE TypeInv'
<1>1. tx \in TxType
  BY TxRunning DEF TypeInv, SyncRecord
<1> DEFINE v == tx.feed[r]
           c == Stored(tx.coll, r, v)
           T == Touched(tx.coll, r, v)
<1>2. v \in Version
  BY <1>1 DEF TypeInv, BatchKnown, SyncRecord, TxType
<1>3. /\ c \in Table
      /\ Ticketed(tx.coll, tx.unmapped, r, v) \in [Records -> Ticket]
      /\ T \subseteq Segments
      /\ Refreshed(c, tx.status, T) \in [Segments -> Statuses]
  BY <1>1, <1>2, StoredType, TicketedType, TouchedType, RefreshedType DEF TxType, TypeInv, TypeOK
<1>4. tx' = [tx EXCEPT !.batch    = tx.batch \ {r},
                       !.coll     = c,
                       !.unmapped = Ticketed(tx.coll, tx.unmapped, r, v),
                       !.status   = Refreshed(c, tx.status, T),
                       !.stale    = tx.stale \ T,
                       !.affected = tx.affected \cup T,
                       !.newMax   = IF v.ts > tx.newMax THEN v.ts ELSE tx.newMax,
                       !.lastId   = IF v.ts > tx.newMax THEN r ELSE tx.lastId]
  BY DEF SyncRecord
<1>5. tx' \in TxType
  BY <1>1, <1>2, <1>3, <1>4 DEF TxType, Version
<1>6. tx'.feed = tx.feed /\ tx'.batch \subseteq tx.batch
  BY <1>1, <1>4 DEF TxType
<1> QED
  BY <1>1, <1>5, <1>6 DEF TypeInv, TypeOK, BatchKnown, SyncRecord, source, routes, reviews, rows,
     history, bounds, TxType

LEMMA SyncEndType ==
  ASSUME TypeInv, SyncCommit \/ SyncAbort PROVE TypeInv'
<1>1. CASE SyncCommit
  <2>1. tx \in TxType
    BY <1>1, TxRunning DEF TypeInv, SyncCommit
  <2> QED
    BY <1>1, <2>1 DEF TypeInv, TypeOK, BatchKnown, SyncCommit, TxType, NoTx, source, routes, bounds
<1>2. CASE SyncAbort
  BY <1>2 DEF TypeInv, TypeOK, BatchKnown, SyncAbort, NoTx, source, routes, reviews, rows, history
<1> QED BY <1>1, <1>2

LEMMA VerifierType ==
  ASSUME TypeInv,
         SyncVerify \/ SyncCrash \/ RunAutoChecks
           \/ (\E s \in Segments, outcome \in {"pass", "fail"} : SaveManualFinding(s, outcome))
  PROVE  TypeInv'
<1>1. CASE SyncVerify
  BY <1>1, AutoCheckType DEF TypeInv, TypeOK, BatchKnown, SyncVerify, source, routes, rows, bounds
<1>2. CASE SyncCrash
  BY <1>2 DEF TypeInv, TypeOK, BatchKnown, SyncCrash, source, routes, reviews, rows
<1>3. CASE RunAutoChecks
  BY <1>3, AutoCheckType DEF TypeInv, TypeOK, BatchKnown, RunAutoChecks, source, routes, rows, bounds
<1>4. CASE \E s \in Segments, outcome \in {"pass", "fail"} : SaveManualFinding(s, outcome)
  BY <1>4 DEF TypeInv, TypeOK, BatchKnown, SaveManualFinding, Statuses, Verdicts, Complete,
     Faulty, source, routes, rows, bounds
<1> QED BY <1>1, <1>2, <1>3, <1>4

\* What Resolve does to the tables, with the names its definition hides.
LEMMA ResolveStep ==
  ASSUME TypeOK, Resolve
  PROVE  /\ ~tx.running /\ tx' = tx
         /\ form.rec \in Records /\ form.seg \in Segments
         /\ coll[form.rec] # None => coll' = [coll EXCEPT ![form.rec].seg = form.seg]
         /\ coll[form.rec] = None =>
              coll' = [coll EXCEPT ![form.rec] =
                        [seg |-> form.seg, vt |-> unmapped[form.rec].raw.vt, active |-> TRUE,
                         ts |-> unmapped[form.rec].raw.ts]]
         /\ unmapped' = [unmapped EXCEPT ![form.rec].open = 0]
         /\ status' = Refreshed(coll', status, {form.seg})
         /\ stale' = (stale \cup ({SegmentOf(coll, form.rec)} \ {None})) \ {form.seg}
         /\ form' = [stage |-> "check", seg |-> form.seg]
<1>1. form.rec \in Records /\ form.seg \in Segments
  BY DEF Resolve, TypeOK, FormType, NoForm
<1> QED BY <1>1 DEF Resolve
\* The row a page lets the user resolve has a collected record, so that
\* replay_unmapped always takes its branch for an existing record.
FormKnown == form.stage = "chosen" => coll[form.rec] # None

LEMMA ResolveType ==
  ASSUME TypeInv, FormKnown, Resolve PROVE TypeInv'
<1> USE ResolveStep DEF TypeInv
<1>1. coll[form.rec] \in Row /\ unmapped[form.rec] \in Ticket
  BY DEF TypeOK, FormKnown, Resolve, Table
<1>2. [coll[form.rec] EXCEPT !.seg = form.seg] \in Row
  BY <1>1 DEF Row
<1>3. coll' \in Table
  BY <1>2, NoneAssumption DEF TypeOK, FormKnown, Resolve, Table
<1>4. [unmapped[form.rec] EXCEPT !.open = 0] \in Ticket
  BY <1>1 DEF Ticket
<1>5. unmapped' \in [Records -> Ticket]
  BY <1>4 DEF TypeOK
<1>6. status' \in [Segments -> Statuses]
  <2>1. status \in [Segments -> Statuses]
    BY DEF TypeOK
  <2>2. status' = Refreshed(coll', status, {form.seg})
    OBVIOUS
  <2> HIDE ResolveStep
  <2> QED BY <2>1, <2>2, RefreshedType
<1>7. form' \in FormType
  BY DEF FormType
<1>8. stale' \subseteq Segments
  BY SegmentOfType DEF TypeOK
<1> QED
  BY <1>3, <1>5, <1>6, <1>7, <1>8 DEF TypeOK, BatchKnown, Resolve, source, routes, bounds

LEMMA PageType ==
  ASSUME TypeInv,
         (\E r \in Records, s \in Segments : ChooseSegment(r, s))
           \/ ClosePage \/ ResolveVerify \/ ResolveCrash
  PROVE  TypeInv'
<1>1. CASE \E r \in Records, s \in Segments : ChooseSegment(r, s)
  BY <1>1 DEF TypeInv, TypeOK, BatchKnown, ChooseSegment, FormType, source, routes, reviews,
     rows, history, bounds
<1>2. CASE ClosePage
  BY <1>2 DEF TypeInv, TypeOK, BatchKnown, ClosePage, FormType, source, routes, reviews,
     rows, history, bounds
<1>3. CASE ResolveVerify
  <2>1. form.seg \in Segments
    BY <1>3 DEF ResolveVerify, TypeInv, TypeOK, FormType, NoForm
  <2> QED
    BY <1>3, <2>1, AutoCheckType DEF TypeInv, TypeOK, BatchKnown, ResolveVerify, FormType,
       source, routes, rows, bounds
<1>4. CASE ResolveCrash
  <2>1. form.seg \in Segments
    BY <1>4 DEF ResolveCrash, TypeInv, TypeOK, FormType, NoForm
  <2> QED
    BY <1>4, <2>1 DEF TypeInv, TypeOK, BatchKnown, ResolveCrash, FormType, source, routes,
       reviews, rows
<1> QED BY <1>1, <1>2, <1>3, <1>4

LEMMA ImportType ==
  ASSUME TypeInv, NEW f \in Files, ImportExcel(f) PROVE TypeInv'
<1>1. DOMAIN f \subseteq Segments /\ \A s \in DOMAIN f : f[s] \in SUBSET Positions
  BY FilesAssumption
<1>2. need' \in [Segments -> SUBSET Positions]
  BY <1>1 DEF ImportExcel, TypeInv, TypeOK
<1> QED
  BY <1>1, <1>2 DEF TypeInv, TypeOK, BatchKnown, ImportExcel, source, reviews, rows

-----------------------------------------------------------------------------
(* The ledger.  A sync works on its own copy of the tables, so the ledger   *)
(* has to hold of that copy too, and the copy must not lose a row: a page   *)
(* opened before the sync still finds its record after it.                  *)

TxKeepsRows == \A r \in Records : coll[r] # None => tx.coll[r] # None

TicketInv ==
    /\ OneTicketEach
    /\ FormKnown
    /\ tx.running => Ledger(tx.coll, tx.unmapped) /\ TxKeepsRows

\* Processing a record keeps the ledger, and drops no row.
LEMMA LedgerStep ==
  ASSUME live \subseteq Segments, NEW c \in Table, NEW u \in [Records -> Ticket],
         NEW r \in Records, NEW v \in Version, Ledger(c, u)
  PROVE  /\ Ledger(Stored(c, r, v), Ticketed(c, u, r, v))
         /\ \A q \in Records : c[q] # None => Stored(c, r, v)[q] # None
<1> DEFINE c1 == Stored(c, r, v)
           u1 == Ticketed(c, u, r, v)
<1>1. ASSUME NEW q \in Records, q # r PROVE c1[q] = c[q] /\ u1[q].open = u[q].open
  BY <1>1 DEF Stored, Ticketed, Table
<1>2. CASE v.deleted
  <2>1. CASE c[r] = None
    BY <1>2, <2>1 DEF Stored, Ticketed
  <2>2. CASE c[r] # None
    <3>1. c[r] \in Row /\ c1[r] = [c[r] EXCEPT !.active = FALSE]
      BY <1>2, <2>2 DEF Stored, Table
    <3>2. c1[r] \in Row /\ c1[r].seg = c[r].seg
      BY <3>1 DEF Row
    <3> QED
      BY <1>1, <1>2, <2>2, <3>2, RowAssumption DEF Ledger, Ticketed
  <2> QED BY <2>1, <2>2
<1>3. CASE ~v.deleted
  <2>1. c1[r] = [seg |-> FindSegment(v), vt |-> v.vt, active |-> TRUE, ts |-> v.ts]
    BY <1>3 DEF Stored, Table
  <2>2. c1[r] # None /\ c1[r].seg = FindSegment(v)
    <3>1. FindSegment(v) \in Segments \cup {None}
      BY FindSegmentType
    <3>2. c1[r] \in Row
      BY <2>1, <3>1 DEF Row, Version
    <3> HIDE DEF c1
    <3>3. c1[r].seg = FindSegment(v)
      BY <2>1
    <3> QED BY <3>2, <3>3, RowAssumption
  <2>3. u1[r].open = IF FindSegment(v) = None THEN 1 ELSE 0
    <3>1. u[r] \in Ticket /\ u[r].open = IF c[r] # None /\ c[r].seg = None THEN 1 ELSE 0
      BY DEF Ledger
    <3>2. CASE FindSegment(v) # None
      BY <1>3, <3>1, <3>2 DEF Ticketed, Ticket
    <3>3. CASE FindSegment(v) = None /\ c[r] # None /\ u[r].open > 0
      BY <1>3, <3>1, <3>3 DEF Ticketed
    <3>4. CASE FindSegment(v) = None /\ ~(c[r] # None /\ u[r].open > 0)
      BY <1>3, <3>1, <3>4 DEF Ticketed
    <3> QED BY <3>2, <3>3, <3>4
  <2> QED
    BY <1>1, <2>2, <2>3 DEF Ledger
<1> QED BY <1>2, <1>3
LEMMA InitTickets == Init => TicketInv
BY DEF Init, TicketInv, OneTicketEach, Ledger, FormKnown, NoForm, NoTx

LEMMA TicketStep ==
  ASSUME TypeInv, TicketInv, [Next]_vars PROVE TicketInv'
<1> USE DEF TypeInv, TicketInv, OneTicketEach
<1>1. CASE \E r \in Records, x \in Contents : Publish(r, x)
  BY <1>1 DEF Publish, rows, FormKnown, TxKeepsRows, Ledger
<1>2. CASE SyncBegin
  BY <1>2 DEF SyncBegin, rows, FormKnown, TxKeepsRows, Ledger
<1>3. CASE SyncFetch
  <2>1. tx \in TxType
    BY <1>3, TxRunning DEF SyncFetch
  <2>2. tx'.coll = tx.coll /\ tx'.unmapped = tx.unmapped
    BY <1>3, <2>1 DEF SyncFetch, TxType
  <2> QED BY <1>3, <2>2 DEF SyncFetch, rows, FormKnown, TxKeepsRows, Ledger
<1>4. ASSUME NEW r \in Records, SyncRecord(r) PROVE TicketInv'
  <2>1. tx \in TxType
    BY <1>4, TxRunning DEF SyncRecord
  <2>2. tx.feed[r] \in Version
    BY <1>4, <2>1 DEF BatchKnown, SyncRecord, TxType
  <2>3. /\ tx'.coll = Stored(tx.coll, r, tx.feed[r])
        /\ tx'.unmapped = Ticketed(tx.coll, tx.unmapped, r, tx.feed[r])
    BY <1>4, <2>1 DEF SyncRecord, TxType
  <2>4. live \subseteq Segments /\ tx.coll \in Table /\ tx.unmapped \in [Records -> Ticket]
    BY <2>1 DEF TypeOK, TxType
  <2>5. Ledger(tx.coll, tx.unmapped) /\ tx.running
    BY <1>4 DEF SyncRecord
  <2>6. /\ Ledger(tx'.coll, tx'.unmapped)
        /\ \A q \in Records : tx.coll[q] # None => tx'.coll[q] # None
    BY <2>2, <2>3, <2>4, <2>5, LedgerStep
  <2> QED BY <1>4, <2>5, <2>6 DEF SyncRecord, rows, FormKnown, TxKeepsRows, Ledger
<1>5. CASE SyncCommit
  BY <1>5 DEF SyncCommit, NoTx, FormKnown, TxKeepsRows, Ledger, TypeOK, FormType, NoForm
<1>6. CASE SyncAbort
  BY <1>6 DEF SyncAbort, NoTx, rows, FormKnown, Ledger
<1>7. CASE SyncVerify \/ SyncCrash
  BY <1>7 DEF SyncVerify, SyncCrash, rows, FormKnown, TxKeepsRows, Ledger
<1>8. CASE RunAutoChecks
  BY <1>8 DEF RunAutoChecks, rows, FormKnown, TxKeepsRows, Ledger
<1>9. CASE \E s \in Segments, outcome \in {"pass", "fail"} : SaveManualFinding(s, outcome)
  BY <1>9 DEF SaveManualFinding, rows, FormKnown, TxKeepsRows, Ledger
<1>10. ASSUME NEW r \in Records, NEW s \in Segments, ChooseSegment(r, s) PROVE TicketInv'
  <2>1. form'.rec = r /\ coll[r] # None /\ ~tx.running
    BY <1>10 DEF ChooseSegment, Ledger
  <2> QED BY <1>10, <2>1 DEF ChooseSegment, rows, FormKnown, Ledger
<1>11. CASE ClosePage \/ ResolveVerify \/ ResolveCrash
  BY <1>11 DEF ClosePage, ResolveVerify, ResolveCrash, NoForm, rows, FormKnown, TxKeepsRows, Ledger
<1>12. CASE Resolve
  <2> DEFINE q == form.rec
  <2>1. coll[q] \in Row /\ unmapped[q] \in Ticket /\ q \in Records
    BY <1>12, ResolveStep DEF TypeOK, FormKnown, Resolve, Table
  <2>2. coll'[q] = [coll[q] EXCEPT !.seg = form.seg]
    BY <1>12, <2>1, ResolveStep DEF FormKnown, Resolve, TypeOK, Table
  <2>3. coll'[q] \in Row /\ coll'[q].seg = form.seg /\ form.seg \in Segments
    BY <1>12, <2>1, <2>2, ResolveStep DEF Row
  <2>4. unmapped'[q].open = 0
    BY <1>12, <2>1, ResolveStep DEF TypeOK, Ticket
  <2>5. \A r \in Records \ {q} : coll'[r] = coll[r] /\ unmapped'[r] = unmapped[r]
    BY <1>12, ResolveStep DEF TypeOK, Table
  <2>6. Ledger(coll', unmapped')
    BY <2>3, <2>4, <2>5, NoneAssumption DEF Ledger
  <2> QED BY <1>12, <2>6, ResolveStep DEF FormKnown, Ledger
<1>13. CASE \E f \in Files : ImportExcel(f)
  BY <1>13 DEF ImportExcel, rows, FormKnown, TxKeepsRows, Ledger
<1>14. CASE UNCHANGED vars
  BY <1>14 DEF vars, rows, FormKnown, TxKeepsRows, Ledger
<1> QED
  BY <1>1, <1>2, <1>3, <1>4, <1>5, <1>6, <1>7, <1>8, <1>9, <1>10, <1>11, <1>12, <1>13, <1>14
  DEF Next

LEMMA TypeStep ==
  ASSUME TypeInv, TicketInv, [Next]_vars PROVE TypeInv'
<1>1. CASE UNCHANGED vars
  BY <1>1 DEF vars, source, routes, reviews, rows, history, bounds, TypeInv, TypeOK, BatchKnown
<1>2. CASE Next
  BY <1>2, PublishType, SyncBeginType, SyncFetchType, SyncRecordType, SyncEndType, VerifierType,
     ResolveType, PageType, ImportType DEF Next, TicketInv
<1> QED BY <1>1, <1>2

\* Every state of every behaviour is well typed, and its replay branch for a
\* record that has no row is dead (FormKnown, in TicketInv).
THEOREM Invariants == Spec => [](TypeInv /\ TicketInv)
<1>1. Init => TypeInv /\ TicketInv
  BY InitType, InitTickets
<1>2. TypeInv /\ TicketInv /\ [Next]_vars => (TypeInv /\ TicketInv)'
  BY TypeStep, TicketStep
<1> QED BY <1>1, <1>2, PTL DEF Spec

\* The variables keep their types: TypeOK of Collection.
THEOREM TypeCorrect == Spec => []TypeOK
<1>1. TypeInv /\ TicketInv => TypeOK
  BY DEF TypeInv
<1> QED BY <1>1, Invariants, PTL

\* Every collected record without a segment waits exactly once on the
\* Unmapped Records page, and no other record does.
THEOREM TicketsBalance == Spec => []OneTicketEach
<1>1. TypeInv /\ TicketInv => OneTicketEach
  BY DEF TicketInv
<1> QED BY <1>1, Invariants, PTL
-----------------------------------------------------------------------------
(* The workflow.  Nobody but the verifier moves a segment in or out of the  *)
(* faulty status: a running sync has the same faulty segments as the tables.*)

FaultyInv ==
    /\ FaultyIsLogged
    /\ tx.running => \A s \in Segments : tx.status[s] = Faulty <=> status[s] = Faulty

\* A recalculation leaves a status or moves one that is not faulty.
LEMMA RefreshedMoves ==
  ASSUME NEW c, NEW st \in [Segments -> Statuses], NEW T, NEW s \in Segments
  PROVE  \/ Refreshed(c, st, T)[s] = st[s]
         \/ st[s] # Faulty /\ Refreshed(c, st, T)[s] \in {NotStarted, Collecting, Full, Complete}
BY StatusOfDataType DEF Refreshed, Recalculated

\* A recalculation neither clears a failure nor makes one.
LEMMA RefreshedKeepsFaulty ==
  ASSUME NEW c, NEW st \in [Segments -> Statuses], NEW T, NEW s \in Segments
  PROVE  Refreshed(c, st, T)[s] = Faulty <=> st[s] = Faulty
BY RefreshedMoves DEF NotStarted, Collecting, Full, Complete, Faulty

\* To one segment, an auto-check is a check of the abstract lifecycle or nothing.
LEMMA AutoCheckMoves ==
  ASSUME TypeOK, NEW T, AutoCheck(T), NEW s \in Segments
  PROVE  Lifecycle!AutoCheck(s) \/ Lifecycle!Stay(s)
BY DEF AutoCheck, TypeOK, Checkable, Full, Complete, Faulty, Lifecycle!AutoCheck, Lifecycle!Stay,
   Lifecycle!Become, Lifecycle!Full, Lifecycle!Complete, Lifecycle!Faulty

\* An auto-check logs the failures it sets.
LEMMA AutoCheckLogs ==
  ASSUME TypeOK, NEW T, AutoCheck(T), FaultyIsLogged PROVE FaultyIsLogged'
BY DEF AutoCheck, TypeOK, FaultyIsLogged, Checkable, Full, Complete, Faulty

\* A manual finding is a review of its own segment and nothing to others.
LEMMA ReviewMoves ==
  ASSUME TypeOK, NEW s \in Segments, NEW outcome, SaveManualFinding(s, outcome)
  PROVE  /\ Lifecycle!Review(s)
         /\ \A q \in Segments \ {s} : status'[q] = status[q] /\ verdict'[q] = verdict[q]
BY DEF SaveManualFinding, TypeOK, Reviewable, Full, Complete, Faulty, Lifecycle!Review,
   Lifecycle!Become, Lifecycle!Full, Lifecycle!Complete, Lifecycle!Faulty

LEMMA InitFaulty == Init => FaultyInv
BY DEF Init, FaultyInv, FaultyIsLogged, NoTx, NotStarted, Faulty

LEMMA FaultyStep ==
  ASSUME TypeInv, FaultyInv, [Next]_vars PROVE FaultyInv'
<1> USE DEF TypeInv, FaultyInv
<1>1. ASSUME UNCHANGED <<status, verdict>>, UNCHANGED tx \/ tx' = NoTx PROVE FaultyInv'
  BY <1>1 DEF FaultyIsLogged, NoTx
<1>2. CASE SyncBegin
  BY <1>2 DEF SyncBegin, reviews, FaultyIsLogged
<1>3. CASE SyncFetch
  <2>1. tx \in TxType
    BY <1>3, TxRunning DEF SyncFetch
  <2>2. tx'.status = tx.status /\ tx.running
    BY <1>3, <2>1 DEF SyncFetch, TxType
  <2> QED BY <1>3, <2>2 DEF SyncFetch, reviews, FaultyIsLogged
<1>4. ASSUME NEW r \in Records, SyncRecord(r) PROVE FaultyInv'
  <2>1. tx \in TxType /\ tx.running
    BY <1>4, TxRunning DEF SyncRecord
  <2> DEFINE c == Stored(tx.coll, r, tx.feed[r])
             T == Touched(tx.coll, r, tx.feed[r])
  <2>2. tx'.status = Refreshed(c, tx.status, T)
    BY <1>4, <2>1 DEF SyncRecord, TxType
  <2>3. tx.status \in [Segments -> Statuses]
    BY <2>1 DEF TxType
  <2> HIDE DEF c, T
  <2>4. \A s \in Segments : tx'.status[s] = Faulty <=> tx.status[s] = Faulty
    BY <2>2, <2>3, RefreshedKeepsFaulty
  <2> QED BY <1>4, <2>1, <2>4 DEF SyncRecord, reviews, FaultyIsLogged
<1>5. CASE SyncCommit
  BY <1>5 DEF SyncCommit, NoTx, FaultyIsLogged
<1>6. ASSUME NEW T, AutoCheck(T), UNCHANGED tx PROVE FaultyInv'
  BY <1>6, AutoCheckLogs DEF AutoCheck
<1>7. CASE SyncVerify \/ RunAutoChecks \/ ResolveVerify
  BY <1>6, <1>7 DEF SyncVerify, RunAutoChecks, ResolveVerify
<1>8. CASE \E s \in Segments, outcome \in {"pass", "fail"} : SaveManualFinding(s, outcome)
  BY <1>8 DEF SaveManualFinding, FaultyIsLogged, TypeOK, Complete, Faulty
<1>9. CASE Resolve
  <2>1. status \in [Segments -> Statuses]
    BY DEF TypeOK
  <2>2. \A s \in Segments : status'[s] = Faulty <=> status[s] = Faulty
    BY <1>9, <2>1, ResolveStep, RefreshedKeepsFaulty
  <2> QED BY <1>9, <2>2 DEF Resolve, FaultyIsLogged
<1>10. CASE \/ \E r \in Records, x \in Contents : Publish(r, x)
            \/ SyncAbort \/ SyncCrash \/ ClosePage \/ ResolveCrash
            \/ \E r \in Records, s \in Segments : ChooseSegment(r, s)
            \/ \E f \in Files : ImportExcel(f)
            \/ UNCHANGED vars
  BY <1>1, <1>10 DEF Publish, SyncAbort, SyncCrash, ClosePage, ResolveCrash, ChooseSegment,
     ImportExcel, vars, reviews
<1> QED
  BY <1>2, <1>3, <1>4, <1>5, <1>7, <1>8, <1>9, <1>10 DEF Next

\* Every segment makes a move of the abstract workflow, or none.
LEMMA LifecycleStep ==
  ASSUME TypeInv, FaultyInv, [Next]_vars
  PROVE  [Lifecycle!Next]_<<status, verdict>>
<1> DEFINE Moves(s) == \/ Lifecycle!Recompute(s) \/ Lifecycle!AutoCheck(s)
                       \/ Lifecycle!Review(s)    \/ Lifecycle!Stay(s)
<1>1. CASE SyncCommit
  <2>1. tx \in TxType /\ tx.running
    BY <1>1, TxRunning DEF SyncCommit, TypeInv
  <2>2. ASSUME NEW s \in Segments PROVE Lifecycle!Recompute(s) \/ Lifecycle!Stay(s)
    <3>1. /\ status'[s] = tx.status[s] /\ tx.status[s] \in Statuses
          /\ verdict'[s] = verdict[s]
          /\ tx.status[s] = Faulty <=> status[s] = Faulty
      BY <1>1, <2>1 DEF SyncCommit, TxType, FaultyInv
    <3> QED
      BY <3>1 DEF Statuses, NotStarted, Collecting, Full, Complete, Faulty, Lifecycle!Recompute,
         Lifecycle!Stay, Lifecycle!Become, Lifecycle!NotStarted, Lifecycle!Collecting,
         Lifecycle!Full, Lifecycle!Complete, Lifecycle!Faulty
  <2> QED BY <2>2 DEF Lifecycle!Next
<1>2. CASE Resolve
  <2>1. status \in [Segments -> Statuses]
    BY DEF TypeInv, TypeOK
  <2>2. ASSUME NEW s \in Segments PROVE Lifecycle!Recompute(s) \/ Lifecycle!Stay(s)
    <3>1. /\ \/ status'[s] = status[s]
             \/ status[s] # Faulty /\ status'[s] \in {NotStarted, Collecting, Full, Complete}
          /\ verdict' = verdict
      BY <1>2, <2>1, ResolveStep, RefreshedMoves DEF Resolve, TypeInv
    <3> QED
      BY <3>1 DEF NotStarted, Collecting, Full, Complete, Faulty, Lifecycle!Recompute,
         Lifecycle!Stay, Lifecycle!Become, Lifecycle!NotStarted, Lifecycle!Collecting,
         Lifecycle!Full, Lifecycle!Complete, Lifecycle!Faulty
  <2> QED BY <2>2 DEF Lifecycle!Next
<1>3. CASE SyncVerify \/ RunAutoChecks \/ ResolveVerify
  <2>1. PICK T : AutoCheck(T)
    BY <1>3 DEF SyncVerify, RunAutoChecks, ResolveVerify
  <2> QED BY <2>1, AutoCheckMoves DEF Lifecycle!Next, TypeInv
<1>4. CASE \E s \in Segments, outcome \in {"pass", "fail"} : SaveManualFinding(s, outcome)
  BY <1>4, ReviewMoves DEF Lifecycle!Next, Lifecycle!Stay, Lifecycle!Become, TypeInv
<1>5. CASE \/ \E r \in Records, x \in Contents : Publish(r, x)
           \/ SyncBegin \/ SyncFetch \/ (\E r \in Records : SyncRecord(r))
           \/ SyncAbort \/ SyncCrash \/ ClosePage \/ ResolveCrash
           \/ \E r \in Records, s \in Segments : ChooseSegment(r, s)
           \/ \E f \in Files : ImportExcel(f)
           \/ UNCHANGED vars
  BY <1>5 DEF Publish, SyncBegin, SyncFetch, SyncRecord, SyncAbort, SyncCrash, ClosePage,
     ResolveCrash, ChooseSegment, ImportExcel, vars, reviews
<1> QED
  BY <1>1, <1>2, <1>3, <1>4, <1>5 DEF Next

\* A segment is faulty exactly when the newest line of its log is a failure.
THEOREM FaultyMeansFailed == Spec => []FaultyIsLogged
<1>1. Init => FaultyInv
  BY InitFaulty
<1>2. TypeInv /\ FaultyInv /\ [Next]_vars => FaultyInv'
  BY FaultyStep
<1>3. FaultyInv => FaultyIsLogged
  BY DEF FaultyInv
<1>4. TypeInv /\ TicketInv => TypeInv
  OBVIOUS
<1> QED BY <1>1, <1>2, <1>3, <1>4, Invariants, PTL DEF Spec

\* Syncs, replays, checks, reviews, imports and crashes together implement
\* the workflow of StatusLifecycle, segment by segment.
THEOREM ImplementsLifecycle == Spec => ObeysLifecycle
<1>1. Init => Lifecycle!Init
  BY DEF Init, Lifecycle!Init, NotStarted, Lifecycle!NotStarted
<1>2. Init => FaultyInv
  BY InitFaulty
<1>3. TypeInv /\ FaultyInv /\ [Next]_vars => FaultyInv'
  BY FaultyStep
<1>4. TypeInv /\ FaultyInv /\ [Next]_vars => [Lifecycle!Next]_<<status, verdict>>
  BY LifecycleStep
<1>5. TypeInv /\ TicketInv => TypeInv
  OBVIOUS
<1> QED
  BY <1>1, <1>2, <1>3, <1>4, <1>5, Invariants, PTL DEF Spec, ObeysLifecycle, Lifecycle!Spec
-----------------------------------------------------------------------------
(* Statuses follow the data.  A transaction that changes the row of one     *)
(* record can disturb only the segments the row is in before and after it.  *)

StatusInv ==
    /\ StatusFollowsData
    /\ tx.running => Accurate(tx.coll, tx.status, tx.stale)

\* The data of a segment that the record neither left nor entered say the same.
LEMMA OtherSegmentsKeepStatus ==
  ASSUME NEW c, NEW d, NEW r \in Records, NEW s, NEW pos,
         \A q \in Records \ {r} : d[q] = c[q],
         s # None, SegmentOf(c, r) # s, SegmentOf(d, r) # s
  PROVE  StatusOfData(d, s, pos) = StatusOfData(c, s, pos)
<1>1. r \notin ActiveRows(c, s) /\ r \notin ActiveRows(d, s)
  BY DEF ActiveRows, SegmentOf
<1>2. ActiveRows(d, s) = ActiveRows(c, s)
  BY <1>1 DEF ActiveRows
<1>3. \A q \in ActiveRows(c, s) : d[q] = c[q]
  BY <1>1 DEF ActiveRows
<1>4. ASSUME NEW p PROVE CountAt(d, s, p) = CountAt(c, s, p)
  <2>1. {q \in ActiveRows(d, s) : d[q].vt = p} = {q \in ActiveRows(c, s) : c[q].vt = p}
    BY <1>2, <1>3
  <2> QED BY <2>1 DEF CountAt
<1>5. QuotaMet(d, s, pos) <=> QuotaMet(c, s, pos)
  BY <1>4 DEF QuotaMet
<1>6. WrongPosition(d, s, pos) <=> WrongPosition(c, s, pos)
  BY <1>2, <1>3 DEF WrongPosition
<1> QED BY <1>4, <1>5, <1>6 DEF StatusOfData

\* A recalculated segment is accurate, one outside T stays so if its data do.
LEMMA RefreshedAccurate ==
  ASSUME NEW c, NEW d, NEW st \in [Segments -> Statuses], NEW old, NEW new, NEW T,
         Accurate(c, st, old),
         old \subseteq new \cup T,
         \A s \in Segments \ (new \cup T) :
            StatusOfData(d, s, need[s]) = StatusOfData(c, s, need[s])
  PROVE  Accurate(d, Refreshed(d, st, T), new)
<1> SUFFICES ASSUME NEW s \in Segments \ new, need[s] # {}, Refreshed(d, st, T)[s] # Faulty
             PROVE  Refreshed(d, st, T)[s] = StatusOfData(d, s, need[s])
  BY DEF Accurate
<1>1. CASE s \in T
  <2>1. Refreshed(d, st, T)[s] = Recalculated(d, s, need[s], st[s])
    BY <1>1 DEF Refreshed
  <2> QED BY <2>1 DEF Recalculated
<1>2. CASE s \notin T
  <2>1. Refreshed(d, st, T)[s] = st[s]
    BY <1>2 DEF Refreshed
  <2>2. StatusOfData(d, s, need[s]) = StatusOfData(c, s, need[s])
    BY <1>2
  <2>3. s \in Segments \ old
    BY <1>2
  <2>4. st[s] = StatusOfData(c, s, need[s])
    BY <2>1, <2>3 DEF Accurate
  <2> QED BY <2>1, <2>2, <2>4
<1> QED BY <1>1, <1>2

\* Rows can be counted.
LEMMA CountIsNat ==
  ASSUME NEW c, NEW s, NEW p PROVE CountAt(c, s, p) \in Nat
<1>1. IsFiniteSet(Records)
  BY RecordsAssumption
<1>2. {r \in ActiveRows(c, s) : c[r].vt = p} \subseteq Records
  BY DEF ActiveRows
<1>3. IsFiniteSet({r \in ActiveRows(c, s) : c[r].vt = p})
  BY <1>1, <1>2, FS_Subset
<1> QED BY <1>3, FS_CardinalityType DEF CountAt

\* An auto-check that passes agrees with what a recalculation would say.
LEMMA PassIsComplete ==
  ASSUME NEW c, NEW s, NEW pos, pos # {}, ChecksPass(c, s, pos)
  PROVE  StatusOfData(c, s, pos) = Complete
<1>1. QuotaMet(c, s, pos) /\ ~WrongPosition(c, s, pos)
  BY DEF ChecksPass
<1>2. \A p \in pos : CountAt(c, s, p) # 0
  BY <1>1, CountIsNat, QuotaAssumption DEF QuotaMet
<1>3. \E p \in pos : CountAt(c, s, p) # 0
  BY <1>2
<1> QED BY <1>1, <1>3 DEF StatusOfData

\* An auto-check keeps statuses accurate.
LEMMA AutoCheckAccurate ==
  ASSUME TypeOK, StatusFollowsData, NEW T, AutoCheck(T), UNCHANGED <<need, coll>>
  PROVE  StatusFollowsData'
<1> SUFFICES ASSUME NEW s \in Segments \ stale', need[s] # {}, status'[s] # Faulty
             PROVE  status'[s] = StatusOfData(coll, s, need[s])
  BY DEF StatusFollowsData, Accurate
<1>1. CASE s \in T /\ s \in live /\ status[s] \in Checkable
  <2>1. ChecksPass(coll, s, need[s]) /\ status'[s] = Complete
    BY <1>1 DEF AutoCheck
  <2> QED BY <2>1, PassIsComplete
<1>2. CASE ~(s \in T /\ s \in live /\ status[s] \in Checkable)
  <2>1. status'[s] = status[s] /\ s \notin stale
    BY <1>2 DEF AutoCheck
  <2> QED BY <2>1 DEF StatusFollowsData, Accurate
<1> QED BY <1>1, <1>2
LEMMA InitAccurate == Init => StatusInv
BY DEF Init, StatusInv, StatusFollowsData, Accurate, NoTx

\* One record of a sync: the segments it touches are recalculated, no other
\* segment gains or loses a row.
LEMMA RecordAccurate ==
  ASSUME TypeInv, StatusInv, NEW r \in Records, SyncRecord(r)
  PROVE  Accurate(tx'.coll, tx'.status, tx'.stale)
<1> DEFINE v == tx.feed[r]
           c == tx.coll
           d == Stored(c, r, v)
           T == Touched(c, r, v)
<1>1. tx \in TxType /\ tx.running
  BY TxRunning DEF SyncRecord, TypeInv
<1>2. v \in Version /\ live \subseteq Segments /\ c \in Table
  BY <1>1 DEF BatchKnown, SyncRecord, TxType, TypeInv, TypeOK
<1>3. tx'.coll = d /\ tx'.status = Refreshed(d, tx.status, T) /\ tx'.stale = tx.stale \ T
  BY <1>1 DEF SyncRecord, TxType
<1>4. SegmentOf(d, r) \in T \cup {None}
  <2>1. d \in Table
    BY <1>2, StoredType
  <2>2. CASE v.deleted
    <3>1. CASE c[r] = None
      BY <2>2, <3>1 DEF Stored, SegmentOf
    <3>2. CASE c[r] # None
      <4>1. c[r] \in Row /\ d[r] = [c[r] EXCEPT !.active = FALSE]
        BY <1>2, <2>2, <3>2 DEF Stored, Table
      <4>2. d[r].seg = c[r].seg
        BY <4>1 DEF Row
      <4> QED BY <2>2, <3>2, <4>2 DEF SegmentOf, Touched
    <3> QED BY <3>1, <3>2
  <2>3. CASE ~v.deleted
    <3>1. d[r] = [seg |-> FindSegment(v), vt |-> v.vt, active |-> TRUE, ts |-> v.ts]
      BY <1>2, <2>3 DEF Stored, Table
    <3> HIDE DEF d
    <3>2. d[r].seg = FindSegment(v)
      BY <3>1
    <3> QED BY <2>3, <3>2 DEF SegmentOf, Touched
  <2> QED BY <2>2, <2>3
<1>5. SegmentOf(c, r) \in T \cup {None}
  BY DEF Touched
<1>6. \A q \in Records \ {r} : d[q] = c[q]
  BY <1>2 DEF Stored, Table
<1>7. Accurate(c, tx.status, tx.stale) /\ tx.status \in [Segments -> Statuses]
  BY <1>1 DEF StatusInv, TxType
<1> HIDE DEF c, d, T, v
<1>8. \A s \in Segments \ T : StatusOfData(d, s, need[s]) = StatusOfData(c, s, need[s])
  <2> TAKE s \in Segments \ T
  <2>1. s # None /\ SegmentOf(c, r) # s /\ SegmentOf(d, r) # s
    BY <1>4, <1>5, NoneAssumption
  <2> QED BY <1>6, <2>1, OtherSegmentsKeepStatus
<1>9. Accurate(d, Refreshed(d, tx.status, T), tx.stale \ T)
  BY <1>7, <1>8, RefreshedAccurate
<1> QED BY <1>3, <1>9

\* A replay keeps statuses accurate, but for the segment it took the record from.
LEMMA ResolveAccurate ==
  ASSUME TypeInv, FormKnown, StatusInv, Resolve
  PROVE  Accurate(coll', status', stale')
<1> DEFINE r == form.rec
           T == {form.seg}
<1>1. /\ r \in Records /\ form.seg \in Segments
      /\ coll' = [coll EXCEPT ![r].seg = form.seg]
      /\ status' = Refreshed(coll', status, T)
      /\ stale' = (stale \cup ({SegmentOf(coll, r)} \ {None})) \ T
  BY ResolveStep DEF FormKnown, Resolve, TypeInv
<1>2. status \in [Segments -> Statuses] /\ coll \in Table
  BY DEF TypeInv, TypeOK
<1>3. coll[r] \in Row
  BY <1>1, <1>2 DEF FormKnown, Resolve, Table
<1>4. \A q \in Records \ {r} : coll'[q] = coll[q]
  BY <1>1, <1>2 DEF Table
<1>5. SegmentOf(coll', r) \in T \cup {None}
  <2>1. coll'[r] = [coll[r] EXCEPT !.seg = form.seg]
    BY <1>1, <1>2 DEF Table
  <2>2. coll'[r].seg = form.seg
    BY <2>1, <1>3 DEF Row
  <2> QED BY <2>2 DEF SegmentOf
<1>6. \A s \in Segments \ (stale' \cup T) :
        StatusOfData(coll', s, need[s]) = StatusOfData(coll, s, need[s])
  <2> TAKE s \in Segments \ (stale' \cup T)
  <2>1. s # None /\ SegmentOf(coll, r) # s /\ SegmentOf(coll', r) # s
    BY <1>1, <1>5, NoneAssumption
  <2>2. r \in Records
    BY <1>1
  <2> HIDE DEF r
  <2> QED BY <1>4, <2>1, <2>2, OtherSegmentsKeepStatus
<1>7. stale \subseteq stale' \cup T
  BY <1>1
<1>8. Accurate(coll, status, stale)
  BY DEF StatusInv, StatusFollowsData
<1> HIDE DEF T
<1> QED BY <1>1, <1>2, <1>6, <1>7, <1>8, RefreshedAccurate
LEMMA StatusStep ==
  ASSUME TypeInv, FormKnown, StatusInv, [Next]_vars PROVE StatusInv'
<1> USE DEF StatusInv
<1>1. ASSUME UNCHANGED <<routes, reviews, rows, stale>>, UNCHANGED tx \/ tx' = NoTx
      PROVE  StatusInv'
  BY <1>1 DEF routes, reviews, rows, StatusFollowsData, Accurate, NoTx
<1>2. CASE SyncBegin
  BY <1>2 DEF SyncBegin, routes, reviews, rows, history, StatusFollowsData, Accurate
<1>3. CASE SyncFetch
  <2>1. tx \in TxType
    BY <1>3, TxRunning DEF SyncFetch, TypeInv
  <2>2. tx'.coll = tx.coll /\ tx'.status = tx.status /\ tx'.stale = tx.stale /\ tx.running
    BY <1>3, <2>1 DEF SyncFetch, TxType
  <2> QED
    BY <1>3, <2>2 DEF SyncFetch, routes, reviews, rows, history, StatusFollowsData, Accurate
<1>4. ASSUME NEW r \in Records, SyncRecord(r) PROVE StatusInv'
  <2>1. Accurate(tx'.coll, tx'.status, tx'.stale)
    BY <1>4, RecordAccurate
  <2>2. UNCHANGED <<need, coll, status, stale>>
    BY <1>4 DEF SyncRecord, routes, reviews, rows, history
  <2> QED BY <2>1, <2>2 DEF StatusFollowsData, Accurate
<1>5. CASE SyncCommit
  BY <1>5 DEF SyncCommit, NoTx, routes, StatusFollowsData, Accurate
<1>6. ASSUME NEW T, AutoCheck(T), UNCHANGED <<tx, need, coll>> PROVE StatusInv'
  <2>1. StatusFollowsData'
    BY <1>6, AutoCheckAccurate DEF TypeInv
  <2> QED BY <1>6, <2>1 DEF AutoCheck
<1>7. CASE SyncVerify \/ RunAutoChecks \/ ResolveVerify
  BY <1>6, <1>7 DEF SyncVerify, RunAutoChecks, ResolveVerify, routes, rows
<1>8. CASE \E s \in Segments, outcome \in {"pass", "fail"} : SaveManualFinding(s, outcome)
  BY <1>8 DEF SaveManualFinding, routes, rows, StatusFollowsData, Accurate, TypeInv, TypeOK
<1>9. CASE Resolve
  <2>1. Accurate(coll', status', stale') /\ need' = need /\ ~tx.running /\ tx' = tx
    BY <1>9, ResolveAccurate DEF Resolve, routes
  <2> QED BY <2>1 DEF StatusFollowsData, Accurate
<1>10. CASE \E f \in Files : ImportExcel(f)
  BY <1>10 DEF ImportExcel, reviews, rows, StatusFollowsData, Accurate, TypeInv, TypeOK
<1>11. CASE \/ \E r \in Records, x \in Contents : Publish(r, x)
            \/ SyncAbort \/ SyncCrash \/ ClosePage \/ ResolveCrash
            \/ \E r \in Records, s \in Segments : ChooseSegment(r, s)
            \/ UNCHANGED vars
  BY <1>1, <1>11 DEF Publish, SyncAbort, SyncCrash, ClosePage, ResolveCrash, ChooseSegment,
     history, vars
<1> QED
  BY <1>2, <1>3, <1>4, <1>5, <1>7, <1>8, <1>9, <1>10, <1>11 DEF Next

\* Except after a manual review, an import that changes its positions or a
\* replay that takes a record out of it, a segment's status is the one its
\* collected records call for.
THEOREM StatusIsAccurate == Spec => []StatusFollowsData
<1>1. Init => StatusInv
  BY InitAccurate
<1>2. TypeInv /\ TicketInv => TypeInv /\ FormKnown
  BY DEF TicketInv
<1>3. TypeInv /\ FormKnown /\ StatusInv /\ [Next]_vars => StatusInv'
  BY StatusStep
<1>4. StatusInv => StatusFollowsData
  BY DEF StatusInv
<1> QED BY <1>1, <1>2, <1>3, <1>4, Invariants, PTL DEF Spec

-----------------------------------------------------------------------------
(* Full segments are checked.  The claim is kept for inactive segments too, *)
(* because an import may bring one back; a running sync answers for the     *)
(* segments it has affected.                                                *)

Pending(s) == s \in post \/ (form.stage = "check" /\ form.seg = s) \/ s \in unchecked

CheckInv ==
    /\ \A s \in Segments : status[s] = Full => Pending(s)
    /\ tx.running =>
         /\ post = {}
         /\ \A s \in Segments : tx.status[s] = Full => s \in tx.affected \/ status[s] = Full

\* After an auto-check a full segment is still pending or excused.
LEMMA AutoCheckPending ==
  ASSUME TypeOK, CheckInv, NEW T \in SUBSET Segments, AutoCheck(T), NEW s \in Segments,
         status'[s] = Full
  PROVE  (s \notin T /\ Pending(s) /\ (s \in unchecked => s \in unchecked')) \/ s \in unchecked'
<1>1. ~(s \in T /\ s \in live /\ status[s] \in Checkable)
  BY DEF AutoCheck, Full, Complete, Faulty
<1>2. status[s] = Full
  BY <1>1 DEF AutoCheck
<1>3. s \notin T \/ s \notin live
  BY <1>1, <1>2 DEF Checkable
<1>4. CASE s \in T
  BY <1>1, <1>2, <1>3, <1>4 DEF AutoCheck
<1>5. CASE s \notin T
  BY <1>2, <1>5 DEF AutoCheck, CheckInv
<1> QED BY <1>4, <1>5

\* Every step keeps the pending checks.
LEMMA CheckStep ==
  ASSUME TypeInv, CheckInv, [Next]_vars PROVE CheckInv'
<1> USE DEF TypeInv, CheckInv
<1>1. ASSUME UNCHANGED <<status, post, form, unchecked>>, UNCHANGED tx \/ tx' = NoTx
      PROVE  CheckInv'
  BY <1>1 DEF Pending, NoTx
<1>2. CASE SyncBegin
  BY <1>2 DEF SyncBegin, reviews, history, Pending
<1>3. CASE SyncFetch
  <2>1. tx \in TxType
    BY <1>3, TxRunning DEF SyncFetch
  <2>2. tx'.status = tx.status /\ tx'.affected = tx.affected /\ tx.running
    BY <1>3, <2>1 DEF SyncFetch, TxType
  <2> QED BY <1>3, <2>2 DEF SyncFetch, reviews, history, Pending
<1>4. ASSUME NEW r \in Records, SyncRecord(r) PROVE CheckInv'
  <2>1. tx \in TxType /\ tx.running
    BY <1>4, TxRunning DEF SyncRecord
  <2> DEFINE c == Stored(tx.coll, r, tx.feed[r])
             T == Touched(tx.coll, r, tx.feed[r])
  <2>2. tx'.status = Refreshed(c, tx.status, T) /\ tx'.affected = tx.affected \cup T
    BY <1>4, <2>1 DEF SyncRecord, TxType
  <2> HIDE DEF c, T
  <2>3. \A s \in Segments : tx'.status[s] = Full => s \in tx'.affected \/ tx.status[s] = Full
    BY <2>2 DEF Refreshed
  <2> QED BY <1>4, <2>1, <2>2, <2>3 DEF SyncRecord, reviews, history, Pending
<1>5. CASE SyncCommit
  BY <1>5 DEF SyncCommit, NoTx, Pending
<1>6. CASE SyncVerify
  <2>1. post \subseteq Segments /\ AutoCheck(post)
    BY <1>6 DEF SyncVerify, TypeOK
  <2>2. \A s \in Segments : status'[s] = Full => Pending(s)'
    <3> TAKE s \in Segments
    <3> HAVE status'[s] = Full
    <3>1. (s \notin post /\ Pending(s) /\ (s \in unchecked => s \in unchecked')) \/ s \in unchecked'
      BY <2>1, AutoCheckPending
    <3> QED BY <1>6, <3>1 DEF SyncVerify, Pending
  <2> QED BY <1>6, <2>1, <2>2 DEF SyncVerify, AutoCheck
<1>7. CASE RunAutoChecks
  <2>1. \A s \in Segments : status'[s] = Full => s \in unchecked'
    BY <1>7, AutoCheckPending DEF RunAutoChecks
  <2> QED BY <1>7, <2>1 DEF RunAutoChecks, AutoCheck, Pending
<1>8. CASE ResolveVerify
  <2>1. form.seg \in Segments /\ AutoCheck({form.seg}) /\ form.stage = "check"
    BY <1>8 DEF ResolveVerify, TypeOK, FormType, NoForm
  <2>2. \A s \in Segments : status'[s] = Full => Pending(s)'
    <3> TAKE s \in Segments
    <3> HAVE status'[s] = Full
    <3>1. \/ s \notin {form.seg} /\ Pending(s) /\ (s \in unchecked => s \in unchecked')
          \/ s \in unchecked'
      BY <2>1, AutoCheckPending
    <3> QED BY <1>8, <3>1 DEF ResolveVerify, Pending
  <2> QED BY <1>8, <2>1, <2>2 DEF ResolveVerify, AutoCheck
<1>9. CASE \E s \in Segments, outcome \in {"pass", "fail"} : SaveManualFinding(s, outcome)
  BY <1>9 DEF SaveManualFinding, TypeOK, Full, Complete, Faulty, Pending
<1>10. CASE Resolve
  <2>1. \A s \in Segments : status'[s] = Full => status[s] = Full \/ s = form.seg
    BY <1>10, ResolveStep DEF Refreshed
  <2>2. form' = [stage |-> "check", seg |-> form.seg] /\ form.stage = "chosen" /\ ~tx'.running
    BY <1>10, ResolveStep DEF Resolve
  <2>3. form'.stage = "check" /\ form'.seg = form.seg
    BY <2>2
  <2> QED BY <1>10, <2>1, <2>2, <2>3 DEF Resolve, Pending
<1>11. CASE SyncCrash \/ ResolveCrash
  BY <1>11 DEF SyncCrash, ResolveCrash, reviews, Pending, NoForm
<1>12. CASE ClosePage \/ (\E r \in Records, s \in Segments : ChooseSegment(r, s))
  BY <1>12 DEF ClosePage, ChooseSegment, reviews, history, Pending, NoForm
<1>13. CASE \/ \E r \in Records, x \in Contents : Publish(r, x)
            \/ SyncAbort \/ (\E f \in Files : ImportExcel(f)) \/ UNCHANGED vars
  BY <1>1, <1>13 DEF Publish, SyncAbort, ImportExcel, reviews, history, vars
<1> QED
  BY <1>2, <1>3, <1>4, <1>5, <1>6, <1>7, <1>8, <1>9, <1>10, <1>11, <1>12, <1>13 DEF Next

\* A segment that a sync or a resolve leaves full gets its auto-check, unless
\* the process dies in between or the segment is not active by then.
THEOREM FullGetsChecked == Spec => []FullIsChecked
<1>1. Init => CheckInv
  BY DEF Init, CheckInv, NoTx, NotStarted, Full
<1>2. TypeInv /\ CheckInv /\ [Next]_vars => CheckInv'
  BY CheckStep
<1>3. TypeInv /\ CheckInv => FullIsChecked
  BY DEF CheckInv, Pending, FullIsChecked, TypeInv, TypeOK
<1>4. TypeInv /\ TicketInv => TypeInv
  OBVIOUS
<1> QED BY <1>1, <1>2, <1>3, <1>4, Invariants, PTL DEF Spec
=============================================================================
