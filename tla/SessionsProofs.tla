---------------------------- MODULE SessionsProofs ----------------------------
(* Theorems about Sessions, for every value of its constants. *)
EXTENDS Sessions, FiniteSetTheorems, TLAPS

-----------------------------------------------------------------------------
(* Types, and the shape of a session at each of its steps.                  *)

NoWrites(w) == \A r \in Records : sess[w].put[r] = None

\* A sync is at most once at each record, and what a session loads before a
\* write it keeps until the write.
Shape(w) ==
    LET S == sess[w]
    IN /\ S.pc = "fetch" => w \in Syncs /\ NoWrites(w)
       /\ S.pc = "load" => /\ w \in Replays /\ NoWrites(w)
                           /\ S.rec \in Records /\ S.to \in Segments /\ coll[S.rec] # None
       /\ S.pc = "store" => /\ S.rec \in Records /\ S.put[S.rec] = None /\ S.rec \notin S.rest
                            /\ S.row # None => coll[S.rec] # None
                            /\ w \in Replays => S.to \in Segments /\ S.row # None
                            /\ w \notin Replays =>
                                 /\ w \in Syncs /\ S.feed[S.rec] # None
                                 /\ S.feed[S.rec].deleted => S.row # None /\ S.to = None
       /\ S.pc \in {"count", "flush"} => S.todo # <<>>
       /\ S.pc = "flush" => S.want # None
       /\ \A r \in S.rest : w \in Syncs /\ S.feed[r] # None /\ S.put[r] = None
       /\ \A r \in Records : S.put[r] = None <=> S.tix[r] = None

\* A record that was never stored has no unmapped row: a replay is never
\* offered one.
TicketsKnown == \A r \in Records : coll[r] = None => tickets[r] = 0

TypeInv == TypeOK /\ TicketsKnown /\ (\A w \in Sessions : Shape(w))

LEMMA ClosedType == Closed \in SessionType
BY DEF Closed, SessionType, NoCursor

\* A closed session holds nothing.
LEMMA ClosedNone ==
  /\ \A r \in Records : Closed.put[r] = None /\ Closed.tix[r] = None
  /\ \A s \in Segments : Closed.sts[s] = None /\ Closed.seen[s] = None
  /\ Closed.pc = "closed" /\ Closed.rest = {} /\ Closed.mixed = {} /\ Closed.over = {}
  /\ Closed.todo = <<>>
BY DEF Closed

\* What a session sees: its own pending writes over what is committed.
LEMMA Views ==
  ASSUME TypeOK, NEW w \in Sessions
  PROVE  /\ Rows(w) \in Table /\ Opened(w) \in [Records -> Nat] /\ Status(w) \in [Segments -> Statuses]
         /\ \A r \in Records : Rows(w)[r] = IF sess[w].put[r] # None THEN sess[w].put[r] ELSE coll[r]
         /\ \A r \in Records : Opened(w)[r] = IF sess[w].tix[r] # None THEN sess[w].tix[r] ELSE tickets[r]
         /\ \A s \in Segments : Status(w)[s] = IF sess[w].sts[s] # None THEN sess[w].sts[s] ELSE status[s]
<1>1. sess[w] \in SessionType
  BY DEF TypeOK
<1>2. /\ coll \in [Records -> Row \cup {None}] /\ tickets \in [Records -> Nat]
      /\ status \in [Segments -> Statuses]
  BY DEF TypeOK, Table
<1>3. /\ sess[w].put \in [Records -> Row \cup {None}] /\ sess[w].tix \in [Records -> Nat \cup {None}]
      /\ sess[w].sts \in [Segments -> Statuses \cup {None}]
  BY <1>1 DEF SessionType
<1> QED BY <1>2, <1>3 DEF Rows, Opened, Status, Over, Table

\* What Onward does to a session.
LEMMA OnwardType ==
  ASSUME NEW S \in SessionType
  PROVE  /\ Onward(S) \in SessionType
         /\ Onward(S).pc \in {"count", "next"}
         /\ Onward(S).pc = "count" => Onward(S).todo # <<>>
         /\ Onward(S).put = S.put /\ Onward(S).tix = S.tix /\ Onward(S).sts = S.sts
         /\ Onward(S).rest = S.rest /\ Onward(S).feed = S.feed /\ Onward(S).from = S.from
         /\ Onward(S).mixed = S.mixed /\ Onward(S).over = S.over /\ Onward(S).todo = S.todo
         /\ S.todo # <<>> => Onward(S).seen = S.seen
BY DEF Onward, SessionType, Closed

\* A merge of rows is a row, and over the row that was loaded it is the new one.
LEMMA MergedRow ==
  ASSUME NEW a \in Row, NEW b \in Row, NEW c \in Row
  PROVE  Merged(a, b, c) \in Row /\ (a = b => Merged(a, b, c) = c)
<1>1. DOMAIN a = {"seg", "vt", "active", "ts"} /\ DOMAIN c = {"seg", "vt", "active", "ts"}
  BY DEF Row
<1>2. Merged(a, b, c) = [f \in {"seg", "vt", "active", "ts"} |-> IF c[f] # b[f] THEN c[f] ELSE a[f]]
  BY <1>1 DEF Merged
<1> DEFINE m == [f \in {"seg", "vt", "active", "ts"} |-> IF c[f] # b[f] THEN c[f] ELSE a[f]]
<1>3. m = [seg |-> m["seg"], vt |-> m["vt"], active |-> m["active"], ts |-> m["ts"]]
  OBVIOUS
<1>4. /\ m["seg"] \in Segments \cup {None} /\ m["vt"] \in Positions \cup {None}
      /\ m["active"] \in BOOLEAN /\ m["ts"] \in Nat
  BY DEF Row
<1>5. m \in Row
  BY <1>3, <1>4 DEF Row
<1>6. a = b => m = c
  BY <1>1 DEF Row
<1> QED BY <1>2, <1>5, <1>6

LEMMA InitType == Init => TypeInv
<1> SUFFICES ASSUME Init PROVE TypeInv
  OBVIOUS
<1>1. sess \in [Sessions -> SessionType] /\ \A w \in Sessions : sess[w] = Closed
  BY ClosedType DEF Init
<1>2. TypeOK
  BY <1>1 DEF Init, TypeOK, Table, Statuses
<1>3. \A w \in Sessions : Shape(w)
  BY <1>1, ClosedNone DEF Shape
<1> QED BY <1>2, <1>3 DEF TypeInv, TicketsKnown, Init

\* A step of w that leaves the tables alone.
LEMMA SetType ==
  ASSUME TypeInv, NEW w \in Sessions, NEW S \in SessionType, Set(w, S),
         UNCHANGED <<feed, clock, tables, history>>, sealed' \in Nat, begun' \in Nat
  PROVE  /\ TypeOK' /\ TicketsKnown'
         /\ sess'[w] = S /\ \A x \in Sessions \ {w} : sess'[x] = sess[x]
         /\ \A x \in Sessions \ {w} : Shape(x)'
<1>1. /\ sess'[w] = S /\ \A x \in Sessions \ {w} : sess'[x] = sess[x]
      /\ sess' \in [Sessions -> SessionType]
  BY DEF TypeInv, TypeOK, Set
<1>2. UNCHANGED <<feed, clock, coll, tickets, status, cursors, stored, newest, crossed>>
  BY DEF tables, history
<1>3. TypeOK' /\ TicketsKnown'
  BY <1>1, <1>2 DEF TypeInv, TypeOK, TicketsKnown
<1>4. ASSUME NEW x \in Sessions \ {w} PROVE Shape(x)'
  BY <1>1, <1>2 DEF TypeInv, Shape, NoWrites
<1> QED BY <1>1, <1>3, <1>4

\* A step that only changes its own session is typed if that session is.
LEMMA SetInv ==
  ASSUME TypeInv, NEW w \in Sessions, NEW S \in SessionType, Set(w, S),
         UNCHANGED <<source, tables, history>>, begun' \in Nat, Shape(w)'
  PROVE  TypeInv'
<1>1. UNCHANGED <<feed, clock, sealed>> /\ sealed \in Nat
  BY DEF source, TypeInv, TypeOK
<1> QED BY <1>1, SetType DEF TypeInv

LEMMA BeginType ==
  ASSUME TypeInv, NEW w \in Sessions, NEW S \in SessionType, Begin(w, S)
  PROVE  /\ UNCHANGED <<source, tables, history>> /\ begun' \in Nat /\ Set(w, S)
         /\ sess'[w] = S /\ UNCHANGED coll /\ (Shape(w)' => TypeInv')
<1>1. UNCHANGED <<source, tables, history>> /\ begun' \in Nat /\ Set(w, S)
  BY DEF Begin, TypeInv, TypeOK
<1>2. UNCHANGED <<feed, clock, sealed>> /\ sealed \in Nat
  BY <1>1 DEF source, TypeInv, TypeOK
<1> QED BY <1>1, <1>2, SetType, SetInv DEF tables

LEMMA BeginSyncType ==
  ASSUME TypeInv, NEW w \in Syncs, BeginSync(w) PROVE TypeInv'
<1>1. w \in Sessions
  BY DEF Sessions
<1>2. CASE Begin(w, [Closed EXCEPT !.pc = "fetch"])
  <2>1. [Closed EXCEPT !.pc = "fetch"] \in SessionType
    BY ClosedType DEF SessionType
  <2>2. sess'[w] = [Closed EXCEPT !.pc = "fetch"]
    BY <1>1, <1>2, <2>1, BeginType
  <2>3. Shape(w)'
    BY <2>2, ClosedNone DEF Shape, NoWrites, Closed
  <2> QED BY <1>1, <1>2, <2>1, <2>3, BeginType
<1>3. ASSUME NEW k \in DOMAIN cursors,
             Begin(w, [Closed EXCEPT !.pc = "fetch", !.cur = k, !.from = cursors[k],
                                     !.newMax = cursors[k].ts, !.lastId = cursors[k].rid])
      PROVE  TypeInv'
  <2> DEFINE S == [Closed EXCEPT !.pc = "fetch", !.cur = k, !.from = cursors[k],
                                 !.newMax = cursors[k].ts, !.lastId = cursors[k].rid]
  <2>1. cursors[k] \in [ts : Nat, rid : Records \cup {None}] /\ k \in Nat
    <3> DEFINE C == [ts : Nat, rid : Records \cup {None}]
    <3>1. cursors \in Seq(C)
      BY DEF TypeInv, TypeOK
    <3> HIDE DEF C
    <3>2. cursors[k] \in C /\ k \in Nat
      BY <3>1
    <3> QED BY <3>2 DEF C
  <2>2. S \in SessionType
    BY <2>1, ClosedType DEF SessionType
  <2>3. S.pc = "fetch" /\ S.put = Closed.put /\ S.tix = Closed.tix /\ S.rest = Closed.rest
    BY DEF Closed
  <2> HIDE DEF S
  <2>4. sess'[w] = S
    BY <1>1, <1>3, <2>2, BeginType DEF S
  <2>5. Shape(w)'
    BY <2>3, <2>4, ClosedNone DEF Shape, NoWrites
  <2> QED BY <1>1, <1>3, <2>2, <2>5, BeginType DEF S
<1> QED BY <1>2, <1>3 DEF BeginSync

LEMMA BeginReplayType ==
  ASSUME TypeInv, NEW w \in Replays, NEW r \in Records, NEW s \in Segments, BeginReplay(w, r, s)
  PROVE  TypeInv'
<1> DEFINE S == [Closed EXCEPT !.pc = "load", !.rec = r, !.to = s]
<1>1. w \in Sessions /\ Begin(w, S)
  BY DEF Sessions, BeginReplay
<1>2. S \in SessionType
  BY ClosedType DEF SessionType
<1>3. S.pc = "load" /\ S.put = Closed.put /\ S.tix = Closed.tix /\ S.rest = Closed.rest /\ S.rec = r /\ S.to = s
  BY DEF Closed
<1>4. coll[r] # None
  BY DEF BeginReplay, TypeInv, TicketsKnown
<1> HIDE DEF S
<1>5. sess'[w] = S /\ UNCHANGED coll
  BY <1>1, <1>2, BeginType
<1>6. Shape(w)'
  BY <1>3, <1>4, <1>5, ClosedNone DEF Shape, NoWrites
<1> QED BY <1>1, <1>2, <1>6, BeginType

LEMMA BeginChecksType ==
  ASSUME TypeInv, NEW w \in Checks, NEW T \in SUBSET Segments, BeginChecks(w, T)
  PROVE  TypeInv'
<1> DEFINE eligible == {s \in T : status[s] \in Checkable}
<1>1. PICK order \in [1..Cardinality(eligible) -> eligible] :
        Begin(w, [Closed EXCEPT !.pc = IF order = <<>> THEN "next" ELSE "count", !.todo = order,
                    !.seen = [s \in Segments |-> IF s \in eligible THEN status[s] ELSE None]])
  BY DEF BeginChecks
<1> DEFINE seen == [s \in Segments |-> IF s \in eligible THEN status[s] ELSE None]
           S == [Closed EXCEPT !.pc = IF order = <<>> THEN "next" ELSE "count", !.todo = order,
                               !.seen = seen]
<1>2. order \in Seq(Segments)
  <2>1. IsFiniteSet(eligible)
    BY ValueAssumption, FS_Subset
  <2>2. Cardinality(eligible) \in Nat
    BY <2>1, FS_CardinalityType
  <2>3. order \in [1..Cardinality(eligible) -> Segments]
    OBVIOUS
  <2> HIDE DEF eligible
  <2> QED BY <2>2, <2>3
<1>3. seen \in [Segments -> Statuses \cup {None}] /\ w \in Sessions
  BY DEF TypeInv, TypeOK, Sessions
<1> HIDE DEF seen
<1>4. S \in SessionType
  BY <1>2, <1>3, ClosedType DEF SessionType
<1>5. /\ S.pc = IF order = <<>> THEN "next" ELSE "count"
      /\ S.put = Closed.put /\ S.tix = Closed.tix /\ S.rest = Closed.rest /\ S.todo = order
  BY DEF Closed
<1>6. Begin(w, S)
  BY <1>1 DEF seen
<1> HIDE DEF S
<1>7. sess'[w] = S
  BY <1>3, <1>4, <1>6, BeginType
<1>8. Shape(w)'
  BY <1>5, <1>7, ClosedNone DEF Shape, NoWrites
<1> QED BY <1>3, <1>4, <1>6, <1>8, BeginType

LEMMA BeginReviewType ==
  ASSUME TypeInv, NEW w \in Reviews, NEW s \in Segments, NEW outcome, BeginReview(w, s, outcome)
  PROVE  TypeInv'
<1> DEFINE new == IF outcome = "pass" THEN Complete ELSE Faulty
           S == [Closed EXCEPT !.pc = IF new = status[s] THEN "next" ELSE "flush",
                               !.todo = IF new = status[s] THEN <<>> ELSE <<s>>,
                               !.want = new, !.seen[s] = status[s]]
<1>1. w \in Sessions /\ Begin(w, S) /\ new \in Statuses /\ new # None
  BY ValueAssumption DEF Sessions, BeginReview, Statuses
<1>2. S \in SessionType
  <2>1. Closed.seen \in [Segments -> Statuses \cup {None}] /\ status[s] \in Statuses
    BY ClosedType DEF SessionType, TypeInv, TypeOK
  <2>2. [Closed.seen EXCEPT ![s] = status[s]] \in [Segments -> Statuses \cup {None}]
    BY <2>1
  <2>3. (IF new = status[s] THEN <<>> ELSE <<s>>) \in Seq(Segments)
    OBVIOUS
  <2> HIDE DEF new
  <2> QED BY <1>1, <2>2, <2>3, ClosedType DEF SessionType
<1>3. /\ S.pc = IF new = status[s] THEN "next" ELSE "flush"
      /\ S.put = Closed.put /\ S.tix = Closed.tix /\ S.rest = Closed.rest /\ S.want = new
      /\ S.todo = IF new = status[s] THEN <<>> ELSE <<s>>
  BY DEF Closed
<1> HIDE DEF S
<1>4. sess'[w] = S
  BY <1>1, <1>2, BeginType
<1>5. Shape(w)'
  BY <1>1, <1>3, <1>4, ClosedNone DEF Shape, NoWrites
<1> QED BY <1>1, <1>2, <1>5, BeginType

LEMMA FetchType ==
  ASSUME TypeInv, NEW w \in Sessions, Fetch(w) PROVE TypeInv'
<1> DEFINE rest == Window(feed, sess[w].from.ts, sess[w].lastId)
           S == [sess[w] EXCEPT !.pc = "next", !.feed = feed, !.rest = rest]
<1>1. /\ Set(w, S) /\ UNCHANGED <<feed, clock, tables, history>>
      /\ sealed' \in Nat /\ begun' \in Nat /\ sess[w].pc = "fetch" /\ sess[w] \in SessionType /\ Shape(w)
  BY DEF Fetch, TypeInv, TypeOK
<1>2. rest \subseteq Records /\ \A r \in rest : feed[r] # None
  BY DEF Window
<1> HIDE DEF rest
<1>3. S \in SessionType
  BY <1>1, <1>2 DEF SessionType, TypeInv, TypeOK
<1>4. S.pc = "next" /\ S.feed = feed /\ S.rest = rest /\ S.put = sess[w].put /\ S.tix = sess[w].tix
  BY <1>1 DEF SessionType
<1> HIDE DEF S
<1>5. sess'[w] = S
  BY <1>1, <1>3, SetType
<1>6. Shape(w)'
  BY <1>1, <1>2, <1>4, <1>5 DEF Shape, NoWrites
<1> QED BY <1>1, <1>3, <1>6, SetType DEF TypeInv

\* What NextRecord loads.
LEMMA NextRecordStep ==
  ASSUME TypeInv, NEW w \in Sessions, NEW r \in Records, NextRecord(w, r)
  PROVE  /\ UNCHANGED <<source, tables, history>> /\ begun' \in Nat
         /\ sess'[w] \in SessionType /\ Set(w, sess'[w]) /\ Shape(w)'
         /\ sess'[w].put = sess[w].put /\ sess'[w].tix = sess[w].tix /\ sess'[w].sts = sess[w].sts
         /\ sess'[w].mixed = sess[w].mixed /\ sess'[w].over = sess[w].over
         /\ sess'[w].feed = sess[w].feed
         /\ sess'[w].pc \in {"next", "store"} /\ w \in Syncs
         /\ sess'[w].rec = r /\ sess'[w].row = coll[r] /\ sess'[w].rest = sess[w].rest \ {r}
<1> DEFINE S == sess[w]
           v == S.feed[r]
           row == Rows(w)[r]
           to == IF v.deleted THEN None ELSE v.addr
           seen == [s \in Segments |-> IF s = to THEN Status(w)[s] ELSE None]
           N == [S EXCEPT !.rest = @ \ {r},
                          !.newMax = IF v.ts > @ THEN v.ts ELSE @,
                          !.lastId = IF v.ts > S.newMax THEN r ELSE @,
                          !.pc = IF v.deleted /\ row = None THEN "next" ELSE "store",
                          !.rec = r, !.row = row, !.to = to, !.seen = seen]
<1>1. /\ S.pc = "next" /\ r \in S.rest /\ Set(w, N) /\ S \in SessionType /\ Shape(w)
      /\ UNCHANGED <<source, tables, history>> /\ begun' \in Nat
  BY DEF NextRecord, TypeInv, TypeOK
<1>2. w \in Syncs /\ v \in Version /\ S.put[r] = None /\ row = coll[r] /\ row \in Row \cup {None}
      /\ to \in Segments \cup {None} /\ (v.deleted => to = None)
      /\ seen \in [Segments -> Statuses \cup {None}]
  <2>1. w \in Syncs /\ v \in Version /\ S.put[r] = None
    BY <1>1 DEF Shape, SessionType
  <2>2. row = coll[r] /\ row \in Row \cup {None}
    BY <2>1, Views DEF TypeInv, Table
  <2>3. seen \in [Segments -> Statuses \cup {None}]
    BY Views DEF TypeInv
  <2> QED BY <2>1, <2>2, <2>3 DEF Version
<1>3. sess'[w] = N
  BY <1>1 DEF Set, TypeInv, TypeOK
<1> HIDE DEF v, row, to, seen
<1>4. /\ N.pc = IF v.deleted /\ row = None THEN "next" ELSE "store"
      /\ N.rest = S.rest \ {r} /\ N.rec = r /\ N.row = row /\ N.to = to /\ N.put = S.put
      /\ N.tix = S.tix /\ N.sts = S.sts /\ N.mixed = S.mixed /\ N.over = S.over /\ N.feed = S.feed
  BY <1>1 DEF SessionType
<1>5. N \in SessionType
  <2> DEFINE max == IF v.ts > S.newMax THEN v.ts ELSE S.newMax
             last == IF v.ts > S.newMax THEN r ELSE S.lastId
             pc == IF v.deleted /\ row = None THEN "next" ELSE "store"
  <2>1. max \in Nat /\ last \in Records \cup {None}
        /\ pc \in {"closed", "fetch", "load", "next", "store", "count", "flush"}
    <3>1. v.ts \in Nat /\ S.newMax \in Nat /\ S.lastId \in Records \cup {None}
      BY <1>1, <1>2 DEF SessionType, Version
    <3> QED BY <3>1
  <2>2. S.rest \ {r} \in SUBSET Records
    BY <1>1 DEF SessionType
  <2>3. row \in Row \cup {None} /\ to \in Segments \cup {None}
    BY <1>2
  <2>4. seen \in [Segments -> Statuses \cup {None}]
    BY <1>2
  <2> DEFINE A == [S EXCEPT !.rest = S.rest \ {r}, !.newMax = max, !.lastId = last]
             B == [A EXCEPT !.pc = pc, !.rec = r, !.row = row]
  <2>5. N = [B EXCEPT !.to = to, !.seen = seen]
    BY <1>1 DEF SessionType
  <2> HIDE DEF max, last, pc, N, S
  <2>6. A \in SessionType
    BY <1>1, <2>1, <2>2 DEF SessionType
  <2> HIDE DEF A
  <2>7. B \in SessionType
    BY <2>1, <2>3, <2>6 DEF SessionType
  <2> HIDE DEF B
  <2> QED BY <2>3, <2>4, <2>5, <2>7 DEF SessionType
<1> HIDE DEF N
<1>6. Shape(w)'
  <2>1. v = N.feed[r] /\ v # None
    BY <1>2, <1>4, VersionAssumption DEF v
  <2>2. w \notin Replays
    BY <1>2, SessionAssumption
  <2>3. coll' = coll
    BY <1>1 DEF tables
  <2> QED BY <1>1, <1>2, <1>3, <1>4, <2>1, <2>2, <2>3 DEF Shape, NoWrites
<1> QED BY <1>1, <1>2, <1>3, <1>4, <1>5, <1>6

LEMMA LoadReplayedType ==
  ASSUME TypeInv, NEW w \in Sessions, LoadReplayed(w)
  PROVE  /\ TypeInv'
         /\ sess'[w] = [sess[w] EXCEPT !.pc = "store", !.row = coll[sess[w].rec]]
<1> DEFINE S == [sess[w] EXCEPT !.pc = "store", !.row = coll[sess[w].rec]]
<1>1. /\ Set(w, S) /\ UNCHANGED <<source, tables, history>> /\ begun' \in Nat
      /\ sess[w].pc = "load" /\ sess[w] \in SessionType /\ Shape(w) /\ coll \in Table
  BY DEF LoadReplayed, TypeInv, TypeOK
<1>2. sess[w].rec \in Records /\ coll[sess[w].rec] \in Row
  BY <1>1 DEF Shape, Table
<1>3. S \in SessionType
  BY <1>1, <1>2 DEF SessionType
<1>4. /\ S.pc = "store" /\ S.row = coll[sess[w].rec] /\ S.rest = sess[w].rest /\ S.put = sess[w].put
      /\ S.tix = sess[w].tix /\ S.rec = sess[w].rec /\ S.to = sess[w].to /\ S.feed = sess[w].feed
  BY <1>1 DEF SessionType
<1>5. sess'[w] = S
  BY <1>1 DEF Set, TypeInv, TypeOK
<1> HIDE DEF S
<1>6. coll' = coll
  BY <1>1 DEF tables
<1>7. \A r \in sess[w].rest : w \in Syncs
  BY <1>1 DEF Shape
<1>8. w \in Replays /\ w \notin Syncs
  BY <1>1, SessionAssumption DEF Shape
<1>9. Shape(w)'
  BY <1>1, <1>2, <1>4, <1>5, <1>6, <1>7, <1>8 DEF Shape, NoWrites
<1> QED BY <1>1, <1>3, <1>5, <1>9, SetInv DEF S

\* What a store that is not refused writes.
StoredRow(w) ==
    LET S == sess[w] IN IF S.row = None THEN NewRow(w) ELSE Merged(coll[S.rec], S.row, NewRow(w))

AfterStore(w) ==
    LET S == sess[w] r == S.rec
    IN [S EXCEPT !.todo = LeftBehind(w), !.put[r] = StoredRow(w), !.tix[r] = NewTickets(w),
                 !.mixed = IF coll[r] # S.row THEN @ \cup {r} ELSE @]

\* What Store writes is a row, and the new one unless somebody came between.
LEMMA NewRowType ==
  ASSUME TypeInv, NEW w \in Sessions, sess[w].pc = "store"
  PROVE  NewRow(w) \in Row /\ StoredRow(w) \in Row
         /\ (sess[w].row = coll[sess[w].rec] \/ sess[w].row = None => StoredRow(w) = NewRow(w))
<1> DEFINE S == sess[w]
           r == S.rec
           v == S.feed[r]
<1>1. S \in SessionType /\ Shape(w) /\ coll \in Table
  BY DEF TypeInv, TypeOK
<1>2. r \in Records /\ S.row \in Row \cup {None} /\ S.to \in Segments \cup {None}
  BY <1>1 DEF Shape, SessionType
<1>3. NewRow(w) \in Row
  <2>1. CASE w \in Replays
    <3>1. NewRow(w) = [S.row EXCEPT !.seg = S.to] /\ S.row \in Row
      BY <1>1, <1>2, <2>1 DEF NewRow, Shape
    <3> QED BY <1>2, <3>1 DEF Row
  <2>2. CASE w \notin Replays /\ v.deleted
    <3>1. NewRow(w) = [S.row EXCEPT !.active = FALSE] /\ S.row \in Row
      BY <1>1, <1>2, <2>2 DEF NewRow, Shape
    <3> QED BY <3>1 DEF Row
  <2>3. CASE w \notin Replays /\ ~v.deleted
    <3>1. v \in Version
      BY <1>1, <1>2, <2>3 DEF Shape, SessionType
    <3>2. NewRow(w) = [seg |-> S.to, vt |-> v.vt, active |-> TRUE, ts |-> v.ts]
      BY <2>3 DEF NewRow
    <3> QED BY <1>2, <3>1, <3>2 DEF Row, Version
  <2> QED BY <2>1, <2>2, <2>3
<1>4. CASE S.row = None
  BY <1>3, <1>4 DEF StoredRow
<1>5. CASE S.row # None
  <2>1. S.row \in Row /\ coll[r] \in Row
    BY <1>1, <1>2, <1>5 DEF Shape, Table
  <2>2. StoredRow(w) = Merged(coll[r], S.row, NewRow(w))
    BY <1>5 DEF StoredRow
  <2>3. Merged(coll[r], S.row, NewRow(w)) \in Row
        /\ (coll[r] = S.row => Merged(coll[r], S.row, NewRow(w)) = NewRow(w))
    BY <1>3, <2>1, MergedRow
  <2> QED BY <1>3, <1>5, <2>2, <2>3
<1> QED BY <1>4, <1>5

LEMMA StoreStep ==
  ASSUME TypeInv, NEW w \in Sessions, Store(w)
  PROVE  /\ UNCHANGED <<source, tables, history>> /\ begun' \in Nat
         /\ sess[w].pc = "store" /\ Blockers(w) = {}
         /\ \/ sess'[w] = Closed /\ TypeInv'
            \/ /\ ~(sess[w].row = None /\ coll[sess[w].rec] # None)
               /\ AfterStore(w) \in SessionType
               /\ sess' = [sess EXCEPT ![w] = Onward(AfterStore(w))]
               /\ AfterStore(w).put = [sess[w].put EXCEPT ![sess[w].rec] = StoredRow(w)]
               /\ AfterStore(w).tix = [sess[w].tix EXCEPT ![sess[w].rec] = NewTickets(w)]
               /\ AfterStore(w).mixed = IF coll[sess[w].rec] # sess[w].row
                                        THEN sess[w].mixed \cup {sess[w].rec} ELSE sess[w].mixed
               /\ AfterStore(w).sts = sess[w].sts /\ AfterStore(w).over = sess[w].over
               /\ AfterStore(w).feed = sess[w].feed /\ AfterStore(w).from = sess[w].from
               /\ TypeInv'
<1> DEFINE S == sess[w]
           r == S.rec
<1>1. /\ UNCHANGED <<source, tables, history>> /\ begun' \in Nat
      /\ S.pc = "store" /\ Blockers(w) = {} /\ S \in SessionType /\ Shape(w) /\ r \in Records
  BY DEF Store, TypeInv, TypeOK, Shape
<1>2. CASE S.row = None /\ coll[r] # None
  <2>1. Set(w, Closed)
    BY <1>2 DEF Store
  <2>2. sess'[w] = Closed
    BY <2>1, ClosedType DEF Set, TypeInv, TypeOK
  <2>3. Shape(w)'
    BY <2>2, ClosedNone DEF Shape, NoWrites
  <2> QED BY <1>1, <2>1, <2>2, <2>3, ClosedType, SetInv
<1>3. CASE ~(S.row = None /\ coll[r] # None)
  <2> DEFINE A == AfterStore(w)
  <2>1. Set(w, Onward(A))
    BY <1>3 DEF Store, AfterStore, StoredRow
  <2>2. StoredRow(w) \in Row /\ LeftBehind(w) \in Seq(Segments) /\ NewTickets(w) \in Nat
    <3>1. StoredRow(w) \in Row
      BY <1>1, NewRowType
    <3>2. S.to \in Segments \cup {None}
          /\ (S.row = None \/ S.row.seg \in Segments \cup {None})
      BY <1>1 DEF SessionType, Row
    <3>3. LeftBehind(w) \in Seq(Segments)
      BY <3>2 DEF LeftBehind
    <3>4. Opened(w)[r] \in Nat
      BY <1>1, Views DEF TypeInv
    <3>5. NewTickets(w) \in Nat
      BY <3>4 DEF NewTickets
    <3> QED BY <3>1, <3>3, <3>5
  <2>3. /\ A \in SessionType
        /\ A.put = [S.put EXCEPT ![r] = StoredRow(w)] /\ A.tix = [S.tix EXCEPT ![r] = NewTickets(w)]
        /\ A.mixed = IF coll[r] # S.row THEN S.mixed \cup {r} ELSE S.mixed
        /\ A.sts = S.sts /\ A.over = S.over /\ A.feed = S.feed /\ A.from = S.from /\ A.rest = S.rest
    <3>1. [S.put EXCEPT ![r] = StoredRow(w)] \in [Records -> Row \cup {None}]
          /\ [S.tix EXCEPT ![r] = NewTickets(w)] \in [Records -> Nat \cup {None}]
      BY <1>1, <2>2 DEF SessionType
    <3>2. A = [S EXCEPT !.todo = LeftBehind(w), !.put = [S.put EXCEPT ![r] = StoredRow(w)],
                        !.tix = [S.tix EXCEPT ![r] = NewTickets(w)],
                        !.mixed = IF coll[r] # S.row THEN S.mixed \cup {r} ELSE S.mixed]
      BY <1>1 DEF AfterStore, SessionType
    <3> HIDE DEF A
    <3> QED BY <1>1, <2>2, <3>1, <3>2 DEF SessionType
  <2> HIDE DEF A
  <2>4. /\ sess' = [sess EXCEPT ![w] = Onward(A)] /\ sess'[w] = Onward(A)
        /\ Onward(A) \in SessionType
    BY <2>1, <2>3, OnwardType DEF Set, TypeInv, TypeOK
  <2>5. Shape(w)'
    <3>1. /\ sess'[w].pc \in {"count", "next"} /\ (sess'[w].pc = "count" => sess'[w].todo # <<>>)
          /\ sess'[w].rest = S.rest /\ sess'[w].feed = S.feed
          /\ sess'[w].put = [S.put EXCEPT ![r] = StoredRow(w)]
          /\ sess'[w].tix = [S.tix EXCEPT ![r] = NewTickets(w)]
      BY <2>3, <2>4, OnwardType
    <3>2. \A q \in S.rest : w \in Syncs /\ S.feed[q] # None /\ S.put[q] = None /\ q # r /\ q \in Records
      BY <1>1 DEF Shape, SessionType
    <3>3. \A q \in S.rest : sess'[w].put[q] = None
      BY <1>1, <3>1, <3>2 DEF SessionType
    <3>4. StoredRow(w) # None /\ NewTickets(w) # None
      BY <2>2, RowAssumption, ValueAssumption
    <3>5. \A q \in Records : sess'[w].put[q] = None <=> sess'[w].tix[q] = None
      BY <1>1, <3>1, <3>4 DEF SessionType, Shape
    <3> QED BY <3>1, <3>2, <3>3, <3>5 DEF Shape, NoWrites
  <2> QED BY <1>1, <1>3, <2>1, <2>3, <2>4, <2>5, SetInv DEF A
<1> QED BY <1>2, <1>3

\* The head and the tail of what is still to do.
LEMMA HeadTail ==
  ASSUME NEW q \in Seq(Segments), q # <<>>
  PROVE  Head(q) \in Segments /\ Tail(q) \in Seq(Segments)
OBVIOUS

LEMMA VerdictType ==
  ASSUME TypeInv, NEW w \in Sessions, NEW s \in Segments, NEW old \in Statuses
  PROVE  Verdict(w, s, old) \in Statuses
<1>1. StatusOfData(Rows(w), s, Need[s]) \in Statuses
  BY DEF StatusOfData, Statuses
<1> QED BY <1>1 DEF Verdict, Recalculated, Statuses

LEMMA CountStep ==
  ASSUME TypeInv, NEW w \in Sessions, Count(w)
  PROVE  /\ UNCHANGED <<source, tables, history>> /\ begun' \in Nat
         /\ TypeInv' /\ sess' = [sess EXCEPT ![w] = sess'[w]]
         /\ sess[w].pc = "count" /\ sess'[w].pc \in {"count", "next", "flush"}
         /\ sess'[w].put = sess[w].put /\ sess'[w].tix = sess[w].tix /\ sess'[w].sts = sess[w].sts
         /\ sess'[w].mixed = sess[w].mixed /\ sess'[w].over = sess[w].over
         /\ sess'[w].feed = sess[w].feed /\ sess'[w].rest = sess[w].rest
         /\ LET s == Head(sess[w].todo)
                old == IF sess[w].seen[s] # None THEN sess[w].seen[s] ELSE Status(w)[s]
            IN \/ /\ sess'[w].pc \in {"count", "next"} /\ sess'[w].todo = Tail(sess[w].todo)
                  /\ sess'[w].todo # <<>> => sess'[w].seen = sess[w].seen
               \/ /\ sess'[w].pc = "flush" /\ sess'[w].todo = sess[w].todo
                  /\ sess'[w].want = Verdict(w, s, old) /\ sess'[w].want # old
                  /\ sess'[w].seen = [sess[w].seen EXCEPT ![s] = old]
<1> DEFINE S == sess[w]
           s == Head(S.todo)
           old == IF S.seen[s] # None THEN S.seen[s] ELSE Status(w)[s]
           new == Verdict(w, s, old)
           A == [S EXCEPT !.todo = Tail(S.todo)]
           seen == [S.seen EXCEPT ![s] = old]
           B == [S EXCEPT !.pc = "flush", !.want = new, !.seen = seen]
<1>1. /\ UNCHANGED <<source, tables, history>> /\ begun' \in Nat
      /\ S.pc = "count" /\ S \in SessionType /\ Shape(w) /\ S.todo \in Seq(Segments)
      /\ S.todo # <<>> /\ sess \in [Sessions -> SessionType]
  BY DEF Count, TypeInv, TypeOK, Shape, SessionType
<1>2. s \in Segments /\ Tail(S.todo) \in Seq(Segments)
  BY <1>1, HeadTail
<1>3. old \in Statuses
  BY <1>1, <1>2, Views DEF SessionType, TypeInv
<1>4. new \in Statuses /\ new # None
  BY <1>2, <1>3, VerdictType, ValueAssumption
<1>5. IF new = old THEN Set(w, Onward(A)) ELSE Set(w, B)
  <2>1. A = [S EXCEPT !.todo = Tail(@)]
    BY <1>1 DEF SessionType
  <2>2. B = [S EXCEPT !.pc = "flush", !.want = new, !.seen[s] = old]
    BY <1>1 DEF SessionType
  <2> QED BY <2>1, <2>2 DEF Count
<1>6. A \in SessionType /\ B \in SessionType
  <2>1. seen \in [Segments -> Statuses \cup {None}]
    BY <1>1, <1>2, <1>3 DEF SessionType
  <2> HIDE DEF seen, new, old, s
  <2> QED BY <1>1, <1>2, <1>4, <2>1 DEF SessionType
<1>7. CASE new = old
  <2>1. Set(w, Onward(A)) /\ Onward(A) \in SessionType
    BY <1>5, <1>6, <1>7, OnwardType
  <2>2. sess'[w] = Onward(A)
    BY <1>1, <2>1 DEF Set
  <2>3. /\ A.put = S.put /\ A.tix = S.tix /\ A.sts = S.sts /\ A.rest = S.rest
        /\ A.feed = S.feed /\ A.mixed = S.mixed /\ A.over = S.over
        /\ A.todo = Tail(S.todo) /\ A.seen = S.seen
    BY <1>1 DEF SessionType
  <2> HIDE DEF A, S, new, old, s
  <2>4. /\ sess'[w].put = S.put /\ sess'[w].tix = S.tix /\ sess'[w].sts = S.sts
        /\ sess'[w].rest = S.rest /\ sess'[w].feed = S.feed /\ sess'[w].mixed = S.mixed
        /\ sess'[w].over = S.over /\ sess'[w].pc \in {"count", "next"}
        /\ sess'[w].pc = "count" => sess'[w].todo # <<>>
        /\ sess'[w].todo = Tail(S.todo) /\ (sess'[w].todo # <<>> => sess'[w].seen = S.seen)
    BY <1>6, <2>2, <2>3, OnwardType
  <2>5. Shape(w)'
    BY <1>1, <2>4 DEF Shape, S
  <2>6. TypeInv'
    BY <1>1, <2>1, <2>5, SetInv
  <2> QED BY <1>1, <2>1, <2>2, <2>4, <2>6 DEF Set, S
<1>8. CASE new # old
  <2>1. Set(w, B)
    BY <1>5, <1>8
  <2>2. sess'[w] = B
    BY <1>1, <1>6, <2>1 DEF Set
  <2>3. /\ B.put = S.put /\ B.tix = S.tix /\ B.sts = S.sts /\ B.rest = S.rest
        /\ B.feed = S.feed /\ B.mixed = S.mixed /\ B.over = S.over
        /\ B.pc = "flush" /\ B.want = new /\ B.todo = S.todo /\ B.seen = seen
    BY <1>1 DEF SessionType
  <2> HIDE DEF B, S, new, old, s
  <2>4. Shape(w)'
    BY <1>1, <1>4, <2>2, <2>3 DEF Shape, S
  <2>5. TypeInv'
    BY <1>1, <1>6, <2>1, <2>4, SetInv
  <2> QED BY <1>1, <1>8, <2>1, <2>2, <2>3, <2>5 DEF Set, S, old, new, s
<1> QED BY <1>7, <1>8

AfterFlush(w) ==
    LET S == sess[w] s == Head(S.todo)
    IN [S EXCEPT !.todo = Tail(@), !.sts[s] = S.want,
                 !.over = IF Status(w)[s] # S.seen[s] THEN @ \cup {s} ELSE @]

LEMMA FlushStep ==
  ASSUME TypeInv, NEW w \in Sessions, Flush(w)
  PROVE  /\ UNCHANGED <<source, tables, history>> /\ begun' \in Nat
         /\ TypeInv' /\ sess' = [sess EXCEPT ![w] = sess'[w]]
         /\ sess[w].pc = "flush" /\ Blockers(w) = {}
         /\ sess'[w].pc \in {"count", "next"}
         /\ sess'[w].put = sess[w].put /\ sess'[w].tix = sess[w].tix
         /\ sess'[w].mixed = sess[w].mixed /\ sess'[w].feed = sess[w].feed
         /\ sess'[w].sts = [sess[w].sts EXCEPT ![Head(sess[w].todo)] = sess[w].want]
         /\ sess'[w].over = IF Status(w)[Head(sess[w].todo)] # sess[w].seen[Head(sess[w].todo)]
                            THEN sess[w].over \cup {Head(sess[w].todo)} ELSE sess[w].over
         /\ sess'[w] = Onward(AfterFlush(w)) /\ AfterFlush(w) \in SessionType
         /\ AfterFlush(w).todo = Tail(sess[w].todo) /\ AfterFlush(w).seen = sess[w].seen
<1> DEFINE S == sess[w]
           s == Head(S.todo)
           over == IF Status(w)[s] # S.seen[s] THEN S.over \cup {s} ELSE S.over
           sts == [S.sts EXCEPT ![s] = S.want]
           A == AfterFlush(w)
<1>1. /\ UNCHANGED <<source, tables, history>> /\ begun' \in Nat
      /\ S.pc = "flush" /\ S \in SessionType /\ Shape(w) /\ S.todo \in Seq(Segments)
      /\ S.todo # <<>> /\ sess \in [Sessions -> SessionType] /\ Blockers(w) = {}
  BY DEF Flush, TypeInv, TypeOK, Shape, SessionType
<1>2. s \in Segments /\ Tail(S.todo) \in Seq(Segments)
  BY <1>1, HeadTail
<1>3. A = [S EXCEPT !.todo = Tail(S.todo), !.sts = sts, !.over = over]
  BY <1>1 DEF SessionType, AfterFlush
<1>4. Set(w, Onward(A))
  BY DEF Flush, AfterFlush
<1>5. sts \in [Segments -> Statuses \cup {None}] /\ over \in SUBSET Segments
  BY <1>1, <1>2 DEF SessionType
<1>6. /\ A.put = S.put /\ A.tix = S.tix /\ A.sts = sts /\ A.rest = S.rest
      /\ A.feed = S.feed /\ A.mixed = S.mixed /\ A.over = over
      /\ A.todo = Tail(S.todo) /\ A.seen = S.seen
  BY <1>1, <1>3 DEF SessionType
<1> HIDE DEF A
<1>7. A \in SessionType
  <2> HIDE DEF S, s, sts, over
  <2> QED BY <1>1, <1>2, <1>3, <1>5 DEF SessionType
<1>8. sess'[w] = Onward(A) /\ Onward(A) \in SessionType
  BY <1>1, <1>4, <1>7, OnwardType DEF Set
<1>9. /\ sess'[w].put = S.put /\ sess'[w].tix = S.tix /\ sess'[w].sts = sts
      /\ sess'[w].rest = S.rest /\ sess'[w].feed = S.feed /\ sess'[w].mixed = S.mixed
      /\ sess'[w].over = over /\ sess'[w].pc \in {"count", "next"}
      /\ sess'[w].pc = "count" => sess'[w].todo # <<>>
  <2> HIDE DEF S, s, sts, over
  <2> QED BY <1>6, <1>7, <1>8, OnwardType
<1>10. Shape(w)'
  <2> HIDE DEF s, sts, over
  <2> QED BY <1>1, <1>9 DEF Shape
<1>11. TypeInv'
  BY <1>1, <1>4, <1>8, <1>10, SetInv
<1>12. sess' = [sess EXCEPT ![w] = sess'[w]]
  BY <1>4, <1>8 DEF Set
<1> QED BY <1>1, <1>6, <1>7, <1>8, <1>9, <1>11, <1>12 DEF A

Cursor == [ts : Nat, rid : Records \cup {None}]

\* The cursor rows stay a sequence of cursors when a sync commits.
LEMMA AdvancedType ==
  ASSUME TypeInv, NEW w \in Sessions
  PROVE  Advanced(w) \in Seq(Cursor)
<1> DEFINE S == sess[w]
           new == IF S.newMax > S.from.ts THEN [ts |-> S.newMax, rid |-> S.lastId] ELSE S.from
           M == Merged(cursors[S.cur], S.from, new)
<1>1. cursors \in Seq(Cursor) /\ S \in SessionType
  BY DEF TypeInv, TypeOK, Cursor
<1>2. S.from \in Cursor /\ new \in Cursor /\ S.cur \in Nat
  BY <1>1 DEF SessionType, Cursor
<1>3. CASE S.cur = 0
  BY <1>1, <1>2, <1>3 DEF Advanced
<1>4. CASE S.cur # 0
  <2>1. Advanced(w) = [cursors EXCEPT ![S.cur] = M]
    BY <1>4 DEF Advanced
  <2>2. CASE S.cur \in DOMAIN cursors
    <3>1. cursors[S.cur] \in Cursor
      BY <1>1, <2>2
    <3>2. M = [f \in {"ts", "rid"} |-> IF new[f] # S.from[f] THEN new[f] ELSE cursors[S.cur][f]]
      BY <3>1 DEF Merged, Cursor
    <3>3. M = [ts |-> M["ts"], rid |-> M["rid"]]
      BY <3>2
    <3>4. M["ts"] \in Nat /\ M["rid"] \in Records \cup {None}
      BY <1>2, <3>1, <3>2 DEF Cursor
    <3>5. M \in Cursor
      BY <3>3, <3>4 DEF Cursor
    <3> HIDE DEF M
    <3> QED BY <1>1, <2>1, <2>2, <3>5
  <2>3. CASE S.cur \notin DOMAIN cursors
    <3>1. Advanced(w) = cursors
      BY <1>1, <2>1, <2>3
    <3> QED BY <1>1, <3>1
  <2> QED BY <2>2, <2>3
<1> QED BY <1>3, <1>4

LEMMA CommitType ==
  ASSUME TypeInv, NEW w \in Sessions, Commit(w) PROVE TypeInv'
<1>1. /\ coll' = Rows(w) /\ tickets' = Opened(w) /\ status' = Status(w)
      /\ sess' = [sess EXCEPT ![w] = Closed] /\ UNCHANGED <<source, begun>>
      /\ sess[w] \in SessionType /\ TypeOK /\ sess \in [Sessions -> SessionType] /\ Shape(w)
  BY DEF Commit, Set, TypeInv, TypeOK
<1>2. cursors' \in Seq(Cursor)
  BY AdvancedType DEF Commit, TypeInv, TypeOK, Cursor
<1>3. stored' \in [Records -> Nat] /\ newest' \in [Records -> Nat] /\ crossed' \subseteq Records
  <2> DEFINE S == sess[w]
             through == IF w \in Syncs THEN Window(S.feed, S.from.ts, S.from.rid) ELSE {}
             written == {r \in through : S.put[r] # None}
  <2>1. through \subseteq Records /\ \A r \in through : S.feed[r] # None
    BY DEF Window
  <2>2. \A r \in through : S.feed[r].ts \in Nat
    BY <1>1, <2>1 DEF SessionType, Version
  <2>3. S.mixed \subseteq Records
    BY <1>1 DEF SessionType
  <2>4. /\ stored' = [r \in Records |-> IF r \in written THEN S.feed[r].ts ELSE stored[r]]
        /\ newest' = [r \in Records |->
                        IF r \in through /\ S.feed[r].ts > newest[r] THEN S.feed[r].ts ELSE newest[r]]
        /\ crossed' = (crossed \ {r \in written : ~S.feed[r].deleted}) \cup S.mixed
    BY DEF Commit
  <2> HIDE DEF through
  <2> QED BY <1>1, <2>2, <2>3, <2>4 DEF TypeOK
<1>4. TypeOK'
  <2>1. Rows(w) \in Table /\ Opened(w) \in [Records -> Nat] /\ Status(w) \in [Segments -> Statuses]
    BY <1>1, Views
  <2>2. sess' \in [Sessions -> SessionType]
    BY <1>1, ClosedType
  <2> QED BY <1>1, <1>2, <1>3, <2>1, <2>2 DEF TypeOK, Cursor, source
<1>5. \A r \in Records : coll[r] # None => coll'[r] # None
  BY <1>1, Views
<1>6. TicketsKnown'
  BY <1>1, Views DEF TicketsKnown, TypeInv, Shape
<1>7. ASSUME NEW x \in Sessions PROVE Shape(x)'
  <2>1. CASE x = w
    <3>1. sess'[x] = Closed
      BY <1>1, <2>1
    <3> QED BY <3>1, ClosedNone DEF Shape, NoWrites
  <2>2. CASE x # w
    <3>1. sess'[x] = sess[x] /\ Shape(x)
      BY <1>1, <2>2 DEF TypeInv
    <3> QED BY <1>5, <3>1 DEF Shape, NoWrites
  <2> QED BY <2>1, <2>2
<1> QED BY <1>4, <1>6, <1>7 DEF TypeInv

LEMMA DeadlockAbortType ==
  ASSUME TypeInv, NEW w \in Sessions, DeadlockAbort(w) PROVE TypeInv'
<1>1. /\ Set(w, Closed) /\ UNCHANGED <<source, tables, history>> /\ begun' \in Nat
  BY DEF DeadlockAbort, TypeInv, TypeOK
<1>2. sess'[w] = Closed
  BY <1>1 DEF Set, TypeInv, TypeOK
<1>3. Shape(w)'
  BY <1>2, ClosedNone DEF Shape, NoWrites
<1> QED BY <1>1, <1>3, ClosedType, SetInv

LEMMA PublishType ==
  ASSUME TypeInv, NEW r \in Records, NEW x \in Contents, Publish(r, x) PROVE TypeInv'
<1>1. PICK t \in {clock, clock + 1} :
        /\ feed' = [feed EXCEPT ![r] = [addr |-> x.addr, vt |-> x.vt, deleted |-> x.deleted, ts |-> t]]
        /\ clock' = t
  BY DEF Publish
<1>2. UNCHANGED <<sealed, tables, sess, history, begun>> /\ t \in Nat
  BY DEF Publish, TypeInv, TypeOK
<1>3. [addr |-> x.addr, vt |-> x.vt, deleted |-> x.deleted, ts |-> t] \in Version
  BY <1>2, ContentAssumption DEF Version
<1>4. TypeOK' /\ TicketsKnown'
  BY <1>1, <1>2, <1>3 DEF TypeInv, TypeOK, TicketsKnown, tables, history
<1>5. \A w \in Sessions : Shape(w)'
  BY <1>2 DEF TypeInv, Shape, NoWrites, tables
<1> QED BY <1>4, <1>5 DEF TypeInv

LEMMA TypeStep == TypeInv /\ [Next]_vars => TypeInv'
<1> SUFFICES ASSUME TypeInv, [Next]_vars PROVE TypeInv'
  OBVIOUS
<1>1. ASSUME NEW r \in Records, NEW x \in Contents, Publish(r, x) PROVE TypeInv'
  BY <1>1, PublishType
<1>2. ASSUME NEW w \in Syncs, BeginSync(w) PROVE TypeInv'
  BY <1>2, BeginSyncType
<1>3. ASSUME NEW w \in Replays, NEW r \in Records, NEW s \in Segments, BeginReplay(w, r, s)
      PROVE TypeInv'
  BY <1>3, BeginReplayType
<1>4. ASSUME NEW w \in Checks, NEW T \in SUBSET Segments, BeginChecks(w, T) PROVE TypeInv'
  BY <1>4, BeginChecksType
<1>5. ASSUME NEW w \in Reviews, NEW s \in Segments, NEW outcome, BeginReview(w, s, outcome)
      PROVE TypeInv'
  BY <1>5, BeginReviewType
<1>6. ASSUME NEW w \in Sessions, Step(w) PROVE TypeInv'
  <2>1. CASE Fetch(w)
    BY <2>1, FetchType
  <2>2. ASSUME NEW r \in Records, NextRecord(w, r) PROVE TypeInv'
    <3>1. /\ UNCHANGED <<source, tables, history>> /\ begun' \in Nat
          /\ sess'[w] \in SessionType /\ Set(w, sess'[w]) /\ Shape(w)'
      BY <2>2, NextRecordStep
    <3> QED BY <3>1, SetInv
  <2>3. CASE LoadReplayed(w)
    BY <2>3, LoadReplayedType
  <2>4. CASE Store(w)
    BY <2>4, StoreStep
  <2>5. CASE Count(w)
    BY <2>5, CountStep
  <2>6. CASE Flush(w)
    BY <2>6, FlushStep
  <2>7. CASE Commit(w)
    BY <2>7, CommitType
  <2>8. CASE DeadlockAbort(w)
    BY <2>8, DeadlockAbortType
  <2> QED BY <1>6, <2>1, <2>2, <2>3, <2>4, <2>5, <2>6, <2>7, <2>8 DEF Step
<1>7. CASE UNCHANGED vars
  <2>1. TypeOK' /\ TicketsKnown'
    BY <1>7 DEF TypeInv, TypeOK, TicketsKnown, vars, source, tables, history
  <2>2. \A w \in Sessions : Shape(w)'
    BY <1>7 DEF TypeInv, Shape, NoWrites, vars, tables
  <2> QED BY <2>1, <2>2 DEF TypeInv
<1> QED BY <1>1, <1>2, <1>3, <1>4, <1>5, <1>6, <1>7 DEF Next

LEMMA TypeInvariant == Spec => []TypeInv
BY InitType, TypeStep, PTL DEF Spec

\* The variables keep their types, and so do the writes of every session:
\* what _process_record and replay_unmapped load and merge is a row.
THEOREM TypeCorrect == Spec => []TypeOK
<1>1. TypeInv => TypeOK
  BY DEF TypeInv
<1> QED BY <1>1, TypeInvariant, PTL

-----------------------------------------------------------------------------
(* Unmapped rows.                                                           *)

\* A row that should have one unmapped row has one, any other has none.
Right(row, n) == n = IF row # None /\ row.seg = None THEN 1 ELSE 0

RowLocks ==
    \A w, x \in Sessions, r \in Records : w # x /\ sess[w].put[r] # None => sess[x].put[r] = None

\* What w is about to commit is right, or was written over a row changed
\* under it, or is the deletion of a record left wrong by such a write.
Pending(w) ==
    LET S == sess[w]
    IN \A r \in Records :
         /\ S.put[r] # None => \/ r \in S.mixed
                               \/ Right(S.put[r], S.tix[r])
                               \/ r \in crossed /\ w \in Syncs /\ S.feed[r].deleted
         /\ r \in S.mixed => S.put[r] # None
         /\ S.tix[r] \in {0, 1, None}

TicketInv ==
    /\ TypeInv /\ RowLocks
    /\ \A r \in Records : tickets[r] \in {0, 1} /\ (r \notin crossed => Right(coll[r], tickets[r]))
    /\ \A w \in Sessions : Pending(w)

\* A step of w that writes no row.
LEMMA TicketSame ==
  ASSUME TicketInv, TypeInv', NEW w \in Sessions,
         UNCHANGED <<coll, tickets, crossed>>,
         \A x \in Sessions \ {w} : sess'[x] = sess[x],
         \/ /\ sess'[w].put = sess[w].put /\ sess'[w].tix = sess[w].tix
            /\ sess'[w].mixed = sess[w].mixed
            /\ sess'[w].feed = sess[w].feed \/ NoWrites(w)
         \/ /\ sess'[w].mixed = {}
            /\ \A r \in Records : sess'[w].put[r] = None /\ sess'[w].tix[r] = None
  PROVE  TicketInv'
<1>1. \A r \in Records : sess'[w].put[r] = None \/ sess'[w].put[r] = sess[w].put[r]
  OBVIOUS
<1>2. RowLocks'
  <2> SUFFICES ASSUME NEW a \in Sessions, NEW b \in Sessions, NEW r \in Records,
                      a # b, sess'[a].put[r] # None
               PROVE  sess'[b].put[r] = None
    BY DEF RowLocks
  <2>1. sess[a].put[r] # None
    BY <1>1
  <2>2. sess[b].put[r] = None
    BY <2>1 DEF TicketInv, RowLocks
  <2> QED BY <1>1, <2>2
<1>3. ASSUME NEW x \in Sessions PROVE Pending(x)'
  <2>1. CASE x # w
    BY <2>1 DEF TicketInv, Pending
  <2>2. CASE x = w
    BY <2>2 DEF TicketInv, Pending, NoWrites
  <2> QED BY <2>1, <2>2
<1>4. \A r \in Records : tickets'[r] \in {0, 1} /\ (r \notin crossed' => Right(coll'[r], tickets'[r]))
  BY DEF TicketInv
<1> QED BY <1>2, <1>3, <1>4 DEF TicketInv

\* Set changes nobody else's session.
LEMMA SetOthers ==
  ASSUME TypeInv, NEW w \in Sessions, NEW S, Set(w, S)
  PROVE  sess'[w] = S /\ \A x \in Sessions \ {w} : sess'[x] = sess[x]
BY DEF TypeInv, TypeOK, Set

\* Sessions begin without writes, and are closed before.
LEMMA BeginTickets ==
  ASSUME TicketInv, TypeInv', NEW w \in Sessions, NEW S, Begin(w, S),
         S.put = Closed.put, S.tix = Closed.tix, S.mixed = {}
  PROVE  TicketInv'
<1>1. Set(w, S) /\ UNCHANGED <<coll, tickets, crossed>>
  BY DEF Begin, tables, history
<1>2. sess'[w] = S /\ \A x \in Sessions \ {w} : sess'[x] = sess[x]
  BY <1>1, SetOthers DEF TicketInv
<1>3. \A r \in Records : sess'[w].put[r] = None /\ sess'[w].tix[r] = None
  BY <1>2, ClosedNone
<1> QED BY <1>1, <1>2, <1>3, TicketSame

LEMMA StoreTickets ==
  ASSUME TicketInv, NEW w \in Sessions, Store(w)
  PROVE  TicketInv'
<1> DEFINE S == sess[w]
           r == S.rec
           A == AfterStore(w)
<1>0. TypeInv /\ S \in SessionType /\ Shape(w) /\ Pending(w) /\ S.pc = "store" /\ r \in Records
  BY DEF TicketInv, TypeInv, TypeOK, Store, Shape
<1>1. UNCHANGED <<coll, tickets, crossed>> /\ Blockers(w) = {} /\ TypeInv'
  BY <1>0, StoreStep DEF tables, history
<1>2. CASE sess'[w] = Closed
  <2>1. sess' = [sess EXCEPT ![w] = sess'[w]]
    BY <1>0, StoreStep DEF Store, Set
  <2>2. \A x \in Sessions \ {w} : sess'[x] = sess[x]
    BY <1>0, <2>1 DEF TypeInv, TypeOK
  <2> QED BY <1>1, <1>2, <2>2, ClosedNone, TicketSame
<1>3. CASE sess'[w] # Closed
  <2>1. /\ ~(S.row = None /\ coll[r] # None)
        /\ A \in SessionType
        /\ sess' = [sess EXCEPT ![w] = Onward(A)]
        /\ A.put = [S.put EXCEPT ![r] = StoredRow(w)] /\ A.tix = [S.tix EXCEPT ![r] = NewTickets(w)]
        /\ A.mixed = IF coll[r] # S.row THEN S.mixed \cup {r} ELSE S.mixed
        /\ A.feed = S.feed
    BY <1>0, <1>3, StoreStep
  <2> HIDE DEF A
  <2>2. /\ sess'[w].put = [S.put EXCEPT ![r] = StoredRow(w)]
        /\ sess'[w].tix = [S.tix EXCEPT ![r] = NewTickets(w)]
        /\ sess'[w].mixed = IF coll[r] # S.row THEN S.mixed \cup {r} ELSE S.mixed
        /\ sess'[w].feed = S.feed
        /\ \A x \in Sessions \ {w} : sess'[x] = sess[x]
    <3>1. sess'[w] = Onward(A) /\ \A x \in Sessions \ {w} : sess'[x] = sess[x]
      BY <1>0, <2>1 DEF TypeInv, TypeOK
    <3> QED BY <2>1, <3>1, OnwardType
  <2>3. S.put[r] = None /\ S.tix[r] = None /\ Opened(w)[r] = tickets[r]
    <3>1. S.put[r] = None /\ S.tix[r] = None
      BY <1>0 DEF Shape
    <3> QED BY <1>0, <3>1, Views DEF TypeInv
  <2>4. \A x \in Sessions \ {w} : sess[x].put[r] = None
    BY <1>0, <1>1 DEF Blockers
  <2>5. RowLocks'
    <3> SUFFICES ASSUME NEW a \in Sessions, NEW b \in Sessions, NEW q \in Records,
                        a # b, sess'[a].put[q] # None
                 PROVE  sess'[b].put[q] = None
      BY DEF RowLocks
    <3>1. CASE q = r
      BY <2>2, <2>4, <3>1
    <3>2. CASE q # r
      <4>1. sess'[a].put[q] = sess[a].put[q] /\ sess'[b].put[q] = sess[b].put[q]
        BY <1>0, <2>2, <3>2 DEF SessionType
      <4> QED BY <4>1 DEF TicketInv, RowLocks
    <3> QED BY <3>1, <3>2
  <2>6. NewTickets(w) \in {0, 1}
        /\ (coll[r] = S.row => \/ Right(StoredRow(w), NewTickets(w))
                               \/ r \in crossed /\ w \in Syncs /\ S.feed[r].deleted)
    <3>1. coll[r] \in Row \cup {None} /\ S.row \in Row \cup {None} /\ S.to \in Segments \cup {None}
      BY <1>0 DEF SessionType, TypeInv, TypeOK, Table
    <3>2. tickets[r] \in {0, 1} /\ (coll[r] = None => tickets[r] = 0)
          /\ (r \notin crossed => Right(coll[r], tickets[r]))
      BY <1>0 DEF TicketInv, TypeInv, TicketsKnown
    <3>3. coll[r] = S.row => StoredRow(w) = NewRow(w)
      BY <1>0, NewRowType
    <3>4. CASE S.to # None
      <4>1. NewTickets(w) = 0
        BY <3>4 DEF NewTickets
      <4>2. NewRow(w) # None /\ NewRow(w).seg # None
        <5>1. NewRow(w) \in Row
          BY <1>0, NewRowType
        <5>2. CASE w \in Replays
          <6>1. S.row \in Row /\ NewRow(w) = [S.row EXCEPT !.seg = S.to]
            BY <1>0, <3>1, <5>2 DEF Shape, NewRow
          <6> QED BY <3>4, <5>1, <6>1, RowAssumption DEF Row
        <5>3. CASE w \notin Replays
          <6>1. ~S.feed[r].deleted
            BY <1>0, <3>4, <5>3 DEF Shape
          <6>2. NewRow(w).seg = S.to
            BY <5>3, <6>1 DEF NewRow
          <6> QED BY <3>4, <5>1, <6>2, RowAssumption
        <5> QED BY <5>2, <5>3
      <4> QED BY <3>3, <4>1, <4>2 DEF Right
    <3>5. CASE S.to = None /\ S.feed[r].deleted
      <4>1. w \in Syncs /\ w \notin Replays /\ S.row \in Row
        BY <1>0, <3>1, <3>5, NoneAssumption DEF Shape
      <4>2. NewTickets(w) = tickets[r] /\ NewRow(w) = [S.row EXCEPT !.active = FALSE]
        BY <2>3, <3>5, <4>1 DEF NewTickets, NewRow
      <4>3. NewRow(w).seg = S.row.seg /\ NewRow(w) \in Row
        BY <1>0, <4>1, <4>2, NewRowType DEF Row
      <4> QED BY <3>2, <3>3, <3>5, <4>1, <4>2, <4>3, RowAssumption DEF Right
    <3>6. CASE S.to = None /\ ~S.feed[r].deleted
      <4>1. w \notin Replays
        BY <1>0, <3>6, NoneAssumption DEF Shape
      <4>2. NewRow(w) # None /\ NewRow(w).seg = None
        BY <1>0, <3>6, <4>1, NewRowType, RowAssumption DEF NewRow
      <4>3. NewTickets(w) = IF S.row = None \/ tickets[r] = 0 THEN tickets[r] + 1 ELSE tickets[r]
        BY <2>3, <3>6 DEF NewTickets
      <4>4. S.row = None => tickets[r] = 0
        BY <2>1, <3>2
      <4>5. NewTickets(w) = 1
        BY <3>2, <4>3, <4>4
      <4> QED BY <3>3, <4>2, <4>5 DEF Right
    <3> QED BY <3>4, <3>5, <3>6
  <2>7. ASSUME NEW x \in Sessions PROVE Pending(x)'
    <3>1. CASE x # w
      BY <1>1, <2>2, <3>1 DEF TicketInv, Pending
    <3>2. CASE x = w
      <4>1. ASSUME NEW q \in Records, q # r
            PROVE /\ sess'[w].put[q] = S.put[q] /\ sess'[w].tix[q] = S.tix[q]
                  /\ (q \in sess'[w].mixed <=> q \in S.mixed)
        BY <1>0, <2>2, <4>1 DEF SessionType
      <4>2. /\ sess'[w].put[r] = StoredRow(w) /\ sess'[w].tix[r] = NewTickets(w)
            /\ coll[r] # S.row => r \in sess'[w].mixed
        BY <1>0, <2>2 DEF SessionType
      <4>3. StoredRow(w) # None
        BY <1>0, NewRowType, RowAssumption
      <4>4. ASSUME NEW q \in Records
            PROVE  /\ sess'[w].put[q] # None =>
                        \/ q \in sess'[w].mixed
                        \/ Right(sess'[w].put[q], sess'[w].tix[q])
                        \/ q \in crossed' /\ w \in Syncs /\ sess'[w].feed[q].deleted
                   /\ q \in sess'[w].mixed => sess'[w].put[q] # None
                   /\ sess'[w].tix[q] \in {0, 1, None}
        <5>1. CASE q = r
          BY <1>1, <2>2, <2>6, <4>2, <4>3, <5>1
        <5>2. CASE q # r
          BY <1>0, <1>1, <2>2, <4>1, <5>2 DEF Pending
        <5> QED BY <5>1, <5>2
      <4> QED BY <3>2, <4>4 DEF Pending
    <3> QED BY <3>1, <3>2
  <2> QED BY <1>1, <2>5, <2>7 DEF TicketInv
<1> QED BY <1>2, <1>3

LEMMA CommitTickets ==
  ASSUME TicketInv, NEW w \in Sessions, Commit(w)
  PROVE  TicketInv'
<1> DEFINE S == sess[w]
           through == IF w \in Syncs THEN Window(S.feed, S.from.ts, S.from.rid) ELSE {}
           written == {r \in through : S.put[r] # None}
<1>1. /\ coll' = Rows(w) /\ tickets' = Opened(w) /\ Set(w, Closed)
      /\ crossed' = (crossed \ {r \in written : ~S.feed[r].deleted}) \cup S.mixed
  BY DEF Commit
<1>2. TypeInv /\ TypeInv' /\ Pending(w) /\ Shape(w)
  BY CommitType DEF TicketInv, TypeInv
<1>3. sess'[w] = Closed /\ \A x \in Sessions \ {w} : sess'[x] = sess[x]
  BY <1>1, <1>2, SetOthers
<1> HIDE DEF through
<1>4. RowLocks'
  <2> SUFFICES ASSUME NEW a \in Sessions, NEW b \in Sessions, NEW r \in Records,
                      a # b, sess'[a].put[r] # None
               PROVE  sess'[b].put[r] = None
    BY DEF RowLocks
  <2>1. a # w /\ sess[a].put[r] # None
    BY <1>3, ClosedNone
  <2>2. sess[b].put[r] = None
    BY <2>1 DEF TicketInv, RowLocks
  <2> QED BY <1>3, <2>2, ClosedNone
<1>5. ASSUME NEW r \in Records
      PROVE  tickets'[r] \in {0, 1} /\ (r \notin crossed' => Right(coll'[r], tickets'[r]))
  <2>1. CASE S.put[r] = None
    <3>1. coll'[r] = coll[r] /\ tickets'[r] = tickets[r]
      BY <1>1, <1>2, <2>1, Views DEF Shape, TypeInv
    <3>2. r \notin crossed' => r \notin crossed
      BY <1>1, <2>1
    <3> QED BY <3>1, <3>2 DEF TicketInv
  <2>2. CASE S.put[r] # None
    <3>1. S.tix[r] # None
      BY <1>2, <2>2 DEF Shape
    <3>2. coll'[r] = S.put[r] /\ tickets'[r] = S.tix[r]
      BY <1>1, <1>2, <2>2, <3>1, Views DEF TypeInv
    <3>3. r \in crossed /\ S.feed[r].deleted => r \in crossed'
      BY <1>1
    <3> QED BY <1>1, <1>2, <2>2, <3>1, <3>2, <3>3 DEF Pending
  <2> QED BY <2>1, <2>2
<1>6. ASSUME NEW x \in Sessions PROVE Pending(x)'
  <2>1. CASE x = w
    <3>1. \A r \in Records : sess'[x].put[r] = None /\ sess'[x].tix[r] = None /\ r \notin sess'[x].mixed
      BY <1>3, <2>1, ClosedNone
    <3> QED BY <3>1 DEF Pending
  <2>2. CASE x # w
    <3>1. sess'[x] = sess[x] /\ Pending(x)
      BY <1>3, <2>2 DEF TicketInv
    <3>2. ASSUME NEW r \in Records, sess[x].put[r] # None, r \in crossed PROVE r \in crossed'
      <4>1. S.put[r] = None
        BY <2>2, <3>2 DEF TicketInv, RowLocks
      <4> QED BY <1>1, <3>2, <4>1
    <3> QED BY <3>1, <3>2 DEF Pending
  <2> QED BY <2>1, <2>2
<1> QED BY <1>2, <1>4, <1>5, <1>6 DEF TicketInv

LEMMA TicketInit == Init => TicketInv
<1> SUFFICES ASSUME Init PROVE TicketInv
  OBVIOUS
<1>1. \A w \in Sessions : sess[w] = Closed
  BY DEF Init
<1>2. \A w \in Sessions, r \in Records :
        sess[w].put[r] = None /\ sess[w].tix[r] = None /\ r \notin sess[w].mixed
  BY <1>1, ClosedNone
<1> QED BY <1>2, InitType DEF Init, TicketInv, RowLocks, Pending, Right

LEMMA TicketStep == TicketInv /\ [Next]_vars => TicketInv'
<1> SUFFICES ASSUME TicketInv, [Next]_vars PROVE TicketInv'
  OBVIOUS
<1>0. TypeInv /\ TypeInv'
  BY TypeStep DEF TicketInv
<1>1. ASSUME NEW r \in Records, NEW x \in Contents, Publish(r, x) PROVE TicketInv'
  <2>1. UNCHANGED <<coll, tickets, crossed, sess>>
    BY <1>1 DEF Publish, tables, history
  <2> QED BY <1>0, <2>1 DEF TicketInv, RowLocks, Pending
<1>2. ASSUME NEW w \in Syncs, BeginSync(w) PROVE TicketInv'
  <2>1. w \in Sessions
    BY DEF Sessions
  <2>2. PICK S : Begin(w, S) /\ S.put = Closed.put /\ S.tix = Closed.tix /\ S.mixed = {}
    <3>1. CASE Begin(w, [Closed EXCEPT !.pc = "fetch"])
      <4>1. LET S == [Closed EXCEPT !.pc = "fetch"]
            IN S.put = Closed.put /\ S.tix = Closed.tix /\ S.mixed = {}
        BY DEF Closed
      <4> QED BY <3>1, <4>1
    <3>2. ASSUME NEW k \in DOMAIN cursors,
                 Begin(w, [Closed EXCEPT !.pc = "fetch", !.cur = k, !.from = cursors[k],
                                         !.newMax = cursors[k].ts, !.lastId = cursors[k].rid])
          PROVE \E S : Begin(w, S) /\ S.put = Closed.put /\ S.tix = Closed.tix /\ S.mixed = {}
      <4>1. LET S == [Closed EXCEPT !.pc = "fetch", !.cur = k, !.from = cursors[k],
                                    !.newMax = cursors[k].ts, !.lastId = cursors[k].rid]
            IN S.put = Closed.put /\ S.tix = Closed.tix /\ S.mixed = {}
        BY DEF Closed
      <4> QED BY <3>2, <4>1
    <3> QED BY <1>2, <3>1, <3>2 DEF BeginSync
  <2> QED BY <1>0, <2>1, <2>2, BeginTickets
<1>3. ASSUME NEW w \in Replays, NEW r \in Records, NEW s \in Segments, BeginReplay(w, r, s)
      PROVE TicketInv'
  <2> DEFINE S == [Closed EXCEPT !.pc = "load", !.rec = r, !.to = s]
  <2>1. w \in Sessions /\ Begin(w, S)
    BY <1>3 DEF Sessions, BeginReplay
  <2>2. S.put = Closed.put /\ S.tix = Closed.tix /\ S.mixed = {}
    BY DEF Closed
  <2> HIDE DEF S
  <2> QED BY <1>0, <2>1, <2>2, BeginTickets
<1>4. ASSUME NEW w \in Checks, NEW T \in SUBSET Segments, BeginChecks(w, T) PROVE TicketInv'
  <2> DEFINE eligible == {s \in T : status[s] \in Checkable}
  <2>1. PICK order \in [1..Cardinality(eligible) -> eligible] :
          Begin(w, [Closed EXCEPT !.pc = IF order = <<>> THEN "next" ELSE "count", !.todo = order,
                      !.seen = [s \in Segments |-> IF s \in eligible THEN status[s] ELSE None]])
    BY <1>4 DEF BeginChecks
  <2> DEFINE S == [Closed EXCEPT !.pc = IF order = <<>> THEN "next" ELSE "count", !.todo = order,
                      !.seen = [s \in Segments |-> IF s \in eligible THEN status[s] ELSE None]]
  <2>2. w \in Sessions /\ Begin(w, S)
    BY <2>1 DEF Sessions
  <2>3. S.put = Closed.put /\ S.tix = Closed.tix /\ S.mixed = {}
    BY DEF Closed
  <2> HIDE DEF S
  <2> QED BY <1>0, <2>2, <2>3, BeginTickets
<1>5. ASSUME NEW w \in Reviews, NEW s \in Segments, NEW outcome, BeginReview(w, s, outcome)
      PROVE TicketInv'
  <2> DEFINE new == IF outcome = "pass" THEN Complete ELSE Faulty
             S == [Closed EXCEPT !.pc = IF new = status[s] THEN "next" ELSE "flush",
                                 !.todo = IF new = status[s] THEN <<>> ELSE <<s>>,
                                 !.want = new, !.seen[s] = status[s]]
  <2>1. w \in Sessions /\ Begin(w, S)
    BY <1>5 DEF Sessions, BeginReview
  <2>2. S.put = Closed.put /\ S.tix = Closed.tix /\ S.mixed = {}
    BY DEF Closed
  <2> HIDE DEF S
  <2> QED BY <1>0, <2>1, <2>2, BeginTickets
<1>6. ASSUME NEW w \in Sessions, Step(w) PROVE TicketInv'
  <2>0. sess[w] \in SessionType /\ Shape(w)
    BY <1>0 DEF TypeInv, TypeOK
  <2>1. CASE Fetch(w)
    <3> DEFINE S == [sess[w] EXCEPT !.pc = "next", !.feed = feed,
                                    !.rest = Window(feed, sess[w].from.ts, sess[w].lastId)]
    <3>1. Set(w, S) /\ UNCHANGED <<coll, tickets, crossed>> /\ NoWrites(w)
      BY <2>0, <2>1 DEF Fetch, Shape, tables, history
    <3>2. S.put = sess[w].put /\ S.tix = sess[w].tix /\ S.mixed = sess[w].mixed
      BY <2>0 DEF SessionType
    <3> HIDE DEF S
    <3>3. sess'[w] = S /\ \A x \in Sessions \ {w} : sess'[x] = sess[x]
      BY <1>0, <3>1, SetOthers
    <3> QED BY <1>0, <3>1, <3>2, <3>3, TicketSame
  <2>2. ASSUME NEW r \in Records, NextRecord(w, r) PROVE TicketInv'
    <3>1. /\ UNCHANGED <<coll, tickets, crossed>> /\ Set(w, sess'[w])
          /\ sess'[w].put = sess[w].put /\ sess'[w].tix = sess[w].tix
          /\ sess'[w].mixed = sess[w].mixed /\ sess'[w].feed = sess[w].feed
      BY <1>0, <2>2, NextRecordStep DEF tables, history
    <3>2. \A x \in Sessions \ {w} : sess'[x] = sess[x]
      BY <1>0, <3>1, SetOthers
    <3> QED BY <1>0, <3>1, <3>2, TicketSame
  <2>3. CASE LoadReplayed(w)
    <3> DEFINE S == [sess[w] EXCEPT !.pc = "store", !.row = coll[sess[w].rec]]
    <3>1. Set(w, S) /\ UNCHANGED <<coll, tickets, crossed>>
      BY <2>3 DEF LoadReplayed, tables, history
    <3>2. /\ S.put = sess[w].put /\ S.tix = sess[w].tix /\ S.mixed = sess[w].mixed
          /\ S.feed = sess[w].feed
      BY <2>0 DEF SessionType
    <3> HIDE DEF S
    <3>3. sess'[w] = S /\ \A x \in Sessions \ {w} : sess'[x] = sess[x]
      BY <1>0, <3>1, SetOthers
    <3> QED BY <1>0, <3>1, <3>2, <3>3, TicketSame
  <2>4. CASE Store(w)
    BY <2>4, StoreTickets
  <2>5. CASE Count(w)
    <3>1. /\ UNCHANGED <<coll, tickets, crossed>> /\ sess' = [sess EXCEPT ![w] = sess'[w]]
          /\ sess'[w].put = sess[w].put /\ sess'[w].tix = sess[w].tix
          /\ sess'[w].mixed = sess[w].mixed /\ sess'[w].feed = sess[w].feed
      BY <1>0, <2>5, CountStep DEF tables, history
    <3>2. \A x \in Sessions \ {w} : sess'[x] = sess[x]
      BY <1>0, <3>1 DEF TypeInv, TypeOK
    <3> QED BY <1>0, <3>1, <3>2, TicketSame
  <2>6. CASE Flush(w)
    <3>1. /\ UNCHANGED <<coll, tickets, crossed>> /\ sess' = [sess EXCEPT ![w] = sess'[w]]
          /\ sess'[w].put = sess[w].put /\ sess'[w].tix = sess[w].tix
          /\ sess'[w].mixed = sess[w].mixed /\ sess'[w].feed = sess[w].feed
      BY <1>0, <2>6, FlushStep DEF tables, history
    <3>2. \A x \in Sessions \ {w} : sess'[x] = sess[x]
      BY <1>0, <3>1 DEF TypeInv, TypeOK
    <3> QED BY <1>0, <3>1, <3>2, TicketSame
  <2>7. CASE Commit(w)
    BY <2>7, CommitTickets
  <2>8. CASE DeadlockAbort(w)
    <3>1. Set(w, Closed) /\ UNCHANGED <<coll, tickets, crossed>>
      BY <2>8 DEF DeadlockAbort, tables, history
    <3>2. sess'[w] = Closed /\ \A x \in Sessions \ {w} : sess'[x] = sess[x]
      BY <1>0, <3>1, SetOthers
    <3> QED BY <1>0, <3>1, <3>2, ClosedNone, TicketSame
  <2> QED BY <1>6, <2>1, <2>2, <2>3, <2>4, <2>5, <2>6, <2>7, <2>8 DEF Step
<1>7. CASE UNCHANGED vars
  <2>1. UNCHANGED <<coll, tickets, crossed, sess>>
    BY <1>7 DEF vars, tables, history
  <2> QED BY <1>0, <2>1 DEF TicketInv, RowLocks, Pending
<1> QED BY <1>1, <1>2, <1>3, <1>4, <1>5, <1>6, <1>7 DEF Next

\* However many syncs and replays overlap, a record waits once on the Unmapped
\* Records page while it has no segment and not at all once it has one, as long
\* as no session wrote it over a row that changed after it had loaded it.
THEOREM OneTicketPerRecord == Spec => []OneTicketUnlessCrossed
<1>1. TicketInv => OneTicketUnlessCrossed
  BY DEF TicketInv, OneTicketUnlessCrossed, Right
<1>2. Spec => []TicketInv
  BY TicketInit, TicketStep, PTL DEF Spec
<1> QED BY <1>1, <1>2, PTL

-----------------------------------------------------------------------------
(* Statuses.                                                                *)

StatusLocks ==
    \A w, x \in Sessions, s \in Segments : w # x /\ sess[w].sts[s] # None => sess[x].sts[s] = None

\* What w will flush, or check next, it did not load as faulty.
Settled(w) ==
    LET S == sess[w]
    IN /\ S.pc = "flush" /\ w \notin Reviews /\ S.want # Faulty => S.seen[Head(S.todo)] # Faulty
       /\ w \in Checks /\ S.pc \in {"count", "flush"} =>
            \A i \in DOMAIN S.todo : S.seen[S.todo[i]] \in Checkable

\* While w holds the row of s, a faulty s is not about to be cleared unless w
\* had loaded something else than it then wrote over.
Knowing(w) ==
    w \notin Reviews =>
      \A s \in Segments :
        sess[w].sts[s] \notin {None, Faulty} /\ s \notin sess[w].over => status[s] # Faulty

StatusInv == TypeInv /\ StatusLocks /\ \A w \in Sessions : Settled(w) /\ Knowing(w)

\* A step of w that writes no status.
LEMMA StatusSame ==
  ASSUME StatusInv, TypeInv', NEW w \in Sessions,
         UNCHANGED status, Settled(w)',
         \A x \in Sessions \ {w} : sess'[x] = sess[x],
         \/ sess'[w].sts = sess[w].sts /\ sess'[w].over = sess[w].over
         \/ \A s \in Segments : sess'[w].sts[s] = None
  PROVE  StatusInv'
<1>1. \A s \in Segments : sess'[w].sts[s] = None \/ sess'[w].sts[s] = sess[w].sts[s]
  OBVIOUS
<1>2. StatusLocks'
  <2> SUFFICES ASSUME NEW a \in Sessions, NEW b \in Sessions, NEW s \in Segments,
                      a # b, sess'[a].sts[s] # None
               PROVE  sess'[b].sts[s] = None
    BY DEF StatusLocks
  <2>1. sess[a].sts[s] # None
    BY <1>1
  <2>2. sess[b].sts[s] = None
    BY <2>1 DEF StatusInv, StatusLocks
  <2> QED BY <1>1, <2>2
<1>3. ASSUME NEW x \in Sessions PROVE Settled(x)' /\ Knowing(x)'
  <2>1. CASE x # w
    BY <2>1 DEF StatusInv, Settled, Knowing
  <2>2. CASE x = w
    BY <2>2 DEF StatusInv, Knowing
  <2> QED BY <2>1, <2>2
<1> QED BY <1>2, <1>3 DEF StatusInv

LEMMA BeginStatus ==
  ASSUME StatusInv, TypeInv', NEW w \in Sessions, NEW S, Begin(w, S),
         S.sts = Closed.sts, sess'[w] = S => Settled(w)'
  PROVE  StatusInv'
<1>1. Set(w, S) /\ UNCHANGED status
  BY DEF Begin, tables
<1>2. sess'[w] = S /\ \A x \in Sessions \ {w} : sess'[x] = sess[x]
  BY <1>1, SetOthers DEF StatusInv
<1>3. \A s \in Segments : sess'[w].sts[s] = None
  BY <1>2, ClosedNone
<1> QED BY <1>1, <1>2, <1>3, StatusSame

LEMMA CountStatus ==
  ASSUME StatusInv, NEW w \in Sessions, Count(w)
  PROVE  StatusInv'
<1> DEFINE S == sess[w]
           s == Head(S.todo)
           old == IF S.seen[s] # None THEN S.seen[s] ELSE Status(w)[s]
<1>1. /\ TypeInv /\ TypeInv' /\ S \in SessionType /\ Shape(w) /\ Settled(w) /\ S.pc = "count"
      /\ UNCHANGED status /\ sess'[w].sts = S.sts /\ sess'[w].over = S.over
      /\ \A x \in Sessions \ {w} : sess'[x] = sess[x]
  <2>1. TypeInv /\ S \in SessionType /\ Shape(w) /\ Settled(w)
    BY DEF StatusInv, TypeInv, TypeOK
  <2>2. /\ TypeInv' /\ sess' = [sess EXCEPT ![w] = sess'[w]] /\ S.pc = "count"
        /\ UNCHANGED status /\ sess'[w].sts = S.sts /\ sess'[w].over = S.over
    BY <2>1, CountStep DEF tables
  <2> QED BY <2>1, <2>2 DEF TypeInv, TypeOK
<1>2. S.todo \in Seq(Segments) /\ S.todo # <<>> /\ s \in Segments /\ S.seen \in [Segments -> Statuses \cup {None}]
  BY <1>1, HeadTail DEF Shape, SessionType
<1>3. \/ /\ sess'[w].pc \in {"count", "next"} /\ sess'[w].todo = Tail(S.todo)
         /\ sess'[w].todo # <<>> => sess'[w].seen = S.seen
      \/ /\ sess'[w].pc = "flush" /\ sess'[w].todo = S.todo
         /\ sess'[w].want = Verdict(w, s, old) /\ sess'[w].want # old
         /\ sess'[w].seen = [S.seen EXCEPT ![s] = old]
  BY <1>1, CountStep
<1>4. w \in Checks => \A i \in DOMAIN S.todo : S.seen[S.todo[i]] \in Checkable
  BY <1>1 DEF Settled
<1>5. w \in Checks => old = S.seen[s] /\ old \in Checkable
  <2>1. 1 \in DOMAIN S.todo /\ s = S.todo[1]
    BY <1>2
  <2>2. None \notin Checkable
    BY ValueAssumption DEF Checkable, Statuses
  <2> QED BY <1>4, <2>1, <2>2
<1>6. Settled(w)'
  <2>1. CASE sess'[w].pc \in {"count", "next"}
    <3>1. /\ sess'[w].todo = Tail(S.todo) /\ (sess'[w].todo # <<>> => sess'[w].seen = S.seen)
      BY <1>3, <2>1
    <3>2. \A i \in DOMAIN Tail(S.todo) : i + 1 \in DOMAIN S.todo /\ Tail(S.todo)[i] = S.todo[i + 1]
                                          /\ Tail(S.todo) # <<>>
      <4> HIDE DEF S
      <4> QED BY <1>2
    <3> QED BY <1>4, <2>1, <3>1, <3>2 DEF Settled
  <2>2. CASE sess'[w].pc = "flush"
    <3>1. /\ sess'[w].todo = S.todo /\ sess'[w].want = Verdict(w, s, old) /\ sess'[w].want # old
          /\ sess'[w].seen = [S.seen EXCEPT ![s] = old]
      BY <1>3, <2>2
    <3>2. sess'[w].seen[Head(sess'[w].todo)] = old
      BY <1>2, <3>1
    <3>3. w \in Checks => sess'[w].seen = S.seen
      BY <1>2, <1>5, <3>1
    <3>4. old # Faulty
      <4>1. CASE w \in Checks
        BY <1>5, <4>1 DEF Checkable, Full, Complete, Faulty
      <4>2. CASE w \notin Checks
        BY <3>1, <4>2 DEF Verdict, Recalculated
      <4> QED BY <4>1, <4>2
    <3> QED BY <1>4, <2>2, <3>1, <3>2, <3>3, <3>4 DEF Settled
  <2> QED BY <1>3, <2>1, <2>2
<1> QED BY <1>1, <1>6, StatusSame

LEMMA FlushStatus ==
  ASSUME StatusInv, NEW w \in Sessions, Flush(w)
  PROVE  StatusInv'
<1> DEFINE S == sess[w]
           s == Head(S.todo)
           A == AfterFlush(w)
<1>1. TypeInv /\ S \in SessionType /\ Shape(w) /\ Settled(w) /\ Knowing(w)
  BY DEF StatusInv, TypeInv, TypeOK
<1>2. /\ TypeInv' /\ sess' = [sess EXCEPT ![w] = sess'[w]] /\ UNCHANGED status
      /\ S.pc = "flush" /\ Blockers(w) = {} /\ sess'[w].pc \in {"count", "next"}
      /\ sess'[w].sts = [S.sts EXCEPT ![s] = S.want]
      /\ sess'[w].over = IF Status(w)[s] # S.seen[s] THEN S.over \cup {s} ELSE S.over
      /\ sess'[w] = Onward(A) /\ A \in SessionType /\ A.todo = Tail(S.todo) /\ A.seen = S.seen
  BY <1>1, FlushStep DEF tables
<1> HIDE DEF A
<1>3. /\ S.todo \in Seq(Segments) /\ S.todo # <<>> /\ s \in Segments
      /\ S.sts \in [Segments -> Statuses \cup {None}]
      /\ \A x \in Sessions \ {w} : sess'[x] = sess[x]
  BY <1>1, <1>2, HeadTail DEF Shape, SessionType, TypeInv, TypeOK
<1>4. Settled(w)'
  <2>1. /\ sess'[w].todo = Tail(S.todo) /\ (sess'[w].todo # <<>> => sess'[w].seen = S.seen)
    BY <1>2, OnwardType
  <2>2. \A i \in DOMAIN Tail(S.todo) : i + 1 \in DOMAIN S.todo /\ Tail(S.todo)[i] = S.todo[i + 1]
                                        /\ Tail(S.todo) # <<>>
    <3> HIDE DEF S
    <3> QED BY <1>3
  <2>3. w \in Checks => \A i \in DOMAIN S.todo : S.seen[S.todo[i]] \in Checkable
    BY <1>1, <1>2 DEF Settled
  <2> QED BY <1>2, <2>1, <2>2, <2>3 DEF Settled
<1>5. \A x \in Sessions \ {w} : sess[x].sts[s] = None
  BY <1>2 DEF Blockers
<1>6. StatusLocks'
  <2> SUFFICES ASSUME NEW a \in Sessions, NEW b \in Sessions, NEW q \in Segments,
                      a # b, sess'[a].sts[q] # None
               PROVE  sess'[b].sts[q] = None
    BY DEF StatusLocks
  <2>1. CASE q = s
    BY <1>3, <1>5, <2>1
  <2>2. CASE q # s
    <3>1. sess'[a].sts[q] = sess[a].sts[q] /\ sess'[b].sts[q] = sess[b].sts[q]
      BY <1>2, <1>3, <2>2
    <3> QED BY <3>1 DEF StatusInv, StatusLocks
  <2> QED BY <2>1, <2>2
<1>7. Knowing(w)'
  <2> SUFFICES ASSUME w \notin Reviews, NEW q \in Segments,
                      sess'[w].sts[q] \notin {None, Faulty}, q \notin sess'[w].over
               PROVE  status[q] # Faulty
    BY <1>2 DEF Knowing
  <2>1. q \notin S.over
    BY <1>2
  <2>2. CASE q # s
    BY <1>1, <1>2, <1>3, <2>1, <2>2 DEF Knowing
  <2>3. CASE q = s
    <3>1. S.want # Faulty /\ Status(w)[s] = S.seen[s]
      BY <1>2, <1>3, <2>3
    <3>2. Status(w)[s] # Faulty
      BY <1>1, <1>2, <3>1 DEF Settled
    <3>3. Status(w)[s] = IF S.sts[s] # None THEN S.sts[s] ELSE status[s]
      BY <1>1, <1>3, Views DEF TypeInv
    <3> QED BY <1>1, <1>3, <2>1, <2>3, <3>2, <3>3 DEF Knowing
  <2> QED BY <2>2, <2>3
<1>8. \A x \in Sessions \ {w} : Settled(x)' /\ Knowing(x)'
  BY <1>2, <1>3 DEF StatusInv, Settled, Knowing
<1> QED BY <1>2, <1>4, <1>6, <1>7, <1>8 DEF StatusInv

LEMMA CommitStatus ==
  ASSUME StatusInv, NEW w \in Sessions, Commit(w)
  PROVE  StatusInv'
<1>1. /\ status' = Status(w) /\ Set(w, Closed) /\ TypeInv /\ TypeInv'
  BY CommitType DEF Commit, StatusInv
<1>2. sess'[w] = Closed /\ \A x \in Sessions \ {w} : sess'[x] = sess[x]
  BY <1>1, SetOthers
<1>3. StatusLocks'
  <2> SUFFICES ASSUME NEW a \in Sessions, NEW b \in Sessions, NEW s \in Segments,
                      a # b, sess'[a].sts[s] # None
               PROVE  sess'[b].sts[s] = None
    BY DEF StatusLocks
  <2>1. a # w /\ sess[a].sts[s] # None
    BY <1>2, ClosedNone
  <2>2. sess[b].sts[s] = None
    BY <2>1 DEF StatusInv, StatusLocks
  <2> QED BY <1>2, <2>2, ClosedNone
<1>4. ASSUME NEW x \in Sessions PROVE Settled(x)' /\ Knowing(x)'
  <2>1. CASE x = w
    <3>1. sess'[x].pc = "closed" /\ \A s \in Segments : sess'[x].sts[s] = None
      BY <1>2, <2>1, ClosedNone
    <3> QED BY <3>1 DEF Settled, Knowing
  <2>2. CASE x # w
    <3>1. sess'[x] = sess[x] /\ Settled(x) /\ Knowing(x)
      BY <1>2, <2>2 DEF StatusInv
    <3>2. ASSUME NEW s \in Segments, sess[x].sts[s] # None PROVE status'[s] = status[s]
      <4>1. sess[w].sts[s] = None
        BY <2>2, <3>2 DEF StatusInv, StatusLocks
      <4> QED BY <1>1, <4>1, Views DEF TypeInv
    <3> QED BY <3>1, <3>2 DEF Settled, Knowing
  <2> QED BY <2>1, <2>2
<1> QED BY <1>1, <1>3, <1>4 DEF StatusInv

LEMMA StatusInit == Init => StatusInv
<1> SUFFICES ASSUME Init PROVE StatusInv
  OBVIOUS
<1>1. \A w \in Sessions : sess[w] = Closed
  BY DEF Init
<1>2. \A w \in Sessions : sess[w].pc = "closed" /\ \A s \in Segments : sess[w].sts[s] = None
  BY <1>1, ClosedNone
<1> QED BY <1>2, InitType DEF StatusInv, StatusLocks, Settled, Knowing

LEMMA StatusStep == StatusInv /\ [Next]_vars => StatusInv'
<1> SUFFICES ASSUME StatusInv, [Next]_vars PROVE StatusInv'
  OBVIOUS
<1>0. TypeInv /\ TypeInv'
  BY TypeStep DEF StatusInv
<1>1. ASSUME NEW r \in Records, NEW x \in Contents, Publish(r, x) PROVE StatusInv'
  <2>1. UNCHANGED <<status, sess>>
    BY <1>1 DEF Publish, tables
  <2> QED BY <1>0, <2>1 DEF StatusInv, StatusLocks, Settled, Knowing
<1>2. ASSUME NEW w \in Syncs, BeginSync(w) PROVE StatusInv'
  <2>1. w \in Sessions
    BY DEF Sessions
  <2>2. PICK S : Begin(w, S) /\ S.sts = Closed.sts /\ S.pc = "fetch"
    <3>1. CASE Begin(w, [Closed EXCEPT !.pc = "fetch"])
      <4>1. LET S == [Closed EXCEPT !.pc = "fetch"] IN S.sts = Closed.sts /\ S.pc = "fetch"
        BY DEF Closed
      <4> QED BY <3>1, <4>1
    <3>2. ASSUME NEW k \in DOMAIN cursors,
                 Begin(w, [Closed EXCEPT !.pc = "fetch", !.cur = k, !.from = cursors[k],
                                         !.newMax = cursors[k].ts, !.lastId = cursors[k].rid])
          PROVE \E S : Begin(w, S) /\ S.sts = Closed.sts /\ S.pc = "fetch"
      <4>1. LET S == [Closed EXCEPT !.pc = "fetch", !.cur = k, !.from = cursors[k],
                                    !.newMax = cursors[k].ts, !.lastId = cursors[k].rid]
            IN S.sts = Closed.sts /\ S.pc = "fetch"
        BY DEF Closed
      <4> QED BY <3>2, <4>1
    <3> QED BY <1>2, <3>1, <3>2 DEF BeginSync
  <2>3. sess'[w] = S => Settled(w)'
    BY <2>2 DEF Settled
  <2> QED BY <1>0, <2>1, <2>2, <2>3, BeginStatus
<1>3. ASSUME NEW w \in Replays, NEW r \in Records, NEW s \in Segments, BeginReplay(w, r, s)
      PROVE StatusInv'
  <2> DEFINE S == [Closed EXCEPT !.pc = "load", !.rec = r, !.to = s]
  <2>1. w \in Sessions /\ Begin(w, S)
    BY <1>3 DEF Sessions, BeginReplay
  <2>2. S.sts = Closed.sts /\ S.pc = "load"
    BY DEF Closed
  <2> HIDE DEF S
  <2>3. sess'[w] = S => Settled(w)'
    BY <2>2 DEF Settled
  <2> QED BY <1>0, <2>1, <2>2, <2>3, BeginStatus
<1>4. ASSUME NEW w \in Checks, NEW T \in SUBSET Segments, BeginChecks(w, T) PROVE StatusInv'
  <2> DEFINE eligible == {s \in T : status[s] \in Checkable}
             seen == [s \in Segments |-> IF s \in eligible THEN status[s] ELSE None]
  <2>1. PICK order \in [1..Cardinality(eligible) -> eligible] :
          Begin(w, [Closed EXCEPT !.pc = IF order = <<>> THEN "next" ELSE "count", !.todo = order,
                                  !.seen = seen])
    BY <1>4 DEF BeginChecks
  <2> DEFINE S == [Closed EXCEPT !.pc = IF order = <<>> THEN "next" ELSE "count", !.todo = order,
                                 !.seen = seen]
  <2>2. w \in Sessions /\ Begin(w, S)
    BY <2>1 DEF Sessions
  <2>3. S.sts = Closed.sts /\ S.pc # "flush" /\ S.todo = order /\ S.seen = seen
    BY DEF Closed
  <2>4. \A i \in DOMAIN order : seen[order[i]] \in Checkable
    OBVIOUS
  <2> HIDE DEF S, seen, eligible
  <2>5. sess'[w] = S => Settled(w)'
    BY <2>3, <2>4 DEF Settled
  <2> QED BY <1>0, <2>2, <2>3, <2>5, BeginStatus
<1>5. ASSUME NEW w \in Reviews, NEW s \in Segments, NEW outcome, BeginReview(w, s, outcome)
      PROVE StatusInv'
  <2> DEFINE new == IF outcome = "pass" THEN Complete ELSE Faulty
             S == [Closed EXCEPT !.pc = IF new = status[s] THEN "next" ELSE "flush",
                                 !.todo = IF new = status[s] THEN <<>> ELSE <<s>>,
                                 !.want = new, !.seen[s] = status[s]]
  <2>1. w \in Sessions /\ Begin(w, S) /\ w \notin Checks
    BY <1>5, SessionAssumption DEF Sessions, BeginReview
  <2>2. S.sts = Closed.sts
    BY DEF Closed
  <2> HIDE DEF S
  <2>3. Settled(w)'
    BY <2>1 DEF Settled
  <2> QED BY <1>0, <2>1, <2>2, <2>3, BeginStatus
<1>6. ASSUME NEW w \in Sessions, Step(w) PROVE StatusInv'
  <2>0. sess[w] \in SessionType /\ Shape(w)
    BY <1>0 DEF TypeInv, TypeOK
  <2>1. CASE Fetch(w)
    <3> DEFINE S == [sess[w] EXCEPT !.pc = "next", !.feed = feed,
                                    !.rest = Window(feed, sess[w].from.ts, sess[w].lastId)]
    <3>1. Set(w, S) /\ UNCHANGED status
      BY <2>1 DEF Fetch, tables
    <3>2. S.sts = sess[w].sts /\ S.over = sess[w].over /\ S.pc = "next"
      BY <2>0 DEF SessionType
    <3> HIDE DEF S
    <3>3. sess'[w] = S /\ \A x \in Sessions \ {w} : sess'[x] = sess[x]
      BY <1>0, <3>1, SetOthers
    <3>4. Settled(w)'
      BY <3>2, <3>3 DEF Settled
    <3> QED BY <1>0, <3>1, <3>2, <3>3, <3>4, StatusSame
  <2>2. ASSUME NEW r \in Records, NextRecord(w, r) PROVE StatusInv'
    <3>1. /\ UNCHANGED status /\ Set(w, sess'[w]) /\ sess'[w].pc \in {"next", "store"}
          /\ sess'[w].sts = sess[w].sts /\ sess'[w].over = sess[w].over
      BY <1>0, <2>2, NextRecordStep DEF tables
    <3>2. \A x \in Sessions \ {w} : sess'[x] = sess[x]
      BY <1>0, <3>1, SetOthers
    <3>3. Settled(w)'
      BY <3>1 DEF Settled
    <3> QED BY <1>0, <3>1, <3>2, <3>3, StatusSame
  <2>3. CASE LoadReplayed(w)
    <3> DEFINE S == [sess[w] EXCEPT !.pc = "store", !.row = coll[sess[w].rec]]
    <3>1. Set(w, S) /\ UNCHANGED status
      BY <2>3 DEF LoadReplayed, tables
    <3>2. S.sts = sess[w].sts /\ S.over = sess[w].over /\ S.pc = "store"
      BY <2>0 DEF SessionType
    <3> HIDE DEF S
    <3>3. sess'[w] = S /\ \A x \in Sessions \ {w} : sess'[x] = sess[x]
      BY <1>0, <3>1, SetOthers
    <3>4. Settled(w)'
      BY <3>2, <3>3 DEF Settled
    <3> QED BY <1>0, <3>1, <3>2, <3>3, <3>4, StatusSame
  <2>4. CASE Store(w)
    <3> DEFINE A == AfterStore(w)
    <3>1. /\ UNCHANGED status /\ sess[w].pc = "store"
          /\ \/ sess'[w] = Closed
             \/ /\ A \in SessionType /\ sess'[w] = Onward(A)
                /\ A.sts = sess[w].sts /\ A.over = sess[w].over
      BY <1>0, <2>4, StoreStep DEF tables, TypeInv, TypeOK
    <3> HIDE DEF A
    <3>2. \A x \in Sessions \ {w} : sess'[x] = sess[x]
      BY <1>0, <2>4, SetOthers DEF Store
    <3>3. /\ sess'[w].pc # "flush"
          /\ \/ sess'[w].sts = sess[w].sts /\ sess'[w].over = sess[w].over
             \/ \A s \in Segments : sess'[w].sts[s] = None
      BY <3>1, OnwardType, ClosedNone
    <3>4. w \notin Checks
      BY <2>0, <3>1, SessionAssumption DEF Shape
    <3>5. Settled(w)'
      BY <3>3, <3>4 DEF Settled
    <3> QED BY <1>0, <3>1, <3>2, <3>3, <3>5, StatusSame
  <2>5. CASE Count(w)
    BY <2>5, CountStatus
  <2>6. CASE Flush(w)
    BY <2>6, FlushStatus
  <2>7. CASE Commit(w)
    BY <2>7, CommitStatus
  <2>8. CASE DeadlockAbort(w)
    <3>1. Set(w, Closed) /\ UNCHANGED status
      BY <2>8 DEF DeadlockAbort, tables
    <3>2. sess'[w] = Closed /\ \A x \in Sessions \ {w} : sess'[x] = sess[x]
      BY <1>0, <3>1, SetOthers
    <3>3. Settled(w)'
      BY <3>2, ClosedNone DEF Settled
    <3> QED BY <1>0, <3>1, <3>2, <3>3, ClosedNone, StatusSame
  <2> QED BY <1>6, <2>1, <2>2, <2>3, <2>4, <2>5, <2>6, <2>7, <2>8 DEF Step
<1>7. CASE UNCHANGED vars
  <2>1. UNCHANGED <<status, sess>>
    BY <1>7 DEF vars, tables
  <2> QED BY <1>0, <2>1 DEF StatusInv, StatusLocks, Settled, Knowing
<1> QED BY <1>1, <1>2, <1>3, <1>4, <1>5, <1>6, <1>7 DEF Next

\* Only a commit changes a status.
LEMMA StatusChanges ==
  ASSUME TypeInv, [Next]_vars, status' # status
  PROVE  \E w \in Sessions : Commit(w)
<1>1. ASSUME NEW w \in Sessions, Step(w), ~Commit(w) PROVE status' = status
  BY <1>1 DEF Step, Fetch, NextRecord, LoadReplayed, Store, Count, Flush, DeadlockAbort, tables
<1>2. ASSUME NEW r \in Records, NEW x \in Contents, Publish(r, x) PROVE status' = status
  BY <1>2 DEF Publish, tables
<1>3. ASSUME NEW w, NEW S, Begin(w, S) PROVE status' = status
  BY <1>3 DEF Begin, tables
<1>4. ASSUME NEW w \in Syncs, BeginSync(w) PROVE status' = status
  BY <1>3, <1>4 DEF BeginSync
<1>5. ASSUME NEW w \in Replays, NEW r \in Records, NEW s \in Segments, BeginReplay(w, r, s)
      PROVE status' = status
  BY <1>3, <1>5 DEF BeginReplay
<1>6. ASSUME NEW w \in Checks, NEW T \in SUBSET Segments, BeginChecks(w, T) PROVE status' = status
  BY <1>3, <1>6 DEF BeginChecks
<1>7. ASSUME NEW w \in Reviews, NEW s \in Segments, NEW outcome, BeginReview(w, s, outcome)
      PROVE status' = status
  BY <1>3, <1>7 DEF BeginReview
<1>8. CASE UNCHANGED vars
  BY <1>8 DEF vars, tables
<1> QED BY <1>1, <1>2, <1>4, <1>5, <1>6, <1>7, <1>8 DEF Next

\* However auto-checks, syncs, replays and reviews overlap, a segment leaves
\* "data wrong" only through an inspector's session, or through one that had
\* loaded another status and wrote over the one committed since.
THEOREM FaultyStays == Spec => FaultyClearedKnowingly
<1>1. ASSUME StatusInv, [Next]_vars, NEW s \in Segments, status[s] = Faulty, status'[s] # Faulty
      PROVE  \E w \in Sessions : Commits(w, s) /\ (w \in Reviews \/ s \in sess[w].over)
  <2>1. PICK w \in Sessions : Commit(w)
    BY <1>1, StatusChanges DEF StatusInv
  <2>2. /\ sess[w].pc = "next" /\ status' = Status(w) /\ sess'[w] = Closed /\ TypeInv /\ Knowing(w)
    BY <1>1, <2>1, SetOthers DEF Commit, StatusInv
  <2>3. sess[w].sts[s] # None /\ sess[w].sts[s] # Faulty
    BY <1>1, <2>2, Views DEF TypeInv
  <2>4. Commits(w, s)
    BY <2>2, <2>3, ClosedNone DEF Commits
  <2> QED BY <1>1, <2>2, <2>3, <2>4 DEF Knowing
<1>2. StatusInv /\ [Next]_vars =>
        [\A s \in Segments : status[s] = Faulty /\ status'[s] # Faulty =>
           \E w \in Sessions : Commits(w, s) /\ (w \in Reviews \/ s \in sess[w].over)]_vars
  BY <1>1
<1>3. Spec => []StatusInv
  BY StatusInit, StatusStep, PTL DEF Spec
<1> QED BY <1>2, <1>3, PTL DEF FaultyClearedKnowingly, Spec

-----------------------------------------------------------------------------
(* Progress: who can go on, and how long a session still takes.             *)

\* A set of numbers has a least one.
LEMMA LeastNumber ==
  ASSUME NEW T \in SUBSET Nat, T # {}
  PROVE  \E n \in T : \A m \in T : n <= m
<1> PICK top \in T : TRUE
  OBVIOUS
<1> DEFINE low == {n \in T : n <= top}
           Family == {0..n : n \in low}
<1>1. IsWellFoundedOn(StrictSubsetOrdering(0..top), SUBSET (0..top))
  <2>1. IsFiniteSet(0..top)
    BY FS_Interval
  <2> QED BY <2>1, FS_StrictSubsetOrderingWellFounded, FS_FiniteSubsetsOfFinite
<1>2. Family \subseteq SUBSET (0..top) /\ Family # {}
  OBVIOUS
<1>3. PICK n \in low : \A m \in low : <<0..m, 0..n>> \notin StrictSubsetOrdering(0..top)
  <2> HIDE DEF Family
  <2>1. \E x \in Family : \A y \in Family : <<y, x>> \notin StrictSubsetOrdering(0..top)
    BY <1>1, <1>2, WFMin
  <2> QED BY <2>1 DEF Family
<1>4. ASSUME NEW m \in T, m < n PROVE FALSE
  <2>1. m \in low /\ n \in 0..n /\ n \notin 0..m /\ 0..m \subseteq 0..n /\ 0..n \subseteq 0..top
    BY <1>4
  <2>2. <<0..m, 0..n>> \in StrictSubsetOrdering(0..top)
    BY <2>1 DEF StrictSubsetOrdering
  <2> QED BY <1>3, <2>1, <2>2
<1> QED BY <1>4

\* The source sorts by stamp and id: a page that is not empty has a first record.
LEMMA FirstRecord ==
  ASSUME NEW f \in [Records -> Version \cup {None}], NEW T \in SUBSET Records, T # {},
         \A r \in T : f[r] # None
  PROVE  \E r \in T : \A q \in T \ {r} : Before(f, r, q)
<1>1. \A r \in T : f[r].ts \in Nat /\ r \in Nat
  BY RecordsAssumption DEF Version
<1>2. PICK a \in T : \A q \in T : f[a].ts <= f[q].ts
  <2> DEFINE stamps == {f[r].ts : r \in T}
  <2>1. stamps \in SUBSET Nat /\ stamps # {}
    BY <1>1
  <2> HIDE DEF stamps
  <2>2. PICK n \in stamps : \A m \in stamps : n <= m
    BY <2>1, LeastNumber
  <2> QED BY <2>2 DEF stamps
<1>3. PICK r \in {q \in T : f[q].ts = f[a].ts} : \A q \in {q \in T : f[q].ts = f[a].ts} : r <= q
  BY <1>1, LeastNumber
<1>4. \A q \in T \ {r} : Before(f, r, q)
  BY <1>1, <1>2, <1>3 DEF Before
<1> QED BY <1>3, <1>4

\* What a session that ended had written is gone.
Ended(w) == sess[w].pc = "closed" => sess[w] = Closed

\* How a session can change: it begins, or it takes a step.
LEMMA Moves ==
  ASSUME TypeInv, Next, NEW w \in Sessions, sess'[w] # sess[w]
  PROVE  Step(w) \/ (sess[w].pc = "closed" /\ sess'[w].pc # "closed")
<1>1. ASSUME NEW r \in Records, NEW x \in Contents, Publish(r, x) PROVE FALSE
  BY <1>1 DEF Publish
<1>2. ASSUME NEW x \in Sessions, NEW S, Begin(x, S), S.pc # "closed"
      PROVE  sess[w].pc = "closed" /\ sess'[w].pc # "closed"
  <2>1. sess'[x] = S /\ sess[x].pc = "closed" /\ \A y \in Sessions \ {x} : sess'[y] = sess[y]
    BY <1>2, SetOthers DEF Begin
  <2> QED BY <1>2, <2>1
<1>3. ASSUME NEW x \in Syncs, BeginSync(x)
      PROVE  sess[w].pc = "closed" /\ sess'[w].pc # "closed"
  <2>1. PICK S : Begin(x, S) /\ S.pc = "fetch"
    <3>1. [Closed EXCEPT !.pc = "fetch"].pc = "fetch"
      BY DEF Closed
    <3>2. \A k \in DOMAIN cursors :
            [Closed EXCEPT !.pc = "fetch", !.cur = k, !.from = cursors[k],
                           !.newMax = cursors[k].ts, !.lastId = cursors[k].rid].pc = "fetch"
      BY DEF Closed
    <3> QED BY <1>3, <3>1, <3>2 DEF BeginSync
  <2> QED BY <1>2, <2>1 DEF Sessions
<1>4. ASSUME NEW x \in Replays, NEW r \in Records, NEW s \in Segments, BeginReplay(x, r, s)
      PROVE  sess[w].pc = "closed" /\ sess'[w].pc # "closed"
  <2>1. [Closed EXCEPT !.pc = "load", !.rec = r, !.to = s].pc = "load"
    BY DEF Closed
  <2> QED BY <1>2, <1>4, <2>1 DEF BeginReplay, Sessions
<1>5. ASSUME NEW x \in Checks, NEW T \in SUBSET Segments, BeginChecks(x, T)
      PROVE  sess[w].pc = "closed" /\ sess'[w].pc # "closed"
  <2> DEFINE eligible == {s \in T : status[s] \in Checkable}
  <2>1. PICK order \in [1..Cardinality(eligible) -> eligible] :
          Begin(x, [Closed EXCEPT !.pc = IF order = <<>> THEN "next" ELSE "count", !.todo = order,
                      !.seen = [s \in Segments |-> IF s \in eligible THEN status[s] ELSE None]])
    BY <1>5 DEF BeginChecks
  <2>2. [Closed EXCEPT !.pc = IF order = <<>> THEN "next" ELSE "count", !.todo = order,
           !.seen = [s \in Segments |-> IF s \in eligible THEN status[s] ELSE None]].pc # "closed"
    BY DEF Closed
  <2> QED BY <1>2, <2>1, <2>2 DEF Sessions
<1>6. ASSUME NEW x \in Reviews, NEW s \in Segments, NEW outcome, BeginReview(x, s, outcome)
      PROVE  sess[w].pc = "closed" /\ sess'[w].pc # "closed"
  <2> DEFINE new == IF outcome = "pass" THEN Complete ELSE Faulty
  <2>1. [Closed EXCEPT !.pc = IF new = status[s] THEN "next" ELSE "flush",
                       !.todo = IF new = status[s] THEN <<>> ELSE <<s>>,
                       !.want = new, !.seen[s] = status[s]].pc # "closed"
    BY DEF Closed
  <2> QED BY <1>2, <1>6, <2>1 DEF BeginReview, Sessions
<1>7. ASSUME NEW x \in Sessions, Step(x) PROVE x = w
  <2>1. \E S : Set(x, S)
    <3>1. ASSUME Count(x) PROVE \E S : Set(x, S)
      BY <3>1 DEF Count
    <3>2. ASSUME Store(x) PROVE \E S : Set(x, S)
      BY <3>2 DEF Store
    <3> QED BY <1>7, <3>1, <3>2
         DEF Step, Fetch, NextRecord, LoadReplayed, Flush, Commit, DeadlockAbort
  <2> QED BY <2>1, SetOthers
<1> QED BY <1>1, <1>3, <1>4, <1>5, <1>6, <1>7 DEF Next

\* The effort of a session, place by place.
LEMMA EffortAt ==
  ASSUME NEW S \in SessionType
  PROVE  /\ Cardinality(S.rest) \in Nat /\ Cardinality(Records) \in Nat /\ Len(S.todo) \in Nat
         /\ S.pc = "next" => Effort(S) = 6 * Cardinality(S.rest) + 1
         /\ S.pc = "fetch" => Effort(S) = 6 * Cardinality(Records) + 2
         /\ S.pc = "load" => Effort(S) = 6 * Cardinality(S.rest) + 7
         /\ S.pc = "store" => Effort(S) = 6 * Cardinality(S.rest) + 6
         /\ S.pc = "count" => Effort(S) = 6 * Cardinality(S.rest) + 2 * Len(S.todo) + 1
         /\ S.pc = "flush" => Effort(S) = 6 * Cardinality(S.rest) + 2 * Len(S.todo)
<1>1. S.rest \subseteq Records /\ S.todo \in Seq(Segments)
  BY DEF SessionType
<1>2. Cardinality(S.rest) \in Nat /\ Cardinality(Records) \in Nat /\ Len(S.todo) \in Nat
  BY <1>1, RecordsAssumption, FS_Subset, FS_CardinalityType
<1> QED BY <1>2 DEF Effort

LEMMA EffortClosed == Effort(Closed) = 0
BY FS_EmptySet, ClosedNone DEF Effort

\* What Onward leaves to do.
LEMMA EffortOnward ==
  ASSUME NEW S \in SessionType
  PROVE  /\ Effort(Onward(S)) = 6 * Cardinality(S.rest) + 2 * Len(S.todo) + 1
         /\ Onward(S).pc # "closed"
<1>1. S.todo \in Seq(Segments)
  BY DEF SessionType
<1>2. CASE S.todo = <<>>
  <2>1. Onward(S).pc = "next"
    BY <1>2 DEF Onward, SessionType
  <2> QED BY <1>2, <2>1, EffortAt, OnwardType
<1>3. CASE S.todo # <<>>
  <2>1. Onward(S).pc = "count"
    BY <1>3 DEF Onward, SessionType
  <2> QED BY <2>1, EffortAt, OnwardType
<1> QED BY <1>2, <1>3

\* Each step of w brings its end nearer, or is its end.
LEMMA StepGetsOn ==
  ASSUME TypeInv, NEW w \in Sessions, Step(w)
  PROVE  /\ Effort(sess'[w]) < Effort(sess[w])
         /\ sess'[w] = Closed \/ sess'[w].pc # "closed"
<1> DEFINE S == sess[w]
           n == Cardinality(S.rest)
<1>0. S \in SessionType /\ Shape(w) /\ S.rest \subseteq Records /\ S.todo \in Seq(Segments)
  BY DEF TypeInv, TypeOK, SessionType
<1>1. n \in Nat /\ Cardinality(Records) \in Nat /\ Len(S.todo) \in Nat
  BY <1>0, EffortAt
<1>2. CASE Fetch(w)
  <2> DEFINE rest == Window(feed, S.from.ts, S.lastId)
  <2>1. sess'[w] = [S EXCEPT !.pc = "next", !.feed = feed, !.rest = rest]
    BY <1>2, SetOthers DEF Fetch
  <2>2. rest \subseteq Records
    BY DEF Window
  <2>3. Cardinality(rest) \in Nat /\ Cardinality(rest) <= Cardinality(Records)
    BY <2>2, RecordsAssumption, FS_Subset, FS_CardinalityType
  <2> HIDE DEF rest
  <2>4. sess'[w].pc = "next" /\ sess'[w].rest = rest
    BY <1>0, <2>1 DEF SessionType
  <2>5. sess'[w] \in SessionType
    BY <1>2, FetchType DEF TypeInv, TypeOK
  <2>6. S.pc = "fetch"
    BY <1>2 DEF Fetch
  <2>7. Effort(S) = 6 * Cardinality(Records) + 2
    BY <1>0, <2>6, EffortAt
  <2>8. Effort(sess'[w]) = 6 * Cardinality(rest) + 1
    BY <2>4, <2>5, EffortAt
  <2> QED BY <1>1, <2>3, <2>4, <2>7, <2>8
<1>3. ASSUME NEW r \in Records, NextRecord(w, r)
      PROVE  Effort(sess'[w]) < Effort(S) /\ sess'[w].pc # "closed"
  <2>1. sess'[w] \in SessionType /\ sess'[w].pc \in {"next", "store"}
    BY <1>3, NextRecordStep
  <2>2. S.pc = "next" /\ r \in S.rest
    BY <1>3 DEF NextRecord
  <2>3. sess'[w].rest = S.rest \ {r}
    BY <1>3, NextRecordStep
  <2>4. Cardinality(S.rest \ {r}) = n - 1
    <3>1. IsFiniteSet(S.rest)
      BY <1>0, RecordsAssumption, FS_Subset
    <3> QED BY <2>2, <3>1, FS_RemoveElement
  <2>5. Effort(S) = 6 * n + 1
    BY <1>0, <2>2, EffortAt
  <2>6. Effort(sess'[w]) \in {6 * Cardinality(S.rest \ {r}) + 1, 6 * Cardinality(S.rest \ {r}) + 6}
    BY <2>1, <2>3, EffortAt
  <2> QED BY <1>1, <2>1, <2>4, <2>5, <2>6
<1>4. CASE LoadReplayed(w)
  <2>1. sess'[w] = [S EXCEPT !.pc = "store", !.row = coll[S.rec]] /\ sess'[w] \in SessionType
    BY <1>4, LoadReplayedType DEF TypeInv, TypeOK
  <2>2. sess'[w].pc = "store" /\ sess'[w].rest = S.rest
    BY <1>0, <2>1 DEF SessionType
  <2>3. S.pc = "load"
    BY <1>4 DEF LoadReplayed
  <2>4. Effort(S) = 6 * n + 7
    BY <1>0, <2>3, EffortAt
  <2>5. Effort(sess'[w]) = 6 * n + 6
    BY <2>1, <2>2, EffortAt
  <2> QED BY <1>1, <2>2, <2>4, <2>5
<1>5. CASE Store(w)
  <2>1. S.pc = "store"
    BY <1>5 DEF Store
  <2>2. Effort(S) = 6 * n + 6
    BY <1>0, <2>1, EffortAt
  <2>3. CASE sess'[w] = Closed
    BY <1>1, <2>2, <2>3, EffortClosed
  <2>4. CASE sess'[w] # Closed
    <3> DEFINE A == AfterStore(w)
    <3>1. A \in SessionType /\ sess'[w] = Onward(A)
      BY <1>5, <2>4, StoreStep DEF TypeInv, TypeOK
    <3>2. A.rest = S.rest /\ A.todo = LeftBehind(w)
      BY <1>0 DEF AfterStore, SessionType
    <3>3. Len(LeftBehind(w)) \in {0, 1, 2}
      <4>1. S.to \in Segments \cup {None} /\ (S.row = None \/ S.row.seg \in Segments \cup {None})
        BY <1>0 DEF SessionType, Row
      <4> QED BY <4>1 DEF LeftBehind
    <3> HIDE DEF A
    <3>4. Effort(Onward(A)) = 6 * n + 2 * Len(LeftBehind(w)) + 1 /\ Onward(A).pc # "closed"
      BY <3>1, <3>2, EffortOnward
    <3>5. 6 * n + 2 * Len(LeftBehind(w)) + 1 < 6 * n + 6
      <4>1. \A m \in Nat, k \in {0, 1, 2} : 6 * m + 2 * k + 1 < 6 * m + 6
        OBVIOUS
      <4> HIDE DEF n
      <4> QED BY <1>1, <3>3, <4>1
    <3>6. Effort(Onward(A)) < Effort(S)
      BY <2>2, <3>4, <3>5
    <3> QED BY <3>1, <3>4, <3>6
  <2> QED BY <2>3, <2>4
<1>6. CASE Count(w)
  <2>1. /\ S.pc = "count" /\ S.todo # <<>> /\ sess'[w] \in SessionType /\ sess'[w].rest = S.rest
        /\ \/ sess'[w].pc \in {"count", "next"} /\ sess'[w].todo = Tail(S.todo)
           \/ sess'[w].pc = "flush" /\ sess'[w].todo = S.todo
    BY <1>0, <1>6, CountStep DEF TypeInv, TypeOK, Shape
  <2>2. Len(Tail(S.todo)) = Len(S.todo) - 1 /\ Len(S.todo) > 0
    BY <1>0, <2>1
  <2>3. Effort(S) = 6 * n + 2 * Len(S.todo) + 1
    BY <1>0, <2>1, EffortAt
  <2>4. Effort(sess'[w]) \in {6 * n + 2 * Len(Tail(S.todo)) + 1, 6 * n + 1, 6 * n + 2 * Len(S.todo)}
    BY <2>1, EffortAt
  <2>5. sess'[w].pc # "closed"
    BY <2>1
  <2> QED BY <1>1, <2>2, <2>3, <2>4, <2>5
<1>7. CASE Flush(w)
  <2> DEFINE A == AfterFlush(w)
  <2>1. S.pc = "flush" /\ S.todo # <<>> /\ A \in SessionType /\ sess'[w] = Onward(A) /\ A.todo = Tail(S.todo)
    BY <1>0, <1>7, FlushStep DEF Shape
  <2>2. A.rest = S.rest
    BY <1>0 DEF AfterFlush, SessionType
  <2>3. Len(Tail(S.todo)) = Len(S.todo) - 1
    BY <1>0, <2>1
  <2>4. Effort(S) = 6 * n + 2 * Len(S.todo)
    BY <1>0, <2>1, EffortAt
  <2> HIDE DEF A
  <2>5. Effort(Onward(A)) = 6 * n + 2 * Len(Tail(S.todo)) + 1 /\ Onward(A).pc # "closed"
    BY <2>1, <2>2, EffortOnward
  <2> QED BY <1>1, <2>1, <2>3, <2>4, <2>5
<1>8. CASE Commit(w)
  <2>1. sess'[w] = Closed /\ S.pc = "next"
    BY <1>8, SetOthers DEF Commit
  <2> QED BY <1>0, <1>1, <2>1, EffortAt, EffortClosed
<1>9. CASE DeadlockAbort(w)
  <2>1. sess'[w] = Closed /\ Blockers(w) # {}
    BY <1>9, SetOthers DEF DeadlockAbort, Circle
  <2>2. S.pc = "store" \/ (S.pc = "flush" /\ S.todo # <<>>)
    BY <1>0, <2>1 DEF Blockers, Shape
  <2>3. S.todo # <<>> => Len(S.todo) > 0
    BY <1>0
  <2> QED BY <1>0, <1>1, <2>1, <2>2, <2>3, EffortAt, EffortClosed
<1> QED BY <1>2, <1>3, <1>4, <1>5, <1>6, <1>7, <1>8, <1>9 DEF Step

\* However many sessions are open and whatever they do to each other, each
\* step of one leaves it fewer steps to its end.
THEOREM EachStepCounts == Spec => SessionsGetOn
<1>1. ASSUME TypeInv, [Next]_vars, NEW w \in Sessions, sess[w].pc # "closed", sess'[w] # sess[w]
      PROVE  Effort(sess'[w]) < Effort(sess[w])
  <2>1. Next
    BY <1>1 DEF vars
  <2> QED BY <1>1, <2>1, Moves, StepGetsOn
<1>2. TypeInv /\ [Next]_vars =>
        [\A w \in Sessions : sess[w].pc # "closed" /\ sess'[w] # sess[w] =>
           Effort(sess'[w]) < Effort(sess[w])]_vars
  BY <1>1
<1> QED BY <1>2, TypeInvariant, PTL DEF SessionsGetOn, Spec

EndedInv == TypeInv /\ \A w \in Sessions : Ended(w)

LEMMA EndedInit == Init => EndedInv
BY InitType DEF EndedInv, Ended, Init

LEMMA EndedStep == EndedInv /\ [Next]_vars => EndedInv'
<1> SUFFICES ASSUME EndedInv, [Next]_vars PROVE EndedInv'
  OBVIOUS
<1>1. TypeInv /\ TypeInv'
  BY TypeStep DEF EndedInv
<1>2. ASSUME NEW w \in Sessions PROVE Ended(w)'
  <2>1. CASE sess'[w] = sess[w]
    BY <2>1 DEF EndedInv, Ended
  <2>2. CASE sess'[w] # sess[w]
    <3>1. Next
      BY <2>2 DEF vars
    <3>2. sess'[w] = Closed \/ sess'[w].pc # "closed"
      BY <1>1, <2>2, <3>1, Moves, StepGetsOn
    <3> QED BY <3>2 DEF Ended
  <2> QED BY <2>1, <2>2
<1> QED BY <1>1, <1>2 DEF EndedInv

\* Whoever waits, waits for an open session.
LEMMA BlockedByOpen ==
  ASSUME EndedInv, NEW w \in Sessions, NEW x \in Blockers(w)
  PROVE  sess[x].pc # "closed"
<1>1. x \in Sessions /\ Ended(x) /\ Shape(w) /\ sess[w] \in SessionType
  BY DEF EndedInv, TypeInv, TypeOK, Blockers
<1>2. CASE sess[w].pc = "store" /\ sess[x].put[sess[w].rec] # None
  <2>1. sess[w].rec \in Records
    BY <1>1, <1>2 DEF Shape
  <2> QED BY <1>1, <1>2, <2>1, ClosedNone DEF Ended
<1>3. CASE sess[w].pc = "flush" /\ sess[x].sts[Head(sess[w].todo)] # None
  <2>1. Head(sess[w].todo) \in Segments
    BY <1>1, <1>3, HeadTail DEF Shape, SessionType
  <2> QED BY <1>1, <1>3, <2>1, ClosedNone DEF Ended
<1> QED BY <1>2, <1>3 DEF Blockers

\* A session that cannot go on waits for a lock.
LEMMA GoesOnOrWaits ==
  ASSUME TypeInv, NEW w \in Sessions, sess[w].pc # "closed", ~CanGoOn(w)
  PROVE  Blockers(w) # {}
<1>1. sess[w] \in SessionType /\ Shape(w)
  BY DEF TypeInv, TypeOK
<1>2. CASE sess[w].pc = "next"
  <2>1. /\ sess[w].feed \in [Records -> Version \cup {None}] /\ sess[w].rest \in SUBSET Records
        /\ \A r \in sess[w].rest : sess[w].feed[r] # None
    BY <1>1 DEF SessionType, Shape
  <2> QED BY <1>2, <2>1, FirstRecord DEF CanGoOn
<1>3. CASE sess[w].pc # "next"
  BY <1>1, <1>3 DEF CanGoOn, SessionType
<1> QED BY <1>2, <1>3

\* Whatever sessions are open, one can go on or all wait in a circle that
\* PostgreSQL breaks: nobody waits for a session that has ended.
THEOREM NobodyWaitsForTheEnded == Spec => []SomeoneCanGoOn
<1>1. EndedInv => SomeoneCanGoOn
  <2> SUFFICES ASSUME EndedInv, NEW w \in Sessions, sess[w].pc # "closed",
                      \A x \in Sessions : sess[x].pc # "closed" => ~CanGoOn(x)
               PROVE  Circle({x \in Sessions : sess[x].pc # "closed"})
    BY DEF SomeoneCanGoOn
  <2>1. ASSUME NEW x \in Sessions, sess[x].pc # "closed" PROVE Blockers(x) # {}
    BY <2>1, GoesOnOrWaits DEF EndedInv
  <2>2. ASSUME NEW x \in Sessions PROVE Blockers(x) \subseteq {y \in Sessions : sess[y].pc # "closed"}
    BY BlockedByOpen DEF Blockers
  <2> QED BY <2>1, <2>2 DEF Circle
<1>2. Spec => []EndedInv
  BY EndedInit, EndedStep, PTL DEF Spec
<1> QED BY <1>1, <1>2, PTL
=============================================================================
