----------------------------- MODULE CursorProofs -----------------------------
(* What a cursor row of Sessions stands for, for every value of its          *)
(* constants: any number of syncs, cursor rows, replays, checks and reviews. *)
EXTENDS SessionsProofs

-----------------------------------------------------------------------------
(* The invariant.                                                           *)

\* A sync was through with the version of r that the source has now, and it is
\* stored, or the row is one of those the property excuses.
Done(r) ==
    /\ newest[r] >= feed[r].ts
    /\ r \in crossed \cup Overtaken \/ Mirrors(coll, r, feed[r])

Covered(n) == \A r \in Records : feed[r] # None /\ feed[r].ts <= n => Done(r)

\* The records a sync fetched, once it has.
Asked(w) == Window(sess[w].feed, sess[w].from.ts, sess[w].from.rid)

\* What a session fetched is no newer than the last fetch, and its cursor is
\* the stamp it began with or one of those it fetched.
Stamps(w) ==
    LET S == sess[w]
    IN /\ S.from.ts <= sealed /\ S.from.ts <= S.newMax
       /\ \A r \in Records : S.feed[r] # None => S.feed[r].ts <= sealed
       /\ S.newMax > S.from.ts => \E r \in Records : S.feed[r] # None /\ S.newMax = S.feed[r].ts
       /\ S.pc = "fetch" => S.lastId = S.from.rid /\ \A r \in Records : S.feed[r] = None

\* A record that changed since the fetch is newer than all that was fetched.
Follows(w) ==
    \A r \in Records :
        \/ feed[r] = sess[w].feed[r]
        \/ /\ feed[r] # None
           /\ \A q \in Records : sess[w].feed[q] # None => feed[r].ts > sess[w].feed[q].ts

Says(row, v) ==
    IF v.deleted THEN ~row.active ELSE row.active /\ row.vt = v.vt /\ row.ts = v.ts

\* What is pending says what the sync fetched; other sessions leave that part
\* of a row as it was.
Writes(w) ==
    LET S == sess[w]
    IN /\ S.rest \subseteq Asked(w)
       /\ w \in Syncs /\ S.pc = "store" => S.rec \in Asked(w)
       /\ \A r \in Records : S.put[r] # None =>
            IF w \in Syncs THEN r \in Asked(w) /\ (r \in S.mixed \/ Says(S.put[r], S.feed[r]))
            ELSE /\ coll[r] # None
                 /\ \/ r \in S.mixed
                    \/ /\ S.put[r].active = coll[r].active /\ S.put[r].vt = coll[r].vt
                       /\ S.put[r].ts = coll[r].ts

\* A record a sync went past without a write is the deletion of one that was
\* not there; whoever stored it since stored the deletion or an older version.
Passed(w) ==
    LET S == sess[w]
    IN \A r \in Asked(w) \ S.rest :
         S.put[r] = None /\ ~(S.pc = "store" /\ r = S.rec) =>
           /\ S.feed[r].deleted
           /\ coll[r] # None /\ feed[r] = S.feed[r] =>
                r \in crossed \/ stored[r] < S.feed[r].ts \/ ~coll[r].active

Sound(w) ==
    Covered(sess[w].from.ts) /\ Stamps(w) /\ Follows(w) /\ Writes(w) /\ (w \in Syncs => Passed(w))

Clocks ==
    /\ sealed <= clock
    /\ \A r \in Records : feed[r] # None => 1 <= feed[r].ts /\ feed[r].ts <= clock
    /\ \A k \in DOMAIN cursors : cursors[k].ts <= sealed

CursorInv ==
    /\ TicketInv /\ Clocks
    /\ \A k \in DOMAIN cursors : Covered(cursors[k].ts)
    /\ \A w \in Sessions : Sound(w)

-----------------------------------------------------------------------------
(* Steps that change one session and no row.                                *)

\* The parts of TypeInv that the cursor is about.
LEMMA Types ==
  ASSUME TypeInv
  PROVE  /\ \A r \in Records : feed[r] # None => feed[r] \in Version /\ feed[r].ts \in Nat
         /\ clock \in Nat /\ sealed \in Nat
         /\ \A k \in DOMAIN cursors : cursors[k] \in [ts : Nat, rid : Records \cup {None}]
         /\ \A r \in Records : coll[r] # None => coll[r] \in Row
         /\ \A r \in Records : stored[r] \in Nat /\ newest[r] \in Nat
         /\ \A w \in Sessions : sess[w] \in SessionType /\ sess[w].from.ts \in Nat
                                /\ sess[w].newMax \in Nat
         /\ \A w \in Sessions, r \in Records :
              sess[w].feed[r] # None => sess[w].feed[r] \in Version /\ sess[w].feed[r].ts \in Nat
<1>1. /\ \A r \in Records : feed[r] # None => feed[r] \in Version /\ feed[r].ts \in Nat
      /\ clock \in Nat /\ sealed \in Nat
      /\ \A r \in Records : coll[r] # None => coll[r] \in Row
      /\ \A r \in Records : stored[r] \in Nat /\ newest[r] \in Nat
  BY DEF TypeInv, TypeOK, Version, Table
<1>2. \A k \in DOMAIN cursors : cursors[k] \in [ts : Nat, rid : Records \cup {None}]
  <2> DEFINE C == [ts : Nat, rid : Records \cup {None}]
  <2>1. cursors \in Seq(C)
    BY DEF TypeInv, TypeOK
  <2> HIDE DEF C
  <2>2. \A k \in DOMAIN cursors : cursors[k] \in C
    BY <2>1
  <2> QED BY <2>2 DEF C
<1>3. ASSUME NEW w \in Sessions
      PROVE  /\ sess[w] \in SessionType /\ sess[w].from.ts \in Nat /\ sess[w].newMax \in Nat
             /\ \A r \in Records : sess[w].feed[r] # None =>
                  sess[w].feed[r] \in Version /\ sess[w].feed[r].ts \in Nat
  <2>1. sess[w] \in SessionType
    BY DEF TypeInv, TypeOK
  <2> QED BY <2>1 DEF SessionType, Version
<1> QED BY <1>1, <1>2, <1>3

\* What is covered stays so while source, rows and history stay.
LEMMA CoveredSame ==
  ASSUME UNCHANGED <<feed, coll, crossed, stored, newest>>, NEW n, Covered(n)
  PROVE  \A r \in Records : feed'[r] # None /\ feed'[r].ts <= n => Done(r)'
BY DEF Covered, Done, Overtaken, Mirrors

\* A session stays sound while another does something that writes no row.
LEMMA SoundOther ==
  ASSUME NEW x \in Sessions, Sound(x), sess'[x] = sess[x], TypeInv, sealed' \in Nat,
         UNCHANGED <<feed, coll, crossed, stored, newest>>, sealed' >= sealed
  PROVE  Sound(x)'
<1>1. Covered(sess[x].from.ts)'
  BY CoveredSame DEF Sound, Covered
<1>2. Stamps(x)'
  BY Types DEF Sound, Stamps
<1>3. Follows(x)' /\ Writes(x)' /\ (x \in Syncs => Passed(x)')
  BY DEF Sound, Follows, Writes, Passed, Asked
<1> QED BY <1>1, <1>2, <1>3 DEF Sound

\* To keep the invariant, a step without a write has to keep its own session sound.
LEMMA OneSession ==
  ASSUME CursorInv, TicketInv', NEW w \in Sessions,
         UNCHANGED <<feed, clock, coll, cursors, crossed, stored, newest>>,
         sealed' \in Nat, sealed' >= sealed, sealed' <= clock,
         \A x \in Sessions \ {w} : sess'[x] = sess[x],
         Sound(w)'
  PROVE  CursorInv'
<1>0. TypeInv
  BY DEF CursorInv, TicketInv
<1>1. Clocks'
  BY <1>0, Types DEF CursorInv, Clocks
<1>2. (\A k \in DOMAIN cursors : Covered(cursors[k].ts))'
  BY CoveredSame DEF CursorInv, Covered
<1>3. \A x \in Sessions : Sound(x)'
  BY <1>0, SoundOther DEF CursorInv
<1> QED BY <1>1, <1>2, <1>3 DEF CursorInv

\* A step that leaves what the invariant looks at alone.
LEMMA Quiet ==
  ASSUME CursorInv, TicketInv', NEW w \in Sessions,
         UNCHANGED <<source, tables, history>>,
         \A x \in Sessions \ {w} : sess'[x] = sess[x],
         sess'[w].feed = sess[w].feed, sess'[w].from = sess[w].from,
         sess'[w].newMax = sess[w].newMax, sess'[w].rest = sess[w].rest,
         sess'[w].put = sess[w].put, sess'[w].mixed = sess[w].mixed,
         sess'[w].pc # "fetch", sess[w].pc # "store", w \in Syncs => sess'[w].pc # "store"
  PROVE  CursorInv'
<1>0. TypeInv /\ Sound(w) /\ Clocks
  BY DEF CursorInv, TicketInv
<1>1. UNCHANGED <<feed, clock, sealed, coll, cursors, crossed, stored, newest>>
  BY DEF source, tables, history
<1>2. sealed \in Nat /\ sealed <= clock
  BY <1>0, Types DEF Clocks
<1>3. Covered(sess[w].from.ts)'
  BY <1>0, <1>1, CoveredSame DEF Sound, Covered
<1>4. Stamps(w)' /\ Follows(w)'
  BY <1>0, <1>1 DEF Sound, Stamps, Follows
<1>5. Asked(w)' = Asked(w)
  BY DEF Asked
<1>6. Writes(w)'
  BY <1>0, <1>1, <1>5 DEF Sound, Writes
<1>7. w \in Syncs => Passed(w)'
  BY <1>0, <1>1, <1>5 DEF Sound, Passed
<1>8. Sound(w)'
  BY <1>3, <1>4, <1>6, <1>7 DEF Sound
<1> QED BY <1>1, <1>2, <1>8, OneSession

\* A session that ends, or begins at stamp n, has done nothing yet.
LEMMA Fresh ==
  ASSUME CursorInv, TicketInv', NEW w \in Sessions, NEW from, NEW S, Set(w, S),
         UNCHANGED <<source, tables, history>>,
         S.feed = Closed.feed, S.put = Closed.put, S.rest = {}, S.from = from,
         S.newMax = from.ts, S.lastId = from.rid,
         from.ts \in Nat, from.ts <= sealed, Covered(from.ts),
         w \in Syncs => S.pc # "store"
  PROVE  CursorInv'
<1>0. TypeInv /\ Clocks
  BY DEF CursorInv, TicketInv
<1>1. UNCHANGED <<feed, clock, sealed, coll, cursors, crossed, stored, newest>>
  BY DEF source, tables, history
<1>2. sess'[w] = S /\ \A x \in Sessions \ {w} : sess'[x] = sess[x]
  BY <1>0, SetOthers
<1>3. sealed \in Nat /\ sealed <= clock
  BY <1>0, Types DEF Clocks
<1>4. \A r \in Records : S.feed[r] = None /\ S.put[r] = None
  BY DEF Closed
<1>5. Covered(sess[w].from.ts)'
  BY <1>1, <1>2, CoveredSame DEF Covered
<1>6. Stamps(w)'
  BY <1>1, <1>2, <1>4 DEF Stamps
<1>7. Follows(w)'
  BY <1>2, <1>4 DEF Follows
<1>8. Asked(w)' = {}
  BY <1>2, <1>4 DEF Asked, Window
<1>9. Writes(w)'
  BY <1>2, <1>4 DEF Writes
<1>10. Passed(w)'
  BY <1>8 DEF Passed
<1>11. Sound(w)'
  BY <1>5, <1>6, <1>7, <1>9, <1>10 DEF Sound
<1> QED BY <1>1, <1>2, <1>3, <1>11, OneSession

\* Nothing is to be covered at stamp 0, where a first run begins.
LEMMA NothingCovered ==
  ASSUME CursorInv
  PROVE  Covered(0) /\ Closed.from = NoCursor /\ NoCursor.ts = 0 /\ NoCursor.rid = None
         /\ Closed.newMax = 0 /\ Closed.lastId = None /\ 0 <= sealed
<1>1. TypeInv /\ Clocks
  BY DEF CursorInv, TicketInv
<1>2. Covered(0) /\ 0 <= sealed
  BY <1>1, Types DEF Covered, Clocks
<1> QED BY <1>2 DEF Closed, NoCursor

\* A session that ends without a commit leaves nothing behind.
LEMMA Ends ==
  ASSUME CursorInv, TicketInv', NEW w \in Sessions, Set(w, Closed),
         UNCHANGED <<source, tables, history>>
  PROVE  CursorInv'
BY NothingCovered, ClosedNone, Fresh

LEMMA PublishCursor ==
  ASSUME CursorInv, TicketInv', NEW r \in Records, NEW x \in Contents, Publish(r, x)
  PROVE  CursorInv'
<1>0. TypeInv /\ Clocks
  BY DEF CursorInv, TicketInv
<1>1. PICK t \in {clock, clock + 1} :
        /\ t > sealed /\ clock' = t
        /\ feed' = [feed EXCEPT ![r] = [addr |-> x.addr, vt |-> x.vt, deleted |-> x.deleted, ts |-> t]]
  BY DEF Publish
<1> DEFINE v == [addr |-> x.addr, vt |-> x.vt, deleted |-> x.deleted, ts |-> t]
<1>2. UNCHANGED <<sealed, coll, cursors, sess, crossed, stored, newest>>
      /\ t \in Nat /\ 1 <= t /\ clock <= t
  BY <1>0, <1>1, Types DEF Publish, tables, history
<1>3. v \in Version /\ v # None /\ v.ts = t
  BY <1>2, ContentAssumption, VersionAssumption DEF Version
<1>4. feed'[r] = v /\ \A q \in Records \ {r} : feed'[q] = feed[q]
  BY <1>0, <1>1 DEF TypeInv, TypeOK
<1> HIDE DEF v
<1>5. Clocks'
  BY <1>0, <1>1, <1>2, <1>3, <1>4, Types DEF Clocks
<1>6. ASSUME NEW n \in Nat, n <= sealed, Covered(n)
      PROVE  \A q \in Records : feed'[q] # None /\ feed'[q].ts <= n => Done(q)'
  <2> SUFFICES ASSUME NEW q \in Records, feed'[q] # None, feed'[q].ts <= n PROVE Done(q)'
    OBVIOUS
  <2>1. q # r
    BY <1>0, <1>1, <1>3, <1>4, <1>6, Types
  <2>2. Done(q) /\ feed'[q] = feed[q]
    BY <1>4, <1>6, <2>1 DEF Covered
  <2> QED BY <1>2, <2>2 DEF Done, Overtaken, Mirrors
<1>7. (\A k \in DOMAIN cursors : Covered(cursors[k].ts))'
  BY <1>0, <1>2, <1>6, Types DEF CursorInv, Clocks, Covered
<1>8. ASSUME NEW w \in Sessions PROVE Sound(w)'
  <2>0. Sound(w)
    BY DEF CursorInv
  <2>1. \A q \in Records : sess[w].feed[q] # None => sess[w].feed[q].ts <= sealed /\ sess[w].feed[q].ts < t
    BY <1>0, <1>1, <1>2, <2>0, Types DEF Sound, Stamps
  <2>2. Covered(sess[w].from.ts)'
    BY <1>0, <1>2, <1>6, <2>0, Types DEF Sound, Stamps, Covered
  <2>3. Stamps(w)'
    BY <1>2, <2>0 DEF Sound, Stamps
  <2>4. Follows(w)'
    BY <1>0, <1>2, <1>3, <1>4, <2>0, <2>1, Types DEF Sound, Follows
  <2>5. Writes(w)'
    BY <1>2, <2>0 DEF Sound, Writes, Asked
  <2>6. ASSUME w \in Syncs PROVE Passed(w)'
    <3>1. \A q \in Records : sess[w].feed[q] # None /\ feed'[q] = sess[w].feed[q] => feed'[q] = feed[q]
      BY <1>0, <1>2, <1>3, <1>4, <2>1, Types
    <3>2. \A q \in Asked(w) : q \in Records /\ sess[w].feed[q] # None
      BY DEF Asked, Window
    <3> QED BY <1>2, <2>0, <2>6, <3>1, <3>2 DEF Sound, Passed, Asked
  <2> QED BY <2>2, <2>3, <2>4, <2>5, <2>6 DEF Sound
<1> QED BY <1>5, <1>7, <1>8 DEF CursorInv

LEMMA BeginSyncCursor ==
  ASSUME CursorInv, TicketInv', NEW w \in Syncs, BeginSync(w)
  PROVE  CursorInv'
<1>0. w \in Sessions /\ TypeInv /\ Clocks
  BY DEF Sessions, CursorInv, TicketInv
<1>1. CASE Begin(w, [Closed EXCEPT !.pc = "fetch"])
  <2> DEFINE S == [Closed EXCEPT !.pc = "fetch"]
  <2>1. Set(w, S) /\ UNCHANGED <<source, tables, history>>
    BY <1>1 DEF Begin
  <2>2. /\ S.feed = Closed.feed /\ S.put = Closed.put /\ S.rest = {} /\ S.from = NoCursor
        /\ S.newMax = 0 /\ S.lastId = None /\ S.pc = "fetch"
    BY DEF Closed, NoCursor
  <2> HIDE DEF S
  <2> QED BY <1>0, <2>1, <2>2, NothingCovered, Fresh
<1>2. ASSUME NEW k \in DOMAIN cursors,
             Begin(w, [Closed EXCEPT !.pc = "fetch", !.cur = k, !.from = cursors[k],
                                     !.newMax = cursors[k].ts, !.lastId = cursors[k].rid])
      PROVE  CursorInv'
  <2> DEFINE S == [Closed EXCEPT !.pc = "fetch", !.cur = k, !.from = cursors[k],
                                 !.newMax = cursors[k].ts, !.lastId = cursors[k].rid]
  <2>1. Set(w, S) /\ UNCHANGED <<source, tables, history>>
    BY <1>2 DEF Begin
  <2>2. /\ S.feed = Closed.feed /\ S.put = Closed.put /\ S.rest = {} /\ S.from = cursors[k]
        /\ S.newMax = cursors[k].ts /\ S.lastId = cursors[k].rid /\ S.pc = "fetch"
    BY DEF Closed
  <2>3. cursors[k].ts \in Nat /\ cursors[k].ts <= sealed /\ Covered(cursors[k].ts)
    BY <1>0, Types DEF Clocks, CursorInv
  <2> HIDE DEF S
  <2> QED BY <1>0, <2>1, <2>2, <2>3, Fresh
<1> QED BY <1>1, <1>2 DEF BeginSync

LEMMA BeginOther ==
  ASSUME CursorInv, TicketInv', NEW w \in Sessions \ Syncs, NEW S, Begin(w, S),
         S.feed = Closed.feed, S.put = Closed.put, S.rest = {}, S.from = Closed.from,
         S.newMax = Closed.newMax, S.lastId = Closed.lastId
  PROVE  CursorInv'
<1>1. Set(w, S) /\ UNCHANGED <<source, tables, history>>
  BY DEF Begin
<1> QED BY <1>1, NothingCovered, Fresh

LEMMA FetchCursor ==
  ASSUME CursorInv, TicketInv', NEW w \in Sessions, Fetch(w)
  PROVE  CursorInv'
<1> DEFINE rest == Window(feed, sess[w].from.ts, sess[w].lastId)
           S == [sess[w] EXCEPT !.pc = "next", !.feed = feed, !.rest = rest]
<1>0. TypeInv /\ Clocks /\ Sound(w) /\ Shape(w) /\ sess[w] \in SessionType
  BY DEF CursorInv, TicketInv, TypeInv, TypeOK
<1>1. /\ Set(w, S) /\ sealed' = clock /\ sess[w].pc = "fetch"
      /\ UNCHANGED <<feed, clock, coll, cursors, crossed, stored, newest>>
  BY DEF Fetch, tables, history
<1>2. /\ S.pc = "next" /\ S.feed = feed /\ S.rest = rest /\ S.put = sess[w].put
      /\ S.from = sess[w].from /\ S.newMax = sess[w].newMax
  BY <1>0 DEF SessionType
<1> HIDE DEF S, rest
<1>3. sess'[w] = S /\ \A x \in Sessions \ {w} : sess'[x] = sess[x]
  BY <1>0, <1>1, SetOthers
<1>4. sealed' \in Nat /\ sealed' >= sealed /\ sealed' <= clock
  BY <1>0, <1>1, Types DEF Clocks
<1>5. /\ sess[w].lastId = sess[w].from.rid /\ sess[w].newMax = sess[w].from.ts
      /\ \A r \in Records : sess[w].put[r] = None
  BY <1>0, <1>1, Types DEF Sound, Stamps, Shape, NoWrites
<1>6. Asked(w)' = rest
  BY <1>1, <1>2, <1>3, <1>5 DEF Asked, rest
<1>7. Covered(sess[w].from.ts)'
  BY <1>0, <1>1, <1>2, <1>3, CoveredSame DEF Sound, Covered
<1>8. Stamps(w)'
  BY <1>0, <1>1, <1>2, <1>3, <1>4, <1>5, Types DEF Sound, Stamps, Clocks
<1>9. Follows(w)'
  BY <1>1, <1>2, <1>3 DEF Follows
<1>10. Writes(w)'
  BY <1>2, <1>3, <1>5, <1>6 DEF Writes
<1>11. Passed(w)'
  BY <1>2, <1>3, <1>6 DEF Passed
<1>12. Sound(w)'
  BY <1>7, <1>8, <1>9, <1>10, <1>11 DEF Sound
<1> QED BY <1>1, <1>3, <1>4, <1>12, OneSession

LEMMA NextRecordCursor ==
  ASSUME CursorInv, TicketInv', NEW w \in Sessions, NEW r \in Records, NextRecord(w, r)
  PROVE  CursorInv'
<1> DEFINE S == sess[w]
           T == sess'[w]
           v == S.feed[r]
<1>0. TypeInv /\ Clocks /\ Sound(w) /\ S \in SessionType /\ Shape(w)
  BY DEF CursorInv, TicketInv, TypeInv, TypeOK
<1>1. /\ UNCHANGED <<source, tables, history>> /\ Set(w, T)
      /\ T.put = S.put /\ T.mixed = S.mixed /\ T.feed = S.feed
      /\ T.pc \in {"next", "store"} /\ w \in Syncs /\ T.rec = r /\ T.row = coll[r]
  BY <1>0, NextRecordStep
<1>2. UNCHANGED <<feed, clock, sealed, coll, cursors, crossed, stored, newest>>
  BY <1>1 DEF source, tables, history
<1>3. S.pc = "next" /\ r \in S.rest
  BY DEF NextRecord
<1>4. /\ T.from = S.from /\ T.rest = S.rest \ {r}
      /\ T.newMax = IF v.ts > S.newMax THEN v.ts ELSE S.newMax
      /\ T.pc = "next" => v.deleted /\ T.row = None
  <2> DEFINE to == IF v.deleted THEN None ELSE v.addr
             seen == [s \in Segments |-> IF s = to THEN Status(w)[s] ELSE None]
             row == Rows(w)[r]
  <2>1. T = [S EXCEPT !.rest = @ \ {r},
                      !.newMax = IF v.ts > @ THEN v.ts ELSE @,
                      !.lastId = IF v.ts > S.newMax THEN r ELSE @,
                      !.pc = IF v.deleted /\ row = None THEN "next" ELSE "store",
                      !.rec = r, !.row = row, !.to = to, !.seen = seen]
    BY <1>0 DEF NextRecord, Set, TypeInv, TypeOK
  <2> HIDE DEF to, seen, row, v
  <2> QED BY <1>0, <2>1 DEF SessionType
<1>5. \A x \in Sessions \ {w} : sess'[x] = sess[x]
  BY <1>0, <1>1, SetOthers
<1>6. Asked(w)' = Asked(w) /\ r \in Asked(w) /\ v # None
  BY <1>0, <1>1, <1>3, <1>4 DEF Asked, Sound, Writes, Shape
<1>7. Covered(sess[w].from.ts)'
  BY <1>0, <1>2, <1>4, CoveredSame DEF Sound, Covered
<1>8. Stamps(w)'
  BY <1>0, <1>1, <1>2, <1>4, <1>6, Types DEF Sound, Stamps
<1>9. Follows(w)'
  BY <1>0, <1>1, <1>2 DEF Sound, Follows
<1>10. Writes(w)'
  BY <1>0, <1>1, <1>2, <1>4, <1>6 DEF Sound, Writes
<1>11. Passed(w)'
  BY <1>0, <1>1, <1>2, <1>3, <1>4, <1>6 DEF Sound, Passed
<1>12. Sound(w)'
  BY <1>7, <1>8, <1>9, <1>10, <1>11 DEF Sound
<1>13. sealed' \in Nat /\ sealed' >= sealed /\ sealed' <= clock
  BY <1>0, <1>2, Types DEF Clocks
<1> QED BY <1>2, <1>5, <1>12, <1>13, OneSession

\* Going on to the next segment leaves what a sync fetched and wrote.
LEMMA OnwardKeeps ==
  ASSUME NEW S \in SessionType
  PROVE  /\ Onward(S).feed = S.feed /\ Onward(S).from = S.from /\ Onward(S).newMax = S.newMax
         /\ Onward(S).rest = S.rest /\ Onward(S).put = S.put /\ Onward(S).mixed = S.mixed
BY DEF Onward, SessionType

LEMMA LoadCursor ==
  ASSUME CursorInv, TicketInv', NEW w \in Sessions, LoadReplayed(w)
  PROVE  CursorInv'
<1> DEFINE S == [sess[w] EXCEPT !.pc = "store", !.row = coll[sess[w].rec]]
<1>0. TypeInv /\ Shape(w) /\ sess[w] \in SessionType
  BY DEF CursorInv, TicketInv, TypeInv, TypeOK
<1>1. Set(w, S) /\ sess[w].pc = "load" /\ UNCHANGED <<source, tables, history>>
  BY DEF LoadReplayed
<1>2. /\ S.feed = sess[w].feed /\ S.from = sess[w].from /\ S.newMax = sess[w].newMax
      /\ S.rest = sess[w].rest /\ S.put = sess[w].put /\ S.mixed = sess[w].mixed /\ S.pc = "store"
  BY <1>0 DEF SessionType
<1>3. w \notin Syncs
  BY <1>0, <1>1, SessionAssumption DEF Shape
<1> HIDE DEF S
<1>4. sess'[w] = S /\ \A x \in Sessions \ {w} : sess'[x] = sess[x]
  BY <1>0, <1>1, SetOthers
<1> QED BY <1>1, <1>2, <1>3, <1>4, Quiet

\* Counting leaves what the sync fetched alone.
LEMMA CountFrom ==
  ASSUME TypeInv, NEW w \in Sessions, Count(w)
  PROVE  /\ sess'[w].feed = sess[w].feed /\ sess'[w].from = sess[w].from
         /\ sess'[w].newMax = sess[w].newMax /\ sess'[w].rest = sess[w].rest
         /\ sess'[w].put = sess[w].put /\ sess'[w].mixed = sess[w].mixed
<1> DEFINE S == sess[w]
           s == Head(S.todo)
           old == IF S.seen[s] # None THEN S.seen[s] ELSE Status(w)[s]
           new == Verdict(w, s, old)
           A == [S EXCEPT !.todo = Tail(S.todo)]
           seen == [S.seen EXCEPT ![s] = old]
           B == [S EXCEPT !.pc = "flush", !.want = new, !.seen = seen]
<1>0. S \in SessionType /\ Shape(w)
  BY DEF TypeInv, TypeOK
<1>1. S.pc = "count"
  BY DEF Count
<1>2. sess'[w] = Onward(A) \/ sess'[w] = B
  <2>1. A = [S EXCEPT !.todo = Tail(@)]
    BY <1>0 DEF SessionType
  <2>2. B = [S EXCEPT !.pc = "flush", !.want = new, !.seen[s] = old]
    BY <1>0 DEF SessionType
  <2>3. sess' = [sess EXCEPT ![w] = Onward(A)] \/ sess' = [sess EXCEPT ![w] = B]
    BY <2>1, <2>2 DEF Count, Set
  <2> HIDE DEF A, B
  <2> QED BY <1>0, <2>3 DEF TypeInv, TypeOK
<1>3. A \in SessionType
  <2>1. Tail(S.todo) \in Seq(Segments)
    BY <1>0, <1>1, HeadTail DEF Shape, SessionType
  <2> QED BY <1>0, <2>1 DEF SessionType
<1>4. /\ A.feed = S.feed /\ A.from = S.from /\ A.newMax = S.newMax
      /\ A.rest = S.rest /\ A.put = S.put /\ A.mixed = S.mixed
      /\ B.feed = S.feed /\ B.from = S.from /\ B.newMax = S.newMax
      /\ B.rest = S.rest /\ B.put = S.put /\ B.mixed = S.mixed
  BY <1>0 DEF SessionType
<1> HIDE DEF A, B
<1> QED BY <1>2, <1>3, <1>4, OnwardKeeps

LEMMA CountCursor ==
  ASSUME CursorInv, TicketInv', NEW w \in Sessions, Count(w)
  PROVE  CursorInv'
<1>0. TypeInv
  BY DEF CursorInv, TicketInv
<1>1. /\ UNCHANGED <<source, tables, history>> /\ sess[w].pc = "count"
      /\ sess' = [sess EXCEPT ![w] = sess'[w]] /\ sess'[w].pc \in {"count", "next", "flush"}
  BY <1>0, CountStep
<1>2. \A x \in Sessions \ {w} : sess'[x] = sess[x]
  BY <1>0, <1>1 DEF TypeInv, TypeOK
<1> QED BY <1>0, <1>1, <1>2, CountFrom, Quiet

LEMMA FlushCursor ==
  ASSUME CursorInv, TicketInv', NEW w \in Sessions, Flush(w)
  PROVE  CursorInv'
<1> DEFINE S == sess[w]
           A == AfterFlush(w)
<1>0. TypeInv /\ S \in SessionType /\ Shape(w)
  BY DEF CursorInv, TicketInv, TypeInv, TypeOK
<1>1. /\ UNCHANGED <<source, tables, history>> /\ S.pc = "flush"
      /\ sess' = [sess EXCEPT ![w] = sess'[w]] /\ sess'[w].pc \in {"count", "next"}
      /\ sess'[w] = Onward(A) /\ A \in SessionType
  BY <1>0, FlushStep
<1>2. \A x \in Sessions \ {w} : sess'[x] = sess[x]
  BY <1>0, <1>1 DEF TypeInv, TypeOK
<1>3. /\ A.feed = S.feed /\ A.from = S.from /\ A.newMax = S.newMax
      /\ A.rest = S.rest /\ A.put = S.put /\ A.mixed = S.mixed
  BY <1>0 DEF SessionType, AfterFlush
<1> HIDE DEF A
<1>4. /\ sess'[w].feed = S.feed /\ sess'[w].from = S.from /\ sess'[w].newMax = S.newMax
      /\ sess'[w].rest = S.rest /\ sess'[w].put = S.put /\ sess'[w].mixed = S.mixed
  BY <1>1, <1>3, OnwardKeeps
<1> QED BY <1>1, <1>2, <1>4, Quiet

LEMMA StoreCursor ==
  ASSUME CursorInv, TicketInv', NEW w \in Sessions, Store(w)
  PROVE  CursorInv'
<1> DEFINE S == sess[w]
           r == S.rec
           v == S.feed[r]
           A == AfterStore(w)
           T == sess'[w]
<1>0. TypeInv /\ Clocks /\ Sound(w) /\ S \in SessionType /\ Shape(w) /\ S.pc = "store" /\ r \in Records
  BY DEF CursorInv, TicketInv, TypeInv, TypeOK, Store, Shape
<1>1. UNCHANGED <<source, tables, history>>
  BY DEF Store
<1>2. CASE T = Closed
  <2>1. sess' = [sess EXCEPT ![w] = T]
    BY <1>0, StoreStep DEF Store, Set
  <2> QED BY <1>1, <1>2, <2>1, Ends DEF Set
<1>3. CASE T # Closed
  <2>1. /\ A \in SessionType /\ sess' = [sess EXCEPT ![w] = Onward(A)]
        /\ A.put = [S.put EXCEPT ![r] = StoredRow(w)]
        /\ A.mixed = IF coll[r] # S.row THEN S.mixed \cup {r} ELSE S.mixed
    BY <1>0, <1>3, StoreStep
  <2>2. A.feed = S.feed /\ A.from = S.from /\ A.newMax = S.newMax /\ A.rest = S.rest
    BY <1>0 DEF SessionType, AfterStore
  <2> HIDE DEF A
  <2>3. T = Onward(A) /\ \A x \in Sessions \ {w} : sess'[x] = sess[x]
    BY <1>0, <2>1 DEF TypeInv, TypeOK
  <2>4. /\ T.put = [S.put EXCEPT ![r] = StoredRow(w)]
        /\ T.mixed = IF coll[r] # S.row THEN S.mixed \cup {r} ELSE S.mixed
        /\ T.feed = S.feed /\ T.from = S.from /\ T.newMax = S.newMax /\ T.rest = S.rest
        /\ T.pc \in {"count", "next"}
    BY <2>1, <2>2, <2>3, OnwardKeeps, OnwardType
  <2>5. UNCHANGED <<feed, clock, sealed, coll, cursors, crossed, stored, newest>>
    BY <1>1 DEF source, tables, history
  <2>6. sealed' \in Nat /\ sealed' >= sealed /\ sealed' <= clock
    BY <1>0, <2>5, Types DEF Clocks
  <2>7. StoredRow(w) # None /\ T.put[r] = StoredRow(w) /\ \A q \in Records \ {r} : T.put[q] = S.put[q]
    BY <1>0, <2>4, NewRowType, RowAssumption DEF SessionType
  <2>8. Asked(w)' = Asked(w)
    BY <2>4 DEF Asked
  <2>9. IF w \in Syncs THEN r \in Asked(w) /\ (r \in T.mixed \/ Says(T.put[r], v))
        ELSE /\ coll[r] # None
             /\ \/ r \in T.mixed
                \/ /\ T.put[r].active = coll[r].active /\ T.put[r].vt = coll[r].vt
                   /\ T.put[r].ts = coll[r].ts
    <3>1. coll[r] = S.row => T.put[r] = NewRow(w)
      BY <1>0, <2>7, NewRowType
    <3>2. coll[r] # S.row => r \in T.mixed
      BY <2>4
    <3>3. S.row \in Row \cup {None}
      BY <1>0 DEF SessionType
    <3>4. CASE w \in Syncs
      <4>1. w \notin Replays
        BY <3>4, SessionAssumption
      <4>2. v \in Version /\ (v.deleted => S.row \in Row)
        BY <1>0, <3>3, <4>1, Types DEF Shape
      <4>3. Says(NewRow(w), v)
        BY <3>3, <4>1, <4>2 DEF NewRow, Says, Row
      <4>4. r \in Asked(w)
        BY <1>0, <3>4 DEF Sound, Writes
      <4> QED BY <3>1, <3>2, <3>4, <4>3, <4>4
    <3>5. CASE w \notin Syncs
      <4>1. w \in Replays /\ S.row \in Row /\ coll[r] # None
        BY <1>0, <3>3, <3>5 DEF Shape
      <4>2. NewRow(w) = [S.row EXCEPT !.seg = S.to]
        BY <4>1 DEF NewRow
      <4>3. NewRow(w).active = S.row.active /\ NewRow(w).vt = S.row.vt /\ NewRow(w).ts = S.row.ts
        BY <4>1, <4>2 DEF Row
      <4> QED BY <3>1, <3>2, <3>5, <4>1, <4>3
    <3> QED BY <3>4, <3>5
  <2>10. Covered(sess[w].from.ts)'
    BY <1>0, <2>4, <2>5, CoveredSame DEF Sound, Covered
  <2>11. Stamps(w)' /\ Follows(w)'
    BY <1>0, <2>4, <2>5 DEF Sound, Stamps, Follows
  <2>12. Writes(w)'
    <3>1. T.rest \subseteq Asked(w)' /\ T.pc # "store"
      BY <1>0, <2>4, <2>8 DEF Sound, Writes
    <3>2. ASSUME NEW q \in Records, T.put[q] # None
          PROVE  IF w \in Syncs THEN q \in Asked(w) /\ (q \in T.mixed \/ Says(T.put[q], T.feed[q]))
                 ELSE /\ coll[q] # None
                      /\ \/ q \in T.mixed
                         \/ /\ T.put[q].active = coll[q].active /\ T.put[q].vt = coll[q].vt
                            /\ T.put[q].ts = coll[q].ts
      <4>1. CASE q = r
        BY <2>4, <2>9, <4>1
      <4>2. CASE q # r
        BY <1>0, <2>4, <2>7, <3>2, <4>2 DEF Sound, Writes
      <4> QED BY <4>1, <4>2
    <3> QED BY <2>5, <2>8, <3>1, <3>2 DEF Writes
  <2>13. ASSUME w \in Syncs PROVE Passed(w)'
    <3>1. ASSUME NEW q \in Asked(w) \ S.rest, T.put[q] = None
          PROVE  /\ S.feed[q].deleted
                 /\ coll[q] # None /\ feed[q] = S.feed[q] =>
                      q \in crossed \/ stored[q] < S.feed[q].ts \/ ~coll[q].active
      <4>1. q \in Records /\ q # r
        BY <2>7, <3>1 DEF Asked, Window
      <4>2. S.put[q] = None
        BY <2>7, <3>1, <4>1
      <4> QED BY <1>0, <2>13, <3>1, <4>1, <4>2 DEF Sound, Passed
    <3> QED BY <2>4, <2>5, <2>8, <3>1 DEF Passed
  <2>14. Sound(w)'
    BY <2>10, <2>11, <2>12, <2>13 DEF Sound
  <2> QED BY <2>3, <2>5, <2>6, <2>14, OneSession
<1> QED BY <1>2, <1>3

-----------------------------------------------------------------------------
(* Commits.                                                                 *)

Through(w) == IF w \in Syncs THEN Asked(w) ELSE {}

Wrote(w, r) == r \in Through(w) /\ sess[w].put[r] # None

\* What a commit does to the row and the history of each record.
LEMMA CommitRows ==
  ASSUME CursorInv, NEW w \in Sessions, Commit(w)
  PROVE  /\ UNCHANGED <<feed, clock, sealed>> /\ sess[w].pc = "next" /\ sess[w].rest = {}
         /\ sess'[w] = Closed /\ \A x \in Sessions \ {w} : sess'[x] = sess[x]
         /\ cursors' = IF w \in Syncs THEN Advanced(w) ELSE cursors
         /\ \A r \in Records :
              /\ coll'[r] = IF sess[w].put[r] # None THEN sess[w].put[r] ELSE coll[r]
              /\ stored'[r] = IF Wrote(w, r) THEN sess[w].feed[r].ts ELSE stored[r]
              /\ newest'[r] = IF r \in Through(w) /\ sess[w].feed[r].ts > newest[r]
                              THEN sess[w].feed[r].ts ELSE newest[r]
              /\ r \in sess[w].mixed => r \in crossed'
              /\ r \in crossed /\ ~Wrote(w, r) => r \in crossed'
<1>0. TypeInv
  BY DEF CursorInv, TicketInv
<1>1. /\ UNCHANGED <<feed, clock, sealed>> /\ sess[w].pc = "next" /\ sess[w].rest = {}
      /\ Set(w, Closed) /\ coll' = Rows(w)
      /\ cursors' = IF w \in Syncs THEN Advanced(w) ELSE cursors
  BY DEF Commit, source
<1>2. sess'[w] = Closed /\ \A x \in Sessions \ {w} : sess'[x] = sess[x]
  BY <1>0, <1>1, SetOthers
<1>3. \A r \in Records : coll'[r] = IF sess[w].put[r] # None THEN sess[w].put[r] ELSE coll[r]
  BY <1>0, <1>1, Views DEF TypeInv
<1>4. /\ stored' = [r \in Records |-> IF r \in {q \in Through(w) : sess[w].put[q] # None}
                                      THEN sess[w].feed[r].ts ELSE stored[r]]
      /\ newest' = [r \in Records |-> IF r \in Through(w) /\ sess[w].feed[r].ts > newest[r]
                                      THEN sess[w].feed[r].ts ELSE newest[r]]
      /\ crossed' = (crossed \ {r \in {q \in Through(w) : sess[w].put[q] # None} :
                                  ~sess[w].feed[r].deleted}) \cup sess[w].mixed
  BY DEF Commit, Through, Asked
<1> QED BY <1>1, <1>2, <1>3, <1>4 DEF Wrote

\* A record that was done stays so, and one whose newest version the sync
\* fetched is done then.
LEMMA CommitDone ==
  ASSUME CursorInv, NEW w \in Sessions, Commit(w), NEW r \in Records, feed[r] # None,
         Done(r) \/ (w \in Syncs /\ feed[r] = sess[w].feed[r])
  PROVE  Done(r)'
<1> DEFINE S == sess[w]
           v == S.feed[r]
<1>0. TypeInv /\ Sound(w) /\ Shape(w) /\ S \in SessionType
  BY DEF CursorInv, TicketInv, TypeInv, TypeOK
<1>1. /\ feed' = feed /\ S.rest = {} /\ S.pc = "next"
      /\ coll'[r] = IF S.put[r] # None THEN S.put[r] ELSE coll[r]
      /\ stored'[r] = IF Wrote(w, r) THEN v.ts ELSE stored[r]
      /\ newest'[r] = IF r \in Through(w) /\ v.ts > newest[r] THEN v.ts ELSE newest[r]
      /\ r \in S.mixed => r \in crossed'
      /\ r \in crossed /\ ~Wrote(w, r) => r \in crossed'
  BY CommitRows
<1>2. feed[r] \in Version /\ feed[r].ts \in Nat /\ stored[r] \in Nat /\ newest[r] \in Nat
      /\ (S.put[r] # None => S.put[r] \in Row) /\ (coll[r] # None => coll[r] \in Row)
  BY <1>0, Types DEF SessionType
<1>3. r \in Through(w) => v # None /\ v \in Version /\ v.ts \in Nat /\ w \in Syncs /\ r \in Asked(w)
  BY <1>0, Types DEF Through, Asked, Window
<1>4. r \in Through(w) => feed[r] = v \/ feed[r].ts > v.ts
  BY <1>0, <1>3 DEF Sound, Follows
<1>5. CASE r \in Through(w) /\ feed[r] = v
  <2>1. newest'[r] >= feed[r].ts
    BY <1>1, <1>2, <1>3, <1>5
  <2>2. r \in crossed' \/ (coll'[r] # None /\ stored'[r] < newest'[r]) \/ Mirrors(coll, r, feed[r])'
    <3>1. CASE S.put[r] # None
      <4>1. r \in S.mixed \/ Says(S.put[r], v)
        BY <1>0, <1>3, <1>5, <3>1 DEF Sound, Writes
      <4> QED BY <1>1, <1>5, <3>1, <4>1 DEF Says, Mirrors
    <3>2. CASE S.put[r] = None
      <4>1. /\ v.deleted
            /\ coll[r] # None => r \in crossed \/ stored[r] < v.ts \/ ~coll[r].active
        BY <1>0, <1>1, <1>3, <1>5, <3>2 DEF Sound, Passed
      <4>2. ~Wrote(w, r)
        BY <3>2 DEF Wrote
      <4>3. coll'[r] = coll[r] /\ stored'[r] = stored[r] /\ (r \in crossed => r \in crossed')
        BY <1>1, <3>2, <4>2
      <4>4. newest'[r] \in Nat
        BY <1>1, <1>2, <1>3
      <4> QED BY <1>1, <1>2, <1>5, <2>1, <4>1, <4>3, <4>4 DEF Mirrors
    <3> QED BY <3>1, <3>2
  <2> QED BY <1>1, <2>1, <2>2 DEF Done, Overtaken
<1>6. CASE Done(r) /\ r \in Through(w) /\ feed[r] # v
  <2>1. newest'[r] = newest[r] /\ newest[r] >= feed[r].ts /\ v.ts < newest[r]
    BY <1>1, <1>2, <1>3, <1>4, <1>6 DEF Done
  <2>2. CASE S.put[r] # None
    <3>1. coll'[r] # None /\ stored'[r] = v.ts
      BY <1>1, <1>6, <2>2 DEF Wrote
    <3> QED BY <1>1, <2>1, <3>1 DEF Done, Overtaken
  <2>3. CASE S.put[r] = None
    <3>1. coll'[r] = coll[r] /\ stored'[r] = stored[r] /\ (r \in crossed => r \in crossed')
      BY <1>1, <2>3 DEF Wrote
    <3> QED BY <1>1, <1>6, <2>1, <3>1 DEF Done, Overtaken, Mirrors
  <2> QED BY <2>2, <2>3
<1>7. CASE Done(r) /\ r \notin Through(w)
  <2>1. newest'[r] = newest[r] /\ stored'[r] = stored[r] /\ (r \in crossed => r \in crossed')
    BY <1>1, <1>7 DEF Wrote
  <2>2. CASE S.put[r] = None
    <3>1. coll'[r] = coll[r]
      BY <1>1, <2>2
    <3> QED BY <1>1, <1>7, <2>1, <3>1 DEF Done, Overtaken, Mirrors
  <2>3. CASE S.put[r] # None
    <3>1. w \notin Syncs
      BY <1>0, <1>7, <2>3 DEF Sound, Writes, Through
    <3>2. /\ coll[r] # None
          /\ \/ r \in S.mixed
             \/ S.put[r].active = coll[r].active /\ S.put[r].vt = coll[r].vt /\ S.put[r].ts = coll[r].ts
      BY <1>0, <2>3, <3>1 DEF Sound, Writes
    <3>3. coll'[r] = S.put[r] /\ coll'[r] # None
      BY <1>1, <2>3
    <3>4. r \in crossed' \/ (Mirrors(coll, r, feed[r]) => Mirrors(coll, r, feed[r])')
      BY <1>1, <3>2, <3>3 DEF Mirrors
    <3> QED BY <1>1, <1>7, <2>1, <3>2, <3>3, <3>4 DEF Done, Overtaken
  <2> QED BY <2>2, <2>3
<1>8. CASE w \in Syncs /\ feed[r] = v /\ r \notin Through(w)
  <2>1. r \notin Asked(w)
    BY <1>8 DEF Through
  <2>2. v # None /\ v.ts <= S.from.ts
    BY <1>0, <1>2, <1>8, <2>1, Types DEF Asked, Window
  <2>3. Done(r)
    BY <1>0, <1>8, <2>2 DEF Sound, Covered
  <2> QED BY <1>7, <1>8, <2>3
<1> QED BY <1>5, <1>6, <1>7, <1>8

\* The cursor rows a sync leaves hold the old stamps, and its own.
LEMMA AdvancedStamps ==
  ASSUME TypeInv, NEW w \in Sessions, NEW k \in DOMAIN Advanced(w), sess[w].newMax >= sess[w].from.ts
  PROVE  \/ Advanced(w)[k].ts = sess[w].newMax
         \/ k \in DOMAIN cursors /\ Advanced(w)[k].ts = cursors[k].ts
<1> DEFINE S == sess[w]
           new == IF S.newMax > S.from.ts THEN [ts |-> S.newMax, rid |-> S.lastId] ELSE S.from
           M == Merged(cursors[S.cur], S.from, new)
<1>1. cursors \in Seq(Cursor) /\ S \in SessionType
  BY DEF TypeInv, TypeOK, Cursor
<1>2. S.from \in Cursor /\ new \in Cursor /\ S.cur \in Nat /\ S.newMax \in Nat
  BY <1>1 DEF SessionType, Cursor
<1>3. new.ts = S.newMax
  BY <1>2 DEF Cursor
<1> HIDE DEF new
<1>4. CASE S.cur = 0
  <2>1. Advanced(w) = Append(cursors, new)
    BY <1>4 DEF Advanced, new
  <2> HIDE DEF S
  <2>2. CASE k = Len(cursors) + 1
    <3>1. Advanced(w)[k] = new
      BY <1>1, <1>2, <2>1, <2>2
    <3> QED BY <1>3, <3>1 DEF S
  <2>3. CASE k # Len(cursors) + 1
    <3>1. k \in DOMAIN cursors /\ Advanced(w)[k] = cursors[k]
      BY <1>1, <1>2, <2>1, <2>3
    <3> QED BY <3>1
  <2> QED BY <2>2, <2>3
<1>5. CASE S.cur # 0
  <2>1. Advanced(w) = [cursors EXCEPT ![S.cur] = M]
    BY <1>5 DEF Advanced, new
  <2>2. k \in DOMAIN cursors
    BY <1>1, <2>1
  <2>3. CASE k = S.cur
    <3>1. cursors[k] \in Cursor
      BY <1>1, <2>2
    <3>2. M = [f \in {"ts", "rid"} |-> IF new[f] # S.from[f] THEN new[f] ELSE cursors[k][f]]
      BY <2>3, <3>1 DEF Merged, Cursor
    <3>3. M["ts"] = new.ts \/ M["ts"] = cursors[k].ts
      BY <3>2
    <3>4. Advanced(w)[k] = M
      BY <1>1, <2>1, <2>2, <2>3
    <3> HIDE DEF M
    <3> QED BY <1>3, <2>2, <3>3, <3>4
  <2>4. CASE k # S.cur
    <3>1. Advanced(w)[k] = cursors[k]
      BY <1>1, <2>1, <2>2, <2>4
    <3> QED BY <2>2, <3>1
  <2> QED BY <2>3, <2>4
<1> QED BY <1>4, <1>5

\* A commit keeps every covered stamp, and covers the newest one of its own sync.
LEMMA CommitCovered ==
  ASSUME CursorInv, NEW w \in Sessions, Commit(w), NEW n \in Nat,
         Covered(n) \/ (w \in Syncs /\ n = sess[w].newMax)
  PROVE  \A r \in Records : feed'[r] # None /\ feed'[r].ts <= n => Done(r)'
<1> DEFINE S == sess[w]
<1>0. TypeInv /\ Sound(w) /\ feed' = feed
  BY CommitRows DEF CursorInv, TicketInv
<1> SUFFICES ASSUME NEW r \in Records, feed[r] # None, feed[r].ts <= n PROVE Done(r)'
  BY <1>0
<1>1. CASE Covered(n)
  BY <1>1, CommitDone DEF Covered
<1>2. CASE w \in Syncs /\ n = S.newMax /\ n = S.from.ts
  BY <1>0, <1>2, CommitDone DEF Covered, Sound
<1>3. CASE w \in Syncs /\ n = S.newMax /\ n # S.from.ts
  <2>1. PICK q \in Records : S.feed[q] # None /\ n = S.feed[q].ts
    BY <1>0, <1>3, Types DEF Sound, Stamps
  <2>2. feed[r] = S.feed[r]
    BY <1>0, <2>1, Types DEF Sound, Follows
  <2> QED BY <1>3, <2>2, CommitDone
<1> QED BY <1>1, <1>2, <1>3

\* A commit keeps every other session sound.
LEMMA CommitOther ==
  ASSUME CursorInv, NEW w \in Sessions, Commit(w), NEW x \in Sessions \ {w}
  PROVE  Sound(x)'
<1> DEFINE S == sess[w]
           X == sess[x]
<1>0. TypeInv /\ Sound(w) /\ Sound(x) /\ RowLocks
  BY DEF CursorInv, TicketInv
<1>1. /\ UNCHANGED <<feed, sealed>> /\ sess'[x] = X
      /\ \A r \in Records :
           /\ coll'[r] = IF S.put[r] # None THEN S.put[r] ELSE coll[r]
           /\ stored'[r] = IF Wrote(w, r) THEN S.feed[r].ts ELSE stored[r]
           /\ r \in S.mixed => r \in crossed'
           /\ r \in crossed /\ ~Wrote(w, r) => r \in crossed'
  BY CommitRows
<1>2. Covered(sess[x].from.ts)'
  BY <1>0, <1>1, CommitCovered, Types DEF Sound, Covered
<1>3. Stamps(x)' /\ Follows(x)'
  BY <1>0, <1>1 DEF Sound, Stamps, Follows
<1>4. Asked(x)' = Asked(x)
  BY <1>1 DEF Asked
<1>5. Writes(x)'
  <2>1. \A r \in Records : X.put[r] # None => coll'[r] = coll[r]
    BY <1>0, <1>1 DEF RowLocks
  <2> QED BY <1>0, <1>1, <1>4, <2>1 DEF Sound, Writes
<1>6. ASSUME x \in Syncs PROVE Passed(x)'
  <2>1. ASSUME NEW r \in Asked(x) \ X.rest, X.put[r] = None, ~(X.pc = "store" /\ r = X.rec)
        PROVE  /\ X.feed[r].deleted
               /\ coll'[r] # None /\ feed[r] = X.feed[r] =>
                    r \in crossed' \/ stored'[r] < X.feed[r].ts \/ ~coll'[r].active
    <3>1. /\ r \in Records /\ X.feed[r].deleted
          /\ coll[r] # None /\ feed[r] = X.feed[r] =>
               r \in crossed \/ stored[r] < X.feed[r].ts \/ ~coll[r].active
      BY <1>0, <1>6, <2>1 DEF Sound, Passed, Asked, Window
    <3>2. SUFFICES ASSUME coll'[r] # None, feed[r] = X.feed[r]
                   PROVE  r \in crossed' \/ stored'[r] < X.feed[r].ts \/ ~coll'[r].active
      BY <3>1
    <3>3. CASE S.put[r] = None
      <4>1. ~Wrote(w, r)
        BY <3>3 DEF Wrote
      <4> QED BY <1>1, <3>1, <3>2, <3>3, <4>1
    <3>4. CASE S.put[r] # None /\ w \in Syncs
      <4>1. r \in Asked(w) /\ (r \in S.mixed \/ Says(S.put[r], S.feed[r]))
        BY <1>0, <3>1, <3>4 DEF Sound, Writes
      <4>2. Wrote(w, r) /\ S.feed[r] # None
        BY <3>4, <4>1 DEF Wrote, Through, Asked, Window
      <4>3. CASE feed[r] = S.feed[r]
        BY <1>1, <3>1, <3>2, <3>4, <4>1, <4>3 DEF Says
      <4>4. CASE feed[r] # S.feed[r]
        <5>1. feed[r].ts > S.feed[r].ts
          BY <1>0, <3>1, <4>2, <4>4 DEF Sound, Follows
        <5>2. stored'[r] = S.feed[r].ts
          BY <1>1, <3>1, <4>2
        <5> QED BY <3>2, <5>1, <5>2
      <4> QED BY <4>3, <4>4
    <3>5. CASE S.put[r] # None /\ w \notin Syncs
      <4>1. coll[r] # None /\ (r \in S.mixed \/ S.put[r].active = coll[r].active)
        BY <1>0, <3>1, <3>5 DEF Sound, Writes
      <4>2. ~Wrote(w, r)
        BY <3>5 DEF Wrote, Through
      <4> QED BY <1>1, <3>1, <3>2, <3>5, <4>1, <4>2
    <3> QED BY <3>3, <3>4, <3>5
  <2> QED BY <1>1, <1>4, <2>1 DEF Passed
<1> QED BY <1>2, <1>3, <1>5, <1>6 DEF Sound

LEMMA CommitCursor ==
  ASSUME CursorInv, TicketInv', NEW w \in Sessions, Commit(w)
  PROVE  CursorInv'
<1> DEFINE S == sess[w]
<1>0. TypeInv /\ TypeInv' /\ Clocks /\ Sound(w)
  BY DEF CursorInv, TicketInv
<1>1. /\ UNCHANGED <<feed, clock, sealed>> /\ sess'[w] = Closed
      /\ cursors' = IF w \in Syncs THEN Advanced(w) ELSE cursors
  BY CommitRows
<1>2. S.newMax <= sealed /\ S.newMax >= S.from.ts
  BY <1>0, Types DEF Sound, Stamps
<1>3. ASSUME NEW k \in DOMAIN cursors'
      PROVE  /\ cursors'[k].ts <= sealed
             /\ \A r \in Records : feed'[r] # None /\ feed'[r].ts <= cursors'[k].ts => Done(r)'
  <2>1. CASE w \in Syncs /\ cursors'[k].ts = S.newMax
    BY <1>0, <1>2, <2>1, CommitCovered, Types
  <2>2. CASE k \in DOMAIN cursors /\ cursors'[k].ts = cursors[k].ts
    <3>1. Covered(cursors[k].ts) /\ cursors[k].ts \in Nat /\ cursors[k].ts <= sealed
      BY <1>0, <2>2, Types DEF CursorInv, Clocks
    <3> QED BY <2>2, <3>1, CommitCovered
  <2> QED BY <1>0, <1>1, <1>2, <1>3, <2>1, <2>2, AdvancedStamps
<1>4. Clocks'
  BY <1>0, <1>1, <1>3 DEF Clocks
<1>5. (\A k \in DOMAIN cursors : Covered(cursors[k].ts))'
  BY <1>3 DEF Covered
<1>6. Sound(w)'
  <2>1. /\ sess'[w].from.ts = 0 /\ sess'[w].newMax = 0 /\ sess'[w].rest = {} /\ sess'[w].pc = "closed"
        /\ \A r \in Records : sess'[w].feed[r] = None /\ sess'[w].put[r] = None
    BY <1>1 DEF Closed, NoCursor
  <2>2. Covered(sess[w].from.ts)' /\ Stamps(w)'
    BY <1>0, <1>1, <2>1, Types DEF Covered, Stamps, Clocks
  <2>3. Follows(w)' /\ Writes(w)'
    BY <2>1 DEF Follows, Writes
  <2>4. Passed(w)'
    BY <2>1 DEF Passed, Asked, Window
  <2> QED BY <2>2, <2>3, <2>4 DEF Sound
<1>7. \A x \in Sessions : Sound(x)'
  BY <1>6, CommitOther
<1> QED BY <1>4, <1>5, <1>7 DEF CursorInv

-----------------------------------------------------------------------------
(* The theorem.                                                             *)

LEMMA CursorInit == Init => CursorInv
<1> SUFFICES ASSUME Init PROVE CursorInv
  OBVIOUS
<1>1. TicketInv
  BY TicketInit
<1>2. Clocks /\ \A k \in DOMAIN cursors : Covered(cursors[k].ts)
  BY DEF Init, Clocks
<1>3. ASSUME NEW w \in Sessions PROVE Sound(w)
  <2>1. /\ sess[w].from.ts = 0 /\ sess[w].newMax = 0 /\ sess[w].rest = {} /\ sess[w].pc = "closed"
        /\ \A r \in Records : sess[w].feed[r] = None /\ sess[w].put[r] = None /\ feed[r] = None
        /\ sealed = 0
    BY DEF Init, Closed, NoCursor
  <2>2. Covered(sess[w].from.ts) /\ Stamps(w) /\ Follows(w) /\ Writes(w) /\ Passed(w)
    BY <2>1 DEF Covered, Stamps, Follows, Writes, Passed, Asked, Window
  <2> QED BY <2>2 DEF Sound
<1> QED BY <1>1, <1>2, <1>3 DEF CursorInv

LEMMA CursorStep == CursorInv /\ [Next]_vars => CursorInv'
<1> SUFFICES ASSUME CursorInv, [Next]_vars PROVE CursorInv'
  OBVIOUS
<1>0. TypeInv /\ TicketInv'
  BY TicketStep DEF CursorInv, TicketInv
<1>1. ASSUME NEW r \in Records, NEW x \in Contents, Publish(r, x) PROVE CursorInv'
  BY <1>0, <1>1, PublishCursor
<1>2. ASSUME NEW w \in Syncs, BeginSync(w) PROVE CursorInv'
  BY <1>0, <1>2, BeginSyncCursor
<1>3. ASSUME NEW w \in Replays, NEW r \in Records, NEW s \in Segments, BeginReplay(w, r, s)
      PROVE CursorInv'
  <2> DEFINE S == [Closed EXCEPT !.pc = "load", !.rec = r, !.to = s]
  <2>1. w \in Sessions \ Syncs /\ Begin(w, S)
    BY <1>3, SessionAssumption DEF Sessions, BeginReplay
  <2>2. /\ S.feed = Closed.feed /\ S.put = Closed.put /\ S.rest = {} /\ S.from = Closed.from
        /\ S.newMax = Closed.newMax /\ S.lastId = Closed.lastId
    BY DEF Closed
  <2> HIDE DEF S
  <2> QED BY <1>0, <2>1, <2>2, BeginOther
<1>4. ASSUME NEW w \in Checks, NEW T \in SUBSET Segments, BeginChecks(w, T) PROVE CursorInv'
  <2> DEFINE eligible == {s \in T : status[s] \in Checkable}
  <2>1. PICK order \in [1..Cardinality(eligible) -> eligible] :
          Begin(w, [Closed EXCEPT !.pc = IF order = <<>> THEN "next" ELSE "count", !.todo = order,
                      !.seen = [s \in Segments |-> IF s \in eligible THEN status[s] ELSE None]])
    BY <1>4 DEF BeginChecks
  <2> DEFINE S == [Closed EXCEPT !.pc = IF order = <<>> THEN "next" ELSE "count", !.todo = order,
                      !.seen = [s \in Segments |-> IF s \in eligible THEN status[s] ELSE None]]
  <2>2. w \in Sessions \ Syncs /\ Begin(w, S)
    BY <2>1, SessionAssumption DEF Sessions
  <2>3. /\ S.feed = Closed.feed /\ S.put = Closed.put /\ S.rest = {} /\ S.from = Closed.from
        /\ S.newMax = Closed.newMax /\ S.lastId = Closed.lastId
    BY DEF Closed
  <2> HIDE DEF S
  <2> QED BY <1>0, <2>2, <2>3, BeginOther
<1>5. ASSUME NEW w \in Reviews, NEW s \in Segments, NEW outcome, BeginReview(w, s, outcome)
      PROVE CursorInv'
  <2> DEFINE new == IF outcome = "pass" THEN Complete ELSE Faulty
             S == [Closed EXCEPT !.pc = IF new = status[s] THEN "next" ELSE "flush",
                                 !.todo = IF new = status[s] THEN <<>> ELSE <<s>>,
                                 !.want = new, !.seen[s] = status[s]]
  <2>1. w \in Sessions \ Syncs /\ Begin(w, S)
    BY <1>5, SessionAssumption DEF Sessions, BeginReview
  <2>2. /\ S.feed = Closed.feed /\ S.put = Closed.put /\ S.rest = {} /\ S.from = Closed.from
        /\ S.newMax = Closed.newMax /\ S.lastId = Closed.lastId
    BY DEF Closed
  <2> HIDE DEF S
  <2> QED BY <1>0, <2>1, <2>2, BeginOther
<1>6. ASSUME NEW w \in Sessions, Step(w) PROVE CursorInv'
  <2>1. CASE Fetch(w)
    BY <1>0, <2>1, FetchCursor
  <2>2. ASSUME NEW r \in Records, NextRecord(w, r) PROVE CursorInv'
    BY <1>0, <2>2, NextRecordCursor
  <2>3. CASE LoadReplayed(w)
    BY <1>0, <2>3, LoadCursor
  <2>4. CASE Store(w)
    BY <1>0, <2>4, StoreCursor
  <2>5. CASE Count(w)
    BY <1>0, <2>5, CountCursor
  <2>6. CASE Flush(w)
    BY <1>0, <2>6, FlushCursor
  <2>7. CASE Commit(w)
    BY <1>0, <2>7, CommitCursor
  <2>8. CASE DeadlockAbort(w)
    BY <1>0, <2>8, Ends DEF DeadlockAbort
  <2> QED BY <1>6, <2>1, <2>2, <2>3, <2>4, <2>5, <2>6, <2>7, <2>8 DEF Step
<1>7. CASE UNCHANGED vars
  <2>1. UNCHANGED <<feed, clock, sealed, coll, cursors, sess, crossed, stored, newest>>
    BY <1>7 DEF vars, source, tables, history
  <2>2. Clocks' /\ (\A k \in DOMAIN cursors : Covered(cursors[k].ts))'
    BY <2>1, CoveredSame DEF CursorInv, Clocks, Covered
  <2>3. \A w \in Sessions : Sound(w)'
    BY <1>0, <2>1, SoundOther, Types DEF CursorInv
  <2> QED BY <1>0, <2>2, <2>3 DEF CursorInv
<1> QED BY <1>1, <1>2, <1>3, <1>4, <1>5, <1>6, <1>7 DEF Next

\* However many syncs, replays, checks and reviews overlap, and however many
\* cursor rows they leave, none has moved past a version that is not stored, but
\* for the records that a slower sync or a crossed write left behind.
THEOREM CursorsCover == Spec => []CursorsCoverSource
<1>1. CursorInv => CursorsCoverSource
  BY DEF CursorInv, CursorsCoverSource, Covered, Done
<1>2. Spec => []CursorInv
  BY CursorInit, CursorStep, PTL DEF Spec
<1> QED BY <1>1, <1>2, PTL

-----------------------------------------------------------------------------
(* Sessions that do not overlap.                                            *)

\* At most one session is open.
Alone == \A v, w \in Sessions : sess[v].pc # "closed" /\ sess[w].pc # "closed" => v = w

\* The collected row w writes over is the one it loaded.
Loaded(w) ==
    LET S == sess[w]
    IN S.mixed = {} /\ (S.pc = "store" => S.row = coll[S.rec])

\* So is each status; a segment is recalculated or checked once.
Noticed(w) ==
    LET S == sess[w]
    IN /\ S.over = {}
       /\ S.pc \in {"load", "store"} => \A s \in Segments : S.seen[s] \in {None, Status(w)[s]}
       /\ S.pc \in {"count", "flush"} =>
            /\ \A i, j \in DOMAIN S.todo : S.todo[i] = S.todo[j] => i = j
            /\ \A i \in DOMAIN S.todo : S.seen[S.todo[i]] \in {None, Status(w)[S.todo[i]]}
       /\ S.pc = "flush" => S.seen[Head(S.todo)] # None

\* What a sync fetched is the newest any was through with, and what it went
\* past without a write is not stored.
Newest(w) ==
    LET S == sess[w]
    IN /\ \A r \in Records : S.feed[r] # None => newest[r] <= S.feed[r].ts
       /\ \A r \in Asked(w) \ S.rest :
            S.put[r] = None /\ ~(S.pc = "store" /\ r = S.rec) => coll[r] = None

Undisturbed(w) == Loaded(w) /\ Noticed(w) /\ Newest(w)

\* Each row was stored undisturbed, at the newest version a sync was through with.
UpToDate ==
    /\ crossed = {}
    /\ \A r \in Records :
         /\ newest[r] > 0 => feed[r] # None /\ newest[r] <= feed[r].ts
         /\ coll[r] # None => stored[r] >= newest[r]

AloneInv == CursorInv /\ EndedInv /\ UpToDate /\ \A w \in Sessions : Undisturbed(w)

\* Nothing disturbs a session that is closed.
LEMMA ClosedUndisturbed ==
  ASSUME NEW w \in Sessions, sess[w] = Closed
  PROVE  Undisturbed(w)
<1>1. \A r \in Records : sess[w].feed[r] = None
  BY DEF Closed
<1>2. Asked(w) = {}
  BY <1>1 DEF Asked, Window
<1> QED BY <1>1, <1>2, ClosedNone DEF Undisturbed, Loaded, Noticed, Newest

\* The others have ended before a step of w, or after it.
LEMMA OthersEnded ==
  ASSUME EndedInv, Alone, Alone', EndedInv', NEW w \in Sessions, NEW x \in Sessions \ {w},
         sess'[x] = sess[x], sess[w].pc # "closed" \/ sess'[w].pc # "closed"
  PROVE  sess[x] = Closed /\ sess'[x] = Closed /\ Undisturbed(x)'
<1>1. sess[x].pc = "closed"
  BY DEF Alone
<1>2. sess[x] = Closed /\ sess'[x] = Closed
  BY <1>1 DEF EndedInv, Ended
<1>3. Undisturbed(x)'
  <2>1. \A r \in Records : sess'[x].feed[r] = None
    BY <1>2 DEF Closed
  <2>2. Asked(x)' = {}
    BY <2>1 DEF Asked, Window
  <2> QED BY <1>2, <2>1, <2>2, ClosedNone DEF Undisturbed, Loaded, Noticed, Newest
<1> QED BY <1>2, <1>3

\* The statuses a session sees change with its own writes and the commits only.
LEMMA StatusSeen ==
  ASSUME TypeInv, NEW w \in Sessions, UNCHANGED status, sess'[w].sts = sess[w].sts
  PROVE  Status(w)' = Status(w)
BY DEF Status, Over

\* A session begins undisturbed.
LEMMA BeginUndisturbed ==
  ASSUME TypeInv, NEW w \in Sessions, NEW S, Begin(w, S),
         S.feed = Closed.feed, S.mixed = {}, S.over = {}, S.pc # "store",
         S.sts = Closed.sts, S.pc = "load" => S.seen = Closed.seen,
         S.pc \in {"count", "flush"} =>
            /\ \A i, j \in DOMAIN S.todo : S.todo[i] = S.todo[j] => i = j
            /\ \A i \in DOMAIN S.todo :
                 S.todo[i] \in Segments /\ S.seen[S.todo[i]] \in {None, status[S.todo[i]]},
         S.pc = "flush" => S.seen[Head(S.todo)] # None
  PROVE  Undisturbed(w)' /\ \A x \in Sessions \ {w} : sess'[x] = sess[x]
<1>1. /\ sess'[w] = S /\ \A x \in Sessions \ {w} : sess'[x] = sess[x]
      /\ UNCHANGED <<coll, status, newest>>
  BY SetOthers DEF Begin, tables, history
<1>2. \A s \in Segments : Status(w)'[s] = status[s]
  <2>1. \A s \in Segments : S.sts[s] = None
    BY ClosedNone
  <2>2. Status(w)' = [s \in DOMAIN status |-> IF S.sts[s] # None THEN S.sts[s] ELSE status[s]]
    BY <1>1 DEF Status, Over
  <2> QED BY <2>1, <2>2 DEF TypeInv, TypeOK
<1>3. \A r \in Records : sess'[w].feed[r] = None
  BY <1>1 DEF Closed
<1>4. Asked(w)' = {}
  BY <1>3 DEF Asked, Window
<1>5. Loaded(w)' /\ Newest(w)'
  BY <1>1, <1>3, <1>4 DEF Loaded, Newest
<1>6. Noticed(w)'
  BY <1>1, <1>2, ClosedNone DEF Noticed
<1> QED BY <1>1, <1>5, <1>6 DEF Undisturbed

LEMMA FetchUndisturbed ==
  ASSUME AloneInv, NEW w \in Sessions, Fetch(w)
  PROVE  Undisturbed(w)' /\ \A x \in Sessions \ {w} : sess'[x] = sess[x]
<1> DEFINE S == [sess[w] EXCEPT !.pc = "next", !.feed = feed,
                                !.rest = Window(feed, sess[w].from.ts, sess[w].lastId)]
<1>0. TypeInv /\ Sound(w) /\ Undisturbed(w) /\ UpToDate /\ sess[w] \in SessionType
  BY DEF AloneInv, CursorInv, TicketInv, TypeInv, TypeOK
<1>1. Set(w, S) /\ sess[w].pc = "fetch" /\ UNCHANGED <<feed, coll, newest>>
  BY DEF Fetch, tables, history
<1>2. /\ S.pc = "next" /\ S.feed = feed /\ S.from = sess[w].from
      /\ S.rest = Window(feed, sess[w].from.ts, sess[w].from.rid)
      /\ S.mixed = {} /\ S.over = {}
  <2>1. sess[w].lastId = sess[w].from.rid
    BY <1>0, <1>1 DEF Sound, Stamps
  <2> QED BY <1>0, <2>1 DEF SessionType, Undisturbed, Loaded, Noticed
<1> HIDE DEF S
<1>3. sess'[w] = S /\ \A x \in Sessions \ {w} : sess'[x] = sess[x]
  BY <1>0, <1>1, SetOthers
<1>4. Asked(w)' = S.rest
  BY <1>1, <1>2, <1>3 DEF Asked
<1>5. \A r \in Records : feed[r] # None => newest[r] <= feed[r].ts
  BY <1>0, Types DEF UpToDate
<1> QED BY <1>1, <1>2, <1>3, <1>4, <1>5 DEF Undisturbed, Loaded, Noticed, Newest

LEMMA NextRecordUndisturbed ==
  ASSUME AloneInv, NEW w \in Sessions, NEW r \in Records, NextRecord(w, r)
  PROVE  Undisturbed(w)' /\ \A x \in Sessions \ {w} : sess'[x] = sess[x]
<1> DEFINE S == sess[w]
           T == sess'[w]
           v == S.feed[r]
<1>0. TypeInv /\ Undisturbed(w) /\ S \in SessionType /\ S.pc = "next"
  BY DEF AloneInv, CursorInv, TicketInv, TypeInv, TypeOK, NextRecord
<1>1. /\ UNCHANGED <<source, tables, history>> /\ Set(w, T)
      /\ T.put = S.put /\ T.sts = S.sts /\ T.mixed = S.mixed /\ T.over = S.over /\ T.feed = S.feed
      /\ T.pc \in {"next", "store"} /\ T.rec = r /\ T.row = coll[r] /\ T.rest = S.rest \ {r}
  BY <1>0, NextRecordStep
<1>2. UNCHANGED <<coll, status, newest>>
  BY <1>1 DEF tables, history
<1>3. PICK to \in Segments \cup {None} :
        /\ T.from = S.from /\ T.seen = [s \in Segments |-> IF s = to THEN Status(w)[s] ELSE None]
        /\ T.pc = "next" => T.row = None
  <2> DEFINE to == IF v.deleted THEN None ELSE v.addr
             seen == [s \in Segments |-> IF s = to THEN Status(w)[s] ELSE None]
             row == Rows(w)[r]
  <2>1. T = [S EXCEPT !.rest = @ \ {r},
                      !.newMax = IF v.ts > @ THEN v.ts ELSE @,
                      !.lastId = IF v.ts > S.newMax THEN r ELSE @,
                      !.pc = IF v.deleted /\ row = None THEN "next" ELSE "store",
                      !.rec = r, !.row = row, !.to = to, !.seen = seen]
    BY <1>0 DEF NextRecord, Set, TypeInv, TypeOK
  <2>2. to \in Segments \cup {None}
    <3>1. r \in S.rest
      BY DEF NextRecord
    <3>2. v \in Version
      BY <1>0, <3>1, Types DEF TypeInv, Shape
    <3> QED BY <3>2 DEF Version
  <2>3. T.from = S.from /\ T.seen = seen /\ (T.pc = "next" => T.row = None)
    <3> HIDE DEF to, seen, row, v
    <3> QED BY <1>0, <2>1 DEF SessionType
  <2> QED BY <2>2, <2>3
<1>4. Asked(w)' = Asked(w) /\ Status(w)' = Status(w)
  BY <1>0, <1>1, <1>2, <1>3, StatusSeen DEF Asked
<1>5. Loaded(w)'
  BY <1>0, <1>1, <1>2 DEF Undisturbed, Loaded
<1>6. Noticed(w)'
  BY <1>0, <1>1, <1>3, <1>4 DEF Undisturbed, Noticed
<1>7. Newest(w)'
  BY <1>0, <1>1, <1>2, <1>3, <1>4 DEF Undisturbed, Newest
<1> QED BY <1>0, <1>1, <1>5, <1>6, <1>7, SetOthers DEF Undisturbed

LEMMA LoadUndisturbed ==
  ASSUME AloneInv, NEW w \in Sessions, LoadReplayed(w)
  PROVE  Undisturbed(w)' /\ \A x \in Sessions \ {w} : sess'[x] = sess[x]
<1> DEFINE S == [sess[w] EXCEPT !.pc = "store", !.row = coll[sess[w].rec]]
<1>0. TypeInv /\ Undisturbed(w) /\ sess[w] \in SessionType
  BY DEF AloneInv, CursorInv, TicketInv, TypeInv, TypeOK
<1>1. Set(w, S) /\ sess[w].pc = "load" /\ UNCHANGED <<coll, status, newest>>
  BY DEF LoadReplayed, tables, history
<1>2. /\ S.pc = "store" /\ S.row = coll[S.rec] /\ S.feed = sess[w].feed /\ S.from = sess[w].from
      /\ S.rest = sess[w].rest /\ S.put = sess[w].put /\ S.sts = sess[w].sts /\ S.seen = sess[w].seen
      /\ S.mixed = sess[w].mixed /\ S.over = sess[w].over
  BY <1>0 DEF SessionType
<1> HIDE DEF S
<1>3. sess'[w] = S /\ \A x \in Sessions \ {w} : sess'[x] = sess[x]
  BY <1>0, <1>1, SetOthers
<1>4. Asked(w)' = Asked(w) /\ Status(w)' = Status(w)
  BY <1>0, <1>1, <1>2, <1>3, StatusSeen DEF Asked
<1>5. Loaded(w)'
  BY <1>0, <1>1, <1>2, <1>3 DEF Undisturbed, Loaded
<1>6. Noticed(w)'
  BY <1>0, <1>1, <1>2, <1>3, <1>4 DEF Undisturbed, Noticed
<1>7. Newest(w)'
  BY <1>0, <1>1, <1>2, <1>3, <1>4 DEF Undisturbed, Newest
<1> QED BY <1>3, <1>5, <1>6, <1>7 DEF Undisturbed

\* The segments a record belongs to and left are two.
LEMMA LeftBehindOnce ==
  ASSUME TypeInv, NEW w \in Sessions, sess[w].pc = "store"
  PROVE  /\ LeftBehind(w) \in Seq(Segments)
         /\ \A i, j \in DOMAIN LeftBehind(w) : LeftBehind(w)[i] = LeftBehind(w)[j] => i = j
<1> DEFINE S == sess[w]
           old == IF w \in Replays \/ S.row = None THEN None ELSE S.row.seg
<1>1. S.to \in Segments \cup {None} /\ old \in Segments \cup {None}
  BY DEF TypeInv, TypeOK, SessionType, Row
<1>2. LeftBehind(w) = (IF S.to = None THEN <<>> ELSE <<S.to>>)
                        \o (IF old \in {S.to, None} THEN <<>> ELSE <<old>>)
  BY DEF LeftBehind
<1> HIDE DEF S, old
<1>3. CASE S.to = None /\ old = None
  <2>1. LeftBehind(w) = <<>> \o <<>>
    BY <1>2, <1>3
  <2>2. LeftBehind(w) = <<>>
    BY <2>1
  <2> QED BY <2>2
<1>4. CASE S.to = None /\ old # None
  <2>1. LeftBehind(w) = <<>> \o <<old>> /\ old \in Segments
    BY <1>1, <1>2, <1>4
  <2>2. LeftBehind(w) = <<old>>
    BY <2>1
  <2> QED BY <2>1, <2>2
<1>5. CASE S.to # None /\ old \in {S.to, None}
  <2>1. LeftBehind(w) = <<S.to>> \o <<>> /\ S.to \in Segments
    BY <1>1, <1>2, <1>5
  <2>2. LeftBehind(w) = <<S.to>>
    BY <2>1
  <2> QED BY <2>1, <2>2
<1>6. CASE S.to # None /\ old \notin {S.to, None}
  <2>1. LeftBehind(w) = <<S.to>> \o <<old>> /\ S.to \in Segments /\ old \in Segments
    BY <1>1, <1>2, <1>6
  <2> DEFINE q == <<S.to>> \o <<old>>
  <2>2. Len(q) = 2 /\ q[1] = S.to /\ q[2] = old /\ q \in Seq(Segments)
    BY <2>1
  <2>3. \A i \in DOMAIN q : i = 1 \/ i = 2
    BY <2>2
  <2> HIDE DEF q
  <2>4. \A i, j \in DOMAIN q : q[i] = q[j] => i = j
    BY <1>6, <2>2, <2>3
  <2> QED BY <2>1, <2>2, <2>4 DEF q
<1> QED BY <1>3, <1>4, <1>5, <1>6

\* The first segment to do is done, the others are still to do.
LEMMA TailOnce ==
  ASSUME NEW q \in Seq(Segments), q # <<>>, \A i, j \in DOMAIN q : q[i] = q[j] => i = j
  PROVE  /\ Tail(q) \in Seq(Segments)
         /\ 1 \in DOMAIN q /\ Head(q) = q[1]
         /\ \A i, j \in DOMAIN Tail(q) : Tail(q)[i] = Tail(q)[j] => i = j
         /\ \A i \in DOMAIN Tail(q) : \E j \in DOMAIN q : Tail(q)[i] = q[j] /\ q[j] # Head(q)
<1>1. Tail(q) \in Seq(Segments) /\ 1 \in DOMAIN q /\ Head(q) = q[1]
  OBVIOUS
<1>2. \A i \in DOMAIN Tail(q) : i \in Nat /\ i + 1 \in DOMAIN q /\ i + 1 # 1 /\ Tail(q)[i] = q[i + 1]
  OBVIOUS
<1>3. \A i, j \in DOMAIN Tail(q) : Tail(q)[i] = Tail(q)[j] => i + 1 = j + 1
  BY <1>2
<1>4. \A i, j \in DOMAIN Tail(q) : Tail(q)[i] = Tail(q)[j] => i = j
  BY <1>2, <1>3
<1>5. \A i \in DOMAIN Tail(q) : q[i + 1] # q[1]
  BY <1>1, <1>2
<1> QED BY <1>1, <1>2, <1>4, <1>5

LEMMA StoreUndisturbed ==
  ASSUME AloneInv, NEW w \in Sessions, Store(w)
  PROVE  Undisturbed(w)' /\ \A x \in Sessions \ {w} : sess'[x] = sess[x]
<1> DEFINE S == sess[w]
           r == S.rec
           A == AfterStore(w)
           T == sess'[w]
<1>0. TypeInv /\ Undisturbed(w) /\ S \in SessionType /\ S.pc = "store" /\ r \in Records
  BY DEF AloneInv, CursorInv, TicketInv, TypeInv, TypeOK, Store, Shape
<1>1. UNCHANGED <<coll, status, newest>> /\ sess' = [sess EXCEPT ![w] = T]
  <2>1. UNCHANGED <<source, tables, history>>
    BY <1>0, StoreStep
  <2>2. sess' = [sess EXCEPT ![w] = T]
    BY <1>0, SetOthers DEF Store, Set
  <2> QED BY <2>1, <2>2 DEF tables, history
<1>2. \A x \in Sessions \ {w} : sess'[x] = sess[x]
  BY <1>0, <1>1 DEF TypeInv, TypeOK
<1>3. CASE T = Closed
  <2>1. \A q \in Records : T.feed[q] = None
    BY <1>3 DEF Closed
  <2>2. Asked(w)' = {}
    BY <2>1 DEF Asked, Window
  <2>3. Undisturbed(w)'
    BY <1>3, <2>1, <2>2, ClosedNone DEF Undisturbed, Loaded, Noticed, Newest
  <2> QED BY <1>2, <2>3
<1>4. CASE T # Closed
  <2>1. /\ A \in SessionType /\ sess' = [sess EXCEPT ![w] = Onward(A)]
        /\ A.put = [S.put EXCEPT ![r] = StoredRow(w)]
        /\ A.mixed = IF coll[r] # S.row THEN S.mixed \cup {r} ELSE S.mixed
        /\ A.sts = S.sts /\ A.over = S.over /\ A.feed = S.feed /\ A.from = S.from
    BY <1>0, <1>4, StoreStep
  <2>2. A.rest = S.rest /\ A.todo = LeftBehind(w) /\ A.seen = S.seen
    BY <1>0 DEF SessionType, AfterStore
  <2> HIDE DEF A
  <2>3. T = Onward(A)
    BY <1>0, <2>1 DEF TypeInv, TypeOK
  <2>4. /\ T.pc \in {"count", "next"} /\ T.put = [S.put EXCEPT ![r] = StoredRow(w)]
        /\ T.mixed = S.mixed /\ T.over = S.over /\ T.feed = S.feed /\ T.from = S.from
        /\ T.rest = S.rest /\ T.sts = S.sts /\ T.todo = LeftBehind(w)
        /\ T.pc = "count" => T.todo # <<>> /\ T.seen = S.seen
    BY <1>0, <2>1, <2>2, <2>3, OnwardType DEF Undisturbed, Loaded
  <2>5. Asked(w)' = Asked(w) /\ Status(w)' = Status(w)
    BY <1>0, <1>1, <2>4, StatusSeen DEF Asked
  <2>6. Loaded(w)'
    BY <1>0, <2>4 DEF Undisturbed, Loaded
  <2>7. Noticed(w)'
    <3>1. CASE T.pc = "next"
      BY <1>0, <2>4, <3>1 DEF Undisturbed, Noticed
    <3>2. CASE T.pc = "count"
      <4>1. \A s \in Segments : S.seen[s] \in {None, Status(w)[s]}
        BY <1>0 DEF Undisturbed, Noticed
      <4>2. \A i \in DOMAIN LeftBehind(w) : LeftBehind(w)[i] \in Segments
        BY <1>0, LeftBehindOnce
      <4>3. T.over = {}
        BY <1>0, <2>4 DEF Undisturbed, Noticed
      <4> QED BY <1>0, <2>4, <2>5, <3>2, <4>1, <4>2, <4>3, LeftBehindOnce DEF Noticed
    <3> QED BY <2>4, <3>1, <3>2
  <2>8. Newest(w)'
    <3>1. \A q \in Records : q # r => T.put[q] = S.put[q]
      BY <1>0, <2>4 DEF SessionType
    <3>2. T.put[r] # None
      BY <1>0, <2>4, NewRowType, RowAssumption DEF SessionType
    <3>3. \A q \in Asked(w) : q \in Records
      BY DEF Asked, Window
    <3> QED BY <1>0, <1>1, <2>4, <2>5, <3>1, <3>2, <3>3 DEF Undisturbed, Newest
  <2> QED BY <1>2, <2>6, <2>7, <2>8 DEF Undisturbed
<1> QED BY <1>3, <1>4

LEMMA CountUndisturbed ==
  ASSUME AloneInv, NEW w \in Sessions, Count(w)
  PROVE  Undisturbed(w)' /\ \A x \in Sessions \ {w} : sess'[x] = sess[x]
<1> DEFINE S == sess[w]
           T == sess'[w]
           s == Head(S.todo)
           old == IF S.seen[s] # None THEN S.seen[s] ELSE Status(w)[s]
<1>0. TypeInv /\ Undisturbed(w) /\ S \in SessionType /\ Shape(w)
  BY DEF AloneInv, CursorInv, TicketInv, TypeInv, TypeOK
<1>1. /\ UNCHANGED <<source, tables, history>> /\ sess' = [sess EXCEPT ![w] = T]
      /\ S.pc = "count" /\ T.pc \in {"count", "next", "flush"}
      /\ T.put = S.put /\ T.sts = S.sts /\ T.mixed = S.mixed /\ T.over = S.over
      /\ T.feed = S.feed /\ T.rest = S.rest
      /\ \/ /\ T.pc \in {"count", "next"} /\ T.todo = Tail(S.todo)
            /\ T.todo # <<>> => T.seen = S.seen
         \/ /\ T.pc = "flush" /\ T.todo = S.todo /\ T.seen = [S.seen EXCEPT ![s] = old]
  BY <1>0, CountStep
<1>2. UNCHANGED <<coll, status, newest>> /\ \A x \in Sessions \ {w} : sess'[x] = sess[x]
  BY <1>0, <1>1 DEF tables, history, TypeInv, TypeOK
<1>3. T.from = S.from
  BY <1>0, CountFrom
<1>4. Asked(w)' = Asked(w) /\ Status(w)' = Status(w)
  BY <1>0, <1>1, <1>2, <1>3, StatusSeen DEF Asked
<1>5. /\ S.todo \in Seq(Segments) /\ S.todo # <<>> /\ s \in Segments
      /\ \A i, j \in DOMAIN S.todo : S.todo[i] = S.todo[j] => i = j
      /\ \A i \in DOMAIN S.todo : S.seen[S.todo[i]] \in {None, Status(w)[S.todo[i]]}
      /\ S.over = {} /\ S.seen \in [Segments -> Statuses \cup {None}]
  BY <1>0, <1>1, HeadTail DEF Undisturbed, Noticed, Shape, SessionType
<1>6. s = S.todo[1] /\ 1 \in DOMAIN S.todo
  BY <1>5, TailOnce
<1>7. old = Status(w)[s] /\ old # None
  <2>1. Status(w)[s] \in Statuses
    BY <1>0, <1>5, Views DEF TypeInv
  <2> QED BY <1>5, <1>6, <2>1, ValueAssumption
<1> HIDE DEF old
<1>8. Noticed(w)'
  <2>1. CASE T.pc = "next"
    BY <1>1, <1>5, <2>1 DEF Noticed
  <2>2. CASE T.pc = "count"
    <3>1. T.todo = Tail(S.todo) /\ (T.todo # <<>> => T.seen = S.seen)
      BY <1>1, <2>2
    <3>2. \A i \in DOMAIN T.todo : T.todo # <<>>
      BY <1>5, <3>1, TailOnce
    <3>3. \A i, j \in DOMAIN T.todo : T.todo[i] = T.todo[j] => i = j
      BY <1>5, <3>1, TailOnce
    <3>4. \A i \in DOMAIN T.todo : \E j \in DOMAIN S.todo : T.todo[i] = S.todo[j]
      BY <1>5, <3>1, TailOnce
    <3>5. \A i \in DOMAIN T.todo : T.seen[T.todo[i]] \in {None, Status(w)[T.todo[i]]}
      BY <1>5, <3>1, <3>2, <3>4
    <3> QED BY <1>1, <1>4, <1>5, <2>2, <3>3, <3>5 DEF Noticed
  <2>3. CASE T.pc = "flush"
    <3>1. T.todo = S.todo /\ T.seen = [S.seen EXCEPT ![s] = old]
      BY <1>1, <2>3
    <3>2. \A i \in DOMAIN S.todo : T.seen[S.todo[i]] \in {None, Status(w)[S.todo[i]]}
      BY <1>5, <1>7, <3>1
    <3>3. T.seen[Head(T.todo)] # None
      BY <1>5, <1>7, <3>1
    <3> HIDE DEF S, T, s
    <3> QED BY <1>1, <1>4, <1>5, <2>3, <3>1, <3>2, <3>3 DEF Noticed, T, S
  <2> QED BY <1>1, <2>1, <2>2, <2>3
<1>9. Loaded(w)' /\ Newest(w)'
  BY <1>0, <1>1, <1>2, <1>4 DEF Undisturbed, Loaded, Newest
<1> QED BY <1>2, <1>8, <1>9 DEF Undisturbed

LEMMA FlushUndisturbed ==
  ASSUME AloneInv, NEW w \in Sessions, Flush(w)
  PROVE  Undisturbed(w)' /\ \A x \in Sessions \ {w} : sess'[x] = sess[x]
<1> DEFINE S == sess[w]
           T == sess'[w]
           s == Head(S.todo)
           A == AfterFlush(w)
<1>0. TypeInv /\ Undisturbed(w) /\ S \in SessionType /\ Shape(w)
  BY DEF AloneInv, CursorInv, TicketInv, TypeInv, TypeOK
<1>1. /\ UNCHANGED <<source, tables, history>> /\ sess' = [sess EXCEPT ![w] = T]
      /\ S.pc = "flush" /\ T.pc \in {"count", "next"} /\ T.put = S.put
      /\ T.sts = [S.sts EXCEPT ![s] = S.want] /\ T.mixed = S.mixed /\ T.feed = S.feed
      /\ T.over = IF Status(w)[s] # S.seen[s] THEN S.over \cup {s} ELSE S.over
      /\ T = Onward(A) /\ A \in SessionType /\ A.todo = Tail(S.todo) /\ A.seen = S.seen
  BY <1>0, FlushStep
<1>2. UNCHANGED <<coll, status, newest>> /\ \A x \in Sessions \ {w} : sess'[x] = sess[x]
  BY <1>0, <1>1 DEF tables, history, TypeInv, TypeOK
<1>3. A.from = S.from /\ A.rest = S.rest
  BY <1>0 DEF AfterFlush, SessionType
<1> HIDE DEF A
<1>4. /\ T.from = S.from /\ T.rest = S.rest /\ T.todo = Tail(S.todo)
      /\ T.pc = "count" => T.todo # <<>> /\ T.seen = S.seen
  BY <1>1, <1>3, OnwardType
<1>5. /\ S.todo \in Seq(Segments) /\ S.todo # <<>> /\ s \in Segments
      /\ \A i, j \in DOMAIN S.todo : S.todo[i] = S.todo[j] => i = j
      /\ \A i \in DOMAIN S.todo : S.seen[S.todo[i]] \in {None, Status(w)[S.todo[i]]}
      /\ S.over = {} /\ S.seen[s] # None /\ S.sts \in [Segments -> Statuses \cup {None}]
  BY <1>0, <1>1, HeadTail DEF Undisturbed, Noticed, Shape, SessionType
<1>6. T.over = {}
  <2>1. s = S.todo[1] /\ 1 \in DOMAIN S.todo
    BY <1>5, TailOnce
  <2> QED BY <1>1, <1>5, <2>1
<1>7. \A q \in Segments \ {s} : Status(w)'[q] = Status(w)[q]
  <2>1. Status(w)' = [q \in DOMAIN status |-> IF T.sts[q] # None THEN T.sts[q] ELSE status[q]]
    BY <1>2 DEF Status, Over
  <2>2. Status(w) = [q \in DOMAIN status |-> IF S.sts[q] # None THEN S.sts[q] ELSE status[q]]
    BY DEF Status, Over
  <2>3. \A q \in Segments \ {s} : T.sts[q] = S.sts[q]
    BY <1>1, <1>5
  <2> HIDE DEF S, T, s
  <2> QED BY <1>0, <2>1, <2>2, <2>3 DEF TypeInv, TypeOK
<1>8. Noticed(w)'
  <2>1. CASE T.pc = "next"
    BY <1>6, <2>1 DEF Noticed
  <2>2. CASE T.pc = "count"
    <3>1. \A i, j \in DOMAIN T.todo : T.todo[i] = T.todo[j] => i = j
      BY <1>4, <1>5, TailOnce
    <3> DEFINE q == S.todo
    <3>2. \A i \in DOMAIN T.todo : \E j \in DOMAIN q : T.todo[i] = q[j] /\ q[j] # Head(q)
      <4>1. q \in Seq(Segments) /\ q # <<>> /\ T.todo = Tail(q)
            /\ \A i, j \in DOMAIN q : q[i] = q[j] => i = j
        BY <1>4, <1>5
      <4> HIDE DEF S, T, q
      <4> QED BY <4>1, TailOnce
    <3>3. \A j \in DOMAIN S.todo : S.todo[j] \in Segments
      BY <1>5
    <3>4. \A i \in DOMAIN T.todo : T.seen[T.todo[i]] \in {None, Status(w)'[T.todo[i]]}
      <4> HIDE DEF S, T
      <4> QED BY <1>4, <1>5, <1>7, <2>2, <3>2, <3>3
    <3> QED BY <1>6, <2>2, <3>1, <3>4 DEF Noticed
  <2> QED BY <1>1, <2>1, <2>2
<1>9. Asked(w)' = Asked(w)
  BY <1>1, <1>4 DEF Asked
<1>10. Loaded(w)' /\ Newest(w)'
  BY <1>0, <1>1, <1>2, <1>4, <1>9 DEF Undisturbed, Loaded, Newest
<1> QED BY <1>2, <1>8, <1>10 DEF Undisturbed

LEMMA CommitUndisturbed ==
  ASSUME AloneInv, NEW w \in Sessions, Commit(w)
  PROVE  UpToDate' /\ Undisturbed(w)' /\ \A x \in Sessions \ {w} : sess'[x] = sess[x]
<1> DEFINE S == sess[w]
<1>0. TypeInv /\ Sound(w) /\ Undisturbed(w) /\ UpToDate
  BY DEF AloneInv, CursorInv, TicketInv
<1>1. /\ UNCHANGED <<feed, clock, sealed>> /\ S.pc = "next" /\ S.rest = {}
      /\ sess'[w] = Closed /\ \A x \in Sessions \ {w} : sess'[x] = sess[x]
      /\ \A r \in Records :
           /\ coll'[r] = IF S.put[r] # None THEN S.put[r] ELSE coll[r]
           /\ stored'[r] = IF Wrote(w, r) THEN S.feed[r].ts ELSE stored[r]
           /\ newest'[r] = IF r \in Through(w) /\ S.feed[r].ts > newest[r]
                           THEN S.feed[r].ts ELSE newest[r]
  BY CommitRows DEF AloneInv
<1>2. crossed' = {}
  BY <1>0 DEF Commit, Undisturbed, Loaded, UpToDate
<1>3. ASSUME NEW r \in Records
      PROVE  /\ newest'[r] > 0 => feed'[r] # None /\ newest'[r] <= feed'[r].ts
             /\ coll'[r] # None => stored'[r] >= newest'[r]
  <2>1. CASE r \in Through(w)
    <3>1. w \in Syncs /\ r \in Asked(w) /\ S.feed[r] # None
      BY <2>1 DEF Through, Asked, Window
    <3>2. S.feed[r].ts \in Nat /\ newest[r] \in Nat /\ newest[r] <= S.feed[r].ts
          /\ (feed[r] # None => feed[r].ts \in Nat)
      BY <1>0, <3>1, Types DEF Undisturbed, Newest
    <3>3. newest'[r] = S.feed[r].ts
      BY <1>1, <2>1, <3>2
    <3>4. feed[r] # None /\ S.feed[r].ts <= feed[r].ts
      BY <1>0, <3>1, <3>2 DEF Sound, Follows
    <3>5. S.put[r] = None => coll[r] = None
      BY <1>0, <1>1, <3>1 DEF Undisturbed, Newest
    <3>6. S.put[r] # None => stored'[r] = S.feed[r].ts
      BY <1>1, <2>1 DEF Wrote
    <3> QED BY <1>1, <3>2, <3>3, <3>4, <3>5, <3>6
  <2>2. CASE r \notin Through(w)
    <3>1. newest'[r] = newest[r] /\ stored'[r] = stored[r]
      BY <1>1, <2>2 DEF Wrote
    <3>2. S.put[r] # None => coll[r] # None
      BY <1>0, <2>2 DEF Sound, Writes, Through
    <3> QED BY <1>0, <1>1, <3>1, <3>2 DEF UpToDate
  <2> QED BY <2>1, <2>2
<1>4. UpToDate'
  BY <1>2, <1>3 DEF UpToDate
<1>5. Undisturbed(w)'
  <2>1. \A r \in Records : sess'[w].feed[r] = None
    BY <1>1 DEF Closed
  <2>2. Asked(w)' = {}
    BY <2>1 DEF Asked, Window
  <2> QED BY <1>1, <2>1, <2>2, ClosedNone DEF Undisturbed, Loaded, Noticed, Newest
<1> QED BY <1>1, <1>4, <1>5

LEMMA AbortUndisturbed ==
  ASSUME AloneInv, NEW w \in Sessions, DeadlockAbort(w)
  PROVE  Undisturbed(w)' /\ \A x \in Sessions \ {w} : sess'[x] = sess[x]
<1>1. sess'[w] = Closed /\ \A x \in Sessions \ {w} : sess'[x] = sess[x]
  BY SetOthers DEF AloneInv, EndedInv, DeadlockAbort
<1>2. \A r \in Records : sess'[w].feed[r] = None
  BY <1>1 DEF Closed
<1>3. Asked(w)' = {}
  BY <1>2 DEF Asked, Window
<1> QED BY <1>1, <1>2, <1>3, ClosedNone DEF Undisturbed, Loaded, Noticed, Newest

\* The source moves on; what was stored stays the newest version stored.
LEMMA PublishUndisturbed ==
  ASSUME AloneInv, NEW r \in Records, NEW x \in Contents, Publish(r, x)
  PROVE  UpToDate' /\ \A w \in Sessions : Undisturbed(w)'
<1>0. TypeInv /\ Clocks /\ UpToDate /\ \A w \in Sessions : Undisturbed(w)
  BY DEF AloneInv, CursorInv, TicketInv
<1>1. PICK t \in {clock, clock + 1} :
        feed' = [feed EXCEPT ![r] = [addr |-> x.addr, vt |-> x.vt, deleted |-> x.deleted, ts |-> t]]
  BY DEF Publish
<1> DEFINE v == [addr |-> x.addr, vt |-> x.vt, deleted |-> x.deleted, ts |-> t]
<1>2. UNCHANGED <<coll, status, sess, crossed, stored, newest>>
  BY DEF Publish, tables, history
<1>3. v \in Version /\ v # None /\ v.ts = t /\ t \in Nat /\ clock <= t
  <2>1. t \in Nat /\ clock <= t /\ clock \in Nat
    BY <1>0, Types
  <2>2. v \in Version
    BY <2>1, ContentAssumption DEF Version
  <2> QED BY <2>1, <2>2, VersionAssumption
<1>4. feed'[r] = v /\ \A q \in Records \ {r} : feed'[q] = feed[q]
  BY <1>0, <1>1 DEF TypeInv, TypeOK
<1> HIDE DEF v
<1>5. ASSUME NEW q \in Records, newest[q] > 0
      PROVE  feed'[q] # None /\ newest[q] <= feed'[q].ts
  <2>1. feed[q] # None /\ newest[q] <= feed[q].ts /\ feed[q].ts <= clock
    BY <1>0, <1>5 DEF UpToDate, Clocks
  <2>2. feed[q].ts \in Nat /\ clock \in Nat /\ newest[q] \in Nat
    BY <1>0, <2>1, Types
  <2> QED BY <1>3, <1>4, <2>1, <2>2
<1>6. UpToDate'
  BY <1>0, <1>2, <1>5 DEF UpToDate
<1>7. ASSUME NEW w \in Sessions PROVE Undisturbed(w)'
  BY <1>0, <1>2 DEF Undisturbed, Loaded, Noticed, Newest, Asked, Status
<1> QED BY <1>6, <1>7

LEMMA BeginSyncUndisturbed ==
  ASSUME TypeInv, NEW w \in Syncs, BeginSync(w)
  PROVE  Undisturbed(w)' /\ sess'[w].pc # "closed" /\ \A x \in Sessions \ {w} : sess'[x] = sess[x]
<1>0. w \in Sessions
  BY DEF Sessions
<1>1. PICK S : /\ Begin(w, S) /\ S.pc = "fetch" /\ S.feed = Closed.feed /\ S.mixed = {} /\ S.over = {}
               /\ S.sts = Closed.sts
  <2>1. CASE Begin(w, [Closed EXCEPT !.pc = "fetch"])
    BY <2>1 DEF Closed
  <2>2. ASSUME NEW k \in DOMAIN cursors,
               Begin(w, [Closed EXCEPT !.pc = "fetch", !.cur = k, !.from = cursors[k],
                                       !.newMax = cursors[k].ts, !.lastId = cursors[k].rid])
        PROVE  \E S : /\ Begin(w, S) /\ S.pc = "fetch" /\ S.feed = Closed.feed /\ S.mixed = {}
                      /\ S.over = {} /\ S.sts = Closed.sts
    <3> DEFINE S == [Closed EXCEPT !.pc = "fetch", !.cur = k, !.from = cursors[k],
                                   !.newMax = cursors[k].ts, !.lastId = cursors[k].rid]
    <3>1. /\ S.pc = "fetch" /\ S.feed = Closed.feed /\ S.mixed = {} /\ S.over = {}
          /\ S.sts = Closed.sts
      BY DEF Closed
    <3>2. Begin(w, S)
      BY <2>2
    <3> HIDE DEF S
    <3> QED BY <3>1, <3>2
  <2> QED BY <2>1, <2>2 DEF BeginSync
<1>2. sess'[w] = S
  BY <1>0, <1>1, SetOthers DEF Begin
<1> QED BY <1>0, <1>1, <1>2, BeginUndisturbed

LEMMA BeginReplayUndisturbed ==
  ASSUME TypeInv, NEW w \in Replays, NEW r \in Records, NEW s \in Segments, BeginReplay(w, r, s)
  PROVE  Undisturbed(w)' /\ sess'[w].pc # "closed" /\ \A x \in Sessions \ {w} : sess'[x] = sess[x]
<1> DEFINE S == [Closed EXCEPT !.pc = "load", !.rec = r, !.to = s]
<1>1. w \in Sessions /\ Begin(w, S)
  BY DEF Sessions, BeginReplay
<1>2. /\ S.pc = "load" /\ S.feed = Closed.feed /\ S.mixed = {} /\ S.over = {}
      /\ S.sts = Closed.sts /\ S.seen = Closed.seen
  BY DEF Closed
<1> HIDE DEF S
<1>3. sess'[w] = S
  BY <1>1, SetOthers DEF Begin
<1> QED BY <1>1, <1>2, <1>3, BeginUndisturbed

\* The segments an auto-check loads are as many as it lists: none is listed twice.
LEMMA BeginChecksUndisturbed ==
  ASSUME TypeInv, NEW w \in Checks, NEW T \in SUBSET Segments, BeginChecks(w, T)
  PROVE  Undisturbed(w)' /\ sess'[w].pc # "closed" /\ \A x \in Sessions \ {w} : sess'[x] = sess[x]
<1> DEFINE eligible == {s \in T : status[s] \in Checkable}
           n == Cardinality(eligible)
           seen == [s \in Segments |-> IF s \in eligible THEN status[s] ELSE None]
<1>1. PICK order \in [1..n -> eligible] :
        /\ \A s \in eligible : \E k \in DOMAIN order : order[k] = s
        /\ Begin(w, [Closed EXCEPT !.pc = IF order = <<>> THEN "next" ELSE "count", !.todo = order,
                       !.seen = seen])
  BY DEF BeginChecks
<1> DEFINE S == [Closed EXCEPT !.pc = IF order = <<>> THEN "next" ELSE "count", !.todo = order,
                               !.seen = seen]
<1>2. w \in Sessions /\ Begin(w, S)
  BY <1>1 DEF Sessions
<1>3. /\ S.pc = (IF order = <<>> THEN "next" ELSE "count") /\ S.todo = order /\ S.seen = seen
      /\ S.feed = Closed.feed /\ S.mixed = {} /\ S.over = {} /\ S.sts = Closed.sts
  BY DEF Closed
<1>4. IsFiniteSet(eligible) /\ n \in Nat
  <2>1. IsFiniteSet(eligible)
    BY ValueAssumption, FS_Subset
  <2> QED BY <2>1, FS_CardinalityType
<1>5. \A i, j \in DOMAIN order : order[i] = order[j] => i = j
  <2> HIDE DEF eligible, S, seen
  <2> DEFINE D == 1..n
  <2>1. DOMAIN order = D
    BY <1>1
  <2>2. IsFiniteSet(D) /\ Cardinality(D) = n
    BY <1>4, FS_Interval
  <2> HIDE DEF D
  <2>3. order \in [D -> eligible] /\ \A s \in eligible : \E k \in D : order[k] = s
    BY <1>1, <2>1 DEF D
  <2>4. order \in Surjection(D, eligible)
    BY <2>3 DEF Surjection
  <2>5. order \in Injection(D, eligible)
    BY <2>2, <2>4, FS_SurjSameCardinalityImpliesInj
  <2> QED BY <2>1, <2>5 DEF Injection, IsInjective
<1>6. \A i \in DOMAIN order : order[i] \in Segments /\ seen[order[i]] = status[order[i]]
  BY <1>1
<1> HIDE DEF S, seen, eligible
<1>7. sess'[w] = S
  BY <1>2, SetOthers DEF Begin
<1>8. sess'[w].pc # "closed"
  BY <1>3, <1>7
<1> QED BY <1>2, <1>3, <1>5, <1>6, <1>8, BeginUndisturbed

LEMMA BeginReviewUndisturbed ==
  ASSUME TypeInv, NEW w \in Reviews, NEW s \in Segments, NEW outcome, BeginReview(w, s, outcome)
  PROVE  Undisturbed(w)' /\ sess'[w].pc # "closed" /\ \A x \in Sessions \ {w} : sess'[x] = sess[x]
<1> DEFINE new == IF outcome = "pass" THEN Complete ELSE Faulty
           S == [Closed EXCEPT !.pc = IF new = status[s] THEN "next" ELSE "flush",
                               !.todo = IF new = status[s] THEN <<>> ELSE <<s>>,
                               !.want = new, !.seen[s] = status[s]]
<1>1. w \in Sessions /\ Begin(w, S)
  BY DEF Sessions, BeginReview
<1>2. /\ S.pc = (IF new = status[s] THEN "next" ELSE "flush")
      /\ S.todo = (IF new = status[s] THEN <<>> ELSE <<s>>)
      /\ S.feed = Closed.feed /\ S.mixed = {} /\ S.over = {} /\ S.sts = Closed.sts
      /\ S.seen[s] = status[s]
  BY DEF Closed
<1>3. status[s] # None
  BY ValueAssumption DEF TypeInv, TypeOK
<1> HIDE DEF S, new
<1>4. sess'[w] = S
  BY <1>1, SetOthers DEF Begin
<1>5. S.pc = "flush" =>
        /\ \A i, j \in DOMAIN S.todo : S.todo[i] = S.todo[j] => i = j
        /\ \A i \in DOMAIN S.todo : S.todo[i] \in Segments /\ S.seen[S.todo[i]] = status[S.todo[i]]
        /\ S.seen[Head(S.todo)] # None
  BY <1>2, <1>3
<1>6. S.pc # "count" /\ S.pc # "load" /\ S.pc # "store" /\ sess'[w].pc # "closed"
  BY <1>2, <1>4
<1> QED BY <1>1, <1>2, <1>5, <1>6, BeginUndisturbed

LEMMA AloneInit == Init => AloneInv
<1> SUFFICES ASSUME Init PROVE AloneInv
  OBVIOUS
<1>1. \A w \in Sessions : sess[w] = Closed
  BY DEF Init
<1>2. UpToDate
  BY DEF Init, UpToDate
<1> QED BY <1>1, <1>2, CursorInit, EndedInit, ClosedUndisturbed DEF AloneInv

LEMMA AloneStep == AloneInv /\ Alone /\ Alone' /\ [Next]_vars => AloneInv'
<1> SUFFICES ASSUME AloneInv, Alone, Alone', [Next]_vars PROVE AloneInv'
  OBVIOUS
<1>0. CursorInv' /\ EndedInv' /\ EndedInv /\ TypeInv /\ UpToDate
  BY CursorStep, EndedStep DEF AloneInv, EndedInv
<1>1. ASSUME NEW r \in Records, NEW x \in Contents, Publish(r, x) PROVE AloneInv'
  BY <1>0, <1>1, PublishUndisturbed DEF AloneInv
<1>2. ASSUME UNCHANGED <<feed, coll, crossed, stored, newest>> PROVE UpToDate'
  BY <1>0, <1>2 DEF UpToDate
<1>3. ASSUME NEW w \in Sessions, Undisturbed(w)', UpToDate',
             \A x \in Sessions \ {w} : sess'[x] = sess[x],
             sess[w].pc # "closed" \/ sess'[w].pc # "closed"
      PROVE  AloneInv'
  <2>1. ASSUME NEW x \in Sessions \ {w} PROVE Undisturbed(x)'
    BY <1>0, <1>3, OthersEnded
  <2> QED BY <1>0, <1>3, <2>1 DEF AloneInv
<1>4. ASSUME NEW w, NEW S, Begin(w, S) PROVE UpToDate'
  BY <1>2, <1>4 DEF Begin, source, tables, history
<1>5. ASSUME NEW w \in Syncs, BeginSync(w) PROVE AloneInv'
  <2>1. UpToDate'
    BY <1>4, <1>5 DEF BeginSync
  <2> QED BY <1>0, <1>3, <1>5, <2>1, BeginSyncUndisturbed DEF Sessions
<1>6. ASSUME NEW w \in Replays, NEW r \in Records, NEW s \in Segments, BeginReplay(w, r, s)
      PROVE AloneInv'
  <2>1. UpToDate'
    BY <1>4, <1>6 DEF BeginReplay
  <2> QED BY <1>0, <1>3, <1>6, <2>1, BeginReplayUndisturbed DEF Sessions
<1>7. ASSUME NEW w \in Checks, NEW T \in SUBSET Segments, BeginChecks(w, T) PROVE AloneInv'
  <2>1. UpToDate'
    BY <1>4, <1>7 DEF BeginChecks
  <2> QED BY <1>0, <1>3, <1>7, <2>1, BeginChecksUndisturbed DEF Sessions
<1>8. ASSUME NEW w \in Reviews, NEW s \in Segments, NEW outcome, BeginReview(w, s, outcome)
      PROVE AloneInv'
  <2>1. UpToDate'
    BY <1>4, <1>8 DEF BeginReview
  <2> QED BY <1>0, <1>3, <1>8, <2>1, BeginReviewUndisturbed DEF Sessions
<1>9. ASSUME NEW w \in Sessions, Step(w) PROVE AloneInv'
  <2>1. CASE Fetch(w)
    <3>1. UpToDate' /\ sess[w].pc # "closed"
      BY <1>2, <2>1 DEF Fetch, tables, history
    <3> QED BY <1>3, <2>1, <3>1, FetchUndisturbed
  <2>2. ASSUME NEW r \in Records, NextRecord(w, r) PROVE AloneInv'
    <3>1. UpToDate' /\ sess[w].pc # "closed"
      BY <1>2, <2>2 DEF NextRecord, source, tables, history
    <3> QED BY <1>3, <2>2, <3>1, NextRecordUndisturbed
  <2>3. CASE LoadReplayed(w)
    <3>1. UpToDate' /\ sess[w].pc # "closed"
      BY <1>2, <2>3 DEF LoadReplayed, source, tables, history
    <3> QED BY <1>3, <2>3, <3>1, LoadUndisturbed
  <2>4. CASE Store(w)
    <3>1. UpToDate' /\ sess[w].pc # "closed"
      BY <1>2, <2>4 DEF Store, source, tables, history
    <3> QED BY <1>3, <2>4, <3>1, StoreUndisturbed
  <2>5. CASE Count(w)
    <3>1. UpToDate' /\ sess[w].pc # "closed"
      BY <1>2, <2>5 DEF Count, source, tables, history
    <3> QED BY <1>3, <2>5, <3>1, CountUndisturbed
  <2>6. CASE Flush(w)
    <3>1. UpToDate' /\ sess[w].pc # "closed"
      BY <1>2, <2>6 DEF Flush, source, tables, history
    <3> QED BY <1>3, <2>6, <3>1, FlushUndisturbed
  <2>7. CASE Commit(w)
    <3>1. sess[w].pc # "closed"
      BY <2>7 DEF Commit
    <3> QED BY <1>3, <2>7, <3>1, CommitUndisturbed
  <2>8. CASE DeadlockAbort(w)
    <3>1. UpToDate'
      BY <1>2, <2>8 DEF DeadlockAbort, source, tables, history
    <3>2. sess[w].pc # "closed"
      BY <2>8 DEF DeadlockAbort, Circle, Blockers
    <3> QED BY <1>3, <2>8, <3>1, <3>2, AbortUndisturbed
  <2> QED BY <1>9, <2>1, <2>2, <2>3, <2>4, <2>5, <2>6, <2>7, <2>8 DEF Step
<1>10. CASE UNCHANGED vars
  <2>1. UNCHANGED <<feed, coll, status, sess, crossed, stored, newest>>
    BY <1>10 DEF vars, source, tables, history
  <2>2. UpToDate'
    BY <1>2, <2>1
  <2>3. \A w \in Sessions : Undisturbed(w)'
    BY <2>1 DEF AloneInv, Undisturbed, Loaded, Noticed, Newest, Asked, Status
  <2> QED BY <1>0, <2>2, <2>3 DEF AloneInv
<1> QED BY <1>1, <1>5, <1>6, <1>7, <1>8, <1>9, <1>10 DEF Next

\* The queue is right for every record, and every version up to each cursor row
\* is stored: nothing is excused.
Exact ==
    /\ \A r \in Records : tickets[r] = IF coll[r] # None /\ coll[r].seg = None THEN 1 ELSE 0
    /\ \A k \in DOMAIN cursors, r \in Records :
         feed[r] # None /\ feed[r].ts <= cursors[k].ts => Mirrors(coll, r, feed[r])

\* As long as syncs, replays, checks and reviews do not overlap, queue and
\* cursors are right without exception, whatever the source does and however
\* many sessions come one after the other: only overlaps leave a record behind.
THEOREM AloneIsExact == Spec /\ []Alone => []Exact
<1>1. AloneInv => Exact
  <2> SUFFICES ASSUME AloneInv PROVE Exact
    OBVIOUS
  <2>1. crossed = {} /\ Overtaken = {}
    BY Types DEF AloneInv, UpToDate, Overtaken, EndedInv
  <2>2. \A r \in Records : Right(coll[r], tickets[r])
    BY <2>1 DEF AloneInv, CursorInv, TicketInv
  <2>3. \A k \in DOMAIN cursors : Covered(cursors[k].ts)
    BY DEF AloneInv, CursorInv
  <2> QED BY <2>1, <2>2, <2>3 DEF Exact, Right, Covered, Done
<1>2. Spec /\ []Alone => []AloneInv
  BY AloneInit, AloneStep, PTL DEF Spec
<1> QED BY <1>1, <1>2, PTL

\* As long as sessions do not overlap, only an inspector clears a failure, as
\* verifier_service.py:42 says; only_review shows that overlaps break it.
THEOREM AloneOnlyReviewClears == Spec /\ []Alone => OnlyReviewClears
<1>1. ASSUME \A w \in Sessions : sess[w].over = {},
             [\A s \in Segments : status[s] = Faulty /\ status'[s] # Faulty =>
                \E w \in Sessions : Commits(w, s) /\ (w \in Reviews \/ s \in sess[w].over)]_vars
      PROVE  [\A s \in Segments : status[s] = Faulty /\ status'[s] # Faulty =>
                \E w \in Reviews : Commits(w, s)]_vars
  BY <1>1
<1>2. AloneInv => \A w \in Sessions : sess[w].over = {}
  BY DEF AloneInv, Undisturbed, Noticed
<1>3. Spec /\ []Alone => []AloneInv
  BY AloneInit, AloneStep, PTL DEF Spec
<1>4. Spec => FaultyClearedKnowingly
  BY FaultyStays
<1> QED BY <1>1, <1>2, <1>3, <1>4, PTL DEF FaultyClearedKnowingly, OnlyReviewClears
=============================================================================
