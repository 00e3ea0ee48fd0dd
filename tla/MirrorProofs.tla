---------------------------- MODULE MirrorProofs ----------------------------
(***************************************************************************)
(* A sync loses nothing: theorems about the paging of CollectionClient and *)
(* about the copy of the source that Collection keeps.                     *)
(***************************************************************************)
EXTENDS CollectionProofs, WellFoundedInduction

-----------------------------------------------------------------------------
(* Paging.  Before orders the records of a feed totally; the rank of a      *)
(* record is how many records of the list come before it.                  *)

Known(f) == {r \in Records : f[r] # None}
Earlier(f, W, r) == {q \in W : Before(f, q, r)}
RankIn(f, W, r) == Cardinality(Earlier(f, W, r))

Feed == [Records -> Version \cup {None}]

\* Before is a strict total order of the records a feed knows.
LEMMA Order ==
  ASSUME NEW f \in Feed
  PROVE  /\ \A a \in Known(f) : ~Before(f, a, a)
         /\ \A a, b \in Known(f) : a # b => Before(f, a, b) \/ Before(f, b, a)
         /\ \A a, b, c \in Known(f) : Before(f, a, b) /\ Before(f, b, c) => Before(f, a, c)
<1>1. \A a \in Known(f) : f[a].ts \in Nat /\ a \in Nat
  BY RecordsAssumption DEF Feed, Known, Version
<1> QED BY <1>1 DEF Before

\* What comes before a record is finite, so its rank is a number.
LEMMA EarlierFinite ==
  ASSUME NEW f, NEW W \in SUBSET Records, NEW r
  PROVE  IsFiniteSet(W) /\ IsFiniteSet(Earlier(f, W, r)) /\ RankIn(f, W, r) \in Nat
<1>1. IsFiniteSet(W)
  BY RecordsAssumption, FS_Subset
<1>2. IsFiniteSet(Earlier(f, W, r))
  BY <1>1, FS_Subset DEF Earlier
<1> QED BY <1>1, <1>2, FS_CardinalityType DEF RankIn

\* An earlier record has a smaller rank.
LEMMA RankGrows ==
  ASSUME NEW f \in Feed, NEW W \in SUBSET Known(f), NEW a \in W, NEW b \in W, Before(f, a, b)
  PROVE  /\ Earlier(f, W, a) \subseteq Earlier(f, W, b)
         /\ a \in Earlier(f, W, b) \ Earlier(f, W, a)
         /\ RankIn(f, W, a) < RankIn(f, W, b)
<1>1. Earlier(f, W, a) \subseteq Earlier(f, W, b) /\ a \in Earlier(f, W, b) \ Earlier(f, W, a)
  BY Order DEF Earlier
<1>2. /\ IsFiniteSet(Earlier(f, W, b))
      /\ RankIn(f, W, a) \in Nat /\ RankIn(f, W, b) \in Nat
  BY EarlierFinite DEF Known
<1>3. /\ RankIn(f, W, a) <= RankIn(f, W, b)
      /\ RankIn(f, W, a) = RankIn(f, W, b) => Earlier(f, W, a) = Earlier(f, W, b)
  BY <1>1, <1>2, FS_Subset DEF RankIn
<1> QED BY <1>1, <1>2, <1>3

\* The ranks of a list have no gap.
LEMMA SlotFilled ==
  ASSUME NEW f \in Feed, NEW W \in SUBSET Known(f), NEW n \in Nat,
         NEW r \in W, RankIn(f, W, r) >= n
  PROVE  \E m \in W : RankIn(f, W, m) = n
<1> DEFINE U == {q \in W : RankIn(f, W, q) >= n}
           Family == {Earlier(f, W, q) : q \in U}
<1>1. W \subseteq Records /\ IsFiniteSet(Records)
  BY RecordsAssumption DEF Known
<1>2. PICK m \in U : \A q \in U : <<Earlier(f, W, q), Earlier(f, W, m)>> \notin StrictSubsetOrdering(Records)
  <2>1. IsWellFoundedOn(StrictSubsetOrdering(Records), SUBSET Records)
    BY <1>1, FS_StrictSubsetOrderingWellFounded, FS_FiniteSubsetsOfFinite
  <2>2. Family \subseteq SUBSET Records /\ Family # {}
    BY <1>1 DEF Earlier
  <2> HIDE DEF Family
  <2>3. \E x \in Family : \A y \in Family : ~ (<<y, x>> \in StrictSubsetOrdering(Records))
    BY <2>1, <2>2, WFMin
  <2> QED BY <2>3 DEF Family
<1>3. \A q \in Earlier(f, W, m) : RankIn(f, W, q) \in 0..(n-1)
  <2> TAKE q \in Earlier(f, W, m)
  <2>1. q \in W /\ Before(f, q, m)
    BY DEF Earlier
  <2>2. Earlier(f, W, q) \subseteq Earlier(f, W, m) /\ Earlier(f, W, q) # Earlier(f, W, m)
    BY <2>1, RankGrows
  <2>3. <<Earlier(f, W, q), Earlier(f, W, m)>> \in StrictSubsetOrdering(Records)
    BY <1>1, <2>2 DEF StrictSubsetOrdering, Earlier
  <2>4. q \notin U
    BY <1>2, <2>3
  <2> QED BY <1>1, <2>1, <2>4, EarlierFinite
<1>4. RankIn(f, W, m) <= n
  <2> DEFINE g == [q \in Earlier(f, W, m) |-> RankIn(f, W, q)]
  <2>1. g \in Injection(Earlier(f, W, m), 0..(n-1))
    <3>1. g \in [Earlier(f, W, m) -> 0..(n-1)]
      BY <1>3
    <3>2. ASSUME NEW a \in Earlier(f, W, m), NEW b \in Earlier(f, W, m), g[a] = g[b], a # b
          PROVE  FALSE
      <4>1. a \in W /\ b \in W /\ RankIn(f, W, a) = RankIn(f, W, b)
        BY <3>2 DEF Earlier
      <4>2. Before(f, a, b) \/ Before(f, b, a)
        BY <3>2, <4>1, Order
      <4>3. RankIn(f, W, a) \in Nat
        BY <1>1, EarlierFinite
      <4>4. CASE Before(f, a, b)
        <5>1. RankIn(f, W, a) < RankIn(f, W, b)
          BY <4>1, <4>4, RankGrows
        <5> QED BY <4>1, <4>3, <5>1
      <4>5. CASE Before(f, b, a)
        <5>1. RankIn(f, W, b) < RankIn(f, W, a)
          BY <4>1, <4>5, RankGrows
        <5> QED BY <4>1, <4>3, <5>1
      <4> QED BY <4>2, <4>4, <4>5
    <3> HIDE DEF g
    <3> QED BY <3>1, <3>2 DEF Injection, IsInjective
  <2>2. IsFiniteSet(0..(n-1)) /\ Cardinality(0..(n-1)) = n
    <3>1. 0 \in Int /\ n - 1 \in Int /\ (n - 1) - 0 + 1 = n /\ (0 > n - 1 => n = 0)
      OBVIOUS
    <3> QED BY <3>1, FS_Interval
  <2> HIDE DEF g
  <2> QED BY <2>1, <2>2, FS_Injection DEF RankIn
<1> QED BY <1>1, <1>2, <1>4, EarlierFinite

\* What a sync still owes of the list after its page-th page: the records of
\* later pages, which are cut from the full list without the tie-break.
Owed(f, since, page) ==
    {r \in Window(f, since, None) : page = 0 \/ RankIn(f, Window(f, since, None), r) >= page * PageSize}

\* The next page brings every owed record that is newer than the cursor or
\* leaves it owed, and while some are left the client says so.
LEMMA PageDelivers ==
  ASSUME NEW f \in Feed, NEW since \in Nat, NEW id \in Records \cup {None}, NEW n \in Nat,
         NEW r \in Owed(f, since, n), f[r].ts > since
  PROVE  LET page   == n + 1
             lastId == IF page = 1 THEN id ELSE None
             batch  == Page(f, since, lastId, page)
         IN  \/ r \in batch
             \/ /\ r \in Owed(f, since, page)
                /\ batch # {} /\ HasNext(f, since, lastId, page)
<1> DEFINE page   == n + 1
           lastId == IF page = 1 THEN id ELSE None
           W      == Window(f, since, lastId)
           All    == Window(f, since, None)
           batch  == Page(f, since, lastId, page)
<1>1. /\ W \subseteq All /\ All \subseteq Known(f) /\ r \in W /\ r \in All
      /\ W \subseteq Records /\ All \subseteq Records
  BY DEF Window, Owed, Known
<1>2. PageSize \in Nat /\ PageSize > 0 /\ page \in Nat /\ (page - 1) * PageSize \in Nat
      /\ page * PageSize \in Nat /\ (page - 1) * PageSize < page * PageSize
      /\ page * PageSize = (page - 1) * PageSize + PageSize
  <2>1. PageSize \in Nat /\ PageSize > 0
    BY PageAssumption
  <2>2. page * PageSize = n * PageSize + PageSize /\ n * PageSize \in Nat /\ page - 1 = n
    BY <2>1
  <2> QED BY <2>1, <2>2
<1>3. batch = {q \in W : (page - 1) * PageSize <= RankIn(f, W, q) /\ RankIn(f, W, q) < page * PageSize}
  BY DEF Page, RankIn, Earlier
<1>4. RankIn(f, W, r) >= (page - 1) * PageSize
  <2>1. CASE n = 0
    <3>1. RankIn(f, W, r) \in Nat
      BY <1>1, EarlierFinite
    <3> QED BY <2>1, <3>1, <1>2
  <2>2. CASE n # 0
    BY <2>2 DEF Owed
  <2> QED BY <2>1, <2>2
<1>5. RankIn(f, W, r) <= RankIn(f, All, r)
  <2>1. Earlier(f, W, r) \subseteq Earlier(f, All, r)
    BY <1>1 DEF Earlier
  <2>2. IsFiniteSet(Earlier(f, All, r))
    BY <1>1, EarlierFinite
  <2> QED BY <2>1, <2>2, FS_Subset DEF RankIn
<1> SUFFICES ASSUME r \notin batch
             PROVE  r \in Owed(f, since, page) /\ batch # {} /\ HasNext(f, since, lastId, page)
  OBVIOUS
<1> DEFINE top == page * PageSize
<1>6. RankIn(f, W, r) >= top /\ top \in Nat
  <2>1. RankIn(f, W, r) \in Nat
    BY <1>1, EarlierFinite
  <2>2. ~(RankIn(f, W, r) < page * PageSize)
    BY <1>1, <1>3, <1>4
  <2> QED BY <1>2, <2>1, <2>2
<1>7. r \in Owed(f, since, page)
  <2>1. RankIn(f, W, r) \in Nat /\ RankIn(f, All, r) \in Nat
    BY <1>1, EarlierFinite
  <2>2. RankIn(f, All, r) >= page * PageSize
    BY <1>5, <1>6, <2>1
  <2> QED BY <1>1, <2>2 DEF Owed
<1>8. batch # {}
  <2>1. PICK m \in W : RankIn(f, W, m) = (page - 1) * PageSize
    <3>1. W \in SUBSET Known(f) /\ (page - 1) * PageSize \in Nat
      BY <1>1, <1>2
    <3> HIDE DEF W, page
    <3> QED BY <1>1, <1>4, <3>1, SlotFilled
  <2>2. m \in batch
    BY <1>2, <1>3, <2>1
  <2> QED BY <2>2
<1>9. HasNext(f, since, lastId, page)
  <2>1. /\ IsFiniteSet(W) /\ Earlier(f, W, r) \subseteq W /\ r \notin Earlier(f, W, r)
        /\ RankIn(f, W, r) \in Nat
    BY <1>1, Order, EarlierFinite DEF Earlier
  <2>2. RankIn(f, W, r) <= Cardinality(W) /\ RankIn(f, W, r) # Cardinality(W) /\ Cardinality(W) \in Nat
    BY <1>1, <2>1, FS_Subset, FS_CardinalityType DEF RankIn
  <2>3. top < Cardinality(W)
    <3> HIDE DEF W, top
    <3> QED BY <1>6, <2>1, <2>2
  <2> QED BY <2>3 DEF HasNext
<1> QED BY <1>7, <1>8, <1>9

-----------------------------------------------------------------------------
(* The inductive invariant.  A version that is neither late nor newer than *)
(* the last fetch is the one the running sync has fetched.  Of what it has  *)
(* fetched, a record is mirrored in its view of the tables, waits in its    *)
(* page, or is owed by a later one.                                         *)

ClockInv ==
    /\ cursor.ts <= sealed /\ sealed <= clock
    /\ \A r \in Records : feed[r] # None => feed[r].ts <= clock

Fresh(r) == feed[r] # None /\ feed[r].ts > sealed

HeldIn(c, r) ==
    IF c[r] = None THEN None
    ELSE IF c[r].active THEN [vt |-> c[r].vt, ts |-> c[r].ts] ELSE None

\* What record r of a sync's view holds is what it held, nothing, or from
\* between the cursor and the newest stamp the sync has processed.
Between(r) ==
    \/ HeldIn(tx.coll, r) \in {HeldIn(coll, r), None}
    \/ tx.since <= HeldIn(tx.coll, r).ts /\ HeldIn(tx.coll, r).ts <= tx.newMax

TxInv ==
    /\ tx.since = cursor.ts /\ tx.since <= tx.newMax /\ tx.newMax <= sealed
    /\ tx.batch \subseteq Window(tx.feed, tx.since, None)
    /\ \A r \in Records : tx.feed[r] # None => tx.feed[r].ts <= sealed
    /\ \A r \in Records \ late : tx.feed[r] = feed[r] \/ Fresh(r)
    /\ \A r \in Records \ late :
         tx.feed[r] = feed[r] /\ feed[r] # None /\ feed[r].ts <= tx.since
           => Mirrors(tx.coll, r, feed[r])
    /\ \A r \in Records : tx.feed[r] # None /\ tx.feed[r].ts > tx.since =>
         \/ Mirrors(tx.coll, r, tx.feed[r])
         \/ r \in tx.batch
         \/ tx.more /\ r \in Owed(tx.feed, tx.since, tx.page)
    /\ \A r \in Records : Between(r)

MirrorInv == ClockInv /\ CursorCoversSource /\ (tx.running => TxInv)

LEMMA InitMirror == Init => MirrorInv
BY DEF Init, MirrorInv, ClockInv, CursorCoversSource, NoTx

\* What SyncRecord does to the row of its record, and to no other.
LEMMA StoredMirrors ==
  ASSUME live \subseteq Segments, NEW c \in Table, NEW r \in Records, NEW v \in Version
  PROVE  /\ Mirrors(Stored(c, r, v), r, v)
         /\ \A q \in Records \ {r} : Stored(c, r, v)[q] = c[q]
         /\ HeldIn(Stored(c, r, v), r) = IF v.deleted THEN None ELSE [vt |-> v.vt, ts |-> v.ts]
<1> DEFINE d == Stored(c, r, v)
<1> SUFFICES /\ Mirrors(d, r, v)
             /\ \A q \in Records \ {r} : d[q] = c[q]
             /\ HeldIn(d, r) = IF v.deleted THEN None ELSE [vt |-> v.vt, ts |-> v.ts]
  OBVIOUS
<1>1. \A q \in Records \ {r} : d[q] = c[q]
  BY DEF Stored, Table
<1>2. CASE v.deleted
  <2>1. CASE c[r] = None
    BY <1>1, <1>2, <2>1 DEF Stored, Mirrors, HeldIn
  <2>2. CASE c[r] # None
    <3>1. c[r] \in Row /\ d[r] = [c[r] EXCEPT !.active = FALSE]
      BY <1>2, <2>2 DEF Stored, Table
    <3>2. d[r].active = FALSE
      BY <3>1 DEF Row
    <3> HIDE DEF d
    <3> QED BY <1>1, <1>2, <3>2 DEF Mirrors, HeldIn
  <2> QED BY <2>1, <2>2
<1>3. CASE ~v.deleted
  <2>1. d[r] = [seg |-> FindSegment(v), vt |-> v.vt, active |-> TRUE, ts |-> v.ts]
    BY <1>3 DEF Stored, Table
  <2>2. d[r] \in Row
    BY <2>1, FindSegmentType DEF Row, Version
  <2> HIDE DEF d
  <2>3. d[r].active /\ d[r].vt = v.vt /\ d[r].ts = v.ts
    BY <2>1
  <2>4. d[r] # None
    BY <2>2, RowAssumption
  <2> QED BY <1>1, <1>3, <2>3, <2>4 DEF Mirrors, HeldIn
<1> QED BY <1>2, <1>3

\* Whether a version is stored depends on the row of its record only.
LEMMA SameRowSameMirror ==
  ASSUME NEW c, NEW d, NEW r, NEW v, c[r] = d[r]
  PROVE  Mirrors(c, r, v) = Mirrors(d, r, v) /\ HeldIn(c, r) = HeldIn(d, r)
BY DEF Mirrors, HeldIn

LEMMA PublishMirror ==
  ASSUME TypeInv, MirrorInv, NEW r \in Records, NEW x \in Contents, Publish(r, x)
  PROVE  MirrorInv'
<1> USE DEF TypeInv, MirrorInv
<1>1. PICK t \in {clock, clock + 1} :
         /\ feed' = [feed EXCEPT ![r] = [addr |-> x.addr, vt |-> x.vt,
                                         deleted |-> x.deleted, ts |-> t]]
         /\ clock' = t
         /\ late' = IF t > sealed THEN late \ {r} ELSE late \cup {r}
  BY DEF Publish
<1>2. UNCHANGED <<sealed, coll, cursor, tx>>
  BY DEF Publish, rows
<1>3. t \in Nat /\ clock \in Nat /\ sealed \in Nat /\ cursor.ts \in Nat /\ t >= clock
      /\ feed \in [Records -> Version \cup {None}]
  BY <1>1 DEF TypeOK
<1>4. feed'[r].ts = t /\ \A q \in Records \ {r} : feed'[q] = feed[q]
  BY <1>1, <1>3
<1>5. \A q \in Records \ late' : (q # r /\ q \notin late) \/ (q = r /\ t > sealed)
  BY <1>1
<1>6. \A q \in Records : feed[q] # None => feed[q].ts \in Nat
  BY <1>3 DEF Version
<1>7. ClockInv'
  BY <1>1, <1>2, <1>3, <1>4, <1>6 DEF ClockInv
<1>8. CursorCoversSource'
  <2>1. \A q \in Records \ late' : feed'[q] # None /\ feed'[q].ts <= cursor'.ts => q # r
    BY <1>2, <1>3, <1>4, <1>5 DEF ClockInv
  <2> QED BY <1>2, <1>4, <1>5, <2>1 DEF CursorCoversSource
<1>9. tx.running => TxInv'
  <2> HAVE tx.running
  <2>1. tx \in TxType /\ TxInv
    BY TxRunning
  <2>2. \A q \in Records : tx.feed[q] # None => tx.feed[q].ts <= sealed /\ tx.feed[q].ts \in Nat
    BY <2>1 DEF TxInv, TxType, Version
  <2>3. t > sealed => Fresh(r)' /\ tx.feed[r] # feed'[r]
    <3>1. [addr |-> x.addr, vt |-> x.vt, deleted |-> x.deleted, ts |-> t] \in Version
      BY <1>3, SourceAssumption DEF Content, Version
    <3>2. feed'[r] # None
      BY <1>1, <1>3, <3>1, VersionAssumption
    <3> QED BY <1>2, <1>3, <1>4, <2>2, <3>2 DEF Fresh
  <2>4. \A q \in Records \ late' : tx'.feed[q] = feed'[q] \/ Fresh(q)'
    BY <1>2, <1>4, <1>5, <2>1, <2>3 DEF TxInv, Fresh
  <2>5. \A q \in Records \ late' :
          tx'.feed[q] = feed'[q] /\ feed'[q] # None /\ feed'[q].ts <= tx'.since
            => Mirrors(tx'.coll, q, feed'[q])
    BY <1>2, <1>4, <1>5, <2>1, <2>3 DEF TxInv
  <2>6. \A q \in Records : Between(q)'
    BY <1>2, <2>1 DEF TxInv, Between
  <2> QED BY <1>2, <2>1, <2>4, <2>5, <2>6 DEF TxInv
<1> QED BY <1>2, <1>7, <1>8, <1>9

LEMMA SyncBeginMirror ==
  ASSUME TypeInv, MirrorInv, SyncBegin PROVE MirrorInv'
<1> USE DEF TypeInv, MirrorInv
<1>1. /\ tx'.feed = feed /\ tx'.since = cursor.ts /\ tx'.newMax = cursor.ts
      /\ tx'.page = 0 /\ tx'.more /\ tx'.batch = {} /\ tx'.coll = coll
      /\ sealed' = clock /\ UNCHANGED <<feed, clock, late, coll, cursor>>
  BY DEF SyncBegin, rows
<1>2. clock \in Nat /\ sealed \in Nat /\ cursor.ts \in Nat /\ feed \in Feed
  BY DEF TypeOK, Feed
<1>3. ClockInv' /\ CursorCoversSource'
  BY <1>1, <1>2 DEF ClockInv, CursorCoversSource
<1>4. \A r \in Records : feed[r] # None /\ feed[r].ts > cursor.ts => r \in Owed(feed, cursor.ts, 0)
  <2> TAKE r \in Records
  <2> HAVE feed[r] # None /\ feed[r].ts > cursor.ts
  <2>1. feed[r].ts \in Nat
    BY <1>2 DEF Feed, Version
  <2> QED BY <1>2, <2>1 DEF Owed, Window
<1>5. TxInv'
  BY <1>1, <1>2, <1>3, <1>4 DEF TxInv, ClockInv, CursorCoversSource, Between
<1> QED BY <1>3, <1>5

LEMMA SyncFetchMirror ==
  ASSUME TypeInv, MirrorInv, SyncFetch PROVE MirrorInv'
<1> USE DEF TypeInv, MirrorInv
<1>1. tx \in TxType /\ tx.running /\ tx.more /\ tx.batch = {} /\ TxInv
  BY TxRunning DEF SyncFetch
<1> DEFINE page   == tx.page + 1
           lastId == IF page = 1 THEN tx.lastId ELSE None
           batch  == Page(tx.feed, tx.since, lastId, page)
           more   == batch # {} /\ HasNext(tx.feed, tx.since, lastId, page)
<1>2. /\ tx' = [tx EXCEPT !.page = page, !.batch = batch, !.more = more]
      /\ UNCHANGED <<feed, clock, sealed, late, coll, cursor>>
  BY DEF SyncFetch, source, rows
<1>3. batch \subseteq Window(tx.feed, tx.since, None)
  BY DEF Page, Window
<1>4. \A r \in Records : tx.feed[r] # None /\ tx.feed[r].ts > tx.since =>
         \/ Mirrors(tx.coll, r, tx.feed[r])
         \/ r \in batch
         \/ more /\ r \in Owed(tx.feed, tx.since, page)
  <2> TAKE r \in Records
  <2> HAVE tx.feed[r] # None /\ tx.feed[r].ts > tx.since
  <2>1. CASE Mirrors(tx.coll, r, tx.feed[r])
    BY <2>1
  <2>2. CASE ~Mirrors(tx.coll, r, tx.feed[r])
    <3>1. r \in Owed(tx.feed, tx.since, tx.page)
      BY <1>1, <2>2 DEF TxInv
    <3>2. tx.feed \in Feed /\ tx.since \in Nat /\ tx.lastId \in Records \cup {None} /\ tx.page \in Nat
      BY <1>1 DEF TxType, Feed
    <3> QED BY <3>1, <3>2, PageDelivers
  <2> QED BY <2>1, <2>2
<1> HIDE DEF page, lastId, batch, more
<1>5. /\ tx'.feed = tx.feed /\ tx'.since = tx.since /\ tx'.newMax = tx.newMax /\ tx'.coll = tx.coll
      /\ tx'.page = page /\ tx'.batch = batch /\ tx'.more = more
  BY <1>1, <1>2 DEF TxType
<1>6. TxInv'
  BY <1>1, <1>2, <1>3, <1>4, <1>5 DEF TxInv, Fresh, Between
<1> QED BY <1>2, <1>6 DEF ClockInv, CursorCoversSource

LEMMA SyncRecordMirror ==
  ASSUME TypeInv, MirrorInv, NEW r \in Records, SyncRecord(r) PROVE MirrorInv'
<1> USE DEF TypeInv, MirrorInv
<1>1. tx \in TxType /\ tx.running /\ TxInv /\ r \in tx.batch
  BY TxRunning DEF SyncRecord
<1> DEFINE v == tx.feed[r]
           c == Stored(tx.coll, r, v)
<1>2. /\ v \in Version /\ live \subseteq Segments /\ tx.coll \in Table
      /\ UNCHANGED <<feed, clock, sealed, late, coll, cursor>>
  BY <1>1 DEF BatchKnown, SyncRecord, TxType, TypeOK, source, rows
<1>3. /\ tx'.feed = tx.feed /\ tx'.since = tx.since /\ tx'.coll = c
      /\ tx'.page = tx.page /\ tx'.batch = tx.batch \ {r} /\ tx'.more = tx.more
      /\ tx'.newMax = IF v.ts > tx.newMax THEN v.ts ELSE tx.newMax
  BY <1>1 DEF SyncRecord, TxType
<1>4. v.ts \in Nat /\ tx.newMax \in Nat /\ tx.since \in Nat /\ tx.since <= v.ts /\ v.ts <= sealed
  BY <1>1, <1>2 DEF TxInv, Window, Version, TxType
<1>5. /\ Mirrors(c, r, v)
      /\ \A q \in Records \ {r} : c[q] = tx.coll[q]
      /\ HeldIn(c, r) = IF v.deleted THEN None ELSE [vt |-> v.vt, ts |-> v.ts]
  BY <1>2, StoredMirrors
<1> HIDE DEF c
<1>6. \A q \in Records : \A w : Mirrors(tx.coll, q, w) /\ w = tx.feed[q] => Mirrors(c, q, w)
  BY <1>5, SameRowSameMirror
<1>7. \A q \in Records : Between(q)'
  <2> TAKE q \in Records
  <2>1. CASE q = r
    <3>1. HeldIn(c, r) = None \/ (tx.since <= HeldIn(c, r).ts /\ HeldIn(c, r).ts <= tx'.newMax)
      BY <1>3, <1>4, <1>5
    <3> QED BY <1>3, <2>1, <3>1 DEF Between
  <2>2. CASE q # r
    <3>1. HeldIn(c, q) = HeldIn(tx.coll, q) /\ HeldIn(coll, q)' = HeldIn(coll, q)
      BY <1>2, <1>5, <2>2, SameRowSameMirror DEF HeldIn
    <3>2. HeldIn(tx.coll, q) \notin {HeldIn(coll, q), None} => HeldIn(tx.coll, q).ts \in Nat
      BY <1>2 DEF HeldIn, Table, Row
    <3>3. Between(q)
      BY <1>1 DEF TxInv
    <3> QED BY <1>2, <1>3, <1>4, <3>1, <3>2, <3>3 DEF Between
  <2> QED BY <2>1, <2>2
<1>8. TxInv'
  <2>1. tx'.since <= tx'.newMax /\ tx'.newMax <= sealed' /\ tx'.since = cursor'.ts
    BY <1>1, <1>2, <1>3, <1>4 DEF TxInv
  <2>2. \A q \in Records \ late' :
          tx'.feed[q] = feed'[q] /\ feed'[q] # None /\ feed'[q].ts <= tx'.since
            => Mirrors(tx'.coll, q, feed'[q])
    BY <1>1, <1>2, <1>3, <1>6 DEF TxInv
  <2>3. \A q \in Records : tx'.feed[q] # None /\ tx'.feed[q].ts > tx'.since =>
         \/ Mirrors(tx'.coll, q, tx'.feed[q])
         \/ q \in tx'.batch
         \/ tx'.more /\ q \in Owed(tx'.feed, tx'.since, tx'.page)
    BY <1>1, <1>3, <1>5, <1>6 DEF TxInv
  <2> QED BY <1>1, <1>2, <1>3, <1>7, <2>1, <2>2, <2>3 DEF TxInv, Fresh
<1> QED BY <1>2, <1>8 DEF ClockInv, CursorCoversSource, SyncRecord

LEMMA SyncCommitMirror ==
  ASSUME TypeInv, MirrorInv, SyncCommit
  PROVE  /\ MirrorInv'
         /\ cursor.ts <= cursor'.ts /\ cursor'.ts \in Nat
         /\ \A r \in Records : \/ HeldIn(coll', r) \in {HeldIn(coll, r), None}
                               \/ cursor.ts <= HeldIn(coll', r).ts /\ HeldIn(coll', r).ts <= cursor'.ts
<1> USE DEF TypeInv, MirrorInv
<1>1. tx \in TxType /\ tx.running /\ ~tx.more /\ tx.batch = {} /\ TxInv
  BY TxRunning DEF SyncCommit
<1>2. UNCHANGED <<feed, clock, sealed, late>> /\ coll' = tx.coll /\ ~tx'.running
  BY DEF SyncCommit, source, NoTx
<1>3. cursor'.ts = tx.newMax /\ tx.newMax \in Nat /\ cursor.ts \in Nat /\ sealed \in Nat /\ clock \in Nat
  <2>1. tx.newMax \in Nat /\ tx.since \in Nat /\ cursor.ts \in Nat /\ sealed \in Nat /\ clock \in Nat
    BY <1>1 DEF TxType, TypeOK
  <2>2. CASE tx.newMax > tx.since
    BY <2>1, <2>2 DEF SyncCommit
  <2>3. CASE ~(tx.newMax > tx.since)
    BY <1>1, <2>1, <2>3 DEF SyncCommit, TxInv
  <2> QED BY <2>1, <2>2, <2>3
<1>4. ClockInv'
  BY <1>1, <1>2, <1>3 DEF ClockInv, TxInv
<1>5. CursorCoversSource'
  <2> SUFFICES ASSUME NEW r \in Records \ late, feed[r] # None, feed[r].ts <= tx.newMax
               PROVE  Mirrors(tx.coll, r, feed[r])
    BY <1>2, <1>3 DEF CursorCoversSource
  <2>1. feed[r].ts \in Nat /\ tx.since \in Nat
    BY <1>1 DEF TypeOK, Version, TxType
  <2>2. tx.feed[r] = feed[r]
    BY <1>1, <1>3, <2>1 DEF TxInv, Fresh
  <2> QED BY <1>1, <2>1, <2>2 DEF TxInv
<1>6. \A r \in Records : Between(r)
  BY <1>1 DEF TxInv
<1> QED BY <1>1, <1>2, <1>3, <1>4, <1>5, <1>6 DEF TxInv, Between

\* A replay changes the segment of a row and nothing a sync is about.
LEMMA ResolveHolds ==
  ASSUME TypeInv, FormKnown, Resolve, NEW r \in Records
  PROVE  /\ HeldIn(coll', r) = HeldIn(coll, r)
         /\ \A v : Mirrors(coll', r, v) = Mirrors(coll, r, v)
<1> USE DEF TypeInv
<1>1. /\ form.rec \in Records /\ coll \in Table
      /\ coll[form.rec] # None /\ coll' = [coll EXCEPT ![form.rec].seg = form.seg]
  BY ResolveStep DEF FormKnown, Resolve, TypeOK
<1>2. CASE r # form.rec
  <2>1. coll'[r] = coll[r]
    BY <1>1, <1>2 DEF Table
  <2> QED BY <2>1, SameRowSameMirror
<1>3. CASE r = form.rec
  <2>1. coll[r] \in Row /\ coll'[r] = [coll[r] EXCEPT !.seg = form.seg]
    BY <1>1, <1>3 DEF Table
  <2>2. /\ coll'[r].active = coll[r].active /\ coll'[r].vt = coll[r].vt /\ coll'[r].ts = coll[r].ts
        /\ coll'[r] \in [seg : {form.seg}, vt : Positions \cup {None}, active : BOOLEAN, ts : Nat]
    BY <2>1 DEF Row
  <2>3. form.seg \in Segments
    BY ResolveStep
  <2>4. coll'[r] # None
    BY <2>2, <2>3, RowAssumption DEF Row
  <2> QED BY <1>1, <1>3, <2>2, <2>4 DEF HeldIn, Mirrors
<1> QED BY <1>2, <1>3

LEMMA MirrorStep ==
  ASSUME TypeInv, FormKnown, MirrorInv, [Next]_vars PROVE MirrorInv'
<1>1. CASE \E r \in Records, x \in Contents : Publish(r, x)
  BY <1>1, PublishMirror
<1>2. CASE SyncBegin
  BY <1>2, SyncBeginMirror
<1>3. CASE SyncFetch
  BY <1>3, SyncFetchMirror
<1>4. CASE \E r \in Records : SyncRecord(r)
  BY <1>4, SyncRecordMirror
<1>5. CASE SyncCommit
  BY <1>5, SyncCommitMirror
<1>6. ASSUME UNCHANGED <<source, coll, cursor>>, UNCHANGED tx \/ tx' = NoTx PROVE MirrorInv'
  BY <1>6 DEF MirrorInv, ClockInv, CursorCoversSource, TxInv, Fresh, Between, source, NoTx
<1>7. CASE Resolve
  <2>1. UNCHANGED <<source, cursor, tx>> /\ ~tx.running
    BY <1>7 DEF Resolve
  <2>2. CursorCoversSource'
    BY <1>7, <2>1, ResolveHolds DEF MirrorInv, CursorCoversSource, source
  <2> QED BY <2>1, <2>2 DEF MirrorInv, ClockInv, source
<1>8. CASE SyncAbort \/ SyncVerify \/ SyncCrash \/ RunAutoChecks \/ ClosePage \/ ResolveVerify
           \/ ResolveCrash \/ UNCHANGED vars
  BY <1>6, <1>8 DEF SyncAbort, SyncVerify, SyncCrash, RunAutoChecks, ClosePage, ResolveVerify,
     ResolveCrash, AutoCheck, rows, vars
<1>9. CASE \/ \E s \in Segments, outcome \in {"pass", "fail"} : SaveManualFinding(s, outcome)
           \/ \E r \in Records, s \in Segments : ChooseSegment(r, s)
           \/ \E f \in Files : ImportExcel(f)
  BY <1>6, <1>9 DEF SaveManualFinding, ChooseSegment, ImportExcel, rows
<1> QED
  BY <1>1, <1>2, <1>3, <1>4, <1>5, <1>7, <1>8, <1>9 DEF Next

\* Nothing the cursor has moved past is missing, through any number of pages,
\* aborted runs and restarts, unless it came with a stamp already fetched.
THEOREM CursorCovers == Spec => []CursorCoversSource
<1>1. Init => MirrorInv
  BY InitMirror
<1>2. TypeInv /\ TicketInv => TypeInv /\ FormKnown
  BY DEF TicketInv
<1>3. TypeInv /\ FormKnown /\ MirrorInv /\ [Next]_vars => MirrorInv'
  BY MirrorStep
<1>4. MirrorInv => CursorCoversSource
  BY DEF MirrorInv
<1> QED BY <1>1, <1>2, <1>3, <1>4, Invariants, PTL DEF Spec

\* A run that commits has brought every version it fetched that is still the
\* newest, unless the version is late: no page is left out, and no boundary
\* between two.
THEOREM NothingLeftBehind == Spec => RunTakesAll
<1>1. ASSUME TypeInv, MirrorInv, SyncCommit, NEW r \in Records \ late,
             feed[r] # None, feed[r] = tx.feed[r]
      PROVE  Mirrors(coll', r, feed[r])
  <2>1. tx \in TxType /\ tx.running /\ ~tx.more /\ tx.batch = {} /\ TxInv
    BY <1>1, TxRunning DEF SyncCommit, TypeInv, MirrorInv
  <2>2. feed[r].ts \in Nat /\ tx.since \in Nat
    BY <1>1, <2>1 DEF TxType, Version
  <2>3. coll' = tx.coll
    BY <1>1 DEF SyncCommit
  <2> QED BY <1>1, <2>1, <2>2, <2>3 DEF TxInv
<1>2. TypeInv /\ MirrorInv /\ [Next]_vars =>
        [SyncCommit => \A r \in Records \ late :
           feed[r] # None /\ feed[r] = tx.feed[r] => Mirrors(coll', r, feed[r])]_vars
  BY <1>1
<1>3. Spec => []MirrorInv
  <2>1. Init => MirrorInv
    BY InitMirror
  <2>2. TypeInv /\ TicketInv => TypeInv /\ FormKnown
    BY DEF TicketInv
  <2>3. TypeInv /\ FormKnown /\ MirrorInv /\ [Next]_vars => MirrorInv'
    BY MirrorStep
  <2> QED BY <2>1, <2>2, <2>3, Invariants, PTL DEF Spec
<1> QED BY <1>2, <1>3, Invariants, PTL DEF RunTakesAll, Spec

-----------------------------------------------------------------------------
(* A run ends: each of its steps leaves it fewer.                           *)

\* A bound on the steps a run has left: what is left of its page, and a page
\* of every record for each page the client may still announce.
RunLeft(t) ==
    Cardinality(t.batch)
      + IF t.more THEN (Cardinality(Records) + 1 - t.page) * (Cardinality(Records) + 1) ELSE 0

\* The client announces no page past the records there are.
PagesBounded == tx.running /\ tx.more => tx.page <= Cardinality(Records)

RunShortens ==
    [][tx.running /\ tx'.running /\ tx' # tx => RunLeft(tx') < RunLeft(tx)]_vars

\* A fetch turns one page of the run, and there are no more pages than records.
LEMMA PageStep ==
  ASSUME TypeInv, SyncFetch
  PROVE  /\ tx.running /\ tx.more /\ tx.batch = {} /\ tx \in TxType
         /\ tx'.running /\ tx'.page = tx.page + 1 /\ tx'.batch \subseteq Records
         /\ tx'.more => tx'.page <= Cardinality(Records)
<1> DEFINE page   == tx.page + 1
           lastId == IF page = 1 THEN tx.lastId ELSE None
           batch  == Page(tx.feed, tx.since, lastId, page)
           W      == Window(tx.feed, tx.since, lastId)
           more   == batch # {} /\ HasNext(tx.feed, tx.since, lastId, page)
<1>1. tx \in TxType /\ tx.running /\ tx.more /\ tx.batch = {}
  BY TxRunning DEF SyncFetch, TypeInv
<1>2. tx' = [tx EXCEPT !.page = page, !.batch = batch, !.more = more]
  BY DEF SyncFetch
<1>3. batch \subseteq Records /\ W \subseteq Records /\ page \in Nat
  BY <1>1 DEF Page, Window, TxType
<1>4. more => page <= Cardinality(Records)
  <2> HAVE more
  <2>1. page * PageSize < Cardinality(W)
    BY DEF HasNext
  <2>2. Cardinality(W) <= Cardinality(Records) /\ Cardinality(W) \in Nat /\ Cardinality(Records) \in Nat
    BY <1>3, RecordsAssumption, FS_Subset, FS_CardinalityType
  <2>3. page <= page * PageSize /\ page * PageSize \in Nat
    <3>1. \A a, b \in Nat : b > 0 => a <= a * b /\ a * b \in Nat
      OBVIOUS
    <3> HIDE DEF page
    <3> QED BY <1>3, <3>1, PageAssumption
  <2> HIDE DEF page, W
  <2> QED BY <1>3, <2>1, <2>2, <2>3
<1> HIDE DEF page, batch, more
<1>5. tx'.running /\ tx'.page = page /\ tx'.batch = batch /\ tx'.more = more
  BY <1>1, <1>2 DEF TxType
<1> QED BY <1>1, <1>3, <1>4, <1>5 DEF page

\* What can happen to a run.
LEMMA RunMoves ==
  ASSUME Next, tx.running, tx' # tx
  PROVE  SyncFetch \/ (\E r \in Records : SyncRecord(r)) \/ tx' = NoTx
<1>1. CASE \E r \in Records, x \in Contents : Publish(r, x)
  BY <1>1 DEF Publish
<1>2. CASE SyncBegin \/ SyncCommit \/ SyncAbort
  BY <1>2 DEF SyncBegin, SyncCommit, SyncAbort
<1>3. CASE SyncVerify \/ SyncCrash \/ RunAutoChecks \/ ClosePage \/ Resolve \/ ResolveVerify \/ ResolveCrash
  BY <1>3 DEF SyncVerify, SyncCrash, RunAutoChecks, ClosePage, Resolve, ResolveVerify, ResolveCrash
<1>4. CASE \/ \E s \in Segments, outcome \in {"pass", "fail"} : SaveManualFinding(s, outcome)
           \/ \E r \in Records, s \in Segments : ChooseSegment(r, s)
           \/ \E f \in Files : ImportExcel(f)
  BY <1>4 DEF SaveManualFinding, ChooseSegment, ImportExcel
<1> QED BY <1>1, <1>2, <1>3, <1>4 DEF Next

\* A processed record leaves the batch, and the paging alone.
LEMMA RecordStep ==
  ASSUME TypeInv, NEW r \in Records, SyncRecord(r)
  PROVE  /\ tx.running /\ tx \in TxType /\ r \in tx.batch
         /\ tx'.batch = tx.batch \ {r} /\ tx'.more = tx.more /\ tx'.page = tx.page
BY TxRunning DEF SyncRecord, TypeInv, TxType

LEMMA PagesStep == TypeInv /\ PagesBounded /\ [Next]_vars => PagesBounded'
<1> SUFFICES ASSUME TypeInv, PagesBounded, [Next]_vars PROVE PagesBounded'
  OBVIOUS
<1>1. CASE tx' = tx
  BY <1>1 DEF PagesBounded
<1>2. CASE tx' # tx /\ tx.running
  <2>1. CASE SyncFetch
    BY <2>1, PageStep DEF PagesBounded
  <2>2. CASE \E r \in Records : SyncRecord(r)
    BY <2>2, RecordStep DEF PagesBounded
  <2>3. CASE tx' = NoTx
    BY <2>3 DEF PagesBounded, NoTx
  <2>4. Next
    BY <1>2 DEF vars
  <2> QED BY <1>2, <2>1, <2>2, <2>3, <2>4, RunMoves
<1>3. CASE tx' # tx /\ ~tx.running
  <2>1. SyncBegin
    <3>1. Next
      BY <1>3 DEF vars
    <3>2. ~(\E r \in Records, x \in Contents : Publish(r, x))
      BY <1>3 DEF Publish
    <3>3. ~(SyncFetch \/ (\E r \in Records : SyncRecord(r)) \/ SyncCommit \/ SyncAbort)
      BY <1>3 DEF SyncFetch, SyncRecord, SyncCommit, SyncAbort
    <3>4. ~(SyncVerify \/ SyncCrash \/ RunAutoChecks \/ ClosePage \/ Resolve \/ ResolveVerify \/ ResolveCrash)
      BY <1>3 DEF SyncVerify, SyncCrash, RunAutoChecks, ClosePage, Resolve, ResolveVerify, ResolveCrash
    <3>5. ~ \/ \E s \in Segments, outcome \in {"pass", "fail"} : SaveManualFinding(s, outcome)
            \/ \E r \in Records, s \in Segments : ChooseSegment(r, s)
            \/ \E f \in Files : ImportExcel(f)
      BY <1>3 DEF SaveManualFinding, ChooseSegment, ImportExcel
    <3> QED BY <3>1, <3>2, <3>3, <3>4, <3>5 DEF Next
  <2>2. tx'.page = 0
    BY <2>1 DEF SyncBegin
  <2>3. Cardinality(Records) \in Nat
    BY RecordsAssumption, FS_CardinalityType
  <2> QED BY <2>2, <2>3 DEF PagesBounded
<1> QED BY <1>1, <1>2, <1>3

\* Each step of a run that does not end it leaves it fewer: a record is taken
\* from its page once, and the client does not announce pages for ever.
THEOREM RunsEnd == Spec => RunShortens
<1>1. ASSUME TypeInv, PagesBounded, [Next]_vars, tx.running, tx'.running, tx' # tx
      PROVE  RunLeft(tx') < RunLeft(tx)
  <2> DEFINE n == Cardinality(Records)
  <2>1. n \in Nat /\ tx \in TxType /\ Next
    BY <1>1, RecordsAssumption, FS_CardinalityType, TxRunning DEF vars, TypeInv
  <2>2. CASE SyncFetch
    <3>1. /\ tx.more /\ tx.batch = {} /\ tx.page \in Nat /\ tx'.page = tx.page + 1
          /\ tx'.batch \subseteq Records /\ tx.page <= n
      BY <1>1, <2>2, PageStep DEF PagesBounded, TxType
    <3>2. Cardinality(tx'.batch) \in Nat /\ Cardinality(tx'.batch) <= n
      BY <3>1, RecordsAssumption, FS_Subset, FS_CardinalityType
    <3> DEFINE before == (n + 1 - tx.page) * (n + 1)
               after  == (n + 1 - tx'.page) * (n + 1)
    <3>3. before = after + (n + 1) /\ before \in Nat /\ after \in Nat
      <4>1. \A a, b \in Nat : (a + 1) * b = a * b + b /\ a * b \in Nat /\ a * b + b \in Nat
        OBVIOUS
      <4>2. n + 1 - tx.page = (n + 1 - tx'.page) + 1 /\ n + 1 - tx'.page \in Nat /\ n + 1 \in Nat
        BY <2>1, <3>1
      <4> HIDE DEF n
      <4> QED BY <4>1, <4>2
    <3>4. RunLeft(tx) = 0 + before
      BY <3>1, FS_EmptySet DEF RunLeft
    <3>5. RunLeft(tx') \in {Cardinality(tx'.batch) + after, Cardinality(tx'.batch) + 0}
      BY DEF RunLeft
    <3> HIDE DEF n, before, after
    <3> QED BY <2>1, <3>2, <3>3, <3>4, <3>5
  <2>3. ASSUME NEW r \in Records, SyncRecord(r) PROVE RunLeft(tx') < RunLeft(tx)
    <3>1. /\ r \in tx.batch /\ tx'.batch = tx.batch \ {r} /\ tx'.more = tx.more /\ tx'.page = tx.page
          /\ tx.batch \subseteq Records /\ tx.page \in Nat /\ tx.more \in BOOLEAN
      BY <1>1, <2>3, RecordStep DEF TxType
    <3>2. Cardinality(tx.batch \ {r}) = Cardinality(tx.batch) - 1 /\ Cardinality(tx.batch) \in Nat
      <4>1. IsFiniteSet(tx.batch)
        BY <3>1, RecordsAssumption, FS_Subset
      <4> QED BY <3>1, <4>1, FS_RemoveElement, FS_CardinalityType
    <3>3. (n + 1 - tx.page) * (n + 1) \in Int
      BY <2>1, <3>1
    <3> QED BY <3>1, <3>2, <3>3 DEF RunLeft
  <2> QED BY <1>1, <2>1, <2>2, <2>3, RunMoves DEF NoTx
<1>2. TypeInv /\ PagesBounded /\ [Next]_vars =>
        [tx.running /\ tx'.running /\ tx' # tx => RunLeft(tx') < RunLeft(tx)]_vars
  BY <1>1
<1>3. Init => PagesBounded
  BY DEF Init, NoTx, PagesBounded
<1> QED BY <1>2, <1>3, PagesStep, Invariants, PTL DEF RunShortens, Spec

-----------------------------------------------------------------------------
(* The refinement of SourceMirror.                                          *)

\* The refinement mapping, record by record.
LEMMA HeldAt ==
  ASSUME NEW r \in Records
  PROVE  Held[r] = HeldIn(coll, r) /\ Held'[r] = HeldIn(coll', r)
BY DEF Held, HeldIn

\* A transaction that leaves feed, cursor and the held rows alone is a stutter.
LEMMA Stutter ==
  ASSUME UNCHANGED <<feed, late, cursor>>,
         \A r \in Records : HeldIn(coll', r) = HeldIn(coll, r)
  PROVE  UNCHANGED <<InTime, Held, cursor.ts>>
<1>1. Held' = Held
  BY DEF Held, HeldIn
<1> QED BY <1>1 DEF InTime

\* A publication is a write of the abstract source.
LEMMA PublishWrites ==
  ASSUME TypeInv, MirrorInv, NEW r \in Records, NEW x \in Contents, Publish(r, x)
  PROVE  Mirror!Write(r)
<1>1. PICK t \in {clock, clock + 1} :
         /\ feed' = [feed EXCEPT ![r] = [addr |-> x.addr, vt |-> x.vt,
                                         deleted |-> x.deleted, ts |-> t]]
         /\ late' = IF t > sealed THEN late \ {r} ELSE late \cup {r}
  BY DEF Publish
<1>2. UNCHANGED <<coll, cursor>> /\ feed \in [Records -> Version \cup {None}]
      /\ t \in Nat /\ sealed \in Nat /\ cursor.ts \in Nat /\ cursor.ts <= sealed
  BY <1>1 DEF Publish, rows, TypeInv, TypeOK, MirrorInv, ClockInv
<1>3. InTime'[r] # None => InTime'[r].ts > cursor.ts
  <2>1. feed'[r].ts = t
    BY <1>1, <1>2
  <2> QED BY <1>1, <1>2, <2>1 DEF InTime
<1>4. \A q \in Records \ {r} : InTime'[q] = InTime[q]
  BY <1>1, <1>2 DEF InTime
<1>5. Held' = Held
  BY <1>2 DEF Held
<1> QED BY <1>2, <1>3, <1>4, <1>5 DEF Mirror!Write

\* A commit is the one pull of the abstract copy: rows and horizon together.
LEMMA CommitPulls ==
  ASSUME TypeInv, MirrorInv, SyncCommit PROVE Mirror!Pull
<1>1. /\ MirrorInv'
      /\ cursor'.ts >= cursor.ts
      /\ \A r \in Records : \/ HeldIn(coll', r) \in {HeldIn(coll, r), None}
                            \/ cursor.ts <= HeldIn(coll', r).ts /\ HeldIn(coll', r).ts <= cursor'.ts
  <2>1. cursor.ts \in Nat
    BY DEF TypeInv, TypeOK
  <2> QED BY <2>1, SyncCommitMirror
<1>2. UNCHANGED <<feed, late>>
  BY DEF SyncCommit, source
<1>3. \A r \in Records :
        InTime[r] # None /\ InTime[r].ts <= cursor'.ts => Held'[r] = Mirror!Says(InTime[r])
  <2> TAKE r \in Records
  <2> HAVE InTime[r] # None /\ InTime[r].ts <= cursor'.ts
  <2>1. r \notin late /\ InTime[r] = feed[r]
    BY DEF InTime
  <2>2. Mirrors(coll', r, feed[r])
    BY <1>1, <1>2, <2>1 DEF MirrorInv, CursorCoversSource
  <2>3. HeldIn(coll', r) = Mirror!Says(feed[r])
    BY <2>2 DEF Mirrors, HeldIn, Mirror!Says
  <2> QED BY <2>1, <2>3, HeldAt
<1>4. UNCHANGED InTime
  BY <1>2 DEF InTime
<1> QED BY <1>1, <1>3, <1>4, HeldAt DEF Mirror!Pull

LEMMA MirrorNext ==
  ASSUME TypeInv, FormKnown, MirrorInv, [Next]_vars
  PROVE  [Mirror!Next]_<<InTime, Held, cursor.ts>>
<1>1. CASE \E r \in Records, x \in Contents : Publish(r, x)
  BY <1>1, PublishWrites DEF Mirror!Next
<1>2. CASE SyncCommit
  BY <1>2, CommitPulls DEF Mirror!Next
<1>3. ASSUME UNCHANGED <<feed, late, coll, cursor>>
      PROVE  UNCHANGED <<InTime, Held, cursor.ts>>
  BY <1>3, Stutter, SameRowSameMirror
<1>4. CASE Resolve
  <2>1. \A r \in Records : HeldIn(coll', r) = HeldIn(coll, r)
    BY <1>4, ResolveHolds
  <2>2. UNCHANGED <<feed, late, cursor>>
    BY <1>4 DEF Resolve, source
  <2> QED BY <2>1, <2>2, Stutter
<1>5. CASE SyncBegin \/ SyncFetch \/ (\E r \in Records : SyncRecord(r)) \/ SyncAbort
  BY <1>3, <1>5 DEF SyncBegin, SyncFetch, SyncRecord, SyncAbort, source, rows
<1>6. CASE SyncVerify \/ SyncCrash \/ RunAutoChecks \/ ClosePage \/ ResolveVerify
           \/ ResolveCrash \/ UNCHANGED vars
  BY <1>3, <1>6 DEF SyncVerify, SyncCrash, RunAutoChecks, ClosePage, ResolveVerify,
     ResolveCrash, source, rows, vars
<1>7. CASE \/ \E s \in Segments, outcome \in {"pass", "fail"} : SaveManualFinding(s, outcome)
           \/ \E r \in Records, s \in Segments : ChooseSegment(r, s)
           \/ \E f \in Files : ImportExcel(f)
  BY <1>3, <1>7 DEF SaveManualFinding, ChooseSegment, ImportExcel, source, rows
<1> QED
  BY <1>1, <1>2, <1>4, <1>5, <1>6, <1>7 DEF Next

\* Collection implements SourceMirror: collected_records is a copy of the
\* source up to the cursor, and copy and cursor advance in one step.
THEOREM ImplementsMirror == Spec => ObeysMirror
<1>1. Init => Mirror!Init
  BY DEF Init, Mirror!Init, InTime, Held
<1>2. Init => MirrorInv
  BY InitMirror
<1>3. TypeInv /\ TicketInv => TypeInv /\ FormKnown
  BY DEF TicketInv
<1>4. TypeInv /\ FormKnown /\ MirrorInv /\ [Next]_vars => MirrorInv'
  BY MirrorStep
<1>5. TypeInv /\ FormKnown /\ MirrorInv /\ [Next]_vars => [Mirror!Next]_<<InTime, Held, cursor.ts>>
  BY MirrorNext
<1> QED
  BY <1>1, <1>2, <1>3, <1>4, <1>5, Invariants, PTL DEF Spec, ObeysMirror, Mirror!Spec
=============================================================================
