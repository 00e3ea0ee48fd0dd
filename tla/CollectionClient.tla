-------------------------- MODULE CollectionClient ---------------------------
(***************************************************************************)
(* FileCollectionClient: the feed of the collection app, sorted by (stamp, *)
(* id) and cut into pages.  A feed maps every record id to its newest      *)
(* version, or to None when the app has not published it.                 *)
(***************************************************************************)
EXTENDS SegmentStatus

CONSTANTS PageSize  \* PAGE_SIZE

Version == [addr : Segments \cup {None}, vt : Positions \cup {None}, deleted : BOOLEAN,
            ts : Nat]

ASSUME PageAssumption == PageSize \in Nat \ {0}
ASSUME VersionAssumption == None \notin Version

\* The records a page is cut from.  On page 1 only, ids up to lastId are
\* taken to be seen already at the boundary stamp.
Window(f, since, lastId) ==
    {r \in Records :
        /\ f[r] # None
        /\ f[r].ts >= since
        /\ f[r].ts = since /\ lastId # None => r > lastId}

Before(f, a, b) == f[a].ts < f[b].ts \/ (f[a].ts = f[b].ts /\ a < b)

\* Mutant: the offset of a page counts one record too many per page.
Page_OffByOne(f, since, lastId, page) ==
    LET W == Window(f, since, lastId)
        Rank(r) == Cardinality({q \in W : Before(f, q, r)})
    IN {r \in W : (page - 1) * (PageSize + 1) <= Rank(r) /\ Rank(r) < page * PageSize}

\* filtered[(page - 1) * page_size : page * page_size], as the set of its
\* records; Before orders it.
Page(f, since, lastId, page) ==
    LET W == Window(f, since, lastId)
        Rank(r) == Cardinality({q \in W : Before(f, q, r)})
    IN {r \in W : (page - 1) * PageSize <= Rank(r) /\ Rank(r) < page * PageSize}

\* Mutant: a last page of one record is not announced.
HasNext_MissesOne(f, since, lastId, page) ==
    page * PageSize + 1 < Cardinality(Window(f, since, lastId))

HasNext(f, since, lastId, page) == page * PageSize < Cardinality(Window(f, since, lastId))

\* The row of r says what version v of the source says.
Mirrors(c, r, v) ==
    IF v.deleted THEN c[r] = None \/ ~c[r].active
    ELSE c[r] # None /\ c[r].active /\ c[r].vt = v.vt /\ c[r].ts = v.ts
=============================================================================
