-------------------------- MODULE RouteImportProofs --------------------------
(***************************************************************************)
(* Proofs about RouteImport: the types for any number of users; the three  *)
(* properties of the register for one user at a time, for any files,       *)
(* provinces, prices and thresholds; and when an import can be repeated.   *)
(***************************************************************************)
EXTENDS RouteImport, TLAPS

\* Every price has a group.
LEMMA ClassifyType ==
    ASSUME NEW price \in Prices \cup {None}
    PROVE  Classify(price) \in Groups
  BY PricesAssumption DEF Classify, Groups

\* A row of a file is a price for a key.
LEMMA FileRows ==
    ASSUME NEW f \in Files
    PROVE  /\ DOMAIN f.rows \subseteq Keys
           /\ \A k \in DOMAIN f.rows : f.rows[k] \in Prices \cup {None}
  BY FilesAssumption DEF File

\* An upsert leaves a segment.
LEMMA UpsertType ==
    ASSUME NEW price \in Prices \cup {None}, NEW loaded \in Segment, NEW stored \in Segment
    PROVE  Updated(price, loaded, stored) \in Segment /\ Inserted(price) \in Segment
  <1>1. Classify(price) \in Groups
    BY ClassifyType
  <1>2. Inserted(price) \in Segment
    BY <1>1 DEF Inserted, Segment
  <1>3. /\ Column(TRUE, loaded.live, stored.live) \in BOOLEAN
        /\ Column(price, loaded.price, stored.price) \in Prices \cup {None}
        /\ (IF loaded.manual THEN stored.nhom
            ELSE Column(Classify(price), loaded.nhom, stored.nhom)) \in Groups
    BY <1>1 DEF Column, Segment
  <1> QED BY <1>2, <1>3 DEF Updated, Segment

\* An upsert over the row that was loaded, column by column.
LEMMA UpsertFresh ==
    ASSUME NEW price \in Prices \cup {None}, NEW loaded \in Segment
    PROVE  LET s == Updated(price, loaded, loaded)
           IN /\ s.live /\ s.price = price /\ s.manual = loaded.manual
              /\ s.nhom = IF loaded.manual THEN loaded.nhom ELSE Classify(price)
  BY DEF Updated, Column, Segment

\* What a typed state says of a running import.
LEMMA TaskType ==
    ASSUME TypeOK, NEW u \in Users, task[u].op = "write"
    PROVE  /\ task[u] \in WriteTask
           /\ task[u].file \in Files
           /\ task[u].seen \in [Keys -> Segment \cup {None}]
  BY DEF TypeOK, Idle, WriteTask

\* A committed import writes a row for each key of its file.
LEMMA WriteRow ==
    ASSUME TypeOK, NEW u \in Users, WriteFile(u), NEW k \in Keys
    PROVE  LET t == task[u] IN
           /\ k \in DOMAIN t.file.rows /\ t.seen[k] = None =>
                 seg[k] = None /\ seg'[k] = Inserted(t.file.rows[k])
           /\ k \in DOMAIN t.file.rows /\ t.seen[k] # None =>
                 seg'[k] = Updated(t.file.rows[k], t.seen[k], seg[k])
           /\ k \notin DOMAIN t.file.rows =>
                 seg'[k] = IF t.seen[k] # None /\ t.seen[k].live
                           THEN [seg[k] EXCEPT !.live = FALSE] ELSE seg[k]
  BY DEF WriteFile, Clash

-----------------------------------------------------------------------------
(***************************************************************************)
(* Types.  TypeOK is not inductive: an UPDATE is typed because the row it  *)
(* was prepared for is still there, and rows are never deleted.            *)
(***************************************************************************)
RowsStay ==
    \A u \in Users : task[u].op = "write" =>
        \A k \in Keys : task[u].seen[k] # None => seg[k] # None

TypeInv == TypeOK /\ RowsStay

\* The initial state is typed.
LEMMA InitTyped == Init => TypeInv
  <1> SUFFICES ASSUME Init PROVE TypeInv
    OBVIOUS
  <1>1. NoTable \in Tables /\ DOMAIN NoTable = {}
    BY DEF NoTable, Tables, Groups
  <1>2. TypeOK
    BY <1>1, LimitsAssumption DEF Init, TypeOK
  <1> QED BY <1>2 DEF Init, TypeInv, RowsStay, Idle

\* Every step keeps the types, and the rows that running imports have loaded.
LEMMA NextTyped == TypeInv /\ [Next]_vars => TypeInv'
  <1> SUFFICES ASSUME TypeInv, [Next]_vars PROVE TypeInv'
    OBVIOUS
  <1> USE DEF TypeInv, bounds, history
  <1>1. ASSUME NEW u \in Users, NEW f \in Files, LoadFile(u, f) PROVE TypeInv'
    <2> DEFINE t == [op |-> "write", file |-> f,
                     seen |-> [k \in Keys |-> IF ProvinceOf[k] = f.first THEN seg[k] ELSE None]]
    <2>1. t \in WriteTask
      BY DEF WriteTask, TypeOK
    <2>2. task' = [task EXCEPT ![u] = t] /\ seg' = seg
      BY <1>1 DEF LoadFile
    <2>3. TypeOK'
      BY <1>1, <2>1, <2>2 DEF LoadFile, TypeOK
    <2>4. RowsStay'
      <3>1. ASSUME NEW v \in Users, task'[v].op = "write", NEW k \in Keys,
                   task'[v].seen[k] # None
            PROVE  seg'[k] # None
        <4>1. CASE v = u
          BY <2>2, <3>1, <4>1 DEF TypeOK
        <4>2. CASE v # u
          BY <2>2, <3>1, <4>2 DEF TypeOK, RowsStay
        <4> QED BY <4>1, <4>2
      <3> QED BY <3>1 DEF RowsStay
    <2> QED BY <2>3, <2>4
  <1>2. ASSUME NEW u \in Users, WriteFile(u) PROVE TypeInv'
    <2>1. /\ task[u] \in WriteTask /\ task[u].file \in Files
          /\ task[u].seen \in [Keys -> Segment \cup {None}] /\ task[u].op = "write"
      BY <1>2, TaskType DEF WriteFile
    <2>2. ASSUME NEW k \in Keys
          PROVE  seg'[k] \in Segment \cup {None} /\ (seg[k] # None => seg'[k] # None)
      <3>1. seg[k] \in Segment \cup {None}
        BY DEF TypeOK
      <3>2. CASE k \in DOMAIN task[u].file.rows /\ task[u].seen[k] = None
        <4>1. seg'[k] = Inserted(task[u].file.rows[k])
          BY <1>2, <3>2, WriteRow
        <4>2. task[u].file.rows[k] \in Prices \cup {None}
          BY <2>1, <3>2, FileRows
        <4>3. Inserted(task[u].file.rows[k]) \in Segment
          BY <4>2, ClassifyType DEF Inserted, Segment
        <4> QED BY <4>1, <4>3, NoneAssumption
      <3>3. CASE k \in DOMAIN task[u].file.rows /\ task[u].seen[k] # None
        <4>1. task[u].seen[k] \in Segment /\ seg[k] \in Segment
          BY <2>1, <3>1, <3>3 DEF RowsStay
        <4>2. seg'[k] = Updated(task[u].file.rows[k], task[u].seen[k], seg[k])
          BY <1>2, <3>3, WriteRow
        <4> QED BY <2>1, <3>3, <4>1, <4>2, UpsertType, FileRows, NoneAssumption
      <3>4. CASE k \notin DOMAIN task[u].file.rows
        <4>1. seg'[k] = IF task[u].seen[k] # None /\ task[u].seen[k].live
                        THEN [seg[k] EXCEPT !.live = FALSE] ELSE seg[k]
          BY <1>2, <3>4, WriteRow
        <4>2. task[u].seen[k] # None => seg[k] \in Segment
          BY <2>1, <3>1 DEF RowsStay
        <4>3. seg[k] \in Segment => [seg[k] EXCEPT !.live = FALSE] \in Segment
          BY DEF Segment
        <4> QED BY <3>1, <4>1, <4>2, <4>3, NoneAssumption
      <3> QED BY <3>2, <3>3, <3>4
    <2>3. seg' \in [Keys -> Segment \cup {None}]
      BY <1>2, <2>2 DEF WriteFile
    <2>4. task' = [task EXCEPT ![u] = Idle] /\ page' = page
      BY <1>2 DEF WriteFile
    <2>5. \A v \in Users : \A k \in DOMAIN page'[v] : seg'[k] # None
      BY <2>2, <2>4 DEF TypeOK, Tables
    <2>6. listed' \in [Keys -> SUBSET (Prices \cup {None})]
      <3>1. ASSUME NEW k \in Keys
            PROVE  (IF k \in DOMAIN task[u].file.rows THEN {task[u].file.rows[k]}
                    ELSE IF ProvinceOf[k] = task[u].file.first THEN {} ELSE listed[k])
                   \in SUBSET (Prices \cup {None})
        BY <2>1, FileRows DEF TypeOK
      <3> QED BY <1>2, <3>1 DEF WriteFile
    <2>7. TypeOK'
      BY <1>2, <2>1, <2>3, <2>4, <2>5, <2>6 DEF WriteFile, TypeOK
    <2>8. RowsStay'
      BY <2>2, <2>4 DEF RowsStay, TypeOK, Idle
    <2> QED BY <2>7, <2>8
  <1>3. ASSUME NEW u \in Users, RefuseFile(u) PROVE TypeInv'
    <2>1. task[u].file \in Files
      BY <1>3, TaskType DEF RefuseFile
    <2> QED BY <1>3, <2>1 DEF RefuseFile, TypeOK, RowsStay, Idle
  <1>4. ASSUME NEW u \in Users, Interrupt(u) PROVE TypeInv'
    BY <1>4 DEF Interrupt, TypeOK, RowsStay, Idle
  <1>5. ASSUME NEW u \in Users, NEW p \in Provinces, NEW w \in Wards, LoadSegments(u, p, w)
        PROVE  TypeInv'
    <2> DEFINE shown == {k \in Keys : seg[k] # None /\ seg[k].live
                                       /\ ProvinceOf[k] = p /\ WardOf[k] = w}
               table == [k \in shown |-> seg[k].nhom]
    <2>1. table \in Tables
      <3>1. \A k \in shown : seg[k].nhom \in Groups
        BY DEF TypeOK, Segment
      <3>2. table \in [shown -> Groups] /\ shown \in SUBSET Keys
        BY <3>1
      <3> QED BY <3>2 DEF Tables
    <2>2. page' = [page EXCEPT ![u] = table] /\ seg' = seg /\ task' = task
      BY <1>5 DEF LoadSegments
    <2>3. \A v \in Users : \A k \in DOMAIN page'[v] : seg'[k] # None
      <3>1. ASSUME NEW v \in Users, NEW k \in DOMAIN page'[v] PROVE seg'[k] # None
        <4>1. CASE v = u
          BY <2>2, <3>1, <4>1 DEF TypeOK
        <4>2. CASE v # u
          BY <2>2, <3>1, <4>2 DEF TypeOK
        <4> QED BY <4>1, <4>2
      <3> QED BY <3>1
    <2>4. TypeOK'
      BY <1>5, <2>1, <2>2, <2>3 DEF LoadSegments, TypeOK
    <2> QED BY <2>2, <2>4 DEF RowsStay
  <1>6. ASSUME NEW u \in Users, NEW edited \in [DOMAIN page[u] -> Groups], SaveChanges(u, edited)
        PROVE  TypeInv'
    <2> DEFINE changed == {k \in DOMAIN edited : edited[k] # page[u][k]}
    <2>1. /\ DOMAIN page[u] \subseteq Keys /\ DOMAIN edited = DOMAIN page[u]
          /\ edited \in Tables /\ changed \subseteq Keys
      BY DEF TypeOK, Tables
    <2>2. ASSUME NEW k \in Keys
          PROVE  seg'[k] \in Segment \cup {None} /\ (seg[k] # None => seg'[k] # None)
      <3>1. seg'[k] = IF k \in changed
                      THEN [seg[k] EXCEPT !.nhom = edited[k], !.manual = TRUE] ELSE seg[k]
        BY <1>6 DEF SaveChanges
      <3>2. k \in changed => seg[k] \in Segment /\ edited[k] \in Groups
        BY <2>1 DEF TypeOK
      <3>3. k \in changed => seg'[k] \in Segment
        BY <3>1, <3>2 DEF Segment
      <3> QED BY <3>1, <3>3, NoneAssumption DEF TypeOK
    <2>3. seg' \in [Keys -> Segment \cup {None}]
      BY <1>6, <2>2 DEF SaveChanges
    <2>4. page' = [page EXCEPT ![u] = edited] /\ task' = task
      BY <1>6 DEF SaveChanges
    <2>5. \A v \in Users : \A k \in DOMAIN page'[v] : seg'[k] # None
      <3>1. ASSUME NEW v \in Users PROVE DOMAIN page'[v] = DOMAIN page[v]
        <4>1. page \in [Users -> Tables]
          BY DEF TypeOK
        <4>2. page'[v] = IF v = u THEN edited ELSE page[v]
          BY <2>4, <4>1
        <4> QED BY <2>1, <4>2
      <3> QED BY <2>2, <3>1 DEF TypeOK, Tables
    <2>6. decided' \in [Keys -> Groups \cup {None}]
      <3>1. ASSUME NEW k \in Keys
            PROVE  (IF k \in changed THEN edited[k] ELSE decided[k]) \in Groups \cup {None}
        BY <2>1 DEF TypeOK
      <3> QED BY <1>6, <3>1 DEF SaveChanges
    <2>7. TypeOK'
      <3>1. page' \in [Users -> Tables]
        BY <2>1, <2>4 DEF TypeOK
      <3>2. saves' \in Nat
        <4>1. saves' = saves + 1
          BY <1>6 DEF SaveChanges
        <4> QED BY <4>1 DEF TypeOK
      <3>3. UNCHANGED <<listed, imported, refused, imports, faults>>
        BY <1>6 DEF SaveChanges
      <3> HIDE DEF changed
      <3> QED BY <2>3, <2>4, <2>5, <2>6, <3>1, <3>2, <3>3 DEF TypeOK
    <2>8. RowsStay'
      BY <2>2, <2>4 DEF RowsStay
    <2> QED BY <2>7, <2>8
  <1>7. CASE UNCHANGED vars
    BY <1>7 DEF vars, TypeOK, RowsStay
  <1> QED
    BY <1>1, <1>2, <1>3, <1>4, <1>5, <1>6, <1>7 DEF Next

\* Type correctness of the register, whatever users do at once.
THEOREM TypeCorrect == Spec => []TypeOK
  <1>1. TypeInv => TypeOK
    BY DEF TypeInv
  <1> QED BY <1>1, InitTyped, NextTyped, PTL DEF Spec

-----------------------------------------------------------------------------
(***************************************************************************)
(* One user.  What an import has loaded is then what the register still    *)
(* holds when it writes (Fresh), because the page is not saved meanwhile.  *)
(* With that the three properties, together, are inductive.                *)
(***************************************************************************)
OneUser == \A u, v \in Users : u = v

Fresh ==
    \A u \in Users : task[u].op = "write" =>
        \A k \in Keys :
            task[u].seen[k] = IF ProvinceOf[k] = task[u].file.first THEN seg[k] ELSE None

RegisterInv == Fresh /\ HandSetKept /\ GroupFollowsPrice /\ RegisterIsMaster

\* The three properties are about one key: what they say of key k.
KeyRight(k) ==
    /\ decided[k] # None => seg[k] # None /\ seg[k].nhom = decided[k] /\ seg[k].manual
    /\ seg[k] # None /\ decided[k] = None => seg[k].nhom = Classify(seg[k].price) /\ ~seg[k].manual
    /\ IF listed[k] = {} THEN seg[k] = None \/ ~seg[k].live
       ELSE seg[k] # None /\ seg[k].live /\ listed[k] = {seg[k].price}

\* The three properties together are KeyRight of every key.
LEMMA KeyByKey == RegisterInv <=> Fresh /\ \A k \in Keys : KeyRight(k)
  BY DEF RegisterInv, HandSetKept, GroupFollowsPrice, RegisterIsMaster, KeyRight

\* The initial state satisfies the invariant.
LEMMA InitRegister == Init => RegisterInv
  BY KeyByKey DEF Init, Fresh, KeyRight, Idle

\* A step that leaves the register, and what the imports hold, leaves it so.
LEMMA SameRegister ==
    ASSUME RegisterInv, UNCHANGED <<seg, decided, listed>>, Fresh'
    PROVE  RegisterInv'
  BY DEF RegisterInv, HandSetKept, GroupFollowsPrice, RegisterIsMaster

\* Every step of the one user keeps the invariant.
LEMMA NextRegister ==
    ASSUME OneUser, TypeInv, RegisterInv, [Next]_vars
    PROVE  RegisterInv'
  <1> USE DEF bounds, history
  <1>0. TypeOK /\ Fresh /\ \A k \in Keys : KeyRight(k)
    BY KeyByKey DEF TypeInv
  <1>1. ASSUME NEW u \in Users, NEW v \in Users PROVE u = v
    BY DEF OneUser
  <1>2. ASSUME NEW u \in Users, NEW f \in Files, LoadFile(u, f) PROVE RegisterInv'
    <2>1. /\ task'[u].file = f
          /\ task'[u].seen = [k \in Keys |-> IF ProvinceOf[k] = f.first THEN seg[k] ELSE None]
          /\ seg' = seg
      BY <1>2, <1>0 DEF LoadFile, TypeOK
    <2>2. Fresh'
      BY <2>1, <1>1 DEF Fresh
    <2> QED BY <1>2, <2>2, SameRegister DEF LoadFile
  <1>3. ASSUME NEW u \in Users, WriteFile(u) PROVE RegisterInv'
    <2>1. /\ task[u] \in WriteTask /\ task[u].file \in Files /\ task[u].op = "write"
          /\ task[u].seen \in [Keys -> Segment \cup {None}]
      BY <1>0, <1>3, TaskType DEF WriteFile
    <2>2. Fresh'
      <3>1. task'[u] = Idle
        BY <1>0, <1>3 DEF WriteFile, TypeOK
      <3> QED BY <3>1, <1>1 DEF Fresh, Idle
    <2>3. ASSUME NEW k \in Keys PROVE KeyRight(k)'
      <3> DEFINE rows == task[u].file.rows
      <3>1. /\ KeyRight(k) /\ seg[k] \in Segment \cup {None} /\ decided' = decided
            /\ task[u].seen[k] = IF ProvinceOf[k] = task[u].file.first THEN seg[k] ELSE None
        BY <1>0, <1>3, <2>1 DEF WriteFile, TypeOK, Fresh
      <3>2. listed'[k] = IF k \in DOMAIN rows THEN {rows[k]}
                         ELSE IF ProvinceOf[k] = task[u].file.first THEN {} ELSE listed[k]
        BY <1>3 DEF WriteFile
      <3>3. CASE k \in DOMAIN rows /\ task[u].seen[k] = None
        <4>1. seg[k] = None /\ seg'[k] = Inserted(rows[k])
          BY <1>0, <1>3, <3>3, WriteRow
        <4>2. rows[k] \in Prices \cup {None}
          BY <2>1, <3>3, FileRows
        <4>3. Inserted(rows[k]) \in Segment
          BY <4>2, ClassifyType DEF Inserted, Segment
        <4>4. /\ seg'[k] # None /\ seg'[k].live /\ seg'[k].price = rows[k]
              /\ seg'[k].nhom = Classify(rows[k]) /\ ~seg'[k].manual
          <5>1. seg'[k] # None
            BY <4>1, <4>3, NoneAssumption
          <5> DEFINE new == Inserted(rows[k])
          <5>2. /\ new.live = TRUE /\ new.price = rows[k]
                /\ new.nhom = Classify(rows[k]) /\ new.manual = FALSE
            BY DEF Inserted
          <5> HIDE DEF new
          <5> QED BY <4>1, <5>1, <5>2 DEF new
        <4>5. decided'[k] = None /\ listed'[k] = {rows[k]}
          BY <3>1, <3>2, <3>3, <4>1 DEF KeyRight
        <4> QED BY <4>4, <4>5 DEF KeyRight, Classify
      <3>4. CASE k \in DOMAIN rows /\ task[u].seen[k] # None
        <4>1. seg[k] \in Segment /\ seg'[k] = Updated(rows[k], seg[k], seg[k])
          BY <1>0, <1>3, <3>1, <3>4, WriteRow
        <4>2. rows[k] \in Prices \cup {None}
          BY <2>1, <3>4, FileRows
        <4>3. /\ seg'[k].live /\ seg'[k].price = rows[k] /\ seg'[k].manual = seg[k].manual
              /\ seg'[k].nhom = IF seg[k].manual THEN seg[k].nhom ELSE Classify(rows[k])
          BY <4>1, <4>2, UpsertFresh
        <4>4. seg'[k] # None /\ seg[k] # None
          BY <4>1, <4>2, UpsertType, NoneAssumption
        <4> QED BY <3>1, <3>2, <3>4, <4>3, <4>4 DEF KeyRight, Classify
      <3>5. CASE k \notin DOMAIN rows
        <4>1. seg'[k] = IF task[u].seen[k] # None /\ task[u].seen[k].live
                        THEN [seg[k] EXCEPT !.live = FALSE] ELSE seg[k]
          BY <1>0, <1>3, <3>5, WriteRow
        <4>2. CASE task[u].seen[k] # None /\ task[u].seen[k].live
          <5>1. /\ seg[k] \in Segment /\ ProvinceOf[k] = task[u].file.first
                /\ seg'[k] = [seg[k] EXCEPT !.live = FALSE]
            BY <3>1, <4>1, <4>2
          <5>2. /\ seg'[k].nhom = seg[k].nhom /\ seg'[k].manual = seg[k].manual
                /\ seg'[k].price = seg[k].price /\ ~seg'[k].live /\ seg'[k] \in Segment
            BY <5>1 DEF Segment
          <5> QED BY <3>1, <3>2, <3>5, <5>1, <5>2, NoneAssumption DEF KeyRight, Classify
        <4>3. CASE ~(task[u].seen[k] # None /\ task[u].seen[k].live)
          BY <3>1, <3>2, <3>5, <4>1, <4>3 DEF KeyRight, Classify
        <4> QED BY <4>2, <4>3
      <3> QED BY <3>3, <3>4, <3>5
    <2> QED
      BY <2>2, <2>3 DEF RegisterInv, KeyRight, HandSetKept, GroupFollowsPrice, RegisterIsMaster
  <1>4. ASSUME NEW u \in Users, RefuseFile(u) PROVE RegisterInv'
    <2>1. task'[u] = Idle
      BY <1>0, <1>4 DEF RefuseFile, TypeOK
    <2>2. Fresh'
      BY <2>1, <1>1 DEF Fresh, Idle
    <2> QED BY <1>4, <2>2, SameRegister DEF RefuseFile
  <1>5. ASSUME NEW u \in Users, Interrupt(u) PROVE RegisterInv'
    <2>1. task'[u] = Idle
      BY <1>0, <1>5 DEF Interrupt, TypeOK
    <2>2. Fresh'
      BY <2>1, <1>1 DEF Fresh, Idle
    <2> QED BY <1>5, <2>2, SameRegister DEF Interrupt
  <1>6. ASSUME NEW u \in Users, NEW p \in Provinces, NEW w \in Wards, LoadSegments(u, p, w)
        PROVE  RegisterInv'
    <2>1. Fresh'
      BY <1>0, <1>6 DEF LoadSegments, Fresh
    <2> QED BY <1>6, <2>1, SameRegister DEF LoadSegments
  <1>7. ASSUME NEW u \in Users, NEW edited \in [DOMAIN page[u] -> Groups], SaveChanges(u, edited)
        PROVE  RegisterInv'
    <2> DEFINE changed == {k \in DOMAIN edited : edited[k] # page[u][k]}
    <2>1. Fresh'
      <3>1. task' = task /\ task[u].op = "idle"
        <4>1. task' = task
          BY <1>7 DEF SaveChanges
        <4>2. task[u] = Idle
          BY <1>7 DEF SaveChanges
        <4> QED BY <4>1, <4>2 DEF Idle
      <3> QED BY <3>1, <1>1 DEF Fresh
    <2>2. ASSUME NEW k \in Keys PROVE KeyRight(k)'
      <3>1. /\ seg'[k] = IF k \in changed
                         THEN [seg[k] EXCEPT !.nhom = edited[k], !.manual = TRUE] ELSE seg[k]
            /\ decided'[k] = IF k \in changed THEN edited[k] ELSE decided[k]
            /\ listed' = listed
        BY <1>7 DEF SaveChanges
      <3>2. CASE k \in changed
        <4>1. seg[k] \in Segment /\ edited[k] \in Groups
          BY <1>0, <3>2 DEF TypeOK
        <4>2. /\ seg'[k].nhom = edited[k] /\ seg'[k].manual /\ seg'[k].live = seg[k].live
              /\ seg'[k].price = seg[k].price /\ seg'[k] \in Segment
          BY <3>1, <3>2, <4>1 DEF Segment
        <4>3. decided'[k] = edited[k] /\ edited[k] # None /\ seg[k] # None /\ seg'[k] # None
          BY <3>1, <3>2, <4>1, <4>2, PricesAssumption, NoneAssumption
        <4> QED BY <1>0, <3>1, <4>2, <4>3 DEF KeyRight
      <3>3. CASE k \notin changed
        BY <1>0, <3>1, <3>3 DEF KeyRight, Classify
      <3> QED BY <3>2, <3>3
    <2> QED
      BY <2>1, <2>2 DEF RegisterInv, KeyRight, HandSetKept, GroupFollowsPrice, RegisterIsMaster
  <1>8. CASE UNCHANGED vars
    <2>1. Fresh'
      BY <1>0, <1>8 DEF vars, Fresh
    <2> QED BY <1>8, <2>1, SameRegister DEF vars
  <1> QED
    BY <1>2, <1>3, <1>4, <1>5, <1>6, <1>7, <1>8 DEF Next

LEMMA RegisterInvariant == ASSUME OneUser PROVE Spec => [](TypeInv /\ RegisterInv)
  <1>1. TypeInv /\ RegisterInv /\ [Next]_vars => RegisterInv'
    BY NextRegister
  <1> QED
    BY <1>1, InitRegister, InitTyped, NextTyped, PTL DEF Spec

\* With one user at a time a group HO set by hand is kept, whatever prices the
\* imports bring and however old the saved tables are.
THEOREM HandSetStays == ASSUME OneUser PROVE Spec => []HandSetKept
  <1>1. RegisterInv => HandSetKept
    BY DEF RegisterInv
  <1> QED BY <1>1, RegisterInvariant, PTL

\* With one user at a time an active segment nobody set by hand is in the
\* group its price puts it in, whatever files, saves and interruptions came.
THEOREM GroupIsRight == ASSUME OneUser PROVE Spec => []GroupFollowsPrice
  <1>1. RegisterInv => GroupFollowsPrice
    BY DEF RegisterInv
  <1> QED BY <1>1, RegisterInvariant, PTL

\* With one user at a time the active segments are those the last files list.
THEOREM RegisterHolds == ASSUME OneUser PROVE Spec => []RegisterIsMaster
  <1>1. RegisterInv => RegisterIsMaster
    BY DEF RegisterInv
  <1> QED BY <1>1, RegisterInvariant, PTL

-----------------------------------------------------------------------------
(***************************************************************************)
(* What makes an import safe to repeat: that its file lists one province.  *)
(* The loaded map then covers every row of the file, and as it is Fresh no *)
(* row is inserted that is there already: nothing is ever refused.         *)
(***************************************************************************)
OneProvinceEach == \A f \in Files : \A k \in DOMAIN f.rows : ProvinceOf[k] = f.first

NothingRefused == refused = {}

\* The rows of a running import are all in the map, so none clashes.
LEMMA NoClash ==
    ASSUME OneProvinceEach, TypeOK, Fresh, NEW u \in Users, task[u].op = "write"
    PROVE  ~Clash(task[u])
  <1>1. task[u].file \in Files
    BY TaskType
  <1>2. ASSUME NEW k \in DOMAIN task[u].file.rows PROVE task[u].seen[k] = seg[k]
    <2>1. k \in Keys /\ ProvinceOf[k] = task[u].file.first
      BY <1>1, FileRows DEF OneProvinceEach
    <2> QED BY <2>1 DEF Fresh
  <1> QED BY <1>2 DEF Clash

\* No step refuses a file.
LEMMA NextUnrefused ==
    ASSUME OneProvinceEach, TypeOK, Fresh, NothingRefused, [Next]_vars
    PROVE  NothingRefused'
  <1>1. ASSUME NEW u \in Users, RefuseFile(u) PROVE FALSE
    BY <1>1, NoClash DEF RefuseFile
  <1> QED
    BY <1>1 DEF NothingRefused, Next, LoadFile, WriteFile, Interrupt, LoadSegments, SaveChanges,
                history, bounds, vars

\* With one user at a time, and files that list one province each, a file that
\* was imported can be imported again at any time: import_excel is idempotent
\* as its comment says, and the rows of a second province are all that breaks it.
THEOREM RepeatIsSafe == ASSUME OneUser, OneProvinceEach PROVE Spec => []SafeToRepeat
  <1>1. TypeInv /\ RegisterInv => TypeOK /\ Fresh
    BY DEF TypeInv, RegisterInv
  <1>2. Init => NothingRefused
    BY DEF Init, NothingRefused
  <1>3. TypeInv /\ RegisterInv /\ [Next]_vars => RegisterInv'
    BY NextRegister
  <1>4. TypeOK /\ Fresh /\ NothingRefused /\ [Next]_vars => NothingRefused'
    BY NextUnrefused
  <1>5. NothingRefused => SafeToRepeat
    BY DEF NothingRefused, SafeToRepeat
  <1> QED
    BY <1>1, <1>2, <1>3, <1>4, <1>5, InitRegister, InitTyped, NextTyped, PTL DEF Spec
=============================================================================
