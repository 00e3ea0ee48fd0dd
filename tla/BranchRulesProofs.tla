-------------------------- MODULE BranchRulesProofs --------------------------
(***************************************************************************)
(* Proofs about BranchRules.  The type invariant and the effect of the     *)
(* full recompute hold for any number of users.  That the copies of the    *)
(* rules in branch_id agree with them is proved for one user at a time;    *)
(* WardPriority shows how it fails with two.                               *)
(***************************************************************************)
EXTENDS BranchRules, TLAPS

-----------------------------------------------------------------------------
\* The branch the rules give is one of theirs, or None.
LEMMA BranchForType ==
    ASSUME NEW m \in Rules, NEW s \in Segments
    PROVE  BranchFor(m, s) \in Branches \cup {None}
  BY PlacesAssumption DEF BranchFor, Rules, Keys

\* What the recompute computes: the rules' branch for the active segments.
LEMMA Recompute ==
    ASSUME TypeOK
    PROVE  ByWard(ByProvince(Cleared))
             = [s \in Segments |-> IF s \in live THEN BranchFor(rule, s) ELSE branch[s]]
  <1> DEFINE before(s) == IF s \in live THEN None ELSE branch[s]
             middle(s) == IF s \in live /\ rule[ProvinceOf[s]] # None
                          THEN rule[ProvinceOf[s]] ELSE before(s)
  <1>1. Cleared = [s \in Segments |-> before(s)]
    BY DEF Cleared
  <1>2. ByProvince(Cleared) = [s \in Segments |-> middle(s)]
    BY <1>1 DEF ByProvince
  <1>3. ASSUME NEW s \in Segments
        PROVE  (IF s \in live /\ rule[WardOf[s]] # None THEN rule[WardOf[s]] ELSE middle(s))
               = IF s \in live THEN BranchFor(rule, s) ELSE branch[s]
    BY DEF BranchFor
  <1> QED
    BY <1>2, <1>3 DEF ByWard

\* The initial state is typed.
LEMMA InitTyped == Init => TypeOK
  BY LimitsAssumption DEF Init, TypeOK, Rules, Mapping

\* Every step keeps the types.
LEMMA NextTyped == TypeOK /\ [Next]_vars => TypeOK'
  <1> SUFFICES ASSUME TypeOK, [Next]_vars PROVE TypeOK'
    OBVIOUS
  <1> USE DEF TypeOK, bounds
  <1>1. ASSUME NEW u \in Users, NEW k \in Keys, NEW b \in Branches, SaveMapping(u, k, b)
        PROVE  TypeOK'
    <2>1. [op |-> "apply", key |-> k, branch |-> b] \in ApplyTask
      BY DEF ApplyTask
    <2> QED BY <1>1, <2>1 DEF SaveMapping, Rules
  <1>2. ASSUME NEW u \in Users, ApplyWard(u) PROVE TypeOK'
    <2>1. task[u] \in ApplyTask
      BY <1>2 DEF ApplyWard, Idle, ApplyTask, UpdateTask, WriteTask
    <2>2. branch' \in Mapping
      BY <1>2, <2>1 DEF ApplyWard, ApplyTask, Mapping
    <2> QED BY <1>2, <2>2 DEF ApplyWard
  <1>3. ASSUME NEW u \in Users, ReadCovered(u) PROVE TypeOK'
    <2>1. task[u] \in ApplyTask
      BY <1>3 DEF ReadCovered, Idle, ApplyTask, UpdateTask, WriteTask
    <2>2. Covered(rule) \in SUBSET Wards
      BY DEF Covered
    <2>3. [op |-> "update", key |-> task[u].key, branch |-> task[u].branch,
           covered |-> Covered(rule)] \in UpdateTask
      BY <1>3, <2>1, <2>2 DEF ReadCovered, ApplyTask, UpdateTask
    <2> QED BY <1>3, <2>3 DEF ReadCovered
  <1>4. ASSUME NEW u \in Users, ApplyProvince(u) PROVE TypeOK'
    <2>1. task[u] \in UpdateTask
      BY <1>4 DEF ApplyProvince, Idle, ApplyTask, UpdateTask, WriteTask
    <2>2. branch' \in Mapping
      BY <1>4, <2>1 DEF ApplyProvince, UpdateTask, Mapping
    <2> QED BY <1>4, <2>2 DEF ApplyProvince
  <1>5. ASSUME NEW u \in Users, NEW p \in Provinces, NEW file \in SUBSET Segments,
               LoadMaps(u, p, file)
        PROVE  TypeOK'
    <2>1. [op |-> "write", province |-> p, file |-> file,
           rules |-> rule, live |-> live, branch |-> branch] \in WriteTask
      BY DEF WriteTask
    <2> QED BY <1>5, <2>1 DEF LoadMaps
  <1>6. ASSUME NEW u \in Users, WriteFile(u) PROVE TypeOK'
    <2>1. task[u] \in WriteTask
      BY <1>6 DEF WriteFile, Idle, ApplyTask, UpdateTask, WriteTask
    <2>2. task[u].file \subseteq Segments /\ task[u].rules \in Rules
      BY <2>1 DEF WriteTask
    <2>3. live' \subseteq Segments
      BY <1>6, <2>2 DEF WriteFile
    <2>4. branch' \in Mapping
      BY <1>6, <2>2, BranchForType DEF WriteFile, Mapping
    <2> QED BY <1>6, <2>3, <2>4 DEF WriteFile
  <1>7. ASSUME NEW u \in Users, Interrupt(u) PROVE TypeOK'
    <2>1. task[u].op \in {"apply", "update"} => task[u].key \in Keys
      BY DEF Idle, ApplyTask, UpdateTask, WriteTask, Keys
    <2> QED BY <1>7, <2>1 DEF Interrupt
  <1>8. CASE ReapplyAll
    <2>1. branch' \in Mapping
      BY <1>8, Recompute, BranchForType DEF ReapplyAll, Mapping
    <2> QED BY <1>8, <2>1 DEF ReapplyAll
  <1>9. CASE UNCHANGED vars
    BY <1>9 DEF vars
  <1> QED
    BY <1>1, <1>2, <1>3, <1>4, <1>5, <1>6, <1>7, <1>8, <1>9 DEF Next

\* Type correctness of the branch rules, whatever users do at once.
THEOREM TypeCorrect == Spec => []TypeOK
  BY InitTyped, NextTyped, PTL DEF Spec

\* After reapply_all_branch_mappings every active segment follows the rules,
\* whatever state the database was in.
THEOREM RecomputeIsFull == Spec => RecomputeRepairs
  <1>1. TypeOK /\ [Next]_vars => [ReapplyAll => \A s \in live : branch'[s] = BranchFor(rule, s)]_vars
    <2> SUFFICES ASSUME TypeOK, ReapplyAll, NEW s \in live
                 PROVE  branch'[s] = BranchFor(rule, s)
      OBVIOUS
    <2>1. s \in Segments
      BY DEF TypeOK
    <2> QED BY <2>1, Recompute DEF ReapplyAll
  <1> QED
    BY <1>1, TypeCorrect, PTL DEF Spec, RecomputeRepairs

-----------------------------------------------------------------------------
(***************************************************************************)
(* One user.  RulesApplied speaks of quiet states only, so the invariant   *)
(* also says what is true in the middle of an operation: the rule being    *)
(* applied is the one in the table, the wards read are still the ones with *)
(* a rule, and an import's snapshot of the rules is current.  Its snapshot *)
(* of branch_id need not be: a full recompute may have replaced it, by     *)
(* what the rules say.                                                     *)
(***************************************************************************)
OneUser == \A u, v \in Users : u = v

Applying(u) == task[u].op \in {"apply", "update"}

Outstanding == behind \cup {task[u].key : u \in {v \in Users : Applying(v)}}

Follows == \A s \in live : Awaits(s, Outstanding) \/ branch[s] = BranchFor(rule, s)

TaskCurrent ==
    \A u \in Users :
        /\ Applying(u) => rule[task[u].key] = task[u].branch
        /\ task[u].op = "update" => task[u].covered = Covered(rule)
        /\ task[u].op = "write" =>
              /\ task[u].rules = rule
              /\ \A s \in Segments : branch[s] \in {task[u].branch[s], BranchFor(rule, s)}

RuleInv == Follows /\ TaskCurrent

\* A task is of one of the four kinds, told apart by op.
LEMMA TaskKinds ==
    ASSUME TypeOK, NEW u \in Users
    PROVE  /\ task[u].op = "idle" => task[u] = Idle
           /\ task[u].op = "apply" => task[u] \in ApplyTask
           /\ task[u].op = "update" => task[u] \in UpdateTask
           /\ task[u].op = "write" => task[u] \in WriteTask
  BY DEF TypeOK, Idle, ApplyTask, UpdateTask, WriteTask

\* With one user, what is outstanding when that user is idle, or applying.
LEMMA OutstandingOfOne ==
    ASSUME OneUser, NEW u \in Users
    PROVE  Outstanding = behind \cup (IF Applying(u) THEN {task[u].key} ELSE {})
  BY DEF OneUser, Outstanding

\* The initial state satisfies the invariant.
LEMMA InitCurrent == Init => RuleInv
  <1> SUFFICES ASSUME Init PROVE RuleInv
    OBVIOUS
  <1>1. ASSUME NEW s \in live PROVE branch[s] = BranchFor(rule, s)
    <2>1. s \in Segments /\ WardOf[s] \in Keys /\ ProvinceOf[s] \in Keys
      BY PlacesAssumption DEF Init, Keys
    <2> QED BY <2>1 DEF Init, BranchFor
  <1>2. TaskCurrent
    BY DEF Init, TaskCurrent, Applying, Idle
  <1> QED
    BY <1>1, <1>2 DEF RuleInv, Follows

\* Every step of the one user keeps it.
LEMMA NextCurrent ==
    ASSUME OneUser, TypeOK, RuleInv, [Next]_vars
    PROVE  RuleInv'
  <1> USE DEF RuleInv, bounds
  <1>0. ASSUME NEW u \in Users, NEW v \in Users PROVE u = v
    BY DEF OneUser
  <1>1. ASSUME NEW u \in Users, NEW k \in Keys, NEW b \in Branches, SaveMapping(u, k, b)
        PROVE  RuleInv'
    <2>1. task'[u].op = "apply" /\ task'[u].key = k /\ task'[u].branch = b /\ rule'[k] = b
      BY <1>1 DEF SaveMapping, TypeOK, Rules
    <2>2. Outstanding = behind /\ Outstanding' = behind \cup {k}
      BY <1>1, <2>1, <1>0 DEF SaveMapping, Outstanding, Applying, Idle
    <2>3. TaskCurrent'
      BY <2>1, <1>0 DEF TaskCurrent, Applying
    <2>4. ASSUME NEW s \in live PROVE (Awaits(s, Outstanding) \/ branch[s] = BranchFor(rule, s))'
      <3>1. WardOf[s] \in Keys /\ ProvinceOf[s] \in Keys /\ WardOf[s] # ProvinceOf[s]
        BY PlacesAssumption DEF TypeOK, Keys
      <3>2. Awaits(s, behind) \/ branch[s] = BranchFor(rule, s)
        BY <2>2 DEF Follows
      <3>3. CASE WardOf[s] = k
        BY <3>3, <2>2 DEF Awaits
      <3>4. CASE WardOf[s] # k
        <4>1. rule'[WardOf[s]] = rule[WardOf[s]]
          BY <1>1, <3>1, <3>4 DEF SaveMapping, TypeOK, Rules
        <4>2. ProvinceOf[s] # k => rule'[ProvinceOf[s]] = rule[ProvinceOf[s]]
          BY <1>1, <3>1 DEF SaveMapping, TypeOK, Rules
        <4>3. branch' = branch
          BY <1>1 DEF SaveMapping
        <4> QED BY <4>1, <4>2, <4>3, <3>2, <2>2 DEF Awaits, BranchFor
      <3> QED BY <3>3, <3>4
    <2>5. live' = live
      BY <1>1 DEF SaveMapping
    <2> QED BY <2>3, <2>4, <2>5 DEF Follows
  <1>2. ASSUME NEW u \in Users, ApplyWard(u) PROVE RuleInv'
    <2>1. task[u] \in ApplyTask /\ task'[u] = Idle
      BY <1>2, TaskKinds DEF ApplyWard, TypeOK
    <2>2. Outstanding = behind \cup {task[u].key} /\ Outstanding' = behind \ {task[u].key}
      BY <1>2, <2>1, <1>0 DEF ApplyWard, Outstanding, Applying, Idle
    <2>3. TaskCurrent'
      BY <2>1, <1>0 DEF TaskCurrent, Applying, Idle
    <2>4. rule[task[u].key] = task[u].branch /\ task[u].branch # None
      BY <1>2, <2>1, PlacesAssumption DEF TaskCurrent, Applying, ApplyWard, ApplyTask
    <2>5. ASSUME NEW s \in live PROVE (Awaits(s, Outstanding) \/ branch[s] = BranchFor(rule, s))'
      <3>1. /\ s \in Segments /\ WardOf[s] \in Wards /\ ProvinceOf[s] \in Provinces
            /\ ProvinceOf[s] # task[u].key
        BY <1>2, PlacesAssumption DEF TypeOK, ApplyWard
      <3>2. rule' = rule /\ behind' = behind \ {task[u].key}
        BY <1>2 DEF ApplyWard
      <3>3. CASE WardOf[s] = task[u].key
        <4>1. branch'[s] = task[u].branch
          BY <1>2, <3>1, <3>3 DEF ApplyWard
        <4> QED BY <4>1, <3>2, <3>3, <2>4 DEF BranchFor
      <3>4. CASE WardOf[s] # task[u].key
        <4>1. branch'[s] = branch[s]
          BY <1>2, <3>1, <3>4 DEF ApplyWard
        <4>2. Awaits(s, Outstanding) \/ branch[s] = BranchFor(rule, s)
          BY DEF Follows
        <4> QED BY <4>1, <4>2, <3>1, <3>2, <3>4, <2>2 DEF Awaits, BranchFor
      <3> QED BY <3>3, <3>4
    <2>6. live' = live
      BY <1>2 DEF ApplyWard
    <2> QED BY <2>3, <2>5, <2>6 DEF Follows
  <1>3. ASSUME NEW u \in Users, ReadCovered(u) PROVE RuleInv'
    <2>1. task[u] \in ApplyTask
      BY <1>3, TaskKinds DEF ReadCovered
    <2>2. /\ task'[u].op = "update" /\ task'[u].key = task[u].key
          /\ task'[u].branch = task[u].branch /\ task'[u].covered = Covered(rule)
      BY <1>3 DEF ReadCovered, TypeOK
    <2>3. Outstanding' = Outstanding
      BY <1>3, <2>2, <1>0 DEF ReadCovered, Outstanding, Applying
    <2>4. TaskCurrent'
      <3>1. rule[task[u].key] = task[u].branch
        BY <1>3 DEF TaskCurrent, Applying, ReadCovered
      <3>2. Covered(rule)' = Covered(rule) /\ rule' = rule
        BY <1>3 DEF ReadCovered, Covered
      <3> QED BY <2>2, <3>1, <3>2, <1>0 DEF TaskCurrent, Applying
    <2> QED BY <1>3, <2>3, <2>4 DEF ReadCovered, Follows, Awaits, BranchFor
  <1>4. ASSUME NEW u \in Users, ApplyProvince(u) PROVE RuleInv'
    <2>1. task[u] \in UpdateTask /\ task'[u] = Idle
      BY <1>4, TaskKinds DEF ApplyProvince, TypeOK
    <2>2. Outstanding = behind \cup {task[u].key} /\ Outstanding' = behind \ {task[u].key}
      BY <1>4, <2>1, <1>0 DEF ApplyProvince, Outstanding, Applying, Idle
    <2>3. TaskCurrent'
      BY <2>1, <1>0 DEF TaskCurrent, Applying, Idle
    <2>4. /\ rule[task[u].key] = task[u].branch /\ task[u].branch # None
          /\ task[u].covered = Covered(rule) /\ task[u].key \in Provinces
      BY <1>4, <2>1, PlacesAssumption DEF TaskCurrent, Applying, ApplyProvince, UpdateTask
    <2>5. ASSUME NEW s \in live PROVE (Awaits(s, Outstanding) \/ branch[s] = BranchFor(rule, s))'
      <3>1. /\ s \in Segments /\ WardOf[s] \in Wards /\ ProvinceOf[s] \in Provinces
            /\ WardOf[s] # task[u].key
        BY <2>4, PlacesAssumption DEF TypeOK
      <3>2. rule' = rule /\ behind' = behind \ {task[u].key}
        BY <1>4 DEF ApplyProvince
      <3>3. CASE s \in Uncovered(task[u].key, task[u].covered)
        <4>1. branch'[s] = task[u].branch
          BY <1>4, <3>1, <3>3 DEF ApplyProvince
        <4>2. ProvinceOf[s] = task[u].key /\ rule[WardOf[s]] = None
          BY <3>1, <3>3, <2>4 DEF Uncovered, Covered
        <4> QED BY <4>1, <4>2, <3>2, <2>4 DEF BranchFor
      <3>4. CASE s \notin Uncovered(task[u].key, task[u].covered)
        <4>1. branch'[s] = branch[s]
          BY <1>4, <3>1, <3>4 DEF ApplyProvince
        <4>2. Awaits(s, Outstanding) \/ branch[s] = BranchFor(rule, s)
          BY DEF Follows
        <4>3. ProvinceOf[s] # task[u].key \/ rule[WardOf[s]] # None
          BY <3>1, <3>4, <2>4 DEF Uncovered, Covered
        <4> QED BY <4>1, <4>2, <4>3, <3>1, <3>2, <2>2 DEF Awaits, BranchFor
      <3> QED BY <3>3, <3>4
    <2>6. live' = live
      BY <1>4 DEF ApplyProvince
    <2> QED BY <2>3, <2>5, <2>6 DEF Follows
  <1>5. ASSUME NEW u \in Users, NEW p \in Provinces, NEW file \in SUBSET Segments,
               LoadMaps(u, p, file)
        PROVE  RuleInv'
    <2>1. task'[u].op = "write" /\ task'[u].rules = rule /\ task'[u].branch = branch
      BY <1>5 DEF LoadMaps, TypeOK
    <2>2. Outstanding = behind /\ Outstanding' = behind
      BY <1>5, <2>1, <1>0 DEF LoadMaps, Outstanding, Applying, Idle
    <2>3. TaskCurrent'
      BY <1>5, <2>1, <1>0 DEF TaskCurrent, Applying, LoadMaps
    <2> QED BY <1>5, <2>2, <2>3 DEF LoadMaps, Follows, Awaits, BranchFor
  <1>6. ASSUME NEW u \in Users, WriteFile(u) PROVE RuleInv'
    <2>1. task[u] \in WriteTask /\ task'[u] = Idle
      BY <1>6, TaskKinds DEF WriteFile, TypeOK
    <2>2. Outstanding = behind /\ Outstanding' = behind
      BY <1>6, <2>1, <1>0 DEF WriteFile, Outstanding, Applying, Idle
    <2>3. TaskCurrent'
      BY <2>1, <1>0 DEF TaskCurrent, Applying, Idle
    <2>4. /\ task[u].rules = rule
          /\ \A s \in Segments : branch[s] \in {task[u].branch[s], BranchFor(rule, s)}
      BY <1>6 DEF TaskCurrent, WriteFile
    <2>5. ASSUME NEW s \in live' PROVE (Awaits(s, Outstanding) \/ branch[s] = BranchFor(rule, s))'
      <3>1. s \in Segments /\ (s \in live \/ s \in task[u].file)
        BY <1>6, <2>1 DEF WriteFile, TypeOK, WriteTask
      <3>2. rule' = rule
        BY <1>6 DEF WriteFile
      <3>3. CASE s \in task[u].file
        <4>1. branch'[s] = BranchFor(rule, s)
          BY <1>6, <2>4, <3>1, <3>3 DEF WriteFile
        <4> QED BY <4>1, <3>2 DEF BranchFor
      <3>4. CASE s \notin task[u].file
        <4>1. branch'[s] = branch[s]
          BY <1>6, <3>1, <3>4 DEF WriteFile
        <4>2. Awaits(s, Outstanding) \/ branch[s] = BranchFor(rule, s)
          BY <3>1, <3>4 DEF Follows
        <4> QED BY <4>1, <4>2, <3>2, <2>2 DEF Awaits, BranchFor
      <3> QED BY <3>3, <3>4
    <2> QED BY <2>3, <2>5 DEF Follows
  <1>7. ASSUME NEW u \in Users, Interrupt(u) PROVE RuleInv'
    <2>1. task'[u] = Idle
      BY <1>7 DEF Interrupt, TypeOK
    <2>2. Outstanding' = Outstanding
      BY <1>7, <2>1, <1>0 DEF Interrupt, Outstanding, Applying, Idle
    <2>3. TaskCurrent'
      BY <2>1, <1>0 DEF TaskCurrent, Applying, Idle
    <2> QED BY <1>7, <2>2, <2>3 DEF Interrupt, Follows, Awaits, BranchFor
  <1>8. CASE ReapplyAll
    <2>1. branch' = [s \in Segments |-> IF s \in live THEN BranchFor(rule, s) ELSE branch[s]]
      BY <1>8, Recompute DEF ReapplyAll
    <2>2. rule' = rule /\ live' = live /\ task' = task
      BY <1>8 DEF ReapplyAll
    <2>3. ASSUME NEW s \in live' PROVE (branch[s] = BranchFor(rule, s))'
      BY <2>1, <2>2 DEF TypeOK, BranchFor
    <2>4. TaskCurrent'
      <3>1. ASSUME NEW m, NEW s PROVE BranchFor(m, s)' = BranchFor(m, s)
        BY DEF BranchFor
      <3>2. Covered(rule)' = Covered(rule)
        BY <2>2 DEF Covered
      <3>3. ASSUME NEW u \in Users, task[u].op = "write", NEW s \in Segments
            PROVE  branch'[s] \in {task[u].branch[s], BranchFor(rule, s)}
        BY <2>1, <3>3 DEF TaskCurrent
      <3>4. ASSUME NEW s PROVE BranchFor(rule, s)' = BranchFor(rule, s)
        BY <2>2 DEF BranchFor
      <3> QED BY <2>2, <3>2, <3>3, <3>4 DEF TaskCurrent, Applying
    <2> QED BY <2>3, <2>4 DEF Follows
  <1>9. CASE UNCHANGED vars
    BY <1>9 DEF vars, Follows, TaskCurrent, Applying, Outstanding, Awaits, BranchFor, Covered
  <1> QED
    BY <1>1, <1>2, <1>3, <1>4, <1>5, <1>6, <1>7, <1>8, <1>9 DEF Next

\* With one user at a time, branch_id follows the rules whenever nobody is in
\* the middle of an operation, for any rules, files, errors and recomputes.
THEOREM RulesAreApplied ==
    ASSUME OneUser
    PROVE  Spec => []RulesApplied
  <1>1. TypeOK /\ RuleInv => RulesApplied
    <2> SUFFICES ASSUME RuleInv, Quiet PROVE RulesApplied
      BY DEF RulesApplied
    <2>1. Outstanding = behind
      BY DEF Quiet, Outstanding, Applying, Idle
    <2> QED BY <2>1 DEF RuleInv, Follows, RulesApplied
  <1>2. TypeOK /\ RuleInv /\ [Next]_vars => RuleInv'
    BY NextCurrent
  <1> QED
    BY <1>1, <1>2, InitCurrent, TypeCorrect, PTL DEF Spec
=============================================================================
