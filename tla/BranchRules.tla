----------------------------- MODULE BranchRules -----------------------------
(***************************************************************************)
(* Which branch a route segment belongs to.  BranchMapping rules give a    *)
(* branch to a ward (xa_phuong) or a province (tinh_thanh); the ward wins. *)
(* segments.branch_id is a copy of what the rules say, kept by hand in     *)
(* three places: the importer, the apply that follows Save Mapping, and    *)
(* the full recompute.  Several people use the pages at once, each in a    *)
(* session of Users; the database runs at READ COMMITTED, so a statement   *)
(* sees what others committed since the transaction began.                 *)
(*                                                                         *)
(* The segments are those of earlier imports; one that the file of an      *)
(* import lists for the first time is inserted with the same branch_id an  *)
(* update would give it.                                                   *)
(***************************************************************************)
EXTENDS Naturals, FiniteSets

CONSTANTS
    Users, Segments, Wards, Provinces, Branches, None,
    WardOf, ProvinceOf,   \* xa_phuong_norm and tinh_thanh_norm of a segment
    MaxSaves,             \* bound on rules saved
    MaxImports,           \* bound on imports
    MaxFaults             \* bound on interrupted operations

Keys == Wards \cup Provinces

ASSUME PlacesAssumption ==
    /\ WardOf \in [Segments -> Wards] /\ ProvinceOf \in [Segments -> Provinces]
    /\ Wards \cap Provinces = {}
    /\ None \notin Branches
ASSUME LimitsAssumption == MaxSaves \in Nat /\ MaxImports \in Nat /\ MaxFaults \in Nat

VARIABLES
    rule,      \* branch_mappings: the branch of a key, or None
    live,      \* segments.is_active
    branch,    \* segments.branch_id
    task,      \* what each session is in the middle of
    behind,    \* history: keys whose rule was saved but whose apply never ran
    saves, imports, faults

bounds == <<saves, imports, faults>>
vars   == <<rule, live, branch, task, behind, bounds>>

Idle == [op |-> "idle"]

Rules     == [Keys -> Branches \cup {None}]
Mapping   == [Segments -> Branches \cup {None}]

Init ==
    /\ rule = [k \in Keys |-> None]
    /\ live = Segments
    /\ branch = [s \in Segments |-> None]
    /\ task = [u \in Users |-> Idle]
    /\ behind = {}
    /\ saves = 0 /\ imports = 0 /\ faults = 0

\* The branch the rules m give to a segment: its ward's, else its province's.
BranchFor(m, s) == IF m[WardOf[s]] # None THEN m[WardOf[s]] ELSE m[ProvinceOf[s]]

\* Mutant: the query for the covered wards forgets the key type.
Covered_AnyKey(m) == {k \in Keys : m[k] # None}

\* The wards with a rule of their own.
Covered(m) == {w \in Wards : m[w] # None}

-----------------------------------------------------------------------------
\* Save Mapping, first transaction: the rule is written or overwritten.
SaveMapping(u, k, b) ==
    /\ task[u] = Idle /\ saves < MaxSaves
    /\ rule' = [rule EXCEPT ![k] = b]
    /\ task' = [task EXCEPT ![u] = [op |-> "apply", key |-> k, branch |-> b]]
    /\ saves' = saves + 1
    /\ UNCHANGED <<live, branch, behind, imports, faults>>

\* Second transaction, apply_single_mapping, for a ward: one UPDATE.
ApplyWard(u) ==
    /\ task[u].op = "apply" /\ task[u].key \in Wards
    /\ branch' = [s \in Segments |->
                    IF s \in live /\ WardOf[s] = task[u].key THEN task[u].branch ELSE branch[s]]
    /\ behind' = behind \ {task[u].key}
    /\ task' = [task EXCEPT ![u] = Idle]
    /\ UNCHANGED <<rule, live, bounds>>

\* For a province it first reads the wards that have a rule of their own ...
ReadCovered(u) ==
    /\ task[u].op = "apply" /\ task[u].key \in Provinces
    /\ task' = [task EXCEPT ![u] = [op |-> "update", key |-> task[u].key,
                                    branch |-> task[u].branch, covered |-> Covered(rule)]]
    /\ UNCHANGED <<rule, live, branch, behind, bounds>>

\* Mutant: the segments of wards with a rule are updated too.
Uncovered_All(p, covered) == {s \in live : ProvinceOf[s] = p}

\* The segments of province p that apply_single_mapping updates.
Uncovered(p, covered) == {s \in live : ProvinceOf[s] = p /\ WardOf[s] \notin covered}

\* ... and then updates the segments outside them.
ApplyProvince(u) ==
    /\ task[u].op = "update"
    /\ branch' = [s \in Segments |->
                    IF s \in Uncovered(task[u].key, task[u].covered)
                    THEN task[u].branch ELSE branch[s]]
    /\ behind' = behind \ {task[u].key}
    /\ task' = [task EXCEPT ![u] = Idle]
    /\ UNCHANGED <<rule, live, bounds>>

\* reapply_all_branch_mappings, its three statements in order: clear, give
\* every segment its province's branch, then its ward's.
Cleared        == [s \in Segments |-> IF s \in live THEN None ELSE branch[s]]
ByProvince(br) == [s \in Segments |->
                     IF s \in live /\ rule[ProvinceOf[s]] # None THEN rule[ProvinceOf[s]] ELSE br[s]]
ByWard(br)     == [s \in Segments |->
                     IF s \in live /\ rule[WardOf[s]] # None THEN rule[WardOf[s]] ELSE br[s]]

\* Mutant: the province's rules are applied after the wards'.
ReapplyAll_ProvinceLast ==
    /\ branch' = ByProvince(ByWard(Cleared))
    /\ behind' = {}
    /\ UNCHANGED <<rule, live, task, bounds>>

ReapplyAll ==
    /\ branch' = ByWard(ByProvince(Cleared))
    /\ behind' = {}
    /\ UNCHANGED <<rule, live, task, bounds>>

\* import_excel loads the segments of the file's province and all rules ...
LoadMaps(u, p, file) ==
    /\ task[u] = Idle /\ imports < MaxImports
    /\ file # {} /\ file \subseteq {s \in Segments : ProvinceOf[s] = p}
    /\ task' = [task EXCEPT ![u] = [op |-> "write", province |-> p, file |-> file,
                                    rules |-> rule, live |-> live, branch |-> branch]]
    /\ imports' = imports + 1
    /\ UNCHANGED <<rule, live, branch, behind, saves, faults>>

\* ... and writes, for each row of the file, the columns whose value differs
\* from the one it loaded.
WriteFile(u) ==
    /\ task[u].op = "write"
    /\ LET t == task[u]
           gone == {s \in t.live : ProvinceOf[s] = t.province /\ s \notin t.file}
           back == t.file \ t.live
       IN /\ live' = (live \ gone) \cup back
          /\ branch' = [s \in Segments |->
                          IF s \in t.file /\ BranchFor(t.rules, s) # t.branch[s]
                          THEN BranchFor(t.rules, s) ELSE branch[s]]
    /\ task' = [task EXCEPT ![u] = Idle]
    /\ UNCHANGED <<rule, behind, bounds>>

\* An error or a closed page between or inside transactions.
Interrupt(u) ==
    /\ task[u] # Idle /\ faults < MaxFaults
    /\ behind' = IF task[u].op \in {"apply", "update"} THEN behind \cup {task[u].key} ELSE behind
    /\ task' = [task EXCEPT ![u] = Idle]
    /\ faults' = faults + 1
    /\ UNCHANGED <<rule, live, branch, saves, imports>>

Next ==
    \/ \E u \in Users :
         \/ \E k \in Keys, b \in Branches : SaveMapping(u, k, b)
         \/ ApplyWard(u)
         \/ ReadCovered(u)
         \/ ApplyProvince(u)
         \/ \E p \in Provinces, file \in SUBSET Segments : LoadMaps(u, p, file)
         \/ WriteFile(u)
         \/ Interrupt(u)
    \/ ReapplyAll

Spec == Init /\ [][Next]_vars

-----------------------------------------------------------------------------
ApplyTask  == [op : {"apply"}, key : Keys, branch : Branches]
UpdateTask == [op : {"update"}, key : Provinces, branch : Branches, covered : SUBSET Wards]
WriteTask  == [op : {"write"}, province : Provinces, file : SUBSET Segments,
               rules : Rules, live : SUBSET Segments, branch : Mapping]

\* The types of the variables.
TypeOK ==
    /\ rule \in Rules /\ live \subseteq Segments /\ branch \in Mapping
    /\ task \in [Users -> {Idle} \cup ApplyTask \cup UpdateTask \cup WriteTask]
    /\ behind \subseteq Keys
    /\ saves \in Nat /\ imports \in Nat /\ faults \in Nat

Quiet == \A u \in Users : task[u] = Idle

\* Whether a rule of the keys K that has yet to be applied can reach s: its
\* ward's, or its province's when its ward has none.
Awaits(s, K) == WardOf[s] \in K \/ (rule[WardOf[s]] = None /\ ProvinceOf[s] \in K)

\* While nobody is in the middle of an operation, branch_id of every active
\* segment is what the rules say, ward before province, except where a rule
\* whose apply was interrupted has yet to reach it.
RulesApplied ==
    Quiet => \A s \in live : Awaits(s, behind) \/ branch[s] = BranchFor(rule, s)

\* reapply_all_branch_mappings repairs whatever interrupted or concurrent
\* operations left: after it every active segment follows the rules.
RecomputeRepairs == [][ReapplyAll => \A s \in live : branch'[s] = BranchFor(rule, s)]_vars

\* features.md:176: "Ward-level mappings always take priority over province-
\* level mappings".  With every saved rule applied, no segment of a ward with
\* a rule of its own is left with the different branch of its province.
WardPriority ==
    Quiet /\ behind = {} =>
        \A s \in live :
            rule[WardOf[s]] \notin {None, branch[s]} => branch[s] # rule[ProvinceOf[s]]
=============================================================================
