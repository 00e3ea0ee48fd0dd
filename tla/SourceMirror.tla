---------------------------- MODULE SourceMirror -----------------------------
(***************************************************************************)
(* What a sync promises about the copy of the source it keeps, however    *)
(* many pages, runs, aborts and restarts it takes: at any moment the copy *)
(* agrees with the source up to a horizon (last_synced_at), the horizon   *)
(* never goes back, and it moves together with the copy, in one step.     *)
(*                                                                         *)
(*   source   the newest version of each record, None when it has none or *)
(*            when it came too late, with a stamp that had been fetched     *)
(*   copy     what is held of each record: None when it holds no active   *)
(*            row, else the position and the stamp of the row             *)
(*   horizon  the stamp up to which the copy is complete                  *)
(***************************************************************************)
EXTENDS Naturals

CONSTANTS Records, None

VARIABLES source, copy, horizon

\* What a copy that is up to date holds of a version.
Says(v) == IF v.deleted THEN None ELSE [vt |-> v.vt, ts |-> v.ts]

Init == /\ source = [r \in Records |-> None]
        /\ copy = [r \in Records |-> None]
        /\ horizon = 0

\* The source replaces a version by another, stamped past the horizon, or too late.
Write(r) ==
    /\ source'[r] # None => source'[r].ts > horizon
    /\ \A q \in Records \ {r} : source'[q] = source[q]
    /\ UNCHANGED <<copy, horizon>>

\* The copy catches up to some later horizon.  It may pass through older
\* versions of a record whose newest is past the horizon, but never takes up
\* a version from before the old horizon or from after the new one.
Pull ==
    /\ horizon' >= horizon
    /\ \A r \in Records :
         /\ source[r] # None /\ source[r].ts <= horizon' => copy'[r] = Says(source[r])
         /\ copy'[r] \in {copy[r], None} \/ (horizon <= copy'[r].ts /\ copy'[r].ts <= horizon')
    /\ UNCHANGED source

Next == (\E r \in Records : Write(r)) \/ Pull

Spec == Init /\ [][Next]_<<source, copy, horizon>>
=============================================================================
