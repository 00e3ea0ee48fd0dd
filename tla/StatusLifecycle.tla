--------------------------- MODULE StatusLifecycle ---------------------------
(***************************************************************************)
(* What the system promises an inspector about one segment's status and   *)
(* the last line of its verification log, whatever syncs, replays, checks,*)
(* imports and crashes do: the status moves only along the edges below.   *)
(* In particular a segment becomes faulty only by a logged failure and    *)
(* leaves that status only by a logged manual pass.                       *)
(*                                                                         *)
(* One transaction may move many segments, so a step gives each segment a *)
(* move of its own or leaves it as it is.                                 *)
(***************************************************************************)
CONSTANTS Segments

NotStarted == "chua_bat_dau"
Collecting == "dang_thu_thap"
Full       == "du_vi_tri"
Complete   == "hoan_thanh"
Faulty     == "du_lieu_sai_hoac_loi"

VARIABLES status, verdict

Become(s, st, v) == status'[s] = st /\ verdict'[s] = v

\* Sync or replay recomputes the status from the data and logs nothing.
Recompute(s) ==
    /\ status[s] # Faulty
    /\ \E st \in {NotStarted, Collecting, Full, Complete} : Become(s, st, verdict[s])

\* An auto-check looks at full and complete segments only, and logs.
AutoCheck(s) ==
    /\ status[s] \in {Full, Complete}
    /\ Become(s, Complete, "auto_pass") \/ Become(s, Faulty, "auto_fail")

\* An inspector reviews a full, complete or faulty segment, and logs.
Review(s) ==
    /\ status[s] \in {Full, Complete, Faulty}
    /\ Become(s, Complete, "manual_pass") \/ Become(s, Faulty, "manual_fail")

Stay(s) == Become(s, status[s], verdict[s])

Init == /\ status = [s \in Segments |-> NotStarted]
        /\ verdict = [s \in Segments |-> "none"]

Next == \A s \in Segments : Recompute(s) \/ AutoCheck(s) \/ Review(s) \/ Stay(s)

Spec == Init /\ [][Next]_<<status, verdict>>
=============================================================================
