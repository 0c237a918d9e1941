------------------------------ MODULE WorkQueue -----------------------------
(***************************************************************************)
(* What the job queue promises to the code that enqueues, seen from        *)
(* outside: only committed rows count.  A job is attempted a bounded       *)
(* number of times, a verdict is final, and a job that is not waiting is   *)
(* not taken up again.  The promise is at least once, not exactly once:    *)
(* an attempt that leaves no committed trace may be repeated unseen.       *)
(*                                                                         *)
(* JobQueue implements this module (see JobQueue!Promise).                 *)
(***************************************************************************)
EXTENDS Naturals

CONSTANTS Jobs, MaxAttempts

VARIABLES phase, tries

wqVars == <<phase, tries>>

Init == /\ phase = [j \in Jobs |-> "absent"]
        /\ tries = [j \in Jobs |-> 0]

Submit(j) ==
    /\ phase[j] = "absent"
    /\ phase' = [phase EXCEPT ![j] = "pending"]
    /\ UNCHANGED tries

(* An attempt becomes visible while it runs: its handler commits, and may
   submit follow-up jobs in the same transaction. *)
Begin(j, follow) ==
    /\ phase[j] = "pending" /\ tries[j] < MaxAttempts
    /\ \A k \in follow : phase[k] = "absent"
    /\ phase' = [k \in Jobs |-> IF k = j THEN "running"
                                ELSE IF k \in follow THEN "pending" ELSE phase[k]]
    /\ tries' = [tries EXCEPT ![j] = @ + 1]

(* A verdict on an attempt, visible before (running) or only now (pending).
   Another attempt is granted only while some are left. *)
Spent(j) == tries[j] + IF phase[j] = "pending" THEN 1 ELSE 0

Verdict(j, p) ==
    /\ phase[j] \in {"pending", "running"}
    /\ Spent(j) =< MaxAttempts
    /\ p = "pending" => Spent(j) < MaxAttempts
    /\ p = "failed"  => Spent(j) = MaxAttempts
    /\ phase' = [phase EXCEPT ![j] = p]
    /\ tries' = [tries EXCEPT ![j] = Spent(j)]

Next == \E j \in Jobs :
            \/ Submit(j)
            \/ \E follow \in SUBSET Jobs : Begin(j, follow)
            \/ \E p \in {"done", "pending", "failed"} : Verdict(j, p)

Spec == Init /\ [][Next]_wqVars
=============================================================================
