----------------------------- MODULE QueueWorker ----------------------------
(***************************************************************************)
(* The worker container as its handlers see it: the one drain_loop of      *)
(* worker.py, over the job queue used through its promise (WorkQueue).     *)
(* The modules of the handlers extend this one; they say which step of     *)
(* which handler the worker has reached, and what each step commits.       *)
(*                                                                         *)
(* A handler runs on the session that claimed its job.  Its first commit   *)
(* also makes the claim public; if it never commits, complete or fail do.  *)
(* Back-off and ORDER BY are left out: any pending job may be claimed.     *)
(***************************************************************************)
EXTENDS Naturals, FiniteSets

CONSTANTS
    Jobs,          \* bound: rows the jobs table comes to hold
    NoJob,
    MaxAttempts,   \* queue.MAX_ATTEMPTS
    MaxCrashes     \* bound: worker deaths explored

ASSUME WorkerAssumption ==
    /\ MaxAttempts \in Nat \ {0}
    /\ MaxCrashes \in Nat
    /\ NoJob \notin Jobs

VARIABLES
    phase, tries,  \* the jobs table (WorkQueue)
    at, cur,       \* the step the worker has reached, the job it claimed
    crashes        \* worker deaths so far (bounded by MaxCrashes)

tableVars  == <<phase, tries>>
workerVars == <<phase, tries, at, cur, crashes>>

Q == INSTANCE WorkQueue

WorkerInit == Q!Init /\ at = "idle" /\ cur = NoJob /\ crashes = 0

\* enqueue in another process's session.
Submit(j) == Q!Submit(j) /\ UNCHANGED <<at, cur, crashes>>

\* claim_one: not committed, so nobody sees it yet.
ClaimFor(j, step) ==
    /\ at = "idle" /\ phase[j] = "pending"
    /\ at' = step /\ cur' = j
    /\ UNCHANGED <<tableVars, crashes>>

\* A commit of the handler, with the follow-up jobs it enqueues; the claim
\* goes with it unless it is public already.
CommitWith(follow) ==
    IF phase[cur] = "pending" THEN Q!Begin(cur, follow)
    ELSE /\ \A k \in follow : phase[k] = "absent"
         /\ phase' = [k \in Jobs |-> IF k \in follow THEN "pending" ELSE phase[k]]
         /\ UNCHANGED tries

Advance(step) == at' = step /\ UNCHANGED <<cur, crashes>>

Idle == at' = "idle" /\ cur' = NoJob /\ UNCHANGED crashes

\* The handler returned: queue.complete.
Completed == Q!Verdict(cur, "done") /\ Idle

\* The handler raised: queue.fail.
FailedForever ==                               \* mutant of Failed: no dead-lettering
    /\ phase' = [phase EXCEPT ![cur] = "pending"]
    /\ tries' = [tries EXCEPT ![cur] = Q!Spent(cur)]
    /\ Idle

FailedQuietly == Q!Verdict(cur, "done") /\ Idle    \* mutant of Failed: error swallowed

Failed == (Q!Verdict(cur, "pending") \/ Q!Verdict(cur, "failed")) /\ Idle

\* The worker dies; a public claim stays 'running' for ever.
Died ==
    /\ at # "down" /\ crashes < MaxCrashes
    /\ crashes' = crashes + 1
    /\ at' = "down" /\ cur' = NoJob
    /\ UNCHANGED tableVars

\* docker: restart: unless-stopped
Restarted == at = "down" /\ at' = "idle" /\ UNCHANGED <<tableVars, cur, crashes>>

\* Shape of these variables, for a worker whose handlers have these steps.
WorkerTypeOK(steps) ==
    /\ phase \in [Jobs -> {"absent", "pending", "running", "done", "failed"}]
    /\ tries \in [Jobs -> 0..MaxAttempts]
    /\ at \in steps \union {"idle", "down"}
    /\ cur \in Jobs \union {NoJob}
    /\ (cur = NoJob) = (at \in {"idle", "down"})
    /\ crashes \in 0..MaxCrashes
=============================================================================
