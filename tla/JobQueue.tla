------------------------------ MODULE JobQueue ------------------------------
(***************************************************************************)
(* The Postgres job queue (services/queue.py) and the worker that drains   *)
(* it (worker.py, drain_loop).                                             *)
(*                                                                         *)
(* A drainer is one drain_loop with its own database session.  claim_one   *)
(* updates the row but does not commit: until the handler commits          *)
(* something (or the loop calls complete or fail) the claim is visible to  *)
(* nobody, and the row lock is what keeps other drainers away.  The first  *)
(* commit of the handler publishes the claim as status 'running'.          *)
(*                                                                         *)
(* Time is counted in units of the back-off step (30 s).  wait[j] is       *)
(* run_after minus now; a job that is overdue keeps counting down to -Late,*)
(* where ORDER BY run_after no longer tells two jobs apart.                *)
(***************************************************************************)
EXTENDS Integers, FiniteSets

CONSTANTS
    Jobs,         \* rows the jobs table may come to hold
    Drainers,     \* running drain_loop processes
    NoJob,        \* the drainer holds no job
    MaxAttempts,  \* queue.MAX_ATTEMPTS
    Delays,       \* delays enqueue is called with, in back-off units
    Late,         \* bound: how far overdue two jobs can be told apart
    MaxCrashes,   \* bound: process deaths explored
    Poison        \* jobs whose handler always ends in a database error

ASSUME QueueAssumption ==
    /\ MaxAttempts \in Nat \ {0}
    /\ Late \in Nat
    /\ MaxCrashes \in Nat
    /\ Delays \subseteq Nat
    /\ NoJob \notin Jobs
    /\ Poison \subseteq Jobs

VARIABLES
    status,    \* jobs.status as committed; "absent": not inserted yet
    attempts,  \* jobs.attempts as committed
    wait,      \* jobs.run_after relative to now
    pc,        \* where the drainer is
    cur,       \* the job the drainer's session holds
    crashes,   \* process deaths so far (bounded by MaxCrashes)
    orphan     \* history: jobs whose drainer died after publishing the claim

rows == <<status, attempts, wait>>
vars == <<status, attempts, wait, pc, cur, crashes, orphan>>

Statuses == {"absent", "pending", "running", "done", "failed"}
Places   == {"idle", "claimed", "published", "down"}

\* A drainer in one of these places is executing a handler.
Busy(d) == pc[d] \in {"claimed", "published"}

Init ==
    /\ status   = [j \in Jobs |-> "absent"]
    /\ attempts = [j \in Jobs |-> 0]
    /\ wait     = [j \in Jobs |-> 0]
    /\ pc       = [d \in Drainers |-> "idle"]
    /\ cur      = [d \in Drainers |-> NoJob]
    /\ crashes  = 0
    /\ orphan   = {}

-----------------------------------------------------------------------------
(* The row as the drainer's own transaction sees it. *)

Locked(j) == \E d \in Drainers : pc[d] = "claimed" /\ cur[d] = j

UncountedAttempts(d) == attempts[cur[d]]      \* mutant of SeenAttempts

SeenAttempts(d) ==
    attempts[cur[d]] + IF pc[d] = "claimed" THEN 1 ELSE 0

DueUnlocked == {j \in Jobs : status[j] = "pending" /\ wait[j] =< 0}  \* mutant of Due

Due == {j \in Jobs : status[j] = "pending" /\ wait[j] =< 0 /\ ~Locked(j)}

(* queue.enqueue: insert the row and commit. *)
Insert(j, delay) ==
    /\ status[j] = "absent"
    /\ status'   = [status EXCEPT ![j] = "pending"]
    /\ wait'     = [wait EXCEPT ![j] = delay]

Enqueue(j) ==
    \E delay \in Delays :
        /\ Insert(j, delay)
        /\ UNCHANGED <<attempts, pc, cur, crashes, orphan>>

(* queue.claim_one: the earliest unlocked due row, attempts + 1, uncommitted.
   The other drainers skip a row that is locked. *)
Claim(d) ==
    /\ pc[d] = "idle"
    /\ \E j \in Due :
        /\ \A k \in Due : wait[j] =< wait[k]
        /\ cur' = [cur EXCEPT ![d] = j]
    /\ pc' = [pc EXCEPT ![d] = "claimed"]
    /\ UNCHANGED <<status, attempts, wait, crashes, orphan>>

(* The handler commits its session half way: the claim goes with it. *)
HandlerCommit(d) ==
    /\ pc[d] = "claimed"
    /\ cur[d] \notin Poison
    /\ status'   = [status EXCEPT ![cur[d]] = "running"]
    /\ attempts' = [attempts EXCEPT ![cur[d]] = SeenAttempts(d)]
    /\ pc'       = [pc EXCEPT ![d] = "published"]
    /\ UNCHANGED <<wait, cur, crashes, orphan>>

(* The handler enqueues a follow-up on its own session.  enqueue commits, so
   this too publishes the claim. *)
HandlerEnqueue(d, j) ==
    /\ Busy(d)
    /\ cur[d] \notin Poison
    /\ status[j] = "absent"
    /\ \E delay \in Delays : wait' = [wait EXCEPT ![j] = delay]
    /\ status'   = [status EXCEPT ![j] = "pending", ![cur[d]] = "running"]
    /\ attempts' = [attempts EXCEPT ![cur[d]] = SeenAttempts(d)]
    /\ pc'       = [pc EXCEPT ![d] = "published"]
    /\ UNCHANGED <<cur, crashes, orphan>>

Release(d) ==
    /\ pc'  = [pc EXCEPT ![d] = "idle"]
    /\ cur' = [cur EXCEPT ![d] = NoJob]

(* The handler returned: queue.complete. *)
Complete(d) ==
    /\ Busy(d)
    /\ cur[d] \notin Poison
    /\ status'   = [status EXCEPT ![cur[d]] = "done"]
    /\ attempts' = [attempts EXCEPT ![cur[d]] = SeenAttempts(d)]
    /\ Release(d)
    /\ UNCHANGED <<wait, crashes, orphan>>

(* The handler raised and the session is still usable: queue.fail. *)
GiveUp(d) ==
    /\ SeenAttempts(d) >= MaxAttempts
    /\ status' = [status EXCEPT ![cur[d]] = "failed"]
    /\ UNCHANGED wait

BackOffKeepsStatus(d) ==                      \* mutant of BackOff: status not reset
    /\ SeenAttempts(d) < MaxAttempts
    /\ wait' = [wait EXCEPT ![cur[d]] = SeenAttempts(d)]
    /\ UNCHANGED status

BackOff(d) ==
    /\ SeenAttempts(d) < MaxAttempts
    /\ status' = [status EXCEPT ![cur[d]] = "pending"]
    /\ wait'   = [wait EXCEPT ![cur[d]] = SeenAttempts(d)]

Fail(d) ==
    /\ Busy(d)
    /\ cur[d] \notin Poison
    /\ GiveUp(d) \/ BackOff(d)
    /\ attempts' = [attempts EXCEPT ![cur[d]] = SeenAttempts(d)]
    /\ Release(d)
    /\ UNCHANGED <<crashes, orphan>>

(* The process dies: the open transaction is rolled back.  What was committed
   stays, and nothing ever looks at a 'running' row again. *)
Die(d) ==
    /\ pc'  = [pc EXCEPT ![d] = "down"]
    /\ cur' = [cur EXCEPT ![d] = NoJob]
    /\ orphan' = IF pc[d] = "published" THEN orphan \union {cur[d]} ELSE orphan
    /\ UNCHANGED rows

Crash(d) ==
    /\ pc[d] # "down"
    /\ crashes < MaxCrashes
    /\ crashes' = crashes + 1
    /\ Die(d)

(* A statement of a poison job fails in the database: queue.fail runs on the
   aborted transaction, raises out of drain_loop, and the process exits. *)
DatabaseError(d) ==
    /\ Busy(d)
    /\ cur[d] \in Poison
    /\ Die(d)
    /\ UNCHANGED crashes

(* docker: restart: unless-stopped *)
Restart(d) ==
    /\ pc[d] = "down"
    /\ pc' = [pc EXCEPT ![d] = "idle"]
    /\ UNCHANGED <<rows, cur, crashes, orphan>>

Tick ==
    /\ \E j \in Jobs : status[j] = "pending" /\ wait[j] > -Late
    /\ wait' = [j \in Jobs |->
                   IF status[j] = "pending" /\ wait[j] > -Late
                   THEN wait[j] - 1 ELSE wait[j]]
    /\ UNCHANGED <<status, attempts, pc, cur, crashes, orphan>>

-----------------------------------------------------------------------------

Drain(d) == \/ Claim(d) \/ HandlerCommit(d) \/ (\E j \in Jobs : HandlerEnqueue(d, j))
            \/ Complete(d) \/ Fail(d) \/ DatabaseError(d)

Next == \/ \E j \in Jobs : Enqueue(j)
        \/ \E d \in Drainers : Drain(d) \/ Crash(d) \/ Restart(d)
        \/ Tick

Spec == Init /\ [][Next]_vars

(* The loop never stops polling, every handler ends (its I/O has timeouts),
   the container is restarted, and time passes. *)
Fairness == /\ WF_vars(Tick)
            /\ \A d \in Drainers :
                 /\ WF_vars(Claim(d))
                 /\ WF_vars(Complete(d) \/ Fail(d) \/ DatabaseError(d))
                 /\ WF_vars(Restart(d))

FairSpec == Spec /\ Fairness

-----------------------------------------------------------------------------
(* Shape of the state: a drainer is busy exactly when it holds a job. *)
TypeOK ==
    /\ status \in [Jobs -> Statuses]
    /\ attempts \in [Jobs -> 0..MaxAttempts]
    /\ wait \in [Jobs -> Int]
    /\ pc \in [Drainers -> Places]
    /\ cur \in [Drainers -> Jobs \union {NoJob}]
    /\ crashes \in Nat
    /\ orphan \subseteq Jobs
    /\ \A d \in Drainers : Busy(d) <=> cur[d] # NoJob

(* "multiple drainers never grab the same job" (queue.py:3): at no moment do
   two drainers execute handlers for one row, whatever crashes, restarts and
   early commits happened in between. *)
ExclusiveClaim ==
    \A d, e \in Drainers :
        Busy(d) /\ Busy(e) /\ cur[d] = cur[e] => d = e

(* A committed 'running' row is either being executed or was abandoned by a
   process that died after the handler's first commit; and an abandoned row is
   executed by nobody.  (Nothing else in the code writes or reads 'running'.) *)
RunningIsAccountedFor ==
    \A j \in Jobs :
        status[j] = "running" =>
            \/ j \in orphan /\ \A d \in Drainers : cur[d] # j
            \/ j \notin orphan /\ \E d \in Drainers : pc[d] = "published" /\ cur[d] = j

(* Dead-lettering: a row is 'failed' only after MAX_ATTEMPTS counted attempts,
   and a row still waiting has at least one attempt left. *)
DeadLetterOnlyWhenExhausted ==
    \A j \in Jobs :
        /\ status[j] = "failed" => attempts[j] = MaxAttempts
        /\ status[j] = "pending" => attempts[j] < MaxAttempts

(* The three together: what every committed row stands for. *)
RowsAccountedFor ==
    TypeOK /\ RunningIsAccountedFor /\ DeadLetterOnlyWhenExhausted

(* A verdict is final: a done or failed row keeps its status and is never
   handed to a drainer again; attempts are never forgotten. *)
FinalStep ==
    \A j \in Jobs :
        /\ status[j] \in {"done", "failed"} =>
               /\ status'[j] = status[j]
               /\ \A d \in Drainers : cur'[d] # j
        /\ attempts'[j] >= attempts[j]

VerdictsAreFinal == [][FinalStep]_vars

(* The promise made to producers; committed rows are what they can see. *)
Promise == INSTANCE WorkQueue WITH phase <- status, tries <- attempts

KeepsPromise == Promise!Spec

(* A waiting job is eventually decided -- the 30 s * attempts back-off never
   starves it -- unless its drainer died after the handler's first commit, or a
   poison job at the head of the queue takes every worker down. *)
DecidedOrOrphaned ==
    \A j \in Jobs :
        status[j] = "pending" ~> \/ status[j] \in {"done", "failed"}
                                 \/ j \in orphan
                                 \/ \E p \in Poison : status[p] # "absent"
=============================================================================
