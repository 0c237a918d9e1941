-------------------------- MODULE QueueWorkerProofs -------------------------
(***************************************************************************)
(* What the worker's steps do to the jobs table, for the proofs about the  *)
(* handlers: a job that is being executed was pending or runs, a pending   *)
(* job has an attempt left, and rows only appear by being enqueued.        *)
(***************************************************************************)
EXTENDS QueueWorker, TLAPS

Phases == {"absent", "pending", "running", "done", "failed"}
Undecided == {"pending", "running"}

(* The worker holds a live job while it executes one, and a pending job can be
   attempted once more. *)
WorkerInv ==
    /\ phase \in [Jobs -> Phases]
    /\ tries \in [Jobs -> 0..MaxAttempts]
    /\ cur \in Jobs \union {NoJob}
    /\ (cur = NoJob) = (at \in {"idle", "down"})
    /\ crashes \in 0..MaxCrashes
    /\ cur # NoJob => phase[cur] \in Undecided
    /\ \A j \in Jobs : phase[j] = "absent" => tries[j] = 0
    /\ \A j \in Jobs : phase[j] = "pending" => tries[j] < MaxAttempts

Busy == cur # NoJob

(* At the start the table is empty and the worker idle. *)
LEMMA WorkerStarts == WorkerInit => WorkerInv
<1> SUFFICES ASSUME WorkerInit PROVE WorkerInv
    OBVIOUS
<1>1. /\ phase = [j \in Jobs |-> "absent"]
      /\ tries = [j \in Jobs |-> 0]
      /\ at = "idle" /\ cur = NoJob /\ crashes = 0
    BY DEF WorkerInit, Q!Init
<1> QED  BY <1>1, WorkerAssumption DEF WorkerInv, Phases

(* A row is enqueued by another process. *)
LEMMA Submits ==
    ASSUME WorkerInv, NEW j \in Jobs, Submit(j)
    PROVE  /\ WorkerInv'
           /\ phase[j] = "absent" /\ phase' = [phase EXCEPT ![j] = "pending"]
           /\ UNCHANGED <<tries, at, cur, crashes>>
<1>1. /\ phase[j] = "absent" /\ phase' = [phase EXCEPT ![j] = "pending"]
      /\ UNCHANGED <<tries, at, cur, crashes>>
    BY DEF Submit, Q!Submit
<1>2. cur # NoJob => cur # j
    BY <1>1 DEF WorkerInv, Undecided
<1>3. phase' \in [Jobs -> Phases] /\ \A k \in Jobs : k # j => phase'[k] = phase[k]
    BY <1>1 DEF WorkerInv, Phases
<1>4. phase'[j] = "pending" /\ tries[j] = 0 /\ tries[j] < MaxAttempts
    BY <1>1, WorkerAssumption DEF WorkerInv
<1>5. WorkerInv'
    BY <1>1, <1>2, <1>3, <1>4 DEF WorkerInv
<1> QED  BY <1>1, <1>5

(* The worker takes a pending row. *)
LEMMA ClaimsJob ==
    ASSUME WorkerInv, NEW j \in Jobs, NEW step, step \notin {"idle", "down"}, ClaimFor(j, step)
    PROVE  /\ WorkerInv'
           /\ at = "idle" /\ cur = NoJob /\ phase[j] = "pending" /\ at' = step /\ cur' = j
           /\ UNCHANGED <<phase, tries, crashes>>
<1>1. /\ at = "idle" /\ phase[j] = "pending" /\ at' = step /\ cur' = j
      /\ UNCHANGED <<phase, tries, crashes>>
    BY DEF ClaimFor, tableVars
<1>2. j # NoJob /\ cur = NoJob
    BY <1>1, WorkerAssumption DEF WorkerInv
<1>3. WorkerInv'
    BY <1>1, <1>2 DEF WorkerInv, Undecided
<1> QED  BY <1>1, <1>2, <1>3

(* A commit: the claim is public, the follow-up jobs are pending, and the rest of
   the table is as it was. *)
LEMMA CommitsWith ==
    ASSUME WorkerInv, NEW follow \in SUBSET Jobs, CommitWith(follow), Busy
    PROVE  /\ phase' \in [Jobs -> Phases] /\ tries' \in [Jobs -> 0..MaxAttempts]
           /\ phase[cur] \in Undecided /\ phase'[cur] = "running"
           /\ \A k \in Jobs \ {cur} : /\ phase'[k] = IF k \in follow THEN "pending" ELSE phase[k]
                                      /\ tries'[k] = tries[k]
           /\ \A k \in follow : phase[k] = "absent"
           /\ tries'[cur] = tries[cur] + IF phase[cur] = "pending" THEN 1 ELSE 0
<1>1. /\ phase \in [Jobs -> Phases] /\ tries \in [Jobs -> 0..MaxAttempts]
      /\ cur \in Jobs /\ phase[cur] \in Undecided /\ MaxAttempts \in Nat
    BY WorkerAssumption DEF WorkerInv, Busy
<1>2. CASE phase[cur] = "pending"
    <2>1. /\ tries[cur] < MaxAttempts
          /\ \A k \in follow : phase[k] = "absent"
          /\ phase' = [k \in Jobs |-> IF k = cur THEN "running"
                                      ELSE IF k \in follow THEN "pending" ELSE phase[k]]
          /\ tries' = [tries EXCEPT ![cur] = @ + 1]
        BY <1>2 DEF CommitWith, Q!Begin
    <2>2. phase' \in [Jobs -> Phases]
        BY <1>1, <2>1 DEF Phases
    <2>3. tries[cur] + 1 \in 0..MaxAttempts
        BY <1>1, <2>1
    <2>4. tries' \in [Jobs -> 0..MaxAttempts]
        BY <1>1, <2>1, <2>3
    <2> QED  BY <1>1, <1>2, <2>1, <2>2, <2>4
<1>3. CASE phase[cur] # "pending"
    <2>1. /\ \A k \in follow : phase[k] = "absent"
          /\ phase' = [k \in Jobs |-> IF k \in follow THEN "pending" ELSE phase[k]]
          /\ tries' = tries
        BY <1>3 DEF CommitWith
    <2>2. phase[cur] = "running" /\ cur \notin follow
        BY <1>1, <1>3, <2>1 DEF Undecided
    <2>3. phase' \in [Jobs -> Phases]
        BY <1>1, <2>1 DEF Phases
    <2> QED  BY <1>1, <1>3, <2>1, <2>2, <2>3
<1> QED  BY <1>2, <1>3

(* The worker goes on after a commit. *)
LEMMA CommitsOn ==
    ASSUME WorkerInv, NEW follow \in SUBSET Jobs, NEW step, step \notin {"idle", "down"},
           Busy, CommitWith(follow), Advance(step)
    PROVE  WorkerInv' /\ at' = step /\ UNCHANGED <<cur, crashes>>
<1>1. at' = step /\ UNCHANGED <<cur, crashes>>
    BY DEF Advance
<1>2. cur \in Jobs /\ cur # NoJob /\ phase[cur] \in Undecided
    BY DEF WorkerInv, Busy
<1>3. /\ phase' \in [Jobs -> Phases] /\ tries' \in [Jobs -> 0..MaxAttempts]
      /\ phase'[cur] \in Undecided
    BY CommitsWith DEF Undecided
<1>4. ASSUME NEW k \in Jobs
      PROVE  /\ phase'[k] = "absent" => tries'[k] = 0
             /\ phase'[k] = "pending" => tries'[k] < MaxAttempts
    <2>1. CASE k = cur
        BY <2>1, CommitsWith
    <2>2. CASE k # cur /\ k \in follow
        BY <2>2, CommitsWith, WorkerAssumption DEF WorkerInv
    <2>3. CASE k # cur /\ k \notin follow
        BY <2>3, CommitsWith DEF WorkerInv
    <2> QED  BY <2>1, <2>2, <2>3
<1> QED  BY <1>1, <1>2, <1>3, <1>4 DEF WorkerInv

(* A step that commits nothing. *)
LEMMA Advances ==
    ASSUME WorkerInv, NEW step, step \notin {"idle", "down"}, Busy, Advance(step),
           UNCHANGED tableVars
    PROVE  WorkerInv' /\ at' = step /\ UNCHANGED <<phase, tries, cur, crashes>>
<1>1. at' = step /\ UNCHANGED <<phase, tries, cur, crashes>>
    BY DEF Advance, tableVars
<1> QED  BY <1>1 DEF WorkerInv, Busy

(* The job's verdict, whichever it is: one attempt is spent, the row is not lost,
   and the worker is idle. *)
LEMMA Concludes ==
    ASSUME WorkerInv, Busy, Completed \/ Failed
    PROVE  /\ WorkerInv'
           /\ at' = "idle" /\ cur' = NoJob /\ crashes' = crashes
           /\ phase[cur] \in Undecided /\ phase'[cur] \in Phases \ {"absent", "running"}
           /\ \A k \in Jobs \ {cur} : phase'[k] = phase[k] /\ tries'[k] = tries[k]
           /\ tries'[cur] = tries[cur] + IF phase[cur] = "pending" THEN 1 ELSE 0
<1>1. /\ phase \in [Jobs -> Phases] /\ tries \in [Jobs -> 0..MaxAttempts]
      /\ cur \in Jobs /\ phase[cur] \in Undecided /\ MaxAttempts \in Nat
    BY WorkerAssumption DEF WorkerInv, Busy
<1>2. PICK p \in {"done", "pending", "failed"} : Q!Verdict(cur, p)
    BY DEF Completed, Failed
<1>3. at' = "idle" /\ cur' = NoJob /\ crashes' = crashes
    BY DEF Completed, Failed, Idle
<1>4. /\ Q!Spent(cur) =< MaxAttempts
      /\ p = "pending" => Q!Spent(cur) < MaxAttempts
      /\ phase' = [phase EXCEPT ![cur] = p]
      /\ tries' = [tries EXCEPT ![cur] = Q!Spent(cur)]
    BY <1>2 DEF Q!Verdict
<1>5. Q!Spent(cur) = tries[cur] + IF phase[cur] = "pending" THEN 1 ELSE 0
    BY DEF Q!Spent
<1>6. Q!Spent(cur) \in 0..MaxAttempts
    BY <1>1, <1>4, <1>5
<1>7. /\ phase' \in [Jobs -> Phases] /\ phase'[cur] = p
      /\ tries' \in [Jobs -> 0..MaxAttempts] /\ tries'[cur] = Q!Spent(cur)
      /\ \A k \in Jobs \ {cur} : phase'[k] = phase[k] /\ tries'[k] = tries[k]
    BY <1>1, <1>4, <1>6 DEF Phases
<1>8. ASSUME NEW k \in Jobs
      PROVE  /\ phase'[k] = "absent" => tries'[k] = 0
             /\ phase'[k] = "pending" => tries'[k] < MaxAttempts
    <2>1. CASE k = cur
        BY <1>2, <1>4, <1>7, <2>1
    <2>2. CASE k # cur
        BY <1>7, <2>2 DEF WorkerInv
    <2> QED  BY <2>1, <2>2
<1>9. WorkerInv'
    BY <1>3, <1>7, <1>8 DEF WorkerInv
<1> QED  BY <1>1, <1>2, <1>3, <1>5, <1>7, <1>9 DEF Phases

(* A death leaves the table as it is committed. *)
LEMMA Dies ==
    ASSUME WorkerInv, Died
    PROVE  /\ WorkerInv'
           /\ at' = "down" /\ cur' = NoJob /\ crashes' = crashes + 1
           /\ UNCHANGED <<phase, tries>>
<1>1. /\ at' = "down" /\ cur' = NoJob /\ crashes' = crashes + 1 /\ crashes < MaxCrashes
      /\ UNCHANGED <<phase, tries>>
    BY DEF Died, tableVars
<1>2. crashes' \in 0..MaxCrashes
    BY <1>1, WorkerAssumption DEF WorkerInv
<1> QED  BY <1>1, <1>2 DEF WorkerInv

(* A restart changes nothing in it. *)
LEMMA Restarts ==
    ASSUME WorkerInv, Restarted
    PROVE  WorkerInv' /\ at' = "idle" /\ cur' = NoJob /\ UNCHANGED <<phase, tries, cur,
                                                                     crashes>>
<1>1. at = "down" /\ at' = "idle" /\ UNCHANGED <<phase, tries, cur, crashes>>
    BY DEF Restarted, tableVars
<1> QED  BY <1>1 DEF WorkerInv

(* The shape the handlers' modules ask for. *)
LEMMA WorkerTyped ==
    ASSUME WorkerInv, NEW steps, at \in steps \union {"idle", "down"}
    PROVE  WorkerTypeOK(steps)
<1> QED  BY DEF WorkerInv, WorkerTypeOK, Phases

-----------------------------------------------------------------------------
(* The jobs table under a handler moves as the queue promises (WorkQueue). *)
Promised == [Q!Next]_(Q!wqVars)

(* A step that does not touch the table. *)
LEMMA TableKept ==
    ASSUME UNCHANGED <<phase, tries>>
    PROVE  Promised
<1> QED  BY DEF Promised, Q!wqVars

(* An enqueue is a Submit. *)
LEMMA SubmitPromised ==
    ASSUME NEW j \in Jobs, Submit(j)
    PROVE  Promised
<1>1. Q!Submit(j)
    BY DEF Submit
<1> QED  BY <1>1 DEF Promised, Q!Next

(* A commit with at most one follow-up job begins the attempt; if an earlier
   commit did, it submits the follow-up or changes nothing. *)
LEMMA CommitPromised ==
    ASSUME WorkerInv, Busy, CommitWith({}) \/ \E j \in Jobs : CommitWith({j})
    PROVE  Promised
<1>1. PICK follow \in SUBSET Jobs :
          CommitWith(follow) /\ (follow = {} \/ \E j \in Jobs : follow = {j})
    OBVIOUS
<1>2. /\ phase \in [Jobs -> Phases] /\ cur \in Jobs
    BY DEF WorkerInv, Busy
<1>3. CASE phase[cur] = "pending"
    <2>1. Q!Begin(cur, follow)
        BY <1>1, <1>3 DEF CommitWith
    <2> QED  BY <1>2, <2>1 DEF Promised, Q!Next
<1>4. CASE phase[cur] # "pending"
    <2>1. /\ \A k \in follow : phase[k] = "absent"
          /\ phase' = [k \in Jobs |-> IF k \in follow THEN "pending" ELSE phase[k]]
          /\ tries' = tries
        BY <1>1, <1>4 DEF CommitWith
    <2>2. CASE follow = {}
        <3>1. phase' = phase
            BY <1>2, <2>1, <2>2
        <3> QED  BY <2>1, <3>1, TableKept
    <2>3. ASSUME NEW j \in Jobs, follow = {j}
          PROVE  Promised
        <3>1. phase' = [phase EXCEPT ![j] = "pending"]
            BY <1>2, <2>1, <2>3
        <3>2. Q!Submit(j)
            BY <2>1, <2>3, <3>1 DEF Q!Submit
        <3> QED  BY <3>2 DEF Promised, Q!Next
    <2> QED  BY <1>1, <2>2, <2>3
<1> QED  BY <1>3, <1>4

(* The handler's end is a verdict. *)
LEMMA VerdictPromised ==
    ASSUME WorkerInv, Busy, Completed \/ Failed
    PROVE  Promised
<1>1. cur \in Jobs
    BY DEF WorkerInv, Busy
<1>2. \E p \in {"done", "pending", "failed"} : Q!Verdict(cur, p)
    BY DEF Completed, Failed
<1> QED  BY <1>1, <1>2 DEF Promised, Q!Next
=============================================================================
