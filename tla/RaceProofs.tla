----------------------------- MODULE RaceProofs -----------------------------
(***************************************************************************)
(* What is proved of parts whose tasks race: the drainers of one jobs      *)
(* table, the tasks of one conversation, and the lookup of its caller.     *)
(*                                                                         *)
(* The queue (JobQueue), for any number of jobs, drainers, attempts and    *)
(* crashes.  ExclusiveClaim and RunningIsAccountedFor are not inductive:   *)
(* that a second claim is impossible rests on what a drainer that holds a  *)
(* job knows about its row (Holds), and on the fact that an abandoned row  *)
(* never leaves 'running' (OrphansStay).                                   *)
(*                                                                         *)
(* The conversation (VoiceSession), for any number of turns and of faults. *)
(* That one turn at most is at work rests on what the recogniser last said *)
(* (TurnInv): while the caller talks there is none, and a turn on a guess  *)
(* is the draft, behind the gate.  What is heard before its time has got   *)
(* round the gate or outlived the recogniser (PlayInv).                    *)
(*                                                                         *)
(* The caller's context (CallerContext), for any agents and facts.  What   *)
(* the prompt will be made of is known while the greeting is still due     *)
(* (InHand), and the counts of a report follow its job (ReportedInTurn).   *)
(***************************************************************************)
EXTENDS JobQueue, VoiceSession, CallerContext, TLAPS

(***************************************************************************)
(* The queue                                                               *)
(***************************************************************************)

(* A claim is on a pending row until it is published, and on a running row
   that nobody abandoned afterwards. *)
Holds ==
    \A d \in Drainers :
        /\ pc[d] = "claimed"   => status[cur[d]] = "pending"
        /\ pc[d] = "published" => status[cur[d]] = "running" /\ cur[d] \notin orphan

OrphansStay == \A j \in orphan : status[j] = "running"

Untried == \A j \in Jobs : status[j] = "absent" => attempts[j] = 0

(* Every row that runs and is not abandoned is held. *)
RunningIsHeld ==
    \A j \in Jobs :
        status[j] = "running" /\ j \notin orphan =>
            \E d \in Drainers : pc[d] = "published" /\ cur[d] = j

IInv == /\ TypeOK
        /\ ExclusiveClaim
        /\ Holds
        /\ OrphansStay
        /\ Untried
        /\ RunningIsHeld
        /\ DeadLetterOnlyWhenExhausted

-----------------------------------------------------------------------------
(* One lemma per action: it preserves every part of the invariant. *)

(* A new row is pending with no attempt counted; nobody holds it yet. *)
LEMMA EnqueueKeeps ==
    ASSUME NEW j \in Jobs, IInv, Enqueue(j)
    PROVE  IInv'
<1> USE QueueAssumption DEF IInv, TypeOK, Statuses, Places, Busy,
           Enqueue, Insert
<1>1. TypeOK'
    BY DEF DeadLetterOnlyWhenExhausted, Holds
<1>2. ExclusiveClaim'
    BY DEF ExclusiveClaim, Holds
<1>3. Holds'
    BY DEF Holds, ExclusiveClaim, OrphansStay
<1>4. OrphansStay'
    BY DEF OrphansStay, Holds
<1>5. Untried'
    BY DEF Untried, Holds
<1>6. RunningIsHeld'
    BY DEF RunningIsHeld, Holds
<1>7. DeadLetterOnlyWhenExhausted'
    BY DEF DeadLetterOnlyWhenExhausted, Untried, Holds
<1> QED  BY <1>1, <1>2, <1>3, <1>4, <1>5, <1>6, <1>7

(* The claimed row is pending and unlocked, so no other drainer holds it. *)
LEMMA ClaimKeeps ==
    ASSUME NEW d \in Drainers, IInv, Claim(d)
    PROVE  IInv'
<1> USE QueueAssumption DEF IInv, TypeOK, Statuses, Places, Busy,
           Claim, Due, Locked
<1>1. TypeOK'
    BY DEF DeadLetterOnlyWhenExhausted, Holds
<1>2. ExclusiveClaim'
    BY DEF ExclusiveClaim, Holds
<1>3. Holds'
    BY DEF Holds, ExclusiveClaim, OrphansStay
<1>4. OrphansStay'
    BY DEF OrphansStay, Holds
<1>5. Untried'
    BY DEF Untried, Holds
<1>6. RunningIsHeld'
    BY DEF RunningIsHeld, Holds
<1>7. DeadLetterOnlyWhenExhausted'
    BY DEF DeadLetterOnlyWhenExhausted, Untried, Holds
<1> QED  BY <1>1, <1>2, <1>3, <1>4, <1>5, <1>6, <1>7

(* Publishing moves the holder's row, and only it, to running. *)
LEMMA HandlerCommitKeeps ==
    ASSUME NEW d \in Drainers, IInv, HandlerCommit(d)
    PROVE  IInv'
<1> USE QueueAssumption DEF IInv, TypeOK, Statuses, Places, Busy,
           HandlerCommit, SeenAttempts
<1>1. TypeOK'
    BY DEF DeadLetterOnlyWhenExhausted, Holds
<1>2. ExclusiveClaim'
    BY DEF ExclusiveClaim, Holds
<1>3. Holds'
    BY DEF Holds, ExclusiveClaim, OrphansStay
<1>4. OrphansStay'
    BY DEF OrphansStay, Holds
<1>5. Untried'
    BY DEF Untried, Holds
<1>6. RunningIsHeld'
    BY DEF RunningIsHeld, Holds
<1>7. DeadLetterOnlyWhenExhausted'
    BY DEF DeadLetterOnlyWhenExhausted, Untried, Holds
<1> QED  BY <1>1, <1>2, <1>3, <1>4, <1>5, <1>6, <1>7

(* As publishing, and the follow-up row starts untried. *)
LEMMA HandlerEnqueueKeeps ==
    ASSUME NEW d \in Drainers, NEW j \in Jobs, IInv, HandlerEnqueue(d, j)
    PROVE  IInv'
<1> USE QueueAssumption DEF IInv, TypeOK, Statuses, Places, Busy,
           HandlerEnqueue, SeenAttempts
<1>1. TypeOK'
    BY DEF DeadLetterOnlyWhenExhausted, Holds
<1>2. ExclusiveClaim'
    BY DEF ExclusiveClaim, Holds
<1>3. Holds'
    BY DEF Holds, ExclusiveClaim, OrphansStay
<1>4. OrphansStay'
    BY DEF OrphansStay, Holds
<1>5. Untried'
    BY DEF Untried, Holds
<1>6. RunningIsHeld'
    BY DEF RunningIsHeld, Holds
<1>7. DeadLetterOnlyWhenExhausted'
    BY DEF DeadLetterOnlyWhenExhausted, Untried, Holds
<1> QED  BY <1>1, <1>2, <1>3, <1>4, <1>5, <1>6, <1>7

(* The holder leaves its row done. *)
LEMMA CompleteKeeps ==
    ASSUME NEW d \in Drainers, IInv, Complete(d)
    PROVE  IInv'
<1> USE QueueAssumption DEF IInv, TypeOK, Statuses, Places, Busy,
           Complete, Release, SeenAttempts
<1>1. TypeOK'
    BY DEF DeadLetterOnlyWhenExhausted, Holds
<1>2. ExclusiveClaim'
    BY DEF ExclusiveClaim, Holds
<1>3. Holds'
    BY DEF Holds, ExclusiveClaim, OrphansStay
<1>4. OrphansStay'
    BY DEF OrphansStay, Holds
<1>5. Untried'
    BY DEF Untried, Holds
<1>6. RunningIsHeld'
    BY DEF RunningIsHeld, Holds
<1>7. DeadLetterOnlyWhenExhausted'
    BY DEF DeadLetterOnlyWhenExhausted, Untried, Holds
<1> QED  BY <1>1, <1>2, <1>3, <1>4, <1>5, <1>6, <1>7

(* The holder leaves its row failed at the bound, pending below it. *)
LEMMA FailKeeps ==
    ASSUME NEW d \in Drainers, IInv, Fail(d)
    PROVE  IInv'
<1> USE QueueAssumption DEF IInv, TypeOK, Statuses, Places, Busy,
           Fail, GiveUp, BackOff, Release, SeenAttempts
<1>1. TypeOK'
    BY DEF DeadLetterOnlyWhenExhausted, Holds
<1>2. ExclusiveClaim'
    BY DEF ExclusiveClaim, Holds
<1>3. Holds'
    BY DEF Holds, ExclusiveClaim, OrphansStay
<1>4. OrphansStay'
    BY DEF OrphansStay, Holds
<1>5. Untried'
    BY DEF Untried, Holds
<1>6. RunningIsHeld'
    BY DEF RunningIsHeld, Holds
<1>7. DeadLetterOnlyWhenExhausted'
  <2>1. cur[d] \in Jobs /\ SeenAttempts(d) \in 0..MaxAttempts
      BY DEF DeadLetterOnlyWhenExhausted, Holds
  <2>2. SUFFICES ASSUME NEW j \in Jobs
                 PROVE  /\ status'[j] = "failed" => attempts'[j] = MaxAttempts
                        /\ status'[j] = "pending" => attempts'[j] < MaxAttempts
      BY DEF DeadLetterOnlyWhenExhausted
  <2>3. CASE j # cur[d]
      BY <2>1, <2>3 DEF DeadLetterOnlyWhenExhausted
  <2>4. CASE j = cur[d] /\ GiveUp(d)
      BY <2>1, <2>4
  <2>5. CASE j = cur[d] /\ BackOff(d)
      BY <2>1, <2>5
  <2> QED  BY <2>3, <2>4, <2>5
<1> QED  BY <1>1, <1>2, <1>3, <1>4, <1>5, <1>6, <1>7

(* A death changes no committed row; a published one is abandoned. *)
LEMMA DieKeeps ==
    ASSUME NEW d \in Drainers, IInv, Die(d), crashes' \in Nat
    PROVE  IInv'
<1> USE QueueAssumption DEF IInv, TypeOK, Statuses, Places, Busy,
           Die, rows
<1>1. TypeOK'
    BY DEF DeadLetterOnlyWhenExhausted, Holds
<1>2. ExclusiveClaim'
    BY DEF ExclusiveClaim, Holds
<1>3. Holds'
    BY DEF Holds, ExclusiveClaim, OrphansStay
<1>4. OrphansStay'
    BY DEF OrphansStay, Holds
<1>5. Untried'
    BY DEF Untried, Holds
<1>6. RunningIsHeld'
    BY DEF RunningIsHeld, Holds
<1>7. DeadLetterOnlyWhenExhausted'
    BY DEF DeadLetterOnlyWhenExhausted, Untried, Holds
<1> QED  BY <1>1, <1>2, <1>3, <1>4, <1>5, <1>6, <1>7

(* A restarted drainer holds nothing. *)
LEMMA RestartKeeps ==
    ASSUME NEW d \in Drainers, IInv, Restart(d)
    PROVE  IInv'
<1> USE QueueAssumption DEF IInv, TypeOK, Statuses, Places, Busy,
           Restart, rows
<1>1. TypeOK'
    BY DEF DeadLetterOnlyWhenExhausted, Holds
<1>2. ExclusiveClaim'
    BY DEF ExclusiveClaim, Holds
<1>3. Holds'
    BY DEF Holds, ExclusiveClaim, OrphansStay
<1>4. OrphansStay'
    BY DEF OrphansStay, Holds
<1>5. Untried'
    BY DEF Untried, Holds
<1>6. RunningIsHeld'
    BY DEF RunningIsHeld, Holds
<1>7. DeadLetterOnlyWhenExhausted'
    BY DEF DeadLetterOnlyWhenExhausted, Untried, Holds
<1> QED  BY <1>1, <1>2, <1>3, <1>4, <1>5, <1>6, <1>7

(* Time changes only wait. *)
LEMMA TickKeeps ==
    ASSUME IInv, Tick
    PROVE  IInv'
<1> USE QueueAssumption DEF IInv, TypeOK, Statuses, Places, Busy,
           Tick
<1>1. TypeOK'
    BY DEF DeadLetterOnlyWhenExhausted, Holds
<1>2. ExclusiveClaim'
    BY DEF ExclusiveClaim, Holds
<1>3. Holds'
    BY DEF Holds, ExclusiveClaim, OrphansStay
<1>4. OrphansStay'
    BY DEF OrphansStay, Holds
<1>5. Untried'
    BY DEF Untried, Holds
<1>6. RunningIsHeld'
    BY DEF RunningIsHeld, Holds
<1>7. DeadLetterOnlyWhenExhausted'
    BY DEF DeadLetterOnlyWhenExhausted, Untried, Holds
<1> QED  BY <1>1, <1>2, <1>3, <1>4, <1>5, <1>6, <1>7

LEMMA StepKeeps ==
    ASSUME IInv, [Next]_vars
    PROVE  IInv'
<1>1. ASSUME NEW j \in Jobs, Enqueue(j) PROVE IInv'
    BY <1>1, EnqueueKeeps
<1>2. ASSUME NEW d \in Drainers, Drain(d) PROVE IInv'
  <2>1. CASE Claim(d)
      BY <2>1, ClaimKeeps
  <2>2. CASE HandlerCommit(d)
      BY <2>2, HandlerCommitKeeps
  <2>3. CASE \E j \in Jobs : HandlerEnqueue(d, j)
      BY <2>3, HandlerEnqueueKeeps
  <2>4. CASE Complete(d)
      BY <2>4, CompleteKeeps
  <2>5. CASE Fail(d)
      BY <2>5, FailKeeps
  <2>6. CASE DatabaseError(d)
      BY <2>6, DieKeeps DEF DatabaseError, IInv, TypeOK
  <2> QED  BY <1>2, <2>1, <2>2, <2>3, <2>4, <2>5, <2>6 DEF Drain
<1>3. ASSUME NEW d \in Drainers, Crash(d) PROVE IInv'
    BY <1>3, DieKeeps DEF Crash, IInv, TypeOK
<1>4. ASSUME NEW d \in Drainers, Restart(d) PROVE IInv'
    BY <1>4, RestartKeeps
<1>5. CASE Tick
    BY <1>5, TickKeeps
<1>6. CASE UNCHANGED vars
    BY <1>6 DEF vars, IInv, TypeOK, ExclusiveClaim, Holds, OrphansStay, Untried,
                RunningIsHeld, DeadLetterOnlyWhenExhausted, Busy
<1> QED  BY <1>1, <1>2, <1>3, <1>4, <1>5, <1>6 DEF Next

(* The inductive invariant holds in every reachable state. *)
THEOREM Invariance == Spec => []IInv
<1>1. Init => IInv
    BY QueueAssumption DEF Init, IInv, TypeOK, ExclusiveClaim, Holds, OrphansStay,
       Untried, RunningIsHeld, DeadLetterOnlyWhenExhausted, Statuses, Places, Busy
<1> QED  BY <1>1, StepKeeps, PTL DEF Spec

-----------------------------------------------------------------------------
(* The queue's variables keep their types (worker.py drain_loop: a drainer
   holds a job exactly while it runs a handler). *)
THEOREM TypeCorrect == Spec => []TypeOK
<1>1. IInv => TypeOK
    BY DEF IInv
<1> QED  BY <1>1, Invariance, PTL

(* However many drainers run and crash, no two of them ever execute the same
   job (queue.py:3, "multiple drainers never grab the same job"). *)
THEOREM NeverGrabTheSameJob == Spec => []ExclusiveClaim
<1>1. IInv => ExclusiveClaim
    BY DEF IInv
<1> QED  BY <1>1, Invariance, PTL

(* A row is dead-lettered only after MAX_ATTEMPTS attempts, and every waiting
   row still has one (queue.fail). *)
THEOREM DeadLettering == Spec => []DeadLetterOnlyWhenExhausted
<1>1. IInv => DeadLetterOnlyWhenExhausted
    BY DEF IInv
<1> QED  BY <1>1, Invariance, PTL

(* A 'running' row has a live executor, or it was abandoned by a crash after a
   handler's commit and is then executed by nobody. *)
THEOREM RunningRows == Spec => []RunningIsAccountedFor
<1>1. ASSUME IInv PROVE RunningIsAccountedFor
  <2>1. SUFFICES ASSUME NEW j \in Jobs, status[j] = "running"
                 PROVE  \/ j \in orphan /\ \A d \in Drainers : cur[d] # j
                        \/ j \notin orphan /\ \E d \in Drainers :
                                                   pc[d] = "published" /\ cur[d] = j
      BY DEF RunningIsAccountedFor
  <2>2. CASE j \in orphan
    <3>1. ASSUME NEW d \in Drainers, cur[d] = j PROVE FALSE
      <4>1. Busy(d)
          BY <1>1, <3>1, QueueAssumption DEF IInv, TypeOK
      <4> QED  BY <1>1, <3>1, <4>1, <2>1, <2>2 DEF IInv, Holds, Busy
    <3> QED  BY <2>2, <3>1
  <2>3. CASE j \notin orphan
      BY <1>1, <2>1, <2>3 DEF IInv, RunningIsHeld
  <2> QED  BY <2>2, <2>3
<1> QED  BY <1>1, Invariance, PTL

LEMMA FinalForOneRow ==
    ASSUME IInv, [Next]_vars, NEW j \in Jobs
    PROVE  /\ status[j] \in {"done", "failed"} => status'[j] = status[j]
           /\ attempts'[j] >= attempts[j]
<1> USE DEF IInv, TypeOK, Holds, Busy
<1>1. ASSUME NEW k \in Jobs, Enqueue(k)
      PROVE  /\ status[j] \in {"done", "failed"} => status'[j] = status[j]
             /\ attempts'[j] >= attempts[j]
    BY <1>1 DEF Enqueue, Insert
<1>2. ASSUME NEW d \in Drainers, Drain(d)
      PROVE  /\ status[j] \in {"done", "failed"} => status'[j] = status[j]
             /\ attempts'[j] >= attempts[j]
  <2> USE QueueAssumption DEF SeenAttempts
  <2>1. CASE Claim(d)
      BY <2>1 DEF Claim
  <2>2. CASE HandlerCommit(d)
      BY <2>2 DEF HandlerCommit
  <2>3. CASE \E k \in Jobs : HandlerEnqueue(d, k)
      BY <2>3 DEF HandlerEnqueue
  <2>4. CASE Complete(d)
      BY <2>4 DEF Complete
  <2>5. CASE Fail(d)
      BY <2>5 DEF Fail, GiveUp, BackOff
  <2>6. CASE DatabaseError(d)
      BY <2>6 DEF DatabaseError, Die, rows
  <2> QED  BY <1>2, <2>1, <2>2, <2>3, <2>4, <2>5, <2>6 DEF Drain
<1>3. ASSUME NEW d \in Drainers, Crash(d) \/ Restart(d)
      PROVE  /\ status[j] \in {"done", "failed"} => status'[j] = status[j]
             /\ attempts'[j] >= attempts[j]
    BY <1>3 DEF Crash, Die, Restart, rows
<1>4. CASE Tick
    BY <1>4 DEF Tick
<1>5. CASE UNCHANGED vars
    BY <1>5 DEF vars
<1> QED  BY <1>1, <1>2, <1>3, <1>4, <1>5 DEF Next

(* Every committed row is what its status says: the three facts the run checks
   together. *)
THEOREM RowsAreAccountedFor == Spec => []RowsAccountedFor
<1> QED  BY TypeCorrect, RunningRows, DeadLettering, PTL DEF RowsAccountedFor

(* Verdicts are final: no step changes a done or failed row, hands it to a
   drainer, or forgets an attempt. *)
THEOREM FinalVerdicts == Spec => VerdictsAreFinal
<1>1. ASSUME IInv, IInv', [Next]_vars PROVE FinalStep
  <2>1. ASSUME NEW j \in Jobs, status[j] \in {"done", "failed"}, NEW d \in Drainers
        PROVE  cur'[d] # j
    <3>1. status'[j] \in {"done", "failed"}
        BY <1>1, <2>1, FinalForOneRow
    <3>2. cur'[d] = j => Busy(d)'
        BY <1>1, <2>1, QueueAssumption DEF IInv, TypeOK
    <3>3. Busy(d)' => status'[cur'[d]] \in {"pending", "running"}
        BY <1>1 DEF IInv, Holds, Busy
    <3> QED  BY <3>1, <3>2, <3>3
  <2> QED  BY <1>1, <2>1, FinalForOneRow DEF FinalStep
<1> QED  BY <1>1, Invariance, PTL DEF Spec, VerdictsAreFinal

-----------------------------------------------------------------------------
(* Each action of the queue is a step of WorkQueue or leaves its rows alone. *)

LEMMA PublishIsBegin ==
    ASSUME IInv, NEW d \in Drainers, NEW follow \in SUBSET Jobs,
           pc[d] = "claimed",
           \A k \in follow : status[k] = "absent",
           status' = [k \in Jobs |-> IF k = cur[d] THEN "running"
                                     ELSE IF k \in follow THEN "pending" ELSE status[k]],
           attempts' = [attempts EXCEPT ![cur[d]] = SeenAttempts(d)]
    PROVE  Promise!Next
<1>1. cur[d] \in Jobs
    BY DEF IInv, TypeOK, Busy
<1>2. Promise!Begin(cur[d], follow)
    BY <1>1 DEF Promise!Begin, IInv, TypeOK, Holds, Busy, SeenAttempts,
                DeadLetterOnlyWhenExhausted
<1> QED  BY <1>1, <1>2 DEF Promise!Next

LEMMA VerdictIsVerdict ==
    ASSUME IInv, NEW d \in Drainers, Busy(d), NEW p \in {"done", "pending", "failed"},
           p = "pending" => SeenAttempts(d) < MaxAttempts,
           p = "failed" => SeenAttempts(d) >= MaxAttempts,
           status' = [status EXCEPT ![cur[d]] = p],
           attempts' = [attempts EXCEPT ![cur[d]] = SeenAttempts(d)]
    PROVE  Promise!Next
<1>1. cur[d] \in Jobs
    BY DEF IInv, TypeOK
<1>2. Promise!Spent(cur[d]) = SeenAttempts(d)
    BY <1>1 DEF IInv, Holds, Busy, Promise!Spent, SeenAttempts
<1>3. SeenAttempts(d) \in 0..MaxAttempts
    BY <1>1, QueueAssumption DEF IInv, TypeOK, Holds, Busy, SeenAttempts,
       DeadLetterOnlyWhenExhausted
<1>4. status[cur[d]] \in {"pending", "running"}
    BY DEF IInv, Holds, Busy
<1>5. /\ p = "pending" => Promise!Spent(cur[d]) < MaxAttempts
      /\ p = "failed"  => Promise!Spent(cur[d]) = MaxAttempts
    BY <1>2, <1>3, QueueAssumption
<1>6. Promise!Spent(cur[d]) =< MaxAttempts
    BY <1>2, <1>3, QueueAssumption
<1>7. Promise!Verdict(cur[d], p)
    BY <1>2, <1>4, <1>5, <1>6 DEF Promise!Verdict
<1> QED  BY <1>1, <1>7 DEF Promise!Next

LEMMA PublishedEnqueueIsSubmit ==
    ASSUME IInv, NEW d \in Drainers, NEW j \in Jobs, HandlerEnqueue(d, j), pc[d] # "claimed"
    PROVE  Promise!Next
<1>1. cur[d] \in Jobs /\ status[cur[d]] = "running"
    BY DEF HandlerEnqueue, IInv, TypeOK, Holds, Busy
<1>2. attempts' = attempts
    BY <1>1, QueueAssumption DEF HandlerEnqueue, SeenAttempts, IInv, TypeOK
<1>3. status' = [status EXCEPT ![j] = "pending"] /\ status[j] = "absent"
    BY <1>1 DEF HandlerEnqueue, IInv, TypeOK
<1> QED  BY <1>2, <1>3 DEF Promise!Submit, Promise!Next

(* The queue keeps the promise WorkQueue makes to the code that enqueues. *)
THEOREM ImplementsWorkQueue == Spec => KeepsPromise
<1>1. Init => Promise!Init
    BY DEF Init, Promise!Init
<1>2. ASSUME IInv, [Next]_vars PROVE [Promise!Next]_(Promise!wqVars)
  <2> USE <1>2
  <2>1. ASSUME NEW j \in Jobs, Enqueue(j) PROVE Promise!Next
      BY <2>1 DEF Enqueue, Insert, Promise!Submit, Promise!Next
  <2>2. ASSUME NEW d \in Drainers, HandlerCommit(d) PROVE Promise!Next
    <3>1. status' = [k \in Jobs |-> IF k = cur[d] THEN "running"
                                    ELSE IF k \in {} THEN "pending" ELSE status[k]]
        BY <2>2 DEF HandlerCommit, IInv, TypeOK
    <3>2. {} \in SUBSET Jobs /\ \A k \in {} : status[k] = "absent"
        OBVIOUS
    <3>3. /\ pc[d] = "claimed"
          /\ attempts' = [attempts EXCEPT ![cur[d]] = SeenAttempts(d)]
        BY <2>2 DEF HandlerCommit
    <3> QED  BY <3>1, <3>2, <3>3, PublishIsBegin
  <2>3. ASSUME NEW d \in Drainers, NEW j \in Jobs, HandlerEnqueue(d, j)
        PROVE  Promise!Next
    <3>1. CASE pc[d] = "claimed"
      <4>1. status' = [k \in Jobs |-> IF k = cur[d] THEN "running"
                                      ELSE IF k \in {j} THEN "pending" ELSE status[k]]
          BY <2>3, <3>1 DEF HandlerEnqueue, IInv, TypeOK, Holds
      <4>2. {j} \in SUBSET Jobs /\ \A k \in {j} : status[k] = "absent"
          BY <2>3 DEF HandlerEnqueue
      <4>3. attempts' = [attempts EXCEPT ![cur[d]] = SeenAttempts(d)]
          BY <2>3 DEF HandlerEnqueue
      <4> QED  BY <3>1, <4>1, <4>2, <4>3, PublishIsBegin
    <3>2. CASE pc[d] # "claimed"
        BY <2>3, <3>2, PublishedEnqueueIsSubmit
    <3> QED  BY <3>1, <3>2
  <2>4. ASSUME NEW d \in Drainers, Complete(d) PROVE Promise!Next
      BY <2>4, VerdictIsVerdict DEF Complete
  <2>5. ASSUME NEW d \in Drainers, Fail(d) PROVE Promise!Next
    <3>1. CASE GiveUp(d)
        BY <2>5, <3>1, VerdictIsVerdict DEF Fail, GiveUp
    <3>2. CASE BackOff(d)
        BY <2>5, <3>2, VerdictIsVerdict DEF Fail, BackOff
    <3> QED  BY <2>5, <3>1, <3>2 DEF Fail
  <2>6. ASSUME NEW d \in Drainers, Claim(d) \/ DatabaseError(d) \/ Crash(d) \/ Restart(d)
        PROVE  UNCHANGED Promise!wqVars
      BY <2>6 DEF Claim, DatabaseError, Crash, Die, Restart, rows, Promise!wqVars
  <2>7. CASE Tick \/ UNCHANGED vars
      BY <2>7 DEF Tick, vars, Promise!wqVars
  <2> QED  BY <2>1, <2>2, <2>3, <2>4, <2>5, <2>6, <2>7 DEF Next, Drain
<1> QED  BY <1>1, <1>2, Invariance, PTL DEF Spec, KeepsPromise, Promise!Spec

(***************************************************************************)
(* The conversation                                                        *)
(***************************************************************************)

Ports == {"none", "failed", "end_call", "exit", "default", "taken_over"}

SessionTyped ==
    /\ request \in {"creating", "attaching", "waiting", "tearing", "answered"}
    /\ answer \in Ports /\ port \in Ports
    /\ leg \in {"none", "up", "gone"} /\ bridge \in {"none", "up", "gone"}
    /\ join \in {"none", "due", "ignored", "bridging", "joining", "joined", "failed"}
    /\ caller \in {"live", "gone", "dropped"}
    /\ sock \in {"none", "greeting", "open", "closing", "closed"}
    /\ error \in BOOLEAN /\ done \in BOOLEAN
    /\ faults \in 0..MaxFaults

TalkTyped ==
    /\ stt \in {"none", "stream", "local", "deaf", "dead"}
    /\ vendor \in {"quiet", "talking", "guessed"} /\ gate \in BOOLEAN
    /\ at \in [Turns -> Live \union {"none", "over", "cut"}]
    /\ turn \in Turns \union {NoTurn} /\ draft \in Turns \union {NoTurn}
    /\ confirmed \subseteq Turns /\ calls \subseteq Turns /\ play \subseteq Turns
    /\ early \subseteq Turns \X {"gate", "fallback"}

(* A turn at work is the conversation's own; while the caller talks there is none,
   and one whose utterance has not ended is the draft, behind the gate. *)
TurnInv ==
    /\ \A t \in Turns : Alive(t) => t = turn
    /\ vendor = "talking" => \A t \in Turns : ~Alive(t)
    /\ vendor = "guessed" => \A t \in Turns : Alive(t) => t \notin confirmed
    /\ \A t \in Turns : Alive(t) /\ t \notin confirmed =>
          vendor = "guessed" /\ t = draft /\ (~gate \/ stt = "dead")
    /\ ~gate => vendor = "guessed"
    /\ \A t \in Turns : at[t] = "none" => t \notin confirmed

(* What is heard early has come by the blocking call, which has no gate, or after
   the recogniser's death, which opens it. *)
PlayInv ==
    /\ \A t \in play \ confirmed : <<t, "fallback">> \in early \/ stt = "dead"
    /\ \A t \in play : at[t] = "cut" => <<t, "fallback">> \in early
    /\ \A t \in Turns : <<t, "gate">> \in early => stt = "dead"

(* The recogniser belongs to a connection, and an answer to a session that ends. *)
PlaceInv ==
    /\ stt # "none" => sock # "none"
    /\ answer # "none" => request \in {"tearing", "answered"}

VoiceInv == SessionTyped /\ TalkTyped /\ TurnInv /\ PlayInv /\ PlaceInv /\ EndIsTold

-----------------------------------------------------------------------------
(* The types say no more and no less than the module's. *)
LEMMA SessionTypes == SessionTypeOK <=> SessionTyped /\ TalkTyped
<1> QED  BY DEF SessionTypeOK, SessionTyped, TalkTyped, Ports

(* A fault is counted. *)
LEMMA FaultCounts ==
    ASSUME SessionTyped, UNCHANGED faults \/ Fault
    PROVE  faults' \in 0..MaxFaults
<1> QED  BY VoiceAssumption DEF SessionTyped, Fault

(* After cancelling its turn the conversation has none at work. *)
LEMMA Cuts ==
    ASSUME TalkTyped, TurnInv, at' = Cancelled(turn)
    PROVE  /\ at' \in [Turns -> Live \union {"none", "over", "cut"}]
           /\ \A t \in Turns : /\ at'[t] \notin Live
                               /\ at'[t] = "none" => at[t] = "none"
                               /\ at'[t] = "cut" => at[t] = "cut" \/ Alive(t)
<1>1. at \in [Turns -> Live \union {"none", "over", "cut"}] /\ "cut" \notin Live
    BY DEF TalkTyped, Live
<1>2. \A t \in Turns : Alive(t) => t = turn
    BY DEF TurnInv
<1>3. CASE Alive(turn)
    <2>1. at' = [at EXCEPT ![turn] = "cut"] /\ turn \in Turns
        BY <1>3 DEF Cancelled, Alive
    <2> QED  BY <1>1, <1>2, <1>3, <2>1 DEF Alive
<1>4. CASE ~Alive(turn)
    <2>1. at' = at
        BY <1>4 DEF Cancelled
    <2> QED  BY <1>1, <1>2, <1>4, <2>1 DEF Alive
<1> QED  BY <1>3, <1>4

(* A turn is begun where there was none. *)
LEMMA Begins ==
    ASSUME TalkTyped, NEW t \in Turns, NEW old \in [Turns -> Live \union {"none", "over", "cut"}],
           at' = [old EXCEPT ![t] = "thinking"]
    PROVE  /\ at' \in [Turns -> Live \union {"none", "over", "cut"}]
           /\ at'[t] = "thinking" /\ \A u \in Turns : u # t => at'[u] = old[u]
<1> QED  BY DEF Live

-----------------------------------------------------------------------------
(* The conversation *)

TalkInv == TalkTyped /\ TurnInv /\ PlayInv

(* Nothing is said and nothing heard. *)
LEMMA Silence ==
    ASSUME TalkInv, UNCHANGED <<stt, vendor, gateVars, turnVars>>
    PROVE  TalkInv'
<1>1. UNCHANGED <<stt, vendor, turn, draft, gate, at, confirmed, calls, play, early>>
    BY DEF gateVars, turnVars
<1> QED  BY <1>1 DEF TalkInv, TalkTyped, TurnInv, PlayInv, Alive

(* The recogniser is opened, with the connection. *)
LEMMA ConnectedTalks ==
    ASSUME TalkInv, PlaceInv, Connected
    PROVE  TalkInv'
<1>1. /\ UNCHANGED <<vendor, turn, draft, gate, at, confirmed, calls, play, early>>
      /\ sock = "none" /\ stt' \in {"stream", "local"}
    BY DEF Connected, gateVars, turnVars
<1>2. stt = "none"
    BY <1>1 DEF PlaceInv
<1> QED  BY <1>1, <1>2 DEF TalkInv, TalkTyped, TurnInv, PlayInv, Alive

(* The connection closes: the gate opens upon nobody. *)
LEMMA ClosedTalks ==
    ASSUME TalkInv, Closed
    PROVE  TalkInv'
<1>1. /\ at' = Cancelled(turn) /\ gate' = TRUE /\ play' = {}
      /\ UNCHANGED <<stt, vendor, turn, draft, confirmed, calls, early>>
    BY DEF Closed
<1>2. /\ at' \in [Turns -> Live \union {"none", "over", "cut"}]
      /\ \A t \in Turns : at'[t] \notin Live /\ (at'[t] = "none" => at[t] = "none")
    BY <1>1, Cuts DEF TalkInv
<1> QED  BY <1>1, <1>2 DEF TalkInv, TalkTyped, TurnInv, PlayInv, Alive

(* The caller talks: the turn is cut and its sentences are dropped. *)
LEMMA StartOfTurnTalks ==
    ASSUME TalkInv, StartOfTurn
    PROVE  TalkInv'
<1>1. /\ at' = Cancelled(turn) /\ play' = {} /\ vendor = "quiet" /\ vendor' = "talking"
      /\ draft' \in {draft, NoTurn}
      /\ UNCHANGED <<stt, turn, gate, confirmed, calls, early>>
    BY DEF StartOfTurn, eventless
<1>2. /\ at' \in [Turns -> Live \union {"none", "over", "cut"}]
      /\ \A t \in Turns : at'[t] \notin Live /\ (at'[t] = "none" => at[t] = "none")
    BY <1>1, Cuts DEF TalkInv
<1> QED  BY <1>1, <1>2 DEF TalkInv, TalkTyped, TurnInv, PlayInv, Alive

(* A turn is drafted behind the gate. *)
LEMMA EagerEndTalks ==
    ASSUME TalkInv, NEW t \in Turns, EagerEnd(t)
    PROVE  TalkInv'
<1>1. /\ vendor = "talking" /\ vendor' = "guessed" /\ at[t] = "none"
      /\ at' = [at EXCEPT ![t] = "thinking"] /\ turn' = t /\ draft' = t /\ gate' = FALSE
      /\ UNCHANGED <<stt, calls, early, play, confirmed>>
    BY DEF EagerEnd, eventless, Fresh
<1>2. /\ at' \in [Turns -> Live \union {"none", "over", "cut"}]
      /\ at'[t] = "thinking" /\ \A u \in Turns : u # t => at'[u] = at[u]
    BY <1>1, Begins DEF TalkInv, TalkTyped
<1>3. t \notin confirmed /\ \A u \in Turns : at[u] \notin Live
    BY <1>1 DEF TalkInv, TurnInv, Alive
<1>4. TalkTyped'
    BY <1>1, <1>2 DEF TalkInv, TalkTyped
<1>5. TurnInv'
    BY <1>1, <1>2, <1>3 DEF TalkInv, TurnInv, Alive
<1>6. PlayInv'
    BY <1>1, <1>2 DEF TalkInv, TalkTyped, PlayInv
<1> QED  BY <1>4, <1>5, <1>6 DEF TalkInv

(* The caller goes on: the draft is cut, and what it has said got round the gate. *)
LEMMA ResumedTalks ==
    ASSUME TalkInv, Resumed
    PROVE  TalkInv'
<1>1. /\ at' = Cancelled(turn) /\ vendor = "guessed" /\ vendor' = "talking" /\ stt = "stream"
      /\ draft' = NoTurn /\ gate' = TRUE
      /\ UNCHANGED <<stt, turn, play, confirmed, calls, early>>
    BY DEF Resumed, eventless, streaming
<1>2. /\ at' \in [Turns -> Live \union {"none", "over", "cut"}]
      /\ \A t \in Turns : /\ at'[t] \notin Live /\ (at'[t] = "none" => at[t] = "none")
                          /\ at'[t] = "cut" => at[t] = "cut" \/ Alive(t)
    BY <1>1, Cuts DEF TalkInv
<1>3. TalkTyped' /\ TurnInv'
    BY <1>1, <1>2 DEF TalkInv, TalkTyped, TurnInv, Alive
<1>4. PlayInv'
    BY <1>1, <1>2 DEF TalkInv, TalkTyped, TurnInv, PlayInv
<1> QED  BY <1>3, <1>4 DEF TalkInv

(* The utterance ends as predicted. *)
LEMMA DraftHitTalks ==
    ASSUME TalkInv, DraftHit
    PROVE  TalkInv'
<1>1. /\ vendor = "guessed" /\ Alive(draft) /\ vendor' = "quiet" /\ gate' = TRUE
      /\ confirmed' = confirmed \union {draft}
      /\ UNCHANGED <<stt, at, turn, draft, play, calls, early>>
    BY DEF DraftHit, eventless
<1>2. draft \in Turns /\ at[draft] # "none"
    BY <1>1 DEF Alive, Live
<1>3. TalkTyped' /\ PlayInv'
    BY <1>1, <1>2 DEF TalkInv, TalkTyped, PlayInv
<1>4. TurnInv'
    BY <1>1, <1>2 DEF TalkInv, TurnInv, Alive
<1> QED  BY <1>3, <1>4 DEF TalkInv

(* The utterance ends and is answered afresh; a draft of another wording is cut. *)
LEMMA EndOfTurnTalks ==
    ASSUME TalkInv, NEW t \in Turns, EndOfTurn(t)
    PROVE  TalkInv'
<1> DEFINE old == IF Alive(draft) THEN Cancelled(turn) ELSE at
<1>1. /\ vendor \in {"talking", "guessed"} /\ vendor' = "quiet" /\ stt = "stream"
      /\ at[t] = "none" /\ draft' \in {draft, NoTurn} /\ gate' = TRUE
      /\ at' = [old EXCEPT ![t] = "thinking"]
      /\ turn' = t /\ confirmed' = confirmed \union {t}
      /\ UNCHANGED <<stt, play, calls, early>>
    BY DEF EndOfTurn, eventless, streaming, Fresh
<1>2. /\ old \in [Turns -> Live \union {"none", "over", "cut"}]
      /\ \A u \in Turns : /\ old[u] \notin Live /\ (old[u] = "none" => at[u] = "none")
                          /\ old[u] = "cut" =>
                                \/ at[u] = "cut"
                                \/ Alive(u) /\ u \notin confirmed
    <2>1. CASE Alive(draft)
        <3>1. \A u \in Turns : Alive(u) => u \notin confirmed
            BY <1>1, <2>1 DEF TalkInv, TurnInv
        <3>2. CASE Alive(turn)
            BY <2>1, <3>1, <3>2 DEF Cancelled, TalkInv, TalkTyped, TurnInv, Alive, Live
        <3>3. CASE ~Alive(turn)
            BY <2>1, <3>1, <3>3 DEF Cancelled, TalkInv, TalkTyped, TurnInv, Alive, Live
        <3> QED  BY <3>2, <3>3
    <2>2. CASE ~Alive(draft)
        BY <1>1, <2>2 DEF TalkInv, TalkTyped, TurnInv, Alive
    <2> QED  BY <2>1, <2>2
<1> HIDE DEF old
<1>3. /\ at' \in [Turns -> Live \union {"none", "over", "cut"}]
      /\ at'[t] = "thinking" /\ \A u \in Turns : u # t => at'[u] = old[u]
    BY <1>1, <1>2, Begins DEF TalkInv
<1>4. TalkTyped'
    BY <1>1, <1>3 DEF TalkInv, TalkTyped
<1>5. TurnInv'
    BY <1>1, <1>2, <1>3 DEF TalkInv, TurnInv, Alive
<1>6. PlayInv'
    BY <1>1, <1>2, <1>3 DEF TalkInv, TalkTyped, PlayInv
<1> QED  BY <1>4, <1>5, <1>6 DEF TalkInv

(* The local detector's end of an utterance: no turn is at work by then. *)
LEMMA LocalEndTalks ==
    ASSUME TalkInv, NEW t \in Turns, LocalEnd(t)
    PROVE  TalkInv'
<1>1. /\ vendor = "talking" /\ vendor' = "quiet" /\ at[t] = "none"
      /\ at' = [at EXCEPT ![t] = "thinking"] /\ turn' = t /\ confirmed' = confirmed \union {t}
      /\ UNCHANGED <<stt, calls, early, play, draft, gate>>
    BY DEF LocalEnd, eventless, Fresh
<1>2. /\ at' \in [Turns -> Live \union {"none", "over", "cut"}]
      /\ at'[t] = "thinking" /\ \A u \in Turns : u # t => at'[u] = at[u]
    BY <1>1, Begins DEF TalkInv, TalkTyped
<1>3. \A u \in Turns : at[u] \notin Live
    BY <1>1 DEF TalkInv, TurnInv, Alive
<1>4. TalkTyped'
    BY <1>1, <1>2 DEF TalkInv, TalkTyped
<1>5. TurnInv'
    BY <1>1, <1>2, <1>3 DEF TalkInv, TurnInv, Alive
<1>6. PlayInv'
    BY <1>1, <1>2 DEF TalkInv, TalkTyped, PlayInv
<1> QED  BY <1>4, <1>5, <1>6 DEF TalkInv

(* An utterance that comes to nothing. *)
LEMMA NothingSaidTalks ==
    ASSUME TalkInv, NothingSaid
    PROVE  TalkInv'
<1>1. /\ vendor = "talking" /\ vendor' = "quiet"
      /\ UNCHANGED <<stt, turn, draft, gate, at, confirmed, calls, play, early>>
    BY DEF NothingSaid, eventless, gateVars
<1> QED  BY <1>1 DEF TalkInv, TalkTyped, TurnInv, PlayInv, Alive

(* The recogniser dies, which opens the gate, or goes deaf. *)
LEMMA StreamEndsTalks ==
    ASSUME TalkInv, StreamDies \/ StreamCloses
    PROVE  TalkInv'
<1>1. /\ stt = "stream"
      /\ (stt' = "dead" /\ gate' = TRUE) \/ (stt' = "deaf" /\ gate' = gate)
      /\ UNCHANGED <<vendor, turn, draft, at, confirmed, calls, play, early>>
    BY DEF StreamDies, StreamCloses, streaming, gateVars, turnVars
<1>2. TalkTyped'
    BY <1>1 DEF TalkInv, TalkTyped
<1>3. TurnInv'
    BY <1>1 DEF TalkInv, TalkTyped, TurnInv, Alive
<1>4. PlayInv'
    BY <1>1 DEF TalkInv, PlayInv
<1> QED  BY <1>2, <1>3, <1>4 DEF TalkInv

(* A step of a turn at work, which stays at work or is over. *)
LEMMA TurnWorks ==
    ASSUME TalkInv, NEW t \in Turns, at[t] \in Live,
           NEW s \in Live \union {"over"}, at' = [at EXCEPT ![t] = s],
           UNCHANGED <<stt, vendor, turn, draft, gate, confirmed>>,
           calls' \subseteq Turns, play' \subseteq Turns, early' \subseteq Turns \X {"gate", "fallback"}
    PROVE  /\ TalkTyped' /\ TurnInv'
           /\ \A u \in Turns : at'[u] = "cut" => at[u] = "cut" /\ u # t
<1>1. at \in [Turns -> Live \union {"none", "over", "cut"}]
    BY DEF TalkInv, TalkTyped
<1>2. /\ at' \in [Turns -> Live \union {"none", "over", "cut"}]
      /\ at'[t] = s /\ \A u \in Turns : u # t => at'[u] = at[u]
    BY <1>1
<1>3. s # "cut" /\ s # "none"
    BY DEF Live
<1>4. TalkTyped'
    BY <1>2 DEF TalkInv, TalkTyped
<1>5. TurnInv'
    BY <1>2, <1>3 DEF TalkInv, TurnInv, Alive
<1> QED  BY <1>2, <1>3, <1>4, <1>5

(* A turn's steps, whatever it has reached. *)
LEMMA TurnTalks ==
    ASSUME TalkInv, NEW t \in Turns, Work(t) \/ Ignored(t) \/ ToolCall(t) \/ TurnFails(t)
    PROVE  TalkInv'
<1>1. UNCHANGED <<stt, vendor, turn, draft, gate, confirmed>>
    BY DEF Work, Answers, Speaks, FallsBack, Dispatches, Exits, Ignored, ToolCall, TurnFails,
           taskless, gateVars
<1>2. ASSUME NEW s \in Live \union {"over"}, at[t] \in Live, at' = [at EXCEPT ![t] = s],
             calls' \subseteq Turns, UNCHANGED <<play, early>>
      PROVE  TalkInv'
    <2>1. play' \subseteq Turns /\ early' \subseteq Turns \X {"gate", "fallback"}
        BY <1>2 DEF TalkInv, TalkTyped
    <2>2. /\ TalkTyped' /\ TurnInv'
          /\ \A u \in Turns : at'[u] = "cut" => at[u] = "cut" /\ u # t
        BY <1>1, <1>2, <2>1, TurnWorks
    <2>3. PlayInv'
        BY <1>1, <1>2, <2>2 DEF TalkInv, TalkTyped, PlayInv
    <2> QED  BY <2>2, <2>3 DEF TalkInv
<1>3. ASSUME NEW how \in {"gate", "fallback"}, at[t] \in Live,
             at' = [at EXCEPT ![t] = "speaking"], play' = play \union {t}, Heard(t, how),
             UNCHANGED calls, how = "gate" => at[t] = "held" /\ gate
      PROVE  TalkInv'
    <2>1. /\ early' = IF t \in confirmed THEN early ELSE early \union {<<t, how>>}
          /\ calls' \subseteq Turns /\ play' \subseteq Turns
          /\ early' \subseteq Turns \X {"gate", "fallback"}
        BY <1>3 DEF Heard, TalkInv, TalkTyped
    <2>2. "speaking" \in Live
        BY DEF Live
    <2>3. /\ TalkTyped' /\ TurnInv'
          /\ \A u \in Turns : at'[u] = "cut" => at[u] = "cut" /\ u # t
        BY <1>1, <1>3, <2>1, <2>2, TurnWorks
    <2>4. how = "gate" /\ t \notin confirmed => stt = "dead"
        BY <1>3 DEF TalkInv, TurnInv, Alive
    <2>5. PlayInv'
        BY <1>1, <1>3, <2>1, <2>3, <2>4 DEF TalkInv, TalkTyped, PlayInv
    <2> QED  BY <2>3, <2>5 DEF TalkInv
<1>4. CASE Answers(t)
    BY <1>2, <1>4 DEF Answers, Live, TalkInv, TalkTyped
<1>5. CASE Speaks(t)
    BY <1>3, <1>5 DEF Speaks, Live
<1>6. CASE FallsBack(t)
    <2>1. at[t] \in Live /\ UNCHANGED calls /\ calls \subseteq Turns
        BY <1>6 DEF FallsBack, Live, TalkInv, TalkTyped
    <2>2. CASE at' = [at EXCEPT ![t] = "over"] /\ UNCHANGED <<play, early>>
        BY <1>2, <2>1, <2>2
    <2>3. CASE at' = [at EXCEPT ![t] = "speaking"] /\ play' = play \union {t} /\ Heard(t, "fallback")
        BY <1>3, <2>1, <2>3
    <2> QED  BY <1>6, <2>2, <2>3 DEF FallsBack
<1>7. CASE Dispatches(t)
    BY <1>2, <1>7 DEF Dispatches, Live
<1>8. CASE Exits(t) \/ Ignored(t) \/ TurnFails(t)
    BY <1>2, <1>8 DEF Exits, Ignored, TurnFails, Live, TalkInv, TalkTyped
<1>9. CASE ToolCall(t)
    <2>1. calls' = calls \union {t} /\ UNCHANGED <<at, play, early>>
        BY <1>9 DEF ToolCall
    <2> QED  BY <1>1, <2>1 DEF TalkInv, TalkTyped, TurnInv, PlayInv, Alive
<1> QED  BY <1>4, <1>5, <1>6, <1>7, <1>8, <1>9 DEF Work

(* What was queued has been played. *)
LEMMA PlayedOutTalks ==
    ASSUME TalkInv, PlayedOut
    PROVE  TalkInv'
<1>1. play' = {} /\ UNCHANGED <<stt, vendor, turn, draft, gate, at, confirmed, calls, early>>
    BY DEF PlayedOut, taskless, gateVars
<1> QED  BY <1>1 DEF TalkInv, TalkTyped, TurnInv, PlayInv, Alive

-----------------------------------------------------------------------------
(* The session *)

PlaceGood == SessionTyped /\ PlaceInv /\ EndIsTold

(* The request's steps: an answer is given once, on the way out, and what is torn
   down stays down. *)
LEMMA RequestPlaces ==
    ASSUME PlaceGood, Request \/ MediaMade \/ MediaAnswered \/ MediaRefused \/ HardTimeout
    PROVE  PlaceGood'
<1>1. faults' \in 0..MaxFaults
    BY FaultCounts DEF PlaceGood, Request, Attached, AttachExpires, Woken, HangUpMedia, TornDown,
           MediaMade, MediaAnswered, MediaRefused, HardTimeout
<1>2. UNCHANGED <<sock, stt, caller, error>>
    BY DEF Request, Attached, AttachExpires, Woken, HangUpMedia, TornDown, MediaMade,
           MediaAnswered, MediaRefused, HardTimeout, mediaVars, endVars
<1>3. CASE Attached \/ AttachExpires
    BY <1>1, <1>2, <1>3 DEF Attached, AttachExpires, mediaVars, endVars, PlaceGood, SessionTyped,
           Ports, PlaceInv, EndIsTold, PortIsTrue, HandsBack
<1>4. CASE Woken \/ MediaRefused
    BY <1>1, <1>2, <1>4 DEF Woken, MediaRefused, mediaVars, endVars, PlaceGood, SessionTyped,
           Ports, PlaceInv, EndIsTold, PortIsTrue, HandsBack
<1>5. CASE HangUpMedia
    BY <1>1, <1>2, <1>5 DEF HangUpMedia, requestVars, endVars, PlaceGood, SessionTyped,
           PlaceInv, EndIsTold, PortIsTrue, HandsBack
<1>6. CASE TornDown
    BY <1>1, <1>2, <1>6 DEF TornDown, PlaceGood, SessionTyped, PlaceInv, EndIsTold, PortIsTrue,
           HandsBack
<1>7. CASE MediaMade \/ MediaAnswered
    BY <1>1, <1>2, <1>7 DEF MediaMade, MediaAnswered, requestVars, mediaVars, endVars, PlaceGood,
           SessionTyped, PlaceInv, EndIsTold, PortIsTrue, HandsBack
<1>8. CASE HardTimeout
    BY <1>1, <1>2, <1>8 DEF HardTimeout, mediaVars, PlaceGood, SessionTyped, Ports, PlaceInv,
           EndIsTold, PortIsTrue, HandsBack
<1> QED  BY <1>3, <1>4, <1>5, <1>7, <1>8, <1>6 DEF Request

(* The legs and the bridge: a join that fails leaves nothing, and says so. *)
LEMMA MediaPlaces ==
    ASSUME PlaceGood, Entered \/ Bridged \/ Joined \/ JoinFailed \/ CallerHangsUp
    PROVE  PlaceGood'
<1>1. faults' \in 0..MaxFaults
    BY FaultCounts DEF PlaceGood, Entered, Bridged, Joined, JoinFailed, CallerHangsUp
<1>2. UNCHANGED <<request, answer, sock, stt>>
    BY DEF Entered, Bridged, Joined, JoinFailed, CallerHangsUp, requestVars
<1>3. CASE Entered
    BY <1>1, <1>2, <1>3 DEF Entered, known, endVars, PlaceGood, SessionTyped, PlaceInv, EndIsTold,
           PortIsTrue, HandsBack
<1>4. CASE Bridged \/ Joined \/ CallerHangsUp
    BY <1>1, <1>2, <1>4 DEF Bridged, Joined, CallerHangsUp, endVars, PlaceGood, SessionTyped,
           PlaceInv, EndIsTold, PortIsTrue, HandsBack
<1>5. CASE JoinFailed
    BY <1>1, <1>2, <1>5 DEF JoinFailed, PlaceGood, SessionTyped, Ports, PlaceInv, EndIsTold,
           PortIsTrue, HandsBack
<1> QED  BY <1>3, <1>4, <1>5

(* The connection: who decides a port later does not overwrite a failure. *)
LEMMA ConnectionPlaces ==
    ASSUME PlaceGood,
           \/ Connected \/ Greeted \/ Breaks \/ StreamEnds \/ Guardrail \/ Idle \/ Closed \/ Stop
           \/ StreamDies \/ StreamCloses
    PROVE  PlaceGood'
<1>1. faults' \in 0..MaxFaults
    BY FaultCounts DEF PlaceGood, Connected, Greeted, Breaks, StreamEnds, Guardrail, Idle, Closed,
           Stop, StreamDies, StreamCloses
<1>2. UNCHANGED <<request, answer, leg, join, bridge, caller>>
    BY DEF Connected, Greeted, Breaks, StreamEnds, Guardrail, Idle, Closed, Stop, StreamDies,
           StreamCloses, requestVars, mediaVars
<1>3. CASE Connected \/ Greeted \/ Breaks \/ StreamEnds
    <2>1. /\ UNCHANGED <<port, done>> /\ sock' \in {"greeting", "open", "closing"}
          /\ error' \in {error, TRUE} /\ stt' \in {stt, "stream", "local"}
          /\ stt = "dead" => stt' = stt \/ sock = "none"
        BY <1>3 DEF Connected, Greeted, Breaks, StreamEnds, endVars
    <2>2. error' \in BOOLEAN /\ done' \in BOOLEAN
        BY <2>1, Zenon DEF PlaceGood, SessionTyped
    <2>3. SessionTyped'
        BY <1>1, <1>2, <2>1, <2>2 DEF PlaceGood, SessionTyped
    <2>4. PlaceInv' /\ EndIsTold'
        BY <1>2, <2>1 DEF PlaceGood, PlaceInv, EndIsTold, PortIsTrue, HandsBack
    <2> QED  BY <2>3, <2>4 DEF PlaceGood
<1>4. CASE Guardrail \/ Idle
    <2>1. /\ port' = IF port = "none" THEN "end_call" ELSE port
          /\ sock' \in {sock, "closing"} /\ sock # "none" /\ UNCHANGED stt
          /\ error' \in {error, FALSE} /\ done' \in {done, TRUE}
        BY <1>4 DEF Guardrail, Idle, Decide
    <2>2. error' \in BOOLEAN /\ done' \in BOOLEAN
        BY <2>1, Zenon DEF PlaceGood, SessionTyped
    <2>3. SessionTyped'
        BY <1>1, <1>2, <2>1, <2>2 DEF PlaceGood, SessionTyped, Ports
    <2>4. PlaceInv' /\ EndIsTold'
        BY <1>2, <2>1 DEF PlaceGood, PlaceInv, EndIsTold, PortIsTrue, HandsBack
    <2> QED  BY <2>3, <2>4 DEF PlaceGood
<1>5. CASE Closed
    BY <1>1, <1>2, <1>5 DEF Closed, Decide, PlaceGood, SessionTyped, Ports, PlaceInv, EndIsTold,
           PortIsTrue, HandsBack
<1>6. CASE Stop
    BY <1>1, <1>2, <1>6 DEF Stop, PlaceGood, SessionTyped, Ports, PlaceInv, EndIsTold, PortIsTrue,
           HandsBack
<1>7. CASE StreamDies
    BY <1>1, <1>2, <1>7 DEF StreamDies, streaming, PlaceGood, SessionTyped, Ports, PlaceInv,
           EndIsTold, PortIsTrue, HandsBack
<1>8. CASE StreamCloses
    BY <1>1, <1>2, <1>8 DEF StreamCloses, streaming, endVars, PlaceGood, SessionTyped, PlaceInv,
           EndIsTold, PortIsTrue, HandsBack
<1> QED  BY <1>3, <1>4, <1>5, <1>6, <1>7, <1>8

(* The caller's turns touch of the session its port at most, by an exit tool. *)
LEMMA TurnPlaces ==
    ASSUME PlaceGood,
           \/ Events \/ PlayedOut
           \/ \E t \in Turns : Work(t) \/ Ignored(t) \/ ToolCall(t) \/ TurnFails(t)
    PROVE  PlaceGood'
<1>1. /\ faults' \in 0..MaxFaults /\ UNCHANGED <<requestVars, mediaVars, sock, stt, error>>
      /\ UNCHANGED <<port, done>> \/ (port' = "exit" /\ done' = TRUE)
    <2>1. CASE Events
        BY <2>1, FaultCounts DEF PlaceGood, Events, StartOfTurn, Resumed, DraftHit, NothingSaid,
               EagerEnd, EndOfTurn, LocalEnd, eventless
    <2>2. CASE PlayedOut
        BY <2>2, FaultCounts DEF PlaceGood, PlayedOut, taskless
    <2>3. ASSUME NEW t \in Turns, Work(t) \/ Ignored(t) \/ ToolCall(t) \/ TurnFails(t)
          PROVE  /\ faults' \in 0..MaxFaults
                 /\ UNCHANGED <<requestVars, mediaVars, sock, stt, error>>
                 /\ UNCHANGED <<port, done>> \/ (port' = "exit" /\ done' = TRUE)
        BY <2>3, FaultCounts DEF PlaceGood, Work, Answers, Speaks, FallsBack, Dispatches, Exits,
               Ignored, ToolCall, TurnFails, taskless
    <2> QED  BY <2>1, <2>2, <2>3
<1>2. UNCHANGED <<request, answer, leg, join, bridge, caller, sock, stt, error>>
    BY <1>1 DEF requestVars, mediaVars
<1>3. error' \in BOOLEAN /\ done' \in BOOLEAN
    BY <1>1, <1>2, Zenon DEF PlaceGood, SessionTyped
<1>4. SessionTyped'
    BY <1>1, <1>2, <1>3 DEF PlaceGood, SessionTyped, Ports
<1>5. PlaceInv' /\ EndIsTold'
    BY <1>1, <1>2 DEF PlaceGood, PlaceInv, EndIsTold, PortIsTrue, HandsBack
<1> QED  BY <1>4, <1>5 DEF PlaceGood

-----------------------------------------------------------------------------
(* The theorems *)

(* A request to begin with has the invariant. *)
LEMMA SessionBegins == SessionInit => VoiceInv
<1> SUFFICES ASSUME SessionInit PROVE VoiceInv
    OBVIOUS
<1>1. /\ request = "creating" /\ answer = "none"
      /\ leg = "none" /\ join = "none" /\ bridge = "none" /\ caller = "live"
      /\ sock = "none" /\ stt = "none" /\ vendor = "quiet"
      /\ port = "none" /\ error = FALSE /\ done = FALSE
      /\ at = [t \in Turns |-> "none"] /\ confirmed = {}
      /\ turn = NoTurn /\ draft = NoTurn /\ gate = TRUE
      /\ calls = {} /\ play = {} /\ early = {} /\ faults = 0
    BY DEF SessionInit, Starts
<1>2. SessionTyped
    <2>1. 0 \in 0..MaxFaults
        BY VoiceAssumption
    <2> QED  BY <1>1, <2>1 DEF SessionTyped, Ports
<1>3. PlaceInv /\ EndIsTold
    BY <1>1 DEF PlaceInv, EndIsTold, PortIsTrue, HandsBack
<1>4. TalkTyped /\ TurnInv /\ PlayInv
    BY <1>1 DEF TalkTyped, TurnInv, PlayInv, Alive, Live
<1> QED  BY <1>2, <1>4, <1>3 DEF VoiceInv

(* Every step between two awaits, of whichever task, keeps it. *)
LEMMA SessionSteps == VoiceInv /\ [SessionNext]_sessionVars => VoiceInv'
<1> SUFFICES ASSUME VoiceInv, [SessionNext]_sessionVars PROVE TalkInv' /\ PlaceGood'
    BY DEF VoiceInv, TalkInv, PlaceGood
<1>1. TalkInv /\ PlaceGood /\ PlaceInv
    BY DEF VoiceInv, TalkInv, PlaceGood
<1>2. CASE Request \/ MediaMade \/ MediaAnswered \/ MediaRefused \/ HardTimeout
    <2>1. UNCHANGED <<stt, vendor, gateVars, turnVars>>
        BY <1>2 DEF Request, Attached, AttachExpires, Woken, HangUpMedia, TornDown, MediaMade,
               MediaAnswered, MediaRefused, HardTimeout
    <2> QED  BY <1>1, <1>2, <2>1, Silence, RequestPlaces
<1>3. CASE Entered \/ Bridged \/ Joined \/ JoinFailed \/ CallerHangsUp
    <2>1. UNCHANGED <<stt, vendor, gateVars, turnVars>>
        BY <1>3 DEF Entered, Bridged, Joined, JoinFailed, CallerHangsUp
    <2> QED  BY <1>1, <1>3, <2>1, Silence, MediaPlaces
<1>4. CASE Greeted \/ Breaks \/ StreamEnds \/ Guardrail \/ Idle \/ Stop
    <2>1. UNCHANGED <<stt, vendor, gateVars, turnVars>>
        BY <1>4 DEF Greeted, Breaks, StreamEnds, Guardrail, Idle, Stop
    <2> QED  BY <1>1, <1>4, <2>1, Silence, ConnectionPlaces
<1>5. CASE Connected \/ Closed \/ StreamDies \/ StreamCloses
    BY <1>1, <1>5, ConnectedTalks, ClosedTalks, StreamEndsTalks, ConnectionPlaces
<1>6. CASE Events
    <2>1. TalkInv'
        BY <1>1, <1>6, StartOfTurnTalks, ResumedTalks, DraftHitTalks, NothingSaidTalks,
           EagerEndTalks, EndOfTurnTalks, LocalEndTalks DEF Events
    <2> QED  BY <1>1, <1>6, <2>1, TurnPlaces
<1>7. ASSUME NEW t \in Turns, Work(t) \/ Ignored(t) \/ ToolCall(t) \/ TurnFails(t)
      PROVE  TalkInv' /\ PlaceGood'
    BY <1>1, <1>7, TurnTalks, TurnPlaces
<1>8. CASE PlayedOut
    BY <1>1, <1>8, PlayedOutTalks, TurnPlaces
<1>9. CASE UNCHANGED sessionVars
    <2>1. /\ UNCHANGED <<stt, vendor, gateVars, turnVars>>
          /\ UNCHANGED <<request, answer, leg, join, bridge, caller, sock, stt, port, error, done,
                         faults>>
        BY <1>9 DEF sessionVars, requestVars, mediaVars, endVars
    <2>2. PlaceGood'
        BY <1>1, <2>1 DEF PlaceGood, SessionTyped, PlaceInv, EndIsTold, PortIsTrue, HandsBack
    <2> QED  BY <1>1, <2>1, <2>2, Silence
<1> QED  BY <1>2, <1>3, <1>4, <1>5, <1>6, <1>7, <1>8, <1>9
         DEF SessionNext, Asterisk, Connection, Faults

(* The invariant of a conversation holds for any number of turns and of faults. *)
THEOREM VoiceInvariant == SessionSpec => []VoiceInv
<1> QED  BY SessionBegins, SessionSteps, PTL DEF SessionSpec

(* SpeaksInTurn: however the recogniser's events, the model's answers and the
   connection's end interleave (pipeline.py), one turn at most is at work, a turn
   the caller talked over is not played on, and a predicted turn is not heard
   before its time but by the call without a gate or after the recogniser's death. *)
THEOREM TurnsAreKept == SessionSpec => []SpeaksInTurn
<1>1. ASSUME VoiceInv
      PROVE  SpeaksInTurn
    <2>1. OneVoice
        BY <1>1, SessionTypes DEF VoiceInv, TurnInv, PlayInv, OneVoice
    <2>2. \A t \in Turns : <<t, "gate">> \in early => stt = "dead"
        BY <1>1 DEF VoiceInv, PlayInv
    <2>3. \A t \in confirmed : at[t] = "held" => gate
        BY <1>1 DEF VoiceInv, TalkTyped, TurnInv, Alive, Live
    <2> QED  BY <2>1, <2>2, <2>3 DEF SpeaksInTurn, GateHolds
<1> QED  BY <1>1, VoiceInvariant, PTL

(* EndIsTold: a session whose recogniser died or whose caller could not be bridged
   does not end as a conversation that was had, and when the flow goes on the agent
   is not heard any more (agent_api.py, main.py). *)
THEOREM EndsAreTold == SessionSpec => []EndIsTold
<1>1. VoiceInv => EndIsTold
    BY DEF VoiceInv
<1> QED  BY <1>1, VoiceInvariant, PTL

(* Both: the session is true to its caller and to its flow. *)
THEOREM TheSessionIsHonest == SessionSpec => []SessionIsHonest
<1> QED  BY TurnsAreKept, EndsAreTold, PTL DEF SessionIsHonest

-----------------------------------------------------------------------------
(***************************************************************************)
(* What the agent is told of its caller                                    *)
(***************************************************************************)

Entry == [who : {"nobody", "nameless", "named", "silence", "unasked", "out"}, facts : SUBSET Facts]

(* What the variables of the context hold. *)
ContextTypeOK ==
    /\ agent \in Agents /\ ready \in BOOLEAN /\ label \in BOOLEAN
    /\ crm \in [who : {"nobody", "nameless", "named"}, facts : SUBSET Facts]
    /\ call \in Nat
    /\ place \in {"idle", "asks", "attaches", "greets", "talks", "moves", "back", "ended"}
    /\ fetch \in Entry
    /\ degraded \in BOOLEAN /\ marred \in BOOLEAN /\ heard \in BOOLEAN
    /\ job \in [Calls -> {"none", "queued", "done"}]
    /\ notes \in [Calls -> Nat] /\ DOMAIN says = Calls
    /\ edits \in Nat /\ slips \in Nat

Owns == agent.engine = "owen_voice"
Pending == place \in {"attaches", "greets"}

(* The linked CRM answers with nobody who has no name. *)
NamedOrNobody == agent.kind = "crm_link" => fetch.who # "nameless"

(* Nothing is looked up that nobody asks for, nor once the agent talks. *)
AskedOnce ==
    /\ fetch = Waiting => Asks # "none"
    /\ Telling => fetch # Waiting

(* What was there when the call came is there until somebody changes it. *)
AsItWas == edits = 0 /\ place # "idle" => label = met.label /\ crm = met.crm

(* What the greeting will be made of. *)
InHand ==
    /\ local.name \in {"none", "label", "heard"}
    /\ Pending /\ Owns /\ met.label /\ edits = 0 /\ slips = 0 => local.name = "label"
    /\ Pending /\ Owns /\ Asks # "none" /\ met.crm.who = "named" /\ edits = 0
          => fetch = Waiting \/ fetch.who = "named" \/ fetch = NoAnswer \/ marred

(* A report is queued when its call is over, with how it ended. *)
ReportedInTurn ==
    \A c \in Calls :
        /\ job[c] # "none" => c < call \/ (c = call /\ place = "idle")
        /\ job[c] # "none" /\ c = call => says[c] = [port |-> exit, heard |-> heard]
        /\ job[c] = "none" => notes[c] = 0
        /\ job[c] = "queued" => notes[c] =< slips
        /\ notes[c] =< 1 + slips

ContextInv ==
    /\ ContextTypeOK /\ NamedOrNobody /\ AskedOnce /\ AsItWas /\ InHand /\ ReportedInTurn
    /\ KnowsOnlyItsCaller /\ LabelStands /\ SilenceIsMarked

(* The marks of a lookup that has not answered are none of a CRM's answers. *)
LEMMA FetchValues ==
    /\ Unknown.who = "nobody" /\ NoAnswer.who = "silence" /\ NoFetch.who = "unasked"
    /\ Waiting.who = "out"
    /\ Unknown \in Entry /\ NoAnswer \in Entry /\ NoFetch \in Entry /\ Waiting \in Entry
    /\ Unknown.facts = {} /\ NoAnswer.facts = {} /\ NoFetch.facts = {}
BY DEF Unknown, NoAnswer, NoFetch, Waiting, Entry

(* An agent is of one of two engines and four kinds. *)
LEMMA AgentIs ==
    ASSUME ContextTypeOK
    PROVE  /\ agent.engine \in {"owen_voice", "retell"}
           /\ agent.kind \in {"none", "ghl", "crm_link", "http"}
BY AgentsAreWhole DEF ContextTypeOK

(* What is asked is the agent's provider, or nobody. *)
LEMMA AsksIs ==
    ASSUME ContextTypeOK
    PROVE  /\ Asks \in {"none", "ghl", "crm_link", "http"}
           /\ Asks # "none" => Asks = agent.kind
BY AgentIs DEF Asks, Provider, Refused

(* And stays so while the agent does. *)
LEMMA AsksSame ==
    ASSUME UNCHANGED <<agent, ready>>
    PROVE  Asks' = Asks
BY DEF Asks, Provider, Refused

(* The CRM answers what it has, or as of nobody. *)
LEMMA AnswerIs ==
    ASSUME ContextTypeOK
    PROVE  /\ Answer(crm) \in Entry /\ Answer(crm).who \in {"nobody", "nameless", "named"}
           /\ crm.who # "nameless" => Answer(crm) = crm
           /\ Asks = "crm_link" => Answer(crm).who # "nameless"
<1>1. crm \in Entry /\ crm.who \in {"nobody", "nameless", "named"}
  BY DEF ContextTypeOK, Entry
<1> QED BY <1>1, FetchValues DEF Answer

(* Before the first call nobody is told anything. *)
LEMMA ContextBegins == ContextInit => ContextInv
<1> SUFFICES ASSUME ContextInit PROVE ContextInv OBVIOUS
<1> USE DEF ContextInit, Start
<1>1. ContextTypeOK
  <2>1. crm \in [who : {"nobody", "nameless", "named"}, facts : SUBSET Facts]
    BY DEF Entries, Unknown
  <2> QED BY <2>1, FetchValues DEF ContextTypeOK
<1>2. NamedOrNobody BY FetchValues DEF NamedOrNobody
<1>3. AskedOnce BY FetchValues DEF AskedOnce, Telling
<1>4. AsItWas BY DEF AsItWas
<1>5. InHand BY DEF InHand, Pending, Untold
<1>6. ReportedInTurn BY DEF ReportedInTurn
<1>7. KnowsOnlyItsCaller /\ LabelStands /\ SilenceIsMarked
  BY DEF KnowsOnlyItsCaller, LabelStands, SilenceIsMarked, Telling
<1> QED BY <1>1, <1>2, <1>3, <1>4, <1>5, <1>6, <1>7 DEF ContextInv

(* What an agent is told holds of any answer it is made from. *)
LEMMA GreetingIs ==
    ASSUME ContextTypeOK, NEW remote \in Entry,
           agent.kind = "crm_link" => remote.who # "nameless",
           Greet(remote)
    PROVE  /\ prompt'.facts \subseteq agent.allow /\ prompt'.facts \subseteq remote.facts
           /\ agent.kind = "crm_link" /\ prompt'.summary => remote.who = "named"
           /\ prompt'.name = "crm" => remote.who = "named" \/ local.name = "crm"
           /\ Owns /\ local.name # "none" => prompt'.name = local.name
           /\ Owns /\ remote.who = "named" => prompt'.name # "none"
<1>1. CASE agent.engine = "retell"
  <2>1. prompt' = RenderVariables(remote) BY <1>1 DEF Greet, Render
  <2>2. prompt'.facts = {} /\ (prompt'.summary => remote.who = "named")
        /\ (prompt'.name = "crm" => remote.who = "named")
    BY <2>1 DEF RenderVariables, Untold
  <2> QED BY <1>1, <2>2 DEF Owns
<1>2. CASE agent.engine # "retell"
  <2>1. prompt' = RenderBlob(remote) BY <1>2 DEF Greet, Render
  <2>2. /\ prompt'.name = MergeIdentity(remote)
        /\ prompt'.summary = (remote.who \in {"named", "nameless"})
        /\ prompt'.facts = IF Asks = "crm_link" THEN {} ELSE FilterFacts(remote.facts)
    BY <2>1 DEF RenderBlob
  <2>3. prompt'.facts \subseteq agent.allow /\ prompt'.facts \subseteq remote.facts
    BY <2>2 DEF FilterFacts
  <2>4. agent.kind = "crm_link" /\ prompt'.summary => remote.who = "named" BY <2>2
  <2> QED BY <2>2, <2>3, <2>4 DEF MergeIdentity
<1> QED BY <1>1, <1>2

(* What ContextIsHonest says of the prompt. *)
Told == KnowsOnlyItsCaller /\ LabelStands /\ SilenceIsMarked

(* The conversation goes on, or an operator labels its caller: nothing is learnt. *)
LEMMA TalksOn ==
    ASSUME ContextInv,
           \/ Labels \/ AsksForRetell \/ Attaches \/ AttachFails \/ Hears \/ Moves
           \/ \E p \in {"complete", "transfer"} : Ends(p) \/ BackEnds(p)
    PROVE  ContextInv'
<1> USE DEF ContextInv, aboutVars, knowVars, reportVars, Labels, Edit, AsksForRetell, Attaches,
            AttachFails, LooksUp, Slip, Hears, Ends, Moves, BackEnds
<1>1. Asks' = Asks BY AsksSame
<1>2. ContextTypeOK'
  <2>1. UNCHANGED <<agent, ready, crm, call, degraded, marred, job, notes, says>> OBVIOUS
  <2>2. label' \in BOOLEAN BY DEF ContextTypeOK
  <2>3. fetch' \in Entry BY FetchValues DEF ContextTypeOK
  <2>4. heard' \in BOOLEAN BY DEF ContextTypeOK
  <2>5. edits' \in Nat /\ slips' \in Nat BY DEF ContextTypeOK
  <2>6. place' \in {"idle", "asks", "attaches", "greets", "talks", "moves", "back", "ended"}
    BY DEF ContextTypeOK
  <2> QED BY <2>1, <2>2, <2>3, <2>4, <2>5, <2>6 DEF ContextTypeOK
<1>3. NamedOrNobody' BY FetchValues DEF NamedOrNobody
<1>4. AskedOnce' BY <1>1, FetchValues DEF AskedOnce, Telling
<1>5. AsItWas' BY DEF AsItWas, ContextTypeOK
<1>6. InHand' BY <1>1, FetchValues DEF InHand, Pending, Owns, ContextTypeOK
<1>7. ReportedInTurn' BY DEF ReportedInTurn, ContextTypeOK
<1>8. Told' BY <1>1 DEF Told, KnowsOnlyItsCaller, LabelStands, SilenceIsMarked, Telling, ContextTypeOK
<1> QED BY <1>2, <1>3, <1>4, <1>5, <1>6, <1>7, <1>8 DEF Told

(* The worker posts a report: how often a call is noted is all that changes. *)
LEMMA NotesKeep ==
    ASSUME ContextInv, NEW c \in Calls, Posts(c) \/ PostFails(c)
    PROVE  ContextInv'
<1> USE DEF ContextInv, aboutVars, knowVars, reportVars, Posts, PostFails, Note, Done, Slip
<1>1. Asks' = Asks BY AsksSame
<1>2. ContextTypeOK' BY DEF ContextTypeOK
<1>3. NamedOrNobody' /\ AskedOnce' /\ AsItWas'
  BY <1>1 DEF NamedOrNobody, AskedOnce, Telling, AsItWas, ContextTypeOK
<1>4. InHand' BY <1>1 DEF InHand, Pending, Owns, ContextTypeOK
<1>5. ReportedInTurn' BY DEF ReportedInTurn, ContextTypeOK
<1>6. Told' BY <1>1 DEF Told, KnowsOnlyItsCaller, LabelStands, SilenceIsMarked, Telling, ContextTypeOK
<1> QED BY <1>2, <1>3, <1>4, <1>5, <1>6 DEF Told

(* Every step keeps the invariant; the prompt is made by the last two of them. *)
LEMMA ContextGoesOn ==
    ASSUME ContextInv, [ContextNext]_contextVars
    PROVE  ContextInv'
<1> USE DEF ContextInv, aboutVars, knowVars, reportVars
<1>1. ASSUME Rings PROVE ContextInv'
  <2> USE <1>1 DEF Rings
  <2>1. Asks' = Asks BY AsksSame
  <2>2. ContextTypeOK'
    <3>1. call' \in Nat /\ place' = "asks" BY DEF ContextTypeOK
    <3>2. heard' \in BOOLEAN OBVIOUS
    <3> QED BY <3>1, <3>2 DEF ContextTypeOK
  <2>3. NamedOrNobody' BY FetchValues DEF NamedOrNobody
  <2>4. AskedOnce' BY <2>1, FetchValues DEF AskedOnce, Telling
  <2>5. AsItWas' BY DEF AsItWas, ContextTypeOK
  <2>6. InHand' BY <2>1, FetchValues DEF InHand, Pending, Owns, ContextTypeOK
  <2>7. ReportedInTurn'
    <3>1. \A c \in Calls : c \in Nat BY DEF Calls
    <3>2. \A c \in Calls : job[c] # "none" => c < call' BY <3>1 DEF ReportedInTurn, ContextTypeOK
    <3>3. UNCHANGED <<job, notes, slips>> /\ call' \in Nat BY DEF ContextTypeOK
    <3>4. \A c \in Calls : job[c] # "none" => c # call' BY <3>1, <3>2, <3>3
    <3> QED BY <3>2, <3>3, <3>4 DEF ReportedInTurn
  <2>8. Told' BY <2>1 DEF Told, KnowsOnlyItsCaller, LabelStands, SilenceIsMarked, Telling, ContextTypeOK
  <2> QED BY <2>2, <2>3, <2>4, <2>5, <2>6, <2>7, <2>8 DEF Told
<1>2. ASSUME NEW entry \in Entries, CrmChanges(entry) PROVE ContextInv'
  <2> USE <1>2 DEF CrmChanges, Edit
  <2>1. Asks' = Asks BY AsksSame
  <2>2. ContextTypeOK'
    <3>1. entry \in [who : {"nobody", "nameless", "named"}, facts : SUBSET Facts]
      BY DEF Entries, Unknown
    <3> QED BY <3>1 DEF ContextTypeOK
  <2>3. NamedOrNobody' BY FetchValues DEF NamedOrNobody
  <2>4. AskedOnce' BY <2>1, FetchValues DEF AskedOnce, Telling
  <2>5. AsItWas' BY DEF AsItWas, ContextTypeOK
  <2>6. InHand' BY <2>1, FetchValues DEF InHand, Pending, Owns, ContextTypeOK
  <2>7. ReportedInTurn' BY DEF ReportedInTurn, ContextTypeOK
  <2>8. Told' BY <2>1 DEF Told, KnowsOnlyItsCaller, LabelStands, SilenceIsMarked, Telling, ContextTypeOK
  <2> QED BY <2>2, <2>3, <2>4, <2>5, <2>6, <2>7, <2>8 DEF Told
<1>3. ASSUME BuildsContext PROVE ContextInv'
  <2> USE <1>3 DEF BuildsContext, Slip, LooksUp, KnownAs
  <2>1. Asks' = Asks BY AsksSame
  <2>2. ContextTypeOK'
    <3>1. UNCHANGED <<agent, ready, crm, call, degraded, job, notes, says, label, heard, edits>>
      OBVIOUS
    <3>2. fetch' \in Entry BY FetchValues
    <3>3. marred' \in BOOLEAN BY DEF ContextTypeOK
    <3>4. slips' \in Nat BY DEF ContextTypeOK
    <3>5. place' = "attaches" OBVIOUS
    <3> QED BY <3>1, <3>2, <3>3, <3>4, <3>5 DEF ContextTypeOK
  <2>3. NamedOrNobody' BY FetchValues DEF NamedOrNobody
  <2>4. AskedOnce' BY <2>1, FetchValues DEF AskedOnce, Telling
  <2>5. AsItWas' BY DEF AsItWas, ContextTypeOK
  <2>6. InHand'
    <3>1. fetch' = NoFetch \/ fetch' = Waiting BY DEF BuildsContext
    <3>2. Asks' # "none" => fetch' = Waiting \/ marred' BY <2>1
    <3>3. local' = local \/ local'.name \in {LocalName, "label", "none"} BY DEF Untold
    <3>4. LocalName \in {"none", "label", "heard"} /\ (label => LocalName = "label")
      BY DEF LocalName
    <3>5. slips' = 0 => local'.name = LocalName
      <4>1. CASE UNCHANGED slips /\ KnownAs(LocalName) BY <4>1 DEF Untold
      <4>2. CASE slips' = slips + 1 BY <4>2 DEF ContextTypeOK
      <4> QED BY <4>1, <4>2
    <3>6. met.label /\ edits = 0 => label BY DEF AsItWas
    <3> QED BY <3>2, <3>3, <3>4, <3>5, <3>6 DEF InHand, Owns
  <2>7. ReportedInTurn' BY DEF ReportedInTurn, ContextTypeOK
  <2>8. Told' BY <2>1 DEF Told, KnowsOnlyItsCaller, LabelStands, SilenceIsMarked, Telling, ContextTypeOK
  <2> QED BY <2>2, <2>3, <2>4, <2>5, <2>6, <2>7, <2>8 DEF Told
<1>4. ASSUME CrmAnswers PROVE ContextInv'
  <2> USE <1>4 DEF CrmAnswers
  <2>1. Asks' = Asks BY AsksSame
  <2>2. ContextTypeOK' BY AnswerIs DEF ContextTypeOK
  <2>3. NamedOrNobody'
    <3>1. agent.kind = "crm_link" => Asks = "crm_link" BY AsksIs DEF AskedOnce
    <3> QED BY <3>1, AnswerIs DEF NamedOrNobody
  <2>4. AskedOnce' BY <2>1, FetchValues DEF AskedOnce, Telling
  <2>5. AsItWas' BY DEF AsItWas, ContextTypeOK
  <2>6. InHand'
    <3>1. Pending /\ edits = 0 => crm = met.crm BY DEF Pending, AsItWas
    <3>2. Pending /\ edits = 0 /\ met.crm.who = "named" => fetch'.who = "named"
      BY <3>1, AnswerIs
    <3> QED BY <2>1, <3>2 DEF InHand, Pending, Owns
  <2>7. ReportedInTurn' BY DEF ReportedInTurn, ContextTypeOK
  <2>8. Told'
    <3>1. ~Telling BY DEF AskedOnce
    <3> QED BY <3>1 DEF Told, KnowsOnlyItsCaller, LabelStands, SilenceIsMarked, Telling
  <2> QED BY <2>2, <2>3, <2>4, <2>5, <2>6, <2>7, <2>8 DEF Told
<1>5. ASSUME CrmFails PROVE ContextInv'
  <2> USE <1>5 DEF CrmFails, Slip
  <2>1. Asks' = Asks BY AsksSame
  <2>2. ContextTypeOK' BY FetchValues DEF ContextTypeOK
  <2>3. NamedOrNobody' BY FetchValues DEF NamedOrNobody
  <2>4. AskedOnce' BY <2>1, FetchValues DEF AskedOnce, Telling
  <2>5. AsItWas' BY DEF AsItWas, ContextTypeOK
  <2>6. InHand'
    <3>1. fetch' = NoAnswer \/ marred' = TRUE OBVIOUS
    <3>2. slips' # 0 BY DEF ContextTypeOK
    <3> QED BY <3>1, <3>2 DEF InHand, Pending, Owns
  <2>7. ReportedInTurn' BY DEF ReportedInTurn, ContextTypeOK
  <2>8. Told'
    <3>1. ~Telling BY DEF AskedOnce
    <3> QED BY <3>1 DEF Told, KnowsOnlyItsCaller, LabelStands, SilenceIsMarked, Telling
  <2> QED BY <2>2, <2>3, <2>4, <2>5, <2>6, <2>7, <2>8 DEF Told
<1>6. ASSUME Resolves PROVE ContextInv'
  <2> USE <1>6 DEF Resolves, Greet
  <2>1. Asks' = Asks BY AsksSame
  <2>2. ContextTypeOK' BY FetchValues DEF ContextTypeOK
  <2>3. NamedOrNobody' BY FetchValues DEF NamedOrNobody
  <2>4. AskedOnce' BY <2>1, FetchValues DEF AskedOnce, Telling
  <2>5. AsItWas' BY DEF AsItWas, ContextTypeOK
  <2>6. InHand' BY <2>1, FetchValues DEF InHand, Pending, Owns, ContextTypeOK
  <2>7. ReportedInTurn' BY DEF ReportedInTurn, ContextTypeOK
  <2>8. Told'
    <3>1. fetch \in Entry /\ (agent.kind = "crm_link" => fetch.who # "nameless")
      BY DEF ContextTypeOK, NamedOrNobody
    <3>2. /\ prompt'.facts \subseteq agent.allow /\ prompt'.facts \subseteq fetch.facts
          /\ agent.kind = "crm_link" /\ prompt'.summary => fetch.who = "named"
          /\ prompt'.name = "crm" => fetch.who = "named" \/ local.name = "crm"
          /\ Owns /\ local.name # "none" => prompt'.name = local.name
          /\ Owns /\ fetch.who = "named" => prompt'.name # "none"
      BY <3>1, GreetingIs
    <3>3. KnowsOnlyItsCaller' BY <3>2 DEF KnowsOnlyItsCaller, InHand
    <3>4. LabelStands' BY <3>2 DEF LabelStands, InHand, Pending, Owns
    <3>5. SilenceIsMarked' BY <2>1, <3>2 DEF SilenceIsMarked, InHand, Pending, Owns
    <3> QED BY <3>3, <3>4, <3>5 DEF Told
  <2> QED BY <2>2, <2>3, <2>4, <2>5, <2>6, <2>7, <2>8 DEF Told
<1>7. ASSUME Overruns PROVE ContextInv'
  <2> USE <1>7 DEF Overruns, Greet, Marks
  <2>1. Asks' = Asks BY AsksSame
  <2>2. ContextTypeOK' BY FetchValues DEF ContextTypeOK
  <2>3. NamedOrNobody' BY FetchValues DEF NamedOrNobody
  <2>4. AskedOnce' BY <2>1, FetchValues DEF AskedOnce, Telling
  <2>5. AsItWas' BY DEF AsItWas, ContextTypeOK
  <2>6. InHand' BY <2>1, FetchValues DEF InHand, Pending, Owns, ContextTypeOK
  <2>7. ReportedInTurn' BY DEF ReportedInTurn, ContextTypeOK
  <2>8. Told'
    <3>1. NoAnswer \in Entry /\ NoAnswer.who = "silence" BY FetchValues
    <3>2. /\ prompt'.facts \subseteq agent.allow /\ prompt'.facts \subseteq NoAnswer.facts
          /\ agent.kind = "crm_link" /\ prompt'.summary => NoAnswer.who = "named"
          /\ prompt'.name = "crm" => NoAnswer.who = "named" \/ local.name = "crm"
          /\ Owns /\ local.name # "none" => prompt'.name = local.name
      BY <3>1, GreetingIs
    <3>3. KnowsOnlyItsCaller' BY <3>2 DEF KnowsOnlyItsCaller, InHand
    <3>4. LabelStands' BY <3>2 DEF LabelStands, InHand, Pending, Owns
    <3>5. SilenceIsMarked' BY DEF SilenceIsMarked
    <3> QED BY <3>3, <3>4, <3>5 DEF Told
  <2> QED BY <2>2, <2>3, <2>4, <2>5, <2>6, <2>7, <2>8 DEF Told
<1>8. ASSUME Reports PROVE ContextInv'
  <2> USE <1>8 DEF Reports, Forgotten, Reportable, ReportBody
  <2>1. Asks' = Asks BY AsksSame
  <2>2. ContextTypeOK' BY FetchValues DEF ContextTypeOK
  <2>3. NamedOrNobody' BY FetchValues DEF NamedOrNobody
  <2>4. AskedOnce' BY <2>1, FetchValues DEF AskedOnce, Telling
  <2>5. AsItWas' BY DEF AsItWas, ContextTypeOK
  <2>6. InHand' BY DEF InHand, Pending, Untold
  <2>7. ReportedInTurn' BY DEF ReportedInTurn, ContextTypeOK
  <2>8. Told' BY <2>1 DEF Told, KnowsOnlyItsCaller, LabelStands, SilenceIsMarked, Telling, ContextTypeOK
  <2> QED BY <2>2, <2>3, <2>4, <2>5, <2>6, <2>7, <2>8 DEF Told
<1>9. CASE UNCHANGED contextVars
  BY <1>9, AsksSame
  DEF contextVars, ContextTypeOK, NamedOrNobody, AskedOnce, AsItWas, InHand, Pending, Owns,
      ReportedInTurn, KnowsOnlyItsCaller, LabelStands, SilenceIsMarked, Telling
<1> QED BY <1>1, <1>2, <1>3, <1>4, <1>5, <1>6, <1>7, <1>8, <1>9, TalksOn, NotesKeep DEF ContextNext, Session, Worker, Others

(* For any agents, facts, calls, edits and slips: what a lookup in flight may still
   bring, what the prompt is made from, and in what order a report is queued,
   posted and counted. *)
THEOREM ContextInvariant == ContextInit /\ [][ContextNext]_contextVars => []ContextInv
BY ContextBegins, ContextGoesOn, PTL

(* No fact reaches the prompt but an allowed one that the lookup answered with, a
   local label is never overruled, a known caller is not taken for an unknown one
   unmarked, and a call's note says how that call ended: ContextIsHonest. *)
THEOREM TheContextIsHonest ==
    ContextInit /\ [][ContextNext]_contextVars => []ContextIsHonest
<1>1. ContextInv => ContextIsHonest
  <2> SUFFICES ASSUME ContextInv PROVE ContextIsHonest OBVIOUS
  <2>1. NotesTheCall
    <3> SUFFICES ASSUME NEW c \in Calls
                 PROVE  /\ c = call /\ notes[c] > 0 => says[c] = [port |-> exit, heard |-> heard]
                        /\ notes[c] <= 1 + slips
      BY DEF NotesTheCall
    <3>1. notes[c] > 0 => job[c] # "none" BY DEF ContextInv, ReportedInTurn
    <3> QED BY <3>1 DEF ContextInv, ReportedInTurn
  <2> QED BY <2>1 DEF ContextInv, ContextIsHonest
<1> QED BY <1>1, ContextInvariant, PTL
=============================================================================
