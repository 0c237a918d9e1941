--------------------------- MODULE HandlerProofs ----------------------------
(***************************************************************************)
(* What is proved of the work the jobs table carries, for any number of    *)
(* jobs, attempts and worker deaths; and of the threads the Inbox makes of *)
(* what it brought.                                                        *)
(*                                                                         *)
(* Recordings (RecordingPipeline): none is lost before it is transcribed,  *)
(* for any recordings and polls, whether or not the provider's copy is     *)
(* deleted.  The invariant says what each place of the worker has achieved *)
(* (AtInv) and what each live job will find (JobsInv); both survive because*)
(* the audio goes only once it is transcribed (Goes).                      *)
(*                                                                         *)
(* OpenPhone's mirror (OpenPhone): an object is mirrored once and whole,   *)
(* and nothing is left behind when the backfill closes, for any line and   *)
(* any number of posts, faults and deaths.  The invariant has four layers: *)
(*   LedgerInv  an object is queued exactly if its row is there;           *)
(*   HopInv     a request at the app, which the worker may have given up   *)
(*              (MineInv, StrayInv), brings only what Quo has;             *)
(*   DueInv     a part whose announcement found its call mirrored is not   *)
(*              done with before it has a row of its own;                  *)
(*   TickInv    a clean tick has left nothing of what it could see.        *)
(*                                                                         *)
(* The Inbox (Inbox): a thread shows what was done to it and what came     *)
(* since, for any texts, calls, replies and operators.  Whatever has begun *)
(* leaves a trace with its stamp, filed or not (Traces): the stamps are    *)
(* apart (OneStamp), and the one of an act parts what had begun before it  *)
(* from what began after it (ActsPart, AsksPart).                          *)
(*                                                                         *)
(* The models are proved about apart: no proof of one cites another's      *)
(* assumptions or definitions, but the first two share QueueWorker.        *)
(***************************************************************************)
EXTENDS RecordingPipeline, OpenPhone, Inbox, QueueWorkerProofs, FiniteSetTheorems

(***************************************************************************)
(* Recordings                                                              *)
(***************************************************************************)

Payload == [stage : Stages, rec : Recs]

AudioShape ==
    /\ stored \in [Recs -> BOOLEAN] /\ file \in [Recs -> BOOLEAN]
    /\ remote \in [Recs -> BOOLEAN] /\ transcribed \in [Recs -> BOOLEAN]
    /\ text \in {"none", "empty", "speech"}

FeedShape ==
    /\ hook \in [Recs -> {"waiting", "ingested", "enqueued", "lost"}]
    /\ polls \in [Recs -> 0..MaxPolls]

Shape ==
    /\ work \in [Jobs -> [stage : Stages, rec : Recs] \union {NoWork}]
    /\ AudioShape /\ FeedShape
    /\ analysed \in BOOLEAN /\ fresh \in BOOLEAN

(* A recording can be transcribed, or has been. *)
Ready(r) == Held(r) \/ transcribed[r]

(* A job names a stage of a recording, and while it is live that stage has its
   input. *)
JobGood(j) ==
    /\ phase[j] # "absent" => work[j] \in Payload
    /\ phase[j] \in Undecided =>
           /\ work[j].stage = "transcribe" => Ready(work[j].rec)
           /\ work[j].stage = "analyze" => transcribed[work[j].rec] /\ text # "none"

JobsInv == \A j \in Jobs : JobGood(j)

(* What the worker has achieved where it is. *)
AtInv ==
    /\ at \in Stages \union {"stored", "transcribed", "finish", "idle", "down"}
    /\ at = "stored" => Ready(Rec)
    /\ at = "transcribed" => transcribed[Rec] /\ text # "none"

AudioKept == \A r \in Recs : transcribed[r] \/ remote[r] \/ Held(r)

IInv == WorkerInv /\ Shape /\ JobsInv /\ AtInv /\ AudioKept

(* What every step respects: nothing is untranscribed, and what is ready for
   its transcription stays ready. *)
Goes ==
    /\ \A r \in Recs : /\ transcribed[r] => transcribed'[r]
                       /\ Ready(r) => Ready(r)'
    /\ text # "none" => text' # "none"

-----------------------------------------------------------------------------
(* While a handler runs, its job names a recording. *)
LEMMA Doing ==
    ASSUME WorkerInv, JobsInv
    PROVE  /\ at \notin {"idle", "down"} => Busy
           /\ Busy => cur \in Jobs /\ phase[cur] \in Undecided /\ work[cur] \in Payload /\ Rec \in Recs
<1>1. at \notin {"idle", "down"} => Busy
    BY DEF WorkerInv, Busy
<1>2. Busy => cur \in Jobs /\ phase[cur] \in Undecided
    BY DEF WorkerInv, Busy
<1>3. Busy => work[cur] \in Payload
    BY <1>2 DEF JobsInv, JobGood, Undecided
<1> QED  BY <1>1, <1>2, <1>3 DEF Payload, Rec

(* The row of a new job was not there before. *)
LEMMA NewRows ==
    ASSUME Shape, NEW stage \in Stages, NEW r \in Recs, NewRow(stage, r)
    PROVE  /\ NewId \in Jobs /\ phase[NewId] = "absent"
           /\ work'[NewId] = [stage |-> stage, rec |-> r]
           /\ work'[NewId] \in Payload
           /\ \A j \in Jobs \ {NewId} : work'[j] = work[j]
           /\ work' \in [Jobs -> [stage : Stages, rec : Recs] \union {NoWork}]
<1>1. NewId \in Unused
    BY DEF NewRow, NewId
<1>2. NewId \in Jobs /\ phase[NewId] = "absent"
    BY <1>1 DEF Unused
<1>3. work' = [work EXCEPT ![NewId] = [stage |-> stage, rec |-> r]]
    BY DEF NewRow
<1> HIDE DEF NewId
<1>4. [stage |-> stage, rec |-> r] \in Payload
    BY DEF Payload
<1> QED  BY <1>2, <1>3, <1>4 DEF Shape, Payload

(* A feed asks for a fetch. *)
LEMMA FetchRows ==
    ASSUME WorkerInv, Shape, NEW r \in Recs, FetchJob(r)
    PROVE  /\ WorkerInv' /\ UNCHANGED <<tries, at, cur, crashes>>
           /\ NewId \in Jobs /\ phase[NewId] = "absent"
           /\ phase' = [phase EXCEPT ![NewId] = "pending"]
           /\ work'[NewId] = [stage |-> "fetch", rec |-> r]
           /\ work'[NewId] \in Payload
           /\ \A j \in Jobs \ {NewId} : work'[j] = work[j]
           /\ work' \in [Jobs -> [stage : Stages, rec : Recs] \union {NoWork}]
<1>1. NewRow("fetch", r) /\ Submit(NewId) /\ "fetch" \in Stages
    BY DEF FetchJob, Stages
<1> HIDE DEF NewId
<1> QED  BY <1>1, NewRows, Submits

(* A handler enqueues the next stage with what it commits. *)
LEMMA HandsOver ==
    ASSUME WorkerInv, Shape, JobsInv, Busy, NEW stage \in Stages, HandOver(stage)
    PROVE  /\ CommitWith({NewId})
           /\ NewId \in Jobs /\ phase[NewId] = "absent"
           /\ work'[NewId] = [stage |-> stage, rec |-> Rec]
           /\ work'[NewId] \in Payload
           /\ \A j \in Jobs \ {NewId} : work'[j] = work[j]
           /\ work' \in [Jobs -> [stage : Stages, rec : Recs] \union {NoWork}]
<1>1. NewRow(stage, Rec) /\ CommitWith({NewId}) /\ Rec \in Recs
    BY Doing DEF HandOver
<1> QED  BY <1>1, NewRows

(* A job that was there keeps what it needs. *)
LEMMA StaysGood ==
    ASSUME JobsInv, Goes, NEW j \in Jobs, work'[j] = work[j], phase[j] # "absent",
           phase'[j] \in Undecided => phase[j] \in Undecided
    PROVE  JobGood(j)'
<1>1. work[j] \in Payload /\ work[j].rec \in Recs
    BY DEF JobsInv, JobGood, Payload
<1> QED  BY <1>1 DEF JobsInv, JobGood, Goes, Ready

(* Steps that leave the jobs alone. *)
LEMMA SameJobs ==
    ASSUME JobsInv, Goes, UNCHANGED <<phase, work>>
    PROVE  JobsInv'
<1> SUFFICES ASSUME NEW j \in Jobs PROVE JobGood(j)'
    BY DEF JobsInv
<1>1. CASE phase[j] = "absent"
    BY <1>1 DEF JobGood, Undecided
<1>2. CASE phase[j] # "absent"
    BY <1>2, StaysGood
<1> QED  BY <1>1, <1>2

(* A fetch needs nothing. *)
LEMMA FetchAsked ==
    ASSUME WorkerInv, Shape, JobsInv, Goes, NEW r \in Recs, FetchJob(r)
    PROVE  JobsInv'
<1>2. /\ NewId \in Jobs /\ work'[NewId] = [stage |-> "fetch", rec |-> r]
      /\ work'[NewId] \in Payload
      /\ \A j \in Jobs \ {NewId} : work'[j] = work[j]
      /\ phase' = [phase EXCEPT ![NewId] = "pending"] /\ phase \in [Jobs -> Phases]
    BY FetchRows DEF WorkerInv
<1> HIDE DEF NewId
<1> SUFFICES ASSUME NEW j \in Jobs PROVE JobGood(j)'
    BY DEF JobsInv
<1>4. CASE j = NewId
    BY <1>2, <1>4 DEF JobGood
<1>5. CASE j # NewId /\ phase[j] = "absent"
    BY <1>2, <1>5 DEF JobGood, Undecided
<1>6. CASE j # NewId /\ phase[j] # "absent"
    BY <1>2, <1>6, StaysGood
<1> QED  BY <1>4, <1>5, <1>6

(* A handler commits without a follow-up job. *)
LEMMA Committed ==
    ASSUME WorkerInv, JobsInv, Goes, Busy, CommitWith({}), work' = work
    PROVE  JobsInv'
<1> SUFFICES ASSUME NEW j \in Jobs PROVE JobGood(j)'
    BY DEF JobsInv
<1>1. /\ phase[cur] \in Undecided
      /\ \A k \in Jobs \ {cur} : phase'[k] = phase[k]
    BY CommitsWith
<1>2. CASE phase[j] = "absent"
    BY <1>1, <1>2 DEF JobGood, Undecided
<1>3. CASE phase[j] # "absent"
    BY <1>1, <1>3, StaysGood
<1> QED  BY <1>2, <1>3

(* And with one: the next stage has what it needs. *)
LEMMA HandedOver ==
    ASSUME WorkerInv, Shape, JobsInv, Goes, Busy, NEW stage \in Stages, HandOver(stage),
           NEW r, r = Rec,
           stage = "transcribe" => Ready(r)',
           stage = "analyze" => transcribed'[r] /\ text' # "none"
    PROVE  JobsInv'
<1>2. /\ NewId \in Jobs /\ phase[NewId] = "absent"
      /\ work'[NewId] = [stage |-> stage, rec |-> r]
      /\ work'[NewId] \in Payload
      /\ \A j \in Jobs \ {NewId} : work'[j] = work[j]
      /\ CommitWith({NewId})
    BY HandsOver
<1> HIDE DEF NewId
<1>3. /\ phase[cur] \in Undecided
      /\ \A k \in Jobs \ {cur} : phase'[k] = IF k \in {NewId} THEN "pending" ELSE phase[k]
    BY <1>2, CommitsWith
<1> SUFFICES ASSUME NEW j \in Jobs PROVE JobGood(j)'
    BY DEF JobsInv
<1>5. CASE j = NewId
    <2>1. work'[j].stage = stage /\ work'[j].rec = r
        BY <1>2, <1>5
    <2> QED  BY <1>2, <1>5, <2>1 DEF JobGood
<1>6. CASE j # NewId /\ phase[j] = "absent"
    BY <1>3, <1>6 DEF JobGood, Undecided
<1>7. CASE j # NewId /\ phase[j] # "absent"
    BY <1>2, <1>3, <1>7, StaysGood
<1> QED  BY <1>5, <1>6, <1>7

(* A job's verdict. *)
LEMMA Concluded ==
    ASSUME WorkerInv, JobsInv, Goes, Busy, Completed \/ Failed, work' = work
    PROVE  JobsInv'
<1> SUFFICES ASSUME NEW j \in Jobs PROVE JobGood(j)'
    BY DEF JobsInv
<1>1. /\ phase[cur] \in Undecided
      /\ \A k \in Jobs \ {cur} : phase'[k] = phase[k]
    BY Concludes
<1>2. CASE phase[j] = "absent"
    BY <1>1, <1>2 DEF JobGood, Undecided
<1>3. CASE phase[j] # "absent"
    BY <1>1, <1>3, StaysGood
<1> QED  BY <1>2, <1>3

(* A step of somebody else leaves the worker where it was. *)
LEMMA WhereItWas ==
    ASSUME WorkerInv, JobsInv, AtInv, Goes,
           UNCHANGED <<at, cur>>, Busy => work'[cur] = work[cur]
    PROVE  AtInv'
<1>1. Busy => Rec' = Rec /\ Rec \in Recs
    BY Doing DEF Rec
<1>2. at = "stored" => Ready(Rec)'
    BY <1>1, Doing DEF AtInv, Goes
<1>3. at = "transcribed" => transcribed'[Rec] /\ text' # "none"
    BY <1>1, Doing DEF AtInv, Goes
<1> QED  BY <1>1, <1>2, <1>3, Doing DEF AtInv, Ready, Held

-----------------------------------------------------------------------------
(* The worker's part. *)
LEMMA WorkerKept == WorkerInv /\ Shape /\ JobsInv /\ AtInv /\ [Next]_vars => WorkerInv'
<1> SUFFICES ASSUME WorkerInv, Shape, JobsInv, AtInv, [Next]_vars PROVE WorkerInv'
    OBVIOUS
<1>1. CASE \/ (\E r \in Recs : WebhookIngest(r))
          \/ (\E r \in Recs : WebhookDies(r))
          \/ (\E r \in Recs : Sweep(r))
    BY <1>1 DEF Sweep, WebhookDies, WebhookIngest, workerVars, WorkerInv, Undecided
<1>2. ASSUME NEW r \in Recs, WebhookEnqueue(r) PROVE WorkerInv'
    BY <1>2, FetchRows DEF WebhookEnqueue
<1>3. ASSUME NEW r \in Recs, Reconcile(r) PROVE WorkerInv'
    BY <1>3, FetchRows DEF Reconcile
<1>4. ASSUME NEW r \in Recs, SweepDies(r) PROVE WorkerInv'
    BY <1>4, Dies DEF SweepDies
<1>5. ASSUME NEW j \in Jobs, Claim(j) PROVE WorkerInv'
    <2>1. work[j].stage \notin {"idle", "down"}
        BY <1>5 DEF Claim, ClaimFor, JobsInv, JobGood, Payload, Stages
    <2> QED  BY <1>5, <2>1, ClaimsJob DEF Claim
<1>6. CASE FetchHeld
    BY <1>6, Doing, Advances DEF FetchHeld
<1>7. CASE FetchDownload
    BY <1>7, Doing, CommitsOn DEF FetchDownload, Commit
<1>8. CASE \/ FetchFails
          \/ TranscribeFails
          \/ AnalyzeFails
    BY <1>8, Doing, Concludes DEF AnalyzeFails, FetchFails, TranscribeFails, Raise
<1>9. CASE FetchDeletesRemote
    BY <1>9 DEF FetchDeletesRemote, workerVars, WorkerInv, Undecided
<1>10. CASE FetchHandsOver
    <2>1. CASE transcribed[Rec]
        BY <1>10, <2>1, Doing, Advances DEF FetchHandsOver, tableVars
    <2>2. CASE ~transcribed[Rec]
        <3>1. Busy /\ HandOver("transcribe") /\ "transcribe" \in Stages
            BY <1>10, <2>2, Doing DEF FetchHandsOver, Stages
        <3>2. CommitWith({NewId}) /\ {NewId} \in SUBSET Jobs
            BY <3>1, HandsOver
        <3> QED  BY <1>10, <3>1, <3>2, CommitsOn DEF FetchHandsOver
    <2> QED  BY <2>1, <2>2
<1>11. CASE TranscribeShort
    BY <1>11, Doing, CommitsOn DEF TranscribeShort, Transcribed, Commit
<1>12. CASE TranscribeStore
    BY <1>12, Doing, CommitsOn DEF TranscribeStore, Transcribed, Commit
<1>13. CASE TranscribeHandsOver
    <2>1. Busy /\ HandOver("analyze") /\ "analyze" \in Stages
        BY <1>13, Doing DEF TranscribeHandsOver, Stages
    <2>2. CommitWith({NewId}) /\ {NewId} \in SUBSET Jobs
        BY <2>1, HandsOver
    <2> QED  BY <1>13, <2>1, <2>2, CommitsOn DEF TranscribeHandsOver
<1>14. CASE AnalyzeStore
    BY <1>14, Doing, CommitsOn DEF AnalyzeStore, Commit
<1>15. CASE Finish
    BY <1>15, Doing, Concludes DEF Finish
<1>16. CASE Crash
    BY <1>16, Dies DEF Crash
<1>17. CASE Restart
    BY <1>17, Restarts DEF Restart
<1>18. CASE UNCHANGED vars
    BY <1>18 DEF vars, workerVars, WorkerInv, Undecided
<1> QED  BY <1>1, <1>2, <1>3, <1>4, <1>5, <1>6, <1>7, <1>8, <1>9, <1>10, <1>11, <1>12,
    <1>13, <1>14, <1>15, <1>16, <1>17, <1>18 DEF Next, Stage

(* The shape of the rest. *)
LEMMA ShapeKept == WorkerInv /\ Shape /\ JobsInv /\ AtInv /\ [Next]_vars => Shape'
<1> SUFFICES ASSUME WorkerInv, Shape, JobsInv, AtInv, [Next]_vars PROVE Shape'
    OBVIOUS
<1>1. ASSUME NEW r \in Recs, WebhookIngest(r) PROVE Shape'
    BY <1>1 DEF WebhookIngest, Shape, AudioShape, FeedShape, audioVars, textVars, feedVars
<1>2. ASSUME NEW r \in Recs, WebhookDies(r) PROVE Shape'
    BY <1>2 DEF WebhookDies, Shape, AudioShape, FeedShape, audioVars, textVars, feedVars
<1>3. ASSUME NEW r \in Recs, WebhookEnqueue(r) PROVE Shape'
    <2>1. work' \in [Jobs -> [stage : Stages, rec : Recs] \union {NoWork}]
        BY <1>3, FetchRows DEF WebhookEnqueue
    <2> QED  BY <1>3, <2>1 DEF WebhookEnqueue, Shape, AudioShape, FeedShape, audioVars,
        textVars, feedVars
<1>4. ASSUME NEW r \in Recs, Reconcile(r) PROVE Shape'
    <2>1. work' \in [Jobs -> [stage : Stages, rec : Recs] \union {NoWork}]
        BY <1>4, FetchRows DEF Reconcile
    <2>2. FeedShape'
        BY <1>4, PipelineAssumption DEF Reconcile, Shape, FeedShape
    <2> QED  BY <1>4, <2>1, <2>2 DEF Reconcile, Shape, AudioShape, audioVars, textVars,
        feedVars
<1>5. ASSUME NEW r \in Recs, Sweep(r) PROVE Shape'
    BY <1>5 DEF Sweep, Shape, AudioShape, FeedShape, audioVars, textVars, feedVars
<1>6. ASSUME NEW r \in Recs, SweepDies(r) PROVE Shape'
    BY <1>6 DEF SweepDies, Shape, AudioShape, FeedShape, audioVars, textVars, feedVars
<1>7. ASSUME NEW j \in Jobs, Claim(j) PROVE Shape'
    BY <1>7 DEF Claim, Shape, AudioShape, FeedShape, audioVars, textVars, feedVars
<1>8. CASE FetchHeld
    BY <1>8 DEF FetchHeld, Shape, AudioShape, FeedShape, audioVars, textVars, feedVars
<1>9. CASE FetchDownload
    BY <1>9, Doing DEF FetchDownload, Commit, Shape, AudioShape, FeedShape, audioVars,
        textVars, feedVars
<1>10. CASE \/ FetchFails
          \/ TranscribeFails
          \/ AnalyzeFails
    BY <1>10 DEF AnalyzeFails, FetchFails, TranscribeFails, Raise, Shape, AudioShape,
        FeedShape, audioVars, textVars, feedVars
<1>11. CASE FetchDeletesRemote
    BY <1>11, Doing DEF FetchDeletesRemote, Commit, Shape, AudioShape, FeedShape, audioVars,
        textVars, feedVars
<1>12. CASE FetchHandsOver
    <2>1. work' \in [Jobs -> [stage : Stages, rec : Recs] \union {NoWork}]
        BY <1>12, Doing, NewRows DEF FetchHandsOver, HandOver, Stages, Shape
    <2> QED  BY <1>12, <2>1 DEF FetchHandsOver, Shape, AudioShape, FeedShape, audioVars,
        textVars, feedVars
<1>13. CASE TranscribeShort
    BY <1>13, Doing DEF TranscribeShort, Transcribed, Commit, Shape, AudioShape, FeedShape,
        audioVars, textVars, feedVars
<1>14. CASE TranscribeStore
    BY <1>14, Doing DEF TranscribeStore, Transcribed, Commit, Shape, AudioShape, FeedShape,
        audioVars, textVars, feedVars
<1>15. CASE TranscribeHandsOver
    <2>1. work' \in [Jobs -> [stage : Stages, rec : Recs] \union {NoWork}]
        BY <1>15, Doing, NewRows DEF TranscribeHandsOver, HandOver, Stages, Shape
    <2> QED  BY <1>15, <2>1 DEF TranscribeHandsOver, Shape, AudioShape, FeedShape,
        audioVars, textVars, feedVars
<1>16. CASE AnalyzeStore
    BY <1>16 DEF AnalyzeStore, Commit, Shape, AudioShape, FeedShape, audioVars, textVars,
        feedVars
<1>17. CASE \/ Finish
          \/ Crash
          \/ Restart
    BY <1>17 DEF Crash, Finish, Restart, Shape, AudioShape, FeedShape, audioVars, textVars,
        feedVars
<1>18. CASE UNCHANGED vars
    BY <1>18 DEF vars, Shape, AudioShape, FeedShape, audioVars, textVars, feedVars
<1> QED  BY <1>1, <1>2, <1>3, <1>4, <1>5, <1>6, <1>7, <1>8, <1>9, <1>10, <1>11, <1>12,
    <1>13, <1>14, <1>15, <1>16, <1>17, <1>18 DEF Next, Stage

(* The audio goes only once it is transcribed, a transcript stays. *)
LEMMA NothingLost == WorkerInv /\ Shape /\ JobsInv /\ AtInv /\ [Next]_vars => Goes
<1> SUFFICES ASSUME WorkerInv, Shape, JobsInv, AtInv, [Next]_vars PROVE Goes
    OBVIOUS
<1>1. CASE \/ (\E r \in Recs : WebhookIngest(r))
          \/ (\E r \in Recs : WebhookEnqueue(r))
          \/ (\E r \in Recs : WebhookDies(r))
          \/ (\E r \in Recs : Reconcile(r))
          \/ (\E j \in Jobs : Claim(j))
          \/ FetchHeld
          \/ FetchHandsOver
          \/ TranscribeHandsOver
          \/ Finish
          \/ Crash
          \/ Restart
    BY <1>1 DEF Claim, Crash, FetchHandsOver, FetchHeld, Finish, Reconcile, Restart,
        TranscribeHandsOver, WebhookDies, WebhookEnqueue, WebhookIngest, Goes, Ready, Held,
        audioVars, textVars
<1>2. CASE \/ FetchFails
          \/ TranscribeFails
          \/ AnalyzeFails
    BY <1>2 DEF AnalyzeFails, FetchFails, TranscribeFails, Raise, Goes, Ready, Held,
        audioVars, textVars
<1>3. ASSUME NEW r \in Recs, Sweep(r) PROVE Goes
    BY <1>3 DEF Sweep, Due, Goes, Ready, Held, Shape, AudioShape, textVars
<1>4. ASSUME NEW r \in Recs, SweepDies(r) PROVE Goes
    BY <1>4 DEF SweepDies, Due, Goes, Ready, Held, Shape, AudioShape, textVars
<1>5. CASE FetchDownload
    BY <1>5, Doing DEF FetchDownload, Transcribed, Goes, Ready, Held, Shape, AudioShape,
        audioVars, textVars
<1>6. CASE FetchDeletesRemote
    BY <1>6 DEF FetchDeletesRemote, Goes, Ready, Held, textVars
<1>7. CASE TranscribeShort
    BY <1>7, Doing DEF TranscribeShort, Transcribed, Goes, Ready, Held, Shape, AudioShape,
        audioVars, textVars
<1>8. CASE TranscribeStore
    BY <1>8, Doing DEF TranscribeStore, Transcribed, Goes, Ready, Held, Shape, AudioShape,
        audioVars, textVars
<1>9. CASE AnalyzeStore
    BY <1>9 DEF AnalyzeStore, Goes, Ready, Held, audioVars
<1>10. CASE UNCHANGED vars
    BY <1>10 DEF vars, Goes, Ready, Held, audioVars, textVars
<1> QED  BY <1>1, <1>2, <1>3, <1>4, <1>5, <1>6, <1>7, <1>8, <1>9, <1>10 DEF Next, Stage

(* Whatever is enqueued finds its input, now and later. *)
LEMMA JobsKept == WorkerInv /\ Shape /\ JobsInv /\ AtInv /\ [Next]_vars => JobsInv'
<1> SUFFICES ASSUME WorkerInv, Shape, JobsInv, AtInv, [Next]_vars PROVE JobsInv'
    OBVIOUS
<1>0. Goes
    BY NothingLost
<1>1. CASE \/ (\E r \in Recs : WebhookIngest(r))
          \/ (\E r \in Recs : WebhookDies(r))
          \/ (\E r \in Recs : Sweep(r))
          \/ FetchDeletesRemote
    BY <1>0, <1>1, SameJobs DEF FetchDeletesRemote, Sweep, WebhookDies, WebhookIngest,
        workerVars
<1>2. ASSUME NEW r \in Recs, WebhookEnqueue(r) PROVE JobsInv'
    BY <1>0, <1>2, FetchAsked DEF WebhookEnqueue
<1>3. ASSUME NEW r \in Recs, Reconcile(r) PROVE JobsInv'
    BY <1>0, <1>3, FetchAsked DEF Reconcile
<1>4. ASSUME NEW r \in Recs, SweepDies(r) PROVE JobsInv'
    BY <1>0, <1>4, Dies, SameJobs DEF SweepDies
<1>5. ASSUME NEW j \in Jobs, Claim(j) PROVE JobsInv'
    BY <1>0, <1>5, SameJobs DEF Claim, ClaimFor, tableVars
<1>6. CASE FetchHeld
    BY <1>0, <1>6, SameJobs DEF FetchHeld, tableVars
<1>7. CASE FetchDownload
    BY <1>0, <1>7, Doing, Committed DEF FetchDownload, Commit
<1>8. CASE \/ FetchFails
          \/ TranscribeFails
          \/ AnalyzeFails
    BY <1>0, <1>8, Doing, Concluded DEF AnalyzeFails, FetchFails, TranscribeFails, Raise
<1>9. CASE FetchHandsOver
    <2>1. CASE transcribed[Rec]
        BY <1>0, <1>9, <2>1, SameJobs DEF FetchHandsOver, tableVars
    <2>2. CASE ~transcribed[Rec]
        <3>1. Held(Rec) /\ Busy
            BY <1>9, <2>2, Doing DEF FetchHandsOver, AtInv, Ready
        <3>2. PICK r \in Recs : r = Rec
            BY <3>1, Doing
        <3>3. HandOver("transcribe") /\ "transcribe" \in Stages /\ Ready(r)
            BY <1>9, <2>2, <3>1, <3>2 DEF FetchHandsOver, Stages, Ready
        <3>4. Ready(r)'
            BY <1>0, <3>3 DEF Goes
        <3> QED  BY <1>0, <3>1, <3>2, <3>3, <3>4, HandedOver
    <2> QED  BY <2>1, <2>2
<1>10. CASE TranscribeShort
    BY <1>0, <1>10, Doing, Committed DEF TranscribeShort, Transcribed, Commit
<1>11. CASE TranscribeStore
    BY <1>0, <1>11, Doing, Committed DEF TranscribeStore, Transcribed, Commit
<1>12. CASE TranscribeHandsOver
    <2>1. Busy /\ transcribed[Rec] /\ text # "none"
        BY <1>12, Doing DEF TranscribeHandsOver, AtInv
    <2>2. transcribed'[Rec] /\ text' # "none"
        BY <1>0, <2>1, Doing DEF Goes
    <2>3. HandOver("analyze") /\ "analyze" \in Stages
        BY <1>12 DEF TranscribeHandsOver, Stages
    <2> QED  BY <1>0, <2>1, <2>2, <2>3, HandedOver
<1>13. CASE AnalyzeStore
    BY <1>0, <1>13, Doing, Committed DEF AnalyzeStore, Commit
<1>14. CASE Finish
    BY <1>0, <1>14, Doing, Concluded DEF Finish
<1>15. CASE Crash
    BY <1>0, <1>15, Dies, SameJobs DEF Crash
<1>16. CASE Restart
    BY <1>0, <1>16, Restarts, SameJobs DEF Restart
<1>17. CASE UNCHANGED vars
    BY <1>0, <1>17, SameJobs DEF vars, workerVars
<1> QED  BY <1>1, <1>2, <1>3, <1>4, <1>5, <1>6, <1>7, <1>8, <1>9, <1>10, <1>11, <1>12,
    <1>13, <1>14, <1>15, <1>16, <1>17 DEF Next, Stage

(* Where the worker is says what it has achieved. *)
LEMMA PlacesKept == WorkerInv /\ Shape /\ JobsInv /\ AtInv /\ [Next]_vars => AtInv'
<1> SUFFICES ASSUME WorkerInv, Shape, JobsInv, AtInv, [Next]_vars PROVE AtInv'
    OBVIOUS
<1>0. Goes
    BY NothingLost
<1>1. CASE \/ (\E r \in Recs : WebhookIngest(r))
          \/ (\E r \in Recs : WebhookDies(r))
          \/ (\E r \in Recs : Sweep(r))
          \/ FetchDeletesRemote
    BY <1>0, <1>1, WhereItWas DEF FetchDeletesRemote, Sweep, WebhookDies, WebhookIngest,
        workerVars
<1>2. ASSUME NEW r \in Recs, WebhookEnqueue(r) PROVE AtInv'
    <2>1. UNCHANGED <<at, cur>> /\ (Busy => work'[cur] = work[cur])
        BY <1>2, FetchRows, Doing DEF WebhookEnqueue, Undecided
    <2> QED  BY <1>0, <2>1, WhereItWas
<1>3. ASSUME NEW r \in Recs, Reconcile(r) PROVE AtInv'
    <2>1. UNCHANGED <<at, cur>> /\ (Busy => work'[cur] = work[cur])
        BY <1>3, FetchRows, Doing DEF Reconcile, Undecided
    <2> QED  BY <1>0, <2>1, WhereItWas
<1>4. ASSUME NEW r \in Recs, SweepDies(r) PROVE AtInv'
    BY <1>4 DEF SweepDies, Died, AtInv, Busy
<1>5. ASSUME NEW j \in Jobs, Claim(j) PROVE AtInv'
    <2>1. work[j].stage \in Stages
        BY <1>5 DEF Claim, ClaimFor, JobsInv, JobGood, Payload
    <2> QED  BY <1>5, <2>1 DEF Claim, ClaimFor, AtInv, Stages
<1>6. CASE FetchHeld
    BY <1>6 DEF FetchHeld, Advance, AtInv, Stages, Ready, Held, Rec, audioVars
<1>7. CASE FetchDownload
    <2>1. Rec \in Recs /\ Rec' = Rec
        BY <1>7, Doing DEF FetchDownload, Commit, Advance, Rec
    <2>2. Ready(Rec)'
        BY <1>7, <2>1 DEF FetchDownload, Shape, AudioShape, Ready, Held
    <2> QED  BY <1>7, <2>2 DEF FetchDownload, Advance, AtInv, Stages
<1>8. CASE \/ FetchFails
          \/ TranscribeFails
          \/ AnalyzeFails
    BY <1>8, Doing, Concludes DEF AnalyzeFails, FetchFails, TranscribeFails, Raise, AtInv,
        Busy
<1>9. CASE FetchHandsOver
    BY <1>9 DEF FetchHandsOver, Advance, AtInv, Stages
<1>10. CASE TranscribeShort
    BY <1>10 DEF TranscribeShort, Advance, AtInv, Stages
<1>11. CASE TranscribeStore
    <2>1. Rec \in Recs /\ Rec' = Rec
        BY <1>11, Doing DEF TranscribeStore, Transcribed, Commit, Advance, Rec
    <2>2. transcribed'[Rec] /\ text' # "none"
        BY <1>11, <2>1 DEF TranscribeStore, Transcribed, Shape, AudioShape
    <2> QED  BY <1>11, <2>1, <2>2 DEF TranscribeStore, Advance, AtInv, Stages
<1>12. CASE TranscribeHandsOver
    BY <1>12 DEF TranscribeHandsOver, Advance, AtInv, Stages
<1>13. CASE AnalyzeStore
    BY <1>13 DEF AnalyzeStore, Advance, AtInv, Stages
<1>14. CASE Finish
    BY <1>14, Doing, Concludes DEF Finish, AtInv, Busy
<1>15. CASE Crash
    BY <1>15 DEF Crash, Died, AtInv, Busy
<1>16. CASE Restart
    BY <1>16, Restarts DEF Restart, AtInv, Busy
<1>17. CASE UNCHANGED vars
    BY <1>0, <1>17, WhereItWas DEF vars, workerVars
<1> QED  BY <1>1, <1>2, <1>3, <1>4, <1>5, <1>6, <1>7, <1>8, <1>9, <1>10, <1>11, <1>12,
    <1>13, <1>14, <1>15, <1>16, <1>17 DEF Next, Stage

(* The audio is never lost before it is transcribed. *)
LEMMA AudioStays == WorkerInv /\ Shape /\ JobsInv /\ AtInv /\ AudioKept /\ [Next]_vars => AudioKept'
<1> SUFFICES ASSUME WorkerInv, Shape, JobsInv, AtInv, AudioKept, [Next]_vars PROVE AudioKept'
    OBVIOUS
<1>0. Goes
    BY NothingLost
<1>1. CASE \/ (\E r \in Recs : WebhookIngest(r))
          \/ (\E r \in Recs : WebhookEnqueue(r))
          \/ (\E r \in Recs : WebhookDies(r))
          \/ (\E r \in Recs : Reconcile(r))
          \/ (\E r \in Recs : Sweep(r))
          \/ (\E r \in Recs : SweepDies(r))
          \/ (\E j \in Jobs : Claim(j))
          \/ FetchHeld
          \/ FetchDownload
          \/ FetchHandsOver
          \/ TranscribeHandsOver
          \/ AnalyzeStore
          \/ Finish
          \/ Crash
          \/ Restart
    BY <1>0, <1>1 DEF AnalyzeStore, Claim, Crash, FetchDownload, FetchHandsOver, FetchHeld,
        Finish, Reconcile, Restart, Sweep, SweepDies, TranscribeHandsOver, WebhookDies,
        WebhookEnqueue, WebhookIngest, AudioKept, Goes, Ready, audioVars
<1>2. CASE \/ FetchFails
          \/ TranscribeFails
          \/ AnalyzeFails
    BY <1>0, <1>2 DEF AnalyzeFails, FetchFails, TranscribeFails, Raise, AudioKept, Goes,
        Ready, audioVars
<1>3. CASE TranscribeShort
    BY <1>0, <1>3 DEF TranscribeShort, Transcribed, AudioKept, Goes, Ready, audioVars
<1>4. CASE TranscribeStore
    BY <1>0, <1>4 DEF TranscribeStore, Transcribed, AudioKept, Goes, Ready, audioVars
<1>5. CASE FetchDeletesRemote
    <2>1. Ready(Rec) /\ Rec \in Recs
        BY <1>5, Doing DEF FetchDeletesRemote, AtInv
    <2>2. \A r \in Recs : r # Rec => remote'[r] = remote[r]
        BY <1>5, <2>1 DEF FetchDeletesRemote, Shape, AudioShape
    <2> QED  BY <1>0, <2>1, <2>2 DEF AudioKept, Goes, Ready
<1>6. CASE UNCHANGED vars
    BY <1>0, <1>6 DEF vars, AudioKept, Goes, Ready, audioVars
<1> QED  BY <1>1, <1>2, <1>3, <1>4, <1>5, <1>6 DEF Next, Stage

-----------------------------------------------------------------------------
(* Before the first recording. *)
LEMMA Starts == Init => IInv
<1> SUFFICES ASSUME Init PROVE IInv
    OBVIOUS
<1>1. WorkerInv
    BY WorkerStarts DEF Init
<1>2. Shape
    <2>1. NoWork \in [stage : Stages, rec : Recs] \union {NoWork}
        OBVIOUS
    <2>2. work = [j \in Jobs |-> NoWork]
        BY DEF Init
    <2>3. work \in [Jobs -> [stage : Stages, rec : Recs] \union {NoWork}]
        BY <2>1, <2>2
    <2>4. AudioShape /\ FeedShape
        BY PipelineAssumption DEF Init, AudioShape, FeedShape
    <2> QED  BY <2>3, <2>4 DEF Init, Shape
<1>3. at = "idle" /\ \A j \in Jobs : phase[j] = "absent"
    BY DEF Init, WorkerInit, Q!Init
<1>4. JobsInv /\ AtInv /\ AudioKept
    BY <1>3 DEF Init, JobsInv, JobGood, Undecided, AtInv, AudioKept
<1> QED  BY <1>1, <1>2, <1>4 DEF IInv

(* The inductive invariant of the pipeline. *)
THEOREM Invariant == Spec => []IInv
<1>1. Init => IInv
    BY Starts
<1>2. IInv /\ [Next]_vars => IInv'
    BY WorkerKept, ShapeKept, JobsKept, PlacesKept, AudioStays DEF IInv
<1> QED  BY <1>1, <1>2, PTL DEF Spec

(* The audio of a recording, or its transcript, is there for the stage that is
   due: at every moment and whoever dies, however the provider-side delete, the
   retention sweep, the webhook and the reconciler interleave with the worker
   (workers/handlers.py, "transcription gates deletion" of worker.py). *)
THEOREM NothingIsLost == Spec => []InputIsKept
<1>1. IInv => InputIsKept
    <2> SUFFICES ASSUME IInv PROVE InputIsKept
        OBVIOUS
    <2>1. WorkerTypeOK(Stages \union {"stored", "transcribed", "finish"})
        <3> DEFINE steps == Stages \union {"stored", "transcribed", "finish"}
        <3>1. at \in steps \union {"idle", "down"}
            BY DEF IInv, AtInv
        <3> HIDE DEF steps
        <3>2. WorkerTypeOK(steps)
            BY <3>1, WorkerTyped DEF IInv
        <3> QED  BY <3>2 DEF steps
    <2>2. TypeOK
        BY <2>1 DEF IInv, Shape, AudioShape, FeedShape, TypeOK
    <2>3. AudioNotLost
        BY <2>2 DEF IInv, AudioKept, AudioNotLost
    <2>4. StagesInOrder
        BY DEF IInv, JobsInv, JobGood, Ready, Undecided, StagesInOrder
    <2> QED  BY <2>3, <2>4 DEF InputIsKept
<1> QED  BY <1>1, Invariant, PTL

-----------------------------------------------------------------------------
(* What a step does to the jobs table. *)
LEMMA StepPromised == WorkerInv /\ Shape /\ JobsInv /\ AtInv /\ [Next]_vars => Promised
<1> SUFFICES ASSUME WorkerInv, Shape, JobsInv, AtInv, [Next]_vars PROVE Promised
    OBVIOUS
<1> USE DEF workerVars, tableVars
<1>1. CASE \/ (\E r \in Recs : WebhookIngest(r) \/ WebhookDies(r) \/ Sweep(r) \/ SweepDies(r))
           \/ (\E j \in Jobs : Claim(j))
           \/ FetchHeld \/ FetchDeletesRemote \/ Crash \/ Restart \/ UNCHANGED vars
    BY <1>1, TableKept DEF WebhookIngest, WebhookDies, Sweep, SweepDies, Died, Claim, ClaimFor,
        FetchHeld, FetchDeletesRemote, Crash, Restart, Restarted, vars
<1>2. ASSUME NEW r \in Recs, WebhookEnqueue(r) \/ Reconcile(r) PROVE Promised
    <2>1. FetchJob(r)
        BY <1>2 DEF WebhookEnqueue, Reconcile
    <2>2. NewId \in Jobs /\ Submit(NewId)
        BY <2>1, FetchRows DEF FetchJob
    <2> HIDE DEF NewId
    <2> QED  BY <2>2, SubmitPromised
<1>3. CASE \/ FetchDownload \/ TranscribeShort \/ TranscribeStore \/ AnalyzeStore
    <2>1. Busy /\ CommitWith({})
        BY <1>3, Doing DEF FetchDownload, TranscribeShort, TranscribeStore, Transcribed,
            AnalyzeStore, Commit
    <2> QED  BY <2>1, CommitPromised
<1>4. ASSUME NEW stage \in Stages, HandOver(stage), Busy PROVE Promised
    <2>1. NewId \in Jobs /\ CommitWith({NewId})
        BY <1>4, HandsOver
    <2> HIDE DEF NewId
    <2> QED  BY <1>4, <2>1, CommitPromised
<1>5. CASE FetchHandsOver \/ TranscribeHandsOver
    <2>1. Busy /\ {"transcribe", "analyze"} \subseteq Stages
        BY <1>5, Doing DEF FetchHandsOver, TranscribeHandsOver, Stages
    <2>2. \/ UNCHANGED <<phase, tries>>
          \/ HandOver("transcribe") \/ HandOver("analyze")
        BY <1>5 DEF FetchHandsOver, TranscribeHandsOver
    <2> QED  BY <1>4, <2>1, <2>2, TableKept
<1>6. CASE \/ FetchFails \/ TranscribeFails \/ AnalyzeFails \/ Finish
    <2>1. Busy /\ (Completed \/ Failed)
        BY <1>6, Doing DEF FetchFails, TranscribeFails, AnalyzeFails, Raise, Finish
    <2> QED  BY <2>1, VerdictPromised
<1> QED  BY <1>1, <1>2, <1>3, <1>5, <1>6 DEF Next, Stage

(* The pipeline keeps to the queue's terms: whatever its handlers, its feeds and
   the crashes do, the jobs table behaves as WorkQueue allows -- no attempt past
   the limit, no verdict undone, no row overwritten by a follow-up job
   (jobs/queue.py enqueue, complete, fail). *)
THEOREM KeepsToTheQueue == Spec => Q!Spec
<1>1. Init => Q!Init
    BY DEF Init, WorkerInit
<1>2. IInv /\ [Next]_vars => [Q!Next]_(Q!wqVars)
    BY StepPromised DEF IInv, Promised
<1> QED  BY <1>1, <1>2, Invariant, PTL DEF Spec, Q!Spec

(***************************************************************************)
(* OpenPhone's mirror                                                      *)
(***************************************************************************)

Paths == {"idle", "asked", "call", "part", "record", "taken", "failed"}
Hops == [at : Paths, job : Jobs \union {NoJob}, thing : Things \union {"none"},
         brings : SUBSET Parts]
Ticks == [at : {"idle", "asking", "read"}, all : BOOLEAN, clean : BOOLEAN, start : SUBSET Things,
          todo : SUBSET Objects, thing : Things \union {"none"}, brings : SUBSET Parts]

MirrorShape ==
    /\ mix \in Mixes /\ there \subseteq mix.on /\ aged \subseteq there \intersect Objects
    /\ rows \subseteq there /\ noted \subseteq there /\ filed \subseteq Objects
    /\ payload \in [Things -> SUBSET Parts] /\ queued \in [Things -> {0, 1}]
    /\ at \in {"idle", "down", "posted"}
    /\ hop \in [Slots -> Hops] /\ mine \in Slots \union {NoSlot}
    /\ poll \in Ticks /\ swept \subseteq Things /\ due \subseteq Hooks
    /\ closed \in BOOLEAN /\ ready \in BOOLEAN
    /\ repair \in {"none", "read", "done"}
    /\ faults \in Nat /\ crashes + faults <= MaxFaults

(* A part comes after its call, a job is about something that happened, and what
   the repair read is there. *)
LineInv ==
    /\ there \intersect Parts # {} => "call" \in there
    /\ \A j \in Hooks : phase[j] # "absent" => j[2] \in there /\ ready
    /\ repair = "read" => "recording" \in there

(* An object is queued once, exactly if its row is there; a part by itself. *)
LedgerInv ==
    \A x \in Things :
        /\ queued[x] = IF x \in rows THEN 1 ELSE 0
        /\ payload[x] \subseteq there
        /\ x \in Parts /\ x \in rows => payload[x] = {x}
        /\ x \notin rows => phase[<<"event", x>>] = "absent"

(* What a request has read of Quo is there to be recorded. *)
Readable(x, parts) ==
    x \in there /\ parts \subseteq there \intersect Parts /\ (x \in Parts => parts = {x})

HopGood(g) ==
    /\ hop[g].at = "idle" => hop[g] = NoHop
    /\ hop[g].at # "idle" => hop[g].job \in Jobs /\ phase[hop[g].job] # "absent"
    /\ hop[g].at \in {"call", "part"} => hop[g].job \in Hooks /\ Thing(g) # "text"
    /\ hop[g].at = "part" => Thing(g) \in Parts
    /\ hop[g].at = "record" => Readable(hop[g].thing, hop[g].brings)

HopInv == \A g \in Slots : HopGood(g)

(* The worker waits for the request it made. *)
MineInv ==
    /\ at = "posted" => mine \in Slots /\ hop[mine].at # "idle" /\ hop[mine].job = cur
    /\ at # "posted" => mine = NoSlot

(* A request nobody waits for has cost a fault. *)
Stray == {g \in Slots : hop[g] # NoHop} \ {mine}
StrayInv == Cardinality(Stray) <= crashes + faults

(* An announcement that found its call mirrored leads to the part's own row. *)
Carried(g) ==
    /\ hop[g].at # "call"
    /\ hop[g].at = "record" => hop[g].thing = Thing(g)
    /\ hop[g].at = "taken" => Thing(g) \in rows

DueInv ==
    /\ \A j \in due : /\ j \in Hooks /\ j[2] \in Parts /\ "call" \in rows
                      /\ phase[j] = "done" => j[2] \in rows
    /\ mine \in Slots /\ hop[mine].job \in due => Carried(mine)

(* What a clean tick has done with is mirrored, refused, or too old for it; what
   it will not look back for after the backfill is not only too old. *)
Handled == rows \union snubbed

TickInv ==
    /\ poll.start \subseteq there
    /\ poll.at = "read" => poll.thing \in poll.todo /\ Readable(poll.thing, poll.brings)
    /\ poll.at # "idle" /\ poll.clean =>
           /\ (poll.start \intersect Objects) \ poll.todo \subseteq Handled \union aged
           /\ poll.all => aged \subseteq Handled \union poll.todo
    /\ swept \intersect Objects \subseteq Handled \union aged

MirrorInv == /\ WorkerInv /\ MirrorShape /\ LineInv /\ LedgerInv /\ HopInv /\ MineInv /\ StrayInv
        /\ DueInv /\ TickInv /\ NothingMissed

-----------------------------------------------------------------------------
(* Names and slots *)

(* A delivery and a hook are different jobs, about the thing they name. *)
LEMMA JobNames ==
    /\ \A x \in Things : /\ <<"event", x>> \in Deliveries /\ <<"event", x>> \in Jobs
                         /\ <<"event", x>> \notin Hooks /\ <<"event", x>>[2] = x
    /\ \A x \in Things, n \in Posts : /\ <<"hook", x, n>> \in Hooks
                                      /\ <<"hook", x, n>>[2] = x
    /\ \A j \in Hooks : j \in Jobs /\ j \notin Deliveries /\ j[2] \in Things
    /\ \A j \in Deliveries : j \in Jobs /\ j[2] \in Things /\ j = <<"event", j[2]>>
    /\ \A j \in Jobs : j[2] \in Things
<1>1. Jobs = Deliveries \union Hooks
    BY OpenPhoneAssumption
<1>2. \A j \in Hooks : j[1] = "hook" /\ j[2] \in Things
    BY DEF Hooks
<1>3. \A j \in Deliveries : j[1] = "event" /\ j[2] \in Things /\ j = <<"event", j[2]>>
    BY DEF Deliveries
<1>4. \A x \in Things : <<"event", x>> \in Deliveries /\ <<"event", x>>[2] = x
    BY DEF Deliveries
<1>5. \A x \in Things, n \in Posts : <<"hook", x, n>> \in Hooks /\ <<"hook", x, n>>[2] = x
    BY DEF Hooks
<1>6. \A j \in Hooks : j \notin Deliveries
    BY <1>2, <1>3
<1>7. \A j \in Jobs : j[2] \in Things
    BY <1>1, <1>2, <1>3
<1> QED  BY <1>1, <1>2, <1>3, <1>4, <1>5, <1>6, <1>7

(* What happens on a line are things, and the parts are of the two kinds. *)
LEMMA LineThings ==
    ASSUME MirrorShape
    PROVE  /\ mix.on \subseteq Things /\ there \subseteq Things /\ rows \subseteq Things
           /\ MaxFaults \in Nat /\ NoSlot \notin Slots /\ Objects \intersect Parts = {}
           /\ Things = Objects \union Parts
<1>1. mix.on \subseteq Things /\ MaxFaults \in Nat
    BY OpenPhoneAssumption DEF MirrorShape
<1>2. NoSlot \notin Slots
    BY <1>1 DEF NoSlot, Slots
<1> QED  BY <1>1, <1>2 DEF MirrorShape, Objects, Parts, Things

(* No more requests are astray than faults have left: one slot is free for the
   worker's next. *)
LEMMA FreeSlot ==
    ASSUME WorkerInv, MirrorShape, MineInv, StrayInv, at = "idle"
    PROVE  \E g \in Slots : hop[g] = NoHop
<1> SUFFICES ASSUME \A g \in Slots : hop[g] # NoHop PROVE FALSE
    OBVIOUS
<1>1. MaxFaults \in Nat /\ faults \in Nat /\ crashes + faults <= MaxFaults /\ NoSlot \notin Slots
    BY LineThings DEF MirrorShape
<1>2. Stray = 0..MaxFaults
    BY <1>1 DEF Stray, MineInv, Slots
<1>3. Cardinality(0..MaxFaults) = MaxFaults + 1
    BY <1>1, FS_Interval
<1>4. crashes \in Nat
    BY WorkerAssumption DEF WorkerInv
<1> QED  BY <1>1, <1>2, <1>3, <1>4 DEF StrayInv

(* There are finitely many slots. *)
LEMMA SlotsFinite == IsFiniteSet(Slots)
<1>1. MaxFaults \in Nat
    BY OpenPhoneAssumption
<1> QED  BY <1>1, FS_Interval DEF Slots

-----------------------------------------------------------------------------
(* The ledger *)

(* Whoever records it, an object is queued once, with its row, or was there, or is
   refused; nothing else changes. *)
LEMMA Recorded ==
    ASSUME WorkerInv, MirrorShape, LedgerInv, NEW x, NEW parts, Readable(x, parts),
           RecordAndEnqueue(x, parts), UNCHANGED there
    PROVE  /\ WorkerInv' /\ LedgerInv' /\ Promised
           /\ UNCHANGED <<at, cur, crashes>>
           /\ payload' \in [Things -> SUBSET Parts] /\ queued' \in [Things -> {0, 1}]
           /\ rows \subseteq rows' /\ snubbed \subseteq snubbed' /\ rows' \subseteq there
           /\ x \in rows' \union snubbed' /\ (ready => x \in rows')
           /\ \A j \in Hooks : phase'[j] = phase[j]
           /\ \A j \in Jobs : phase[j] # "absent" => phase'[j] = phase[j]
<1>0. x \in Things /\ x \in there /\ parts \subseteq Parts /\ parts \subseteq there
    BY LineThings DEF Readable
<1>1. CASE ~ready
    <2>1. /\ UNCHANGED <<phase, tries, at, cur, crashes, rows, payload, queued>>
          /\ snubbed' = snubbed \union {x}
        BY <1>1 DEF RecordAndEnqueue, workerVars
    <2>2. WorkerInv' /\ LedgerInv' /\ Promised
        BY <2>1, TableKept DEF WorkerInv, LedgerInv
    <2> QED  BY <1>1, <2>1, <2>2 DEF MirrorShape
<1>2. CASE ready /\ Duplicate(x)
    <2>1. UNCHANGED <<phase, tries, at, cur, crashes, rows, payload, queued, snubbed>>
        BY <1>2 DEF RecordAndEnqueue, workerVars, ledgerVars
    <2>2. WorkerInv' /\ LedgerInv' /\ Promised
        BY <2>1, TableKept DEF WorkerInv, LedgerInv
    <2> QED  BY <1>2, <2>1, <2>2 DEF MirrorShape, Duplicate
<1>3. CASE ready /\ ~Duplicate(x)
    <2>1. /\ x \notin rows /\ rows' = rows \union {x} /\ UNCHANGED snubbed
          /\ queued' = [queued EXCEPT ![x] = @ + 1]
          /\ payload' = [payload EXCEPT ![x] = parts]
          /\ phase' = [phase EXCEPT ![<<"event", x>>] = "pending"]
          /\ UNCHANGED <<tries, at, cur, crashes>>
        BY <1>3 DEF RecordAndEnqueue, Duplicate, Queues
    <2>2. /\ <<"event", x>> \in Jobs /\ phase[<<"event", x>>] = "absent"
          /\ <<"event", x>> \notin Hooks
        BY <1>0, <2>1, JobNames DEF LedgerInv
    <2>3. Submit(<<"event", x>>)
        BY <2>1, <2>2 DEF Submit, Q!Submit
    <2>4. WorkerInv' /\ Promised
        BY <2>2, <2>3, Submits, SubmitPromised
    <2>5. \A j \in Jobs : j # <<"event", x>> => phase'[j] = phase[j]
        BY <2>1 DEF WorkerInv
    <2>6. \A y \in Things : y # x => <<"event", y>> # <<"event", x>> /\ <<"event", y>> \in Jobs
        BY JobNames
    <2>7. /\ queued' \in [Things -> {0, 1}] /\ queued'[x] = 1
          /\ payload' \in [Things -> SUBSET Parts] /\ payload'[x] = parts
          /\ \A y \in Things : y # x => queued'[y] = queued[y] /\ payload'[y] = payload[y]
        BY <1>0, <2>1 DEF LedgerInv, MirrorShape
    <2>8. LedgerInv'
        BY <1>0, <2>1, <2>5, <2>6, <2>7 DEF LedgerInv, Readable
    <2>9. \A j \in Hooks : j \in Jobs /\ j # <<"event", x>>
        BY <2>2, JobNames
    <2> QED  BY <1>0, <2>1, <2>2, <2>4, <2>5, <2>7, <2>8, <2>9 DEF MirrorShape
<1> QED  BY <1>1, <1>2, <1>3

-----------------------------------------------------------------------------
(* What keeps each part of the invariant *)

(* A step that costs a fault or none. *)
Paid == UNCHANGED faults \/ Fault

(* A fault is counted, and the bound on faults and deaths is kept. *)
LEMMA Pays ==
    ASSUME WorkerInv, MirrorShape, Paid, UNCHANGED crashes
    PROVE  /\ faults' \in Nat /\ crashes' + faults' <= MaxFaults
           /\ crashes + faults <= crashes' + faults'
<1>1. crashes \in Nat /\ MaxFaults \in Nat /\ faults \in Nat /\ crashes + faults <= MaxFaults
    BY LineThings, WorkerAssumption DEF WorkerInv, MirrorShape
<1>2. CASE UNCHANGED faults
    BY <1>1, <1>2
<1>3. CASE Fault
    BY <1>1, <1>3 DEF Fault
<1> QED  BY <1>2, <1>3 DEF Paid

(* Jobs stay in the table. *)
JobsStay == \A j \in Jobs : phase[j] # "absent" => phase'[j] # "absent"

(* Requests that do not move stay as good. *)
LEMMA HopsStay ==
    ASSUME HopInv, UNCHANGED hop, JobsStay, there \subseteq there'
    PROVE  HopInv'
<1> QED  BY DEF HopInv, HopGood, JobsStay, Readable, Thing

(* The same requests astray, and no fault taken back. *)
LEMMA StrayStays ==
    ASSUME WorkerInv, MirrorShape, StrayInv, Stray' = Stray, UNCHANGED crashes, Paid
    PROVE  StrayInv'
<1>1. Cardinality(Stray) \in Nat /\ Cardinality(Stray) <= crashes + faults
    BY SlotsFinite, FS_Subset, FS_CardinalityType DEF Stray, StrayInv
<1>2. crashes \in Nat /\ faults \in Nat /\ crashes' \in Nat
    BY WorkerAssumption DEF WorkerInv, MirrorShape
<1>3. /\ crashes + faults <= crashes' + faults' /\ crashes' = crashes
      /\ \E f \in Nat : faults' = f
    BY Pays
<1>4. PICK f \in Nat : faults' = f
    BY <1>3
<1>5. Cardinality(Stray) <= crashes + f
    BY <1>1, <1>2, <1>3, <1>4
<1> QED  BY <1>3, <1>4, <1>5 DEF StrayInv

(* Rows only come, and a hook's job is as it was. *)
LEMMA DueStays ==
    ASSUME DueInv, UNCHANGED <<due, hop, mine>>, rows \subseteq rows',
           \A j \in Hooks : phase'[j] = phase[j]
    PROVE  DueInv'
<1> QED  BY DEF DueInv, Carried, Thing

(* Objects are mirrored or refused behind the tick's back. *)
LEMMA TickStays ==
    ASSUME TickInv, NothingMissed, UNCHANGED <<poll, swept, closed, aged>>,
           rows \subseteq rows', snubbed \subseteq snubbed', there \subseteq there'
    PROVE  TickInv' /\ NothingMissed'
<1> QED  BY DEF TickInv, NothingMissed, Handled, Readable

(* The line's rules, when nothing happens on it and no hook is posted. *)
LEMMA LineStays ==
    ASSUME LineInv, UNCHANGED <<there, ready, repair>>,
           \A j \in Hooks : phase[j] = "absent" => phase'[j] = "absent"
    PROVE  LineInv'
<1> QED  BY DEF LineInv

-----------------------------------------------------------------------------
(* The line *)

(* Something happens at Quo, an hour passes, or the key is set. *)
LEMMA LineSteps ==
    ASSUME MirrorInv, Line
    PROVE  MirrorInv' /\ Promised
<1>1. /\ UNCHANGED <<phase, tries, at, cur, crashes, mix, rows, payload, queued, snubbed,
                     closed, swept, hop, mine, due, repair, filed, noted, dropped, faults>>
      /\ there \subseteq there' /\ aged \subseteq aged'
    BY DEF Line, Happens, Ages, KeySet, workerVars, ledgerVars, pollVars, hopVars, crmVars
<1>2. WorkerInv' /\ Promised
    BY <1>1, TableKept DEF MirrorInv, WorkerInv
<1>3. JobsStay /\ \A j \in Hooks : phase'[j] = phase[j]
    BY <1>1 DEF JobsStay
<1>4. HopInv' /\ MineInv' /\ StrayInv' /\ DueInv'
    BY <1>1, <1>3, HopsStay, StrayStays, DueStays DEF MirrorInv, MineInv, Paid, Stray
<1>5. LedgerInv'
    BY <1>1 DEF MirrorInv, LedgerInv
<1>6. ASSUME NEW x \in Things, Happens(x)
      PROVE  MirrorShape' /\ LineInv' /\ TickInv' /\ NothingMissed'
    <2>1. /\ x \in mix.on /\ (x \in Parts => "call" \in there) /\ there' = there \union {x}
          /\ UNCHANGED <<aged, ready, poll>>
        BY <1>6 DEF Happens, pollVars
    <2>2. MirrorShape'
        BY <1>1, <2>1 DEF MirrorInv, MirrorShape
    <2>3. LineInv'
        BY <1>1, <2>1 DEF MirrorInv, LineInv, Parts
    <2> QED  BY <1>1, <2>1, <2>2, <2>3, TickStays DEF MirrorInv
<1>7. ASSUME NEW x \in Objects, Ages(x)
      PROVE  MirrorShape' /\ LineInv' /\ TickInv' /\ NothingMissed'
    <2>1. /\ x \in there \intersect Objects /\ x \notin aged /\ x \notin rows
          /\ x \in swept \/ (~closed /\ poll.at = "idle")
          /\ aged' = aged \union {x} /\ UNCHANGED <<there, ready, poll>>
        BY <1>7 DEF Ages, pollVars
    <2>2. MirrorShape' /\ LineInv'
        BY <1>1, <2>1 DEF MirrorInv, MirrorShape, LineInv
    <2>3. x \in snubbed \/ (~closed /\ poll.at = "idle")
        BY <2>1 DEF MirrorInv, TickInv, Handled
    <2>4. TickInv' /\ NothingMissed'
        BY <1>1, <2>1, <2>3 DEF MirrorInv, TickInv, NothingMissed, Handled, Readable
    <2> QED  BY <2>2, <2>4
<1>8. ASSUME KeySet
      PROVE  MirrorShape' /\ LineInv' /\ TickInv' /\ NothingMissed'
    <2>1. ready' = TRUE /\ poll' = NoTick /\ UNCHANGED <<there, aged>>
        BY <1>8 DEF KeySet
    <2>2. poll' \in Ticks /\ poll'.at = "idle" /\ poll'.start = {}
        BY <2>1 DEF NoTick, Ticks
    <2>3. MirrorShape' /\ LineInv'
        BY <1>1, <2>1, <2>2 DEF MirrorInv, MirrorShape, LineInv
    <2>4. TickInv' /\ NothingMissed'
        BY <1>1, <2>1, <2>2 DEF MirrorInv, TickInv, NothingMissed, Handled, Readable
    <2> QED  BY <2>3, <2>4
<1>9. (\E x \in Things : Happens(x)) \/ (\E o \in Objects : Ages(o)) \/ KeySet
    BY DEF Line
<1>10. MirrorShape' /\ LineInv' /\ TickInv' /\ NothingMissed'
    BY <1>6, <1>7, <1>8, <1>9
<1> QED  BY <1>2, <1>4, <1>5, <1>10 DEF MirrorInv

-----------------------------------------------------------------------------
(* Recording, by any of the three readers *)

(* What none of them touches. *)
Elsewhere == UNCHANGED <<mix, there, aged, ready, closed, swept, mine, due, filed, noted,
                         dropped, faults>>

(* Whoever records, the invariant of everything but its own place is kept. *)
LEMMA RecordingKeeps ==
    ASSUME MirrorInv, NEW x, NEW parts, Readable(x, parts), RecordAndEnqueue(x, parts), Elsewhere,
           repair' \in {"none", "read", "done"}, repair' = "read" => repair = "read",
           hop' \in [Slots -> Hops], poll' \in Ticks
    PROVE  /\ WorkerInv' /\ MirrorShape' /\ LineInv' /\ LedgerInv' /\ NothingMissed' /\ Promised
           /\ rows \subseteq rows' /\ snubbed \subseteq snubbed'
           /\ x \in rows' \union snubbed' /\ (ready => x \in rows')
           /\ UNCHANGED <<at, cur, crashes>> /\ JobsStay
           /\ \A j \in Hooks : phase'[j] = phase[j]
           /\ UNCHANGED hop => HopInv' /\ MineInv' /\ StrayInv' /\ DueInv'
           /\ UNCHANGED poll => TickInv'
<1>1. /\ WorkerInv' /\ LedgerInv' /\ Promised
      /\ UNCHANGED <<at, cur, crashes>>
      /\ payload' \in [Things -> SUBSET Parts] /\ queued' \in [Things -> {0, 1}]
      /\ rows \subseteq rows' /\ snubbed \subseteq snubbed' /\ rows' \subseteq there
      /\ x \in rows' \union snubbed' /\ (ready => x \in rows')
      /\ \A j \in Hooks : phase'[j] = phase[j]
      /\ \A j \in Jobs : phase[j] # "absent" => phase'[j] = phase[j]
    BY Recorded DEF MirrorInv, Elsewhere
<1>2. JobsStay
    BY <1>1 DEF JobsStay
<1>3. MirrorShape'
    BY <1>1 DEF MirrorInv, MirrorShape, Elsewhere
<1>4. LineInv'
    BY <1>1 DEF MirrorInv, LineInv, Elsewhere
<1>5. NothingMissed'
    BY <1>1 DEF MirrorInv, NothingMissed, Elsewhere
<1>6. ASSUME UNCHANGED hop
      PROVE  HopInv' /\ MineInv' /\ StrayInv' /\ DueInv'
    BY <1>1, <1>2, <1>6, HopsStay, StrayStays, DueStays DEF MirrorInv, MineInv, Elsewhere, Paid, Stray
<1>7. ASSUME UNCHANGED poll
      PROVE  TickInv'
    BY <1>1, <1>7, TickStays DEF MirrorInv, Elsewhere
<1> QED  BY <1>1, <1>2, <1>3, <1>4, <1>5, <1>6, <1>7

(* The poll records what it has in its hands. *)
LEMMA PollRecordsKeeps ==
    ASSUME MirrorInv, PollRecords
    PROVE  MirrorInv' /\ Promised
<1>1. /\ poll.at = "read" /\ RecordAndEnqueue(poll.thing, poll.brings)
      /\ poll' = [poll EXCEPT !.at = "asking", !.todo = @ \ {poll.thing}, !.thing = "none",
                              !.brings = {}]
      /\ Elsewhere /\ UNCHANGED <<hop, repair>>
    BY DEF PollRecords, lineVars, hopVars, crmVars, Elsewhere
<1>2. Readable(poll.thing, poll.brings) /\ poll.thing \in poll.todo
    BY <1>1 DEF MirrorInv, TickInv
<1>3. /\ poll' \in Ticks /\ poll'.at = "asking" /\ poll'.todo = poll.todo \ {poll.thing}
      /\ poll'.start = poll.start /\ poll'.clean = poll.clean /\ poll'.all = poll.all
    BY <1>1 DEF MirrorInv, MirrorShape, Ticks
<1>4. hop' \in [Slots -> Hops] /\ repair' \in {"none", "read", "done"}
    BY <1>1 DEF MirrorInv, MirrorShape
<1>5. /\ WorkerInv' /\ MirrorShape' /\ LineInv' /\ LedgerInv' /\ NothingMissed' /\ Promised
      /\ HopInv' /\ MineInv' /\ StrayInv' /\ DueInv'
      /\ rows \subseteq rows' /\ snubbed \subseteq snubbed' /\ poll.thing \in rows' \union snubbed'
    BY <1>1, <1>2, <1>3, <1>4, RecordingKeeps
<1>6. TickInv'
    BY <1>1, <1>3, <1>5 DEF MirrorInv, TickInv, Handled, Elsewhere
<1> QED  BY <1>5, <1>6 DEF MirrorInv

(* The repair records the audio of a call, as an object of its own. *)
LEMMA RepairRecordsKeeps ==
    ASSUME MirrorInv, RepairRecords
    PROVE  MirrorInv' /\ Promised
<1>1. /\ repair = "read" /\ repair' = "done" /\ RecordAndEnqueue("recording", {"recording"})
      /\ Elsewhere /\ UNCHANGED <<hop, poll>>
    BY DEF RepairRecords, lineVars, pollVars, hopVars, crmVars, Elsewhere
<1>2. Readable("recording", {"recording"})
    BY <1>1 DEF MirrorInv, LineInv, Readable, Parts
<1>3. hop' \in [Slots -> Hops] /\ poll' \in Ticks
    BY <1>1 DEF MirrorInv, MirrorShape
<1> QED  BY <1>1, <1>2, <1>3, RecordingKeeps DEF MirrorInv

(* A request that moves keeps its job and what it has read. *)
Moved(g) == /\ hop' \in [Slots -> Hops]
            /\ hop'[g].job = hop[g].job
            /\ \A k \in Slots : k # g => hop'[k] = hop[k]

(* A step of a request changes the place it has reached, and nothing else of it. *)
LEMMA StepMoves ==
    ASSUME MirrorShape, NEW g \in Slots, NEW from, NEW to \in Paths, Step(g, from, to)
    PROVE  /\ Moved(g) /\ hop[g].at = from /\ hop'[g].at = to
           /\ hop'[g].thing = hop[g].thing /\ hop'[g].brings = hop[g].brings
<1>1. hop[g] \in Hops /\ hop[g].at = from /\ hop' = [hop EXCEPT ![g].at = to]
    BY DEF MirrorShape, Step
<1>2. [hop[g] EXCEPT !.at = to] \in Hops
    BY <1>1 DEF Hops
<1>3. hop' = [hop EXCEPT ![g] = [hop[g] EXCEPT !.at = to]]
    BY <1>1
<1>4. hop' \in [Slots -> Hops] /\ hop'[g] = [hop[g] EXCEPT !.at = to]
      /\ \A k \in Slots : k # g => hop'[k] = hop[k]
    BY <1>2, <1>3 DEF MirrorShape
<1> QED  BY <1>1, <1>4 DEF Moved, Hops

(* A request that has read an object of Quo brings it to be recorded. *)
LEMMA BringMoves ==
    ASSUME MirrorShape, NEW g \in Slots, NEW x \in Things, NEW parts \in SUBSET Parts,
           Brings(g, x, parts)
    PROVE  /\ Moved(g) /\ hop'[g].at = "record"
           /\ hop'[g].thing = x /\ hop'[g].brings = parts
<1>1. /\ hop[g] \in Hops
      /\ hop' = [hop EXCEPT ![g].at = "record", ![g].thing = x, ![g].brings = parts]
    BY DEF MirrorShape, Brings
<1> DEFINE h == [hop[g] EXCEPT !.at = "record", !.thing = x, !.brings = parts]
<1>2. h \in Hops
    BY <1>1 DEF Hops, Paths
<1>3. hop' = [hop EXCEPT ![g] = h]
    BY <1>1 DEF MirrorShape
<1>4. /\ hop' \in [Slots -> Hops] /\ hop'[g] = h
      /\ \A k \in Slots : k # g => hop'[k] = hop[k]
    BY <1>2, <1>3 DEF MirrorShape
<1> QED  BY <1>1, <1>4 DEF Moved, Hops

(* A request records what it brings: an announced part then has its row. *)
LEMMA RecordsKeeps ==
    ASSUME MirrorInv, NEW g \in Slots, Records(g)
    PROVE  MirrorInv' /\ Promised
<1>1. /\ Step(g, "record", "taken")
      /\ RecordAndEnqueue(hop[g].thing, hop[g].brings)
      /\ Elsewhere /\ UNCHANGED <<poll, repair>>
    BY DEF Records, lineVars, pollVars, hopVars, crmVars, Elsewhere
<1>3. /\ hop' \in [Slots -> Hops] /\ \A k \in Slots : k # g => hop'[k] = hop[k]
      /\ hop[g].at = "record" /\ hop'[g].at = "taken" /\ hop'[g].job = hop[g].job
    BY <1>1, StepMoves DEF MirrorInv, Moved, Paths
<1>2. Readable(hop[g].thing, hop[g].brings)
    BY <1>3 DEF MirrorInv, HopInv, HopGood
<1>4. repair' \in {"none", "read", "done"} /\ poll' \in Ticks
    BY <1>1 DEF MirrorInv, MirrorShape
<1>5. /\ WorkerInv' /\ MirrorShape' /\ LineInv' /\ LedgerInv' /\ NothingMissed' /\ TickInv'
      /\ rows \subseteq rows' /\ (ready => hop[g].thing \in rows')
      /\ UNCHANGED <<at, cur, crashes>> /\ JobsStay /\ Promised
      /\ \A j \in Hooks : phase'[j] = phase[j]
    BY <1>1, <1>2, <1>3, <1>4, RecordingKeeps
<1>6. HopInv'
    BY <1>1, <1>3, <1>5 DEF MirrorInv, HopInv, HopGood, JobsStay, Readable, Thing, Elsewhere
<1>7. MineInv'
    BY <1>1, <1>3, <1>5 DEF MirrorInv, MineInv, Elsewhere
<1>8. StrayInv'
    <2>1. Stray' = Stray
        BY <1>1, <1>3 DEF Stray, NoHop, Elsewhere
    <2> QED  BY <1>1, <1>5, <2>1 DEF MirrorInv, StrayInv, Elsewhere
<1>9. DueInv'
    <2>1. ASSUME g = mine, hop[g].job \in due
          PROVE  Carried(g)'
        <3>1. hop[g].thing = Thing(g) /\ hop[g].job \in Hooks /\ phase[hop[g].job] # "absent"
            BY <1>3, <2>1 DEF MirrorInv, DueInv, HopInv, HopGood, Carried
        <3>2. ready
            BY <3>1 DEF MirrorInv, LineInv
        <3> QED  BY <1>3, <1>5, <3>1, <3>2 DEF Carried, Thing
    <2>2. ASSUME mine \in Slots, mine # g, hop[mine].job \in due
          PROVE  Carried(mine)'
        BY <1>1, <1>3, <1>5, <2>2 DEF MirrorInv, DueInv, Carried, Thing, Elsewhere
    <2> QED  BY <1>1, <1>3, <1>5, <2>1, <2>2 DEF MirrorInv, DueInv, Elsewhere
<1> QED  BY <1>5, <1>6, <1>7, <1>8, <1>9 DEF MirrorInv

-----------------------------------------------------------------------------
(* The app's requests *)

(* A step of a request at the app, which leaves the books alone. *)
LEMMA HopStepKeeps ==
    ASSUME MirrorInv, NEW g \in Slots, Moved(g), hop[g].at # "idle", hop'[g].at # "idle", HopGood(g)',
           UNCHANGED <<workerVars, lineVars, ledgerVars, pollVars, mine, repair>>, Paid,
           filed' \subseteq Objects, noted' \subseteq there, due' \subseteq Hooks
    PROVE  /\ WorkerInv' /\ MirrorShape' /\ LineInv' /\ LedgerInv' /\ HopInv' /\ MineInv'
           /\ StrayInv' /\ TickInv' /\ NothingMissed' /\ Promised
<1>1. /\ UNCHANGED <<phase, tries, at, cur, crashes, mix, there, aged, ready, rows, payload,
                     queued, snubbed, poll, closed, swept, mine, repair>>
      /\ hop' \in [Slots -> Hops] /\ hop'[g].job = hop[g].job
      /\ \A k \in Slots : k # g => hop'[k] = hop[k]
    BY DEF Moved, workerVars, lineVars, ledgerVars, pollVars
<1>2. WorkerInv' /\ Promised
    BY <1>1, TableKept DEF MirrorInv, WorkerInv
<1>3. /\ faults' \in Nat /\ crashes' + faults' <= MaxFaults
      /\ crashes + faults <= crashes' + faults'
    BY <1>1, Pays DEF MirrorInv
<1>4. MirrorShape'
    BY <1>1, <1>3 DEF MirrorInv, MirrorShape
<1>5. LineInv' /\ LedgerInv'
    BY <1>1 DEF MirrorInv, LineInv, LedgerInv
<1>6. TickInv' /\ NothingMissed'
    BY <1>1, TickStays DEF MirrorInv
<1>7. HopInv'
    BY <1>1 DEF MirrorInv, HopInv, HopGood, Readable, Thing
<1>8. MineInv'
    BY <1>1 DEF MirrorInv, MineInv
<1>9. StrayInv'
    <2>1. Stray' = Stray
        BY <1>1 DEF Stray, NoHop
    <2> QED  BY <1>1, <2>1, StrayStays DEF MirrorInv
<1> QED  BY <1>2, <1>4, <1>5, <1>6, <1>7, <1>8, <1>9

(* A step of a request leaves an announced part on its way, if its own is. *)
LEMMA DueMoves ==
    ASSUME MirrorInv, NEW g \in Slots, Moved(g), UNCHANGED <<phase, rows, mine, due>>,
           g = mine /\ hop[g].job \in due => Carried(g)'
    PROVE  DueInv'
<1>1. hop'[g].job = hop[g].job /\ \A k \in Slots : k # g => hop'[k] = hop[k]
    BY DEF Moved
<1>2. ASSUME mine \in Slots, mine # g, hop[mine].job \in due
      PROVE  Carried(mine)'
    BY <1>1, <1>2 DEF MirrorInv, DueInv, Carried, Thing
<1> QED  BY <1>1, <1>2 DEF MirrorInv, DueInv

(* What a request is about: a job that is there, about something that happened. *)
LEMMA About ==
    ASSUME MirrorInv, NEW g \in Slots, hop[g].at # "idle"
    PROVE  /\ hop[g].job \in Jobs /\ phase[hop[g].job] # "absent" /\ Thing(g) \in Things
           /\ hop[g].job \in Hooks => Thing(g) \in there /\ ready
           /\ hop[g].job \in Hooks /\ Thing(g) # "text" => "call" \in there
<1>1. hop[g].job \in Jobs /\ phase[hop[g].job] # "absent"
    BY DEF MirrorInv, HopInv, HopGood
<1>2. Thing(g) \in Things
    BY <1>1, JobNames DEF Thing
<1>3. hop[g].job \in Hooks => Thing(g) \in there /\ ready
    BY <1>1 DEF MirrorInv, LineInv, Thing
<1> QED  BY <1>1, <1>2, <1>3 DEF MirrorInv, LineInv, Things, Objects

(* A request looks at the announcement; a part of a mirrored call goes by itself. *)
LEMMA LooksKeeps ==
    ASSUME MirrorInv, NEW g \in Slots, Looks(g)
    PROVE  MirrorInv' /\ Promised
<1>1. /\ hop[g].at = "asked" /\ hop[g].job \in Hooks
      /\ due' = IF Thing(g) \in Parts /\ "call" \in rows /\ g = mine
                THEN due \union {hop[g].job} ELSE due
      /\ UNCHANGED <<workerVars, lineVars, ledgerVars, pollVars, mine, repair, filed, noted, dropped>>
    BY DEF Looks, crmVars
<1>2. /\ hop[g].job \in Jobs /\ phase[hop[g].job] # "absent" /\ Thing(g) \in Things
      /\ Thing(g) \in there /\ ready /\ (Thing(g) # "text" => "call" \in there)
    BY <1>1, About
<1>3. /\ Moved(g) /\ Paid
      /\ \/ hop'[g].at = "failed"
         \/ hop'[g].at = "taken" /\ Thing(g) = "text"
         \/ Thing(g) = "text" /\ hop'[g].at = "record" /\ hop'[g].thing = "text"
                              /\ hop'[g].brings = {}
         \/ Thing(g) # "text" /\ hop'[g].at = IF LaterPart(g) THEN "part" ELSE "call"
    <2>1. CASE Step(g, "asked", "failed") /\ Fault
        BY <2>1, StepMoves DEF MirrorInv, Paths, Paid
    <2>2. CASE Thing(g) = "text" /\ "text" \in rows /\ Step(g, "asked", "taken") /\ UNCHANGED faults
        BY <2>2, StepMoves DEF MirrorInv, Paths, Paid
    <2>3. CASE Thing(g) = "text" /\ Brings(g, "text", {}) /\ UNCHANGED faults
        <3>1. "text" \in Things /\ {} \in SUBSET Parts
            BY DEF Things, Objects
        <3> QED  BY <2>3, <3>1, BringMoves DEF MirrorInv, Paid
    <2>4. CASE /\ Thing(g) # "text" /\ UNCHANGED faults
               /\ Step(g, "asked", IF LaterPart(g) THEN "part" ELSE "call")
        BY <2>4, StepMoves DEF MirrorInv, Paths, Paid
    <2> QED  BY <2>1, <2>2, <2>3, <2>4 DEF Looks
<1>4. hop'[g].job = hop[g].job /\ UNCHANGED <<phase, rows, there>>
    BY <1>1, <1>3 DEF Moved, workerVars, lineVars, ledgerVars
<1>5. Thing(g)' = Thing(g)
    BY <1>4 DEF Thing
<1>6. HopGood(g)'
    BY <1>1, <1>2, <1>3, <1>4, <1>5 DEF HopGood, Readable, Parts, LaterPart
<1>7. due' \subseteq Hooks /\ filed' \subseteq Objects /\ noted' \subseteq there
    BY <1>1 DEF MirrorInv, MirrorShape
<1>8. /\ WorkerInv' /\ MirrorShape' /\ LineInv' /\ LedgerInv' /\ HopInv' /\ MineInv'
      /\ StrayInv' /\ TickInv' /\ NothingMissed' /\ Promised
    BY <1>1, <1>3, <1>6, <1>7, HopStepKeeps
<1>9. DueInv'
    <2>1. ASSUME NEW j \in due'
          PROVE  /\ j \in Hooks /\ j[2] \in Parts /\ "call" \in rows
                 /\ phase[j] = "done" => j[2] \in rows
        <3>1. CASE j \in due
            BY <3>1 DEF MirrorInv, DueInv
        <3>2. CASE j \notin due
            <4>1. j = hop[g].job /\ Thing(g) \in Parts /\ "call" \in rows /\ g = mine
                BY <1>1, <2>1, <3>2
            <4>2. mine # NoSlot
                BY <4>1, LineThings DEF MirrorInv
            <4>3. j = cur /\ cur # NoJob
                BY <4>1, <4>2 DEF MirrorInv, MineInv, WorkerInv
            <4>4. phase[j] # "done"
                BY <4>3 DEF MirrorInv, WorkerInv, Undecided
            <4> QED  BY <1>1, <4>1, <4>4 DEF Thing
        <3> QED  BY <3>1, <3>2
    <2>2. ASSUME g = mine, hop[g].job \in due'
          PROVE  Carried(g)'
        <3>1. Thing(g) \in Parts /\ "call" \in rows
            BY <2>1, <2>2 DEF Thing
        <3>2. hop'[g].at \in {"failed", "part"}
            BY <1>3, <3>1 DEF LaterPart, Parts
        <3> QED  BY <3>2 DEF Carried
    <2>3. ASSUME mine \in Slots, mine # g, hop'[mine].job \in due'
          PROVE  Carried(mine)'
        <3>1. hop'[mine] = hop[mine] /\ due' = due
            BY <1>1, <1>3, <2>3 DEF Moved
        <3>2. Carried(mine)
            BY <2>3, <3>1 DEF MirrorInv, DueInv
        <3> QED  BY <1>1, <1>4, <3>1, <3>2 DEF Carried, Thing
    <2> QED  BY <1>1, <1>4, <2>1, <2>2, <2>3 DEF DueInv
<1> QED  BY <1>8, <1>9 DEF MirrorInv

(* A request mirrors the call, which was not mirrored when it looked. *)
LEMMA MirrorsCallKeeps ==
    ASSUME MirrorInv, NEW g \in Slots, MirrorsCall(g)
    PROVE  MirrorInv' /\ Promised
<1>1. /\ hop[g].at = "call"
      /\ UNCHANGED <<workerVars, lineVars, ledgerVars, pollVars, mine, due, repair, filed, noted,
                     dropped>>
    BY DEF MirrorsCall, crmVars
<1>2. /\ hop[g].job \in Hooks /\ hop[g].job \in Jobs /\ phase[hop[g].job] # "absent"
      /\ "call" \in there
    BY <1>1, About DEF MirrorInv, HopInv, HopGood
<1>3. /\ Moved(g) /\ Paid
      /\ \/ hop'[g].at \in {"taken", "failed"}
         \/ /\ hop'[g].at = "record" /\ hop'[g].thing = "call"
            /\ hop'[g].brings \subseteq there \intersect Parts
    <2>1. CASE Step(g, "call", "taken") /\ UNCHANGED faults
        BY <2>1, StepMoves DEF MirrorInv, Paths, Paid
    <2>2. CASE Step(g, "call", "failed") /\ Fault
        BY <2>2, StepMoves DEF MirrorInv, Paths, Paid
    <2>3. ASSUME NEW found \in SUBSET Parts, Extras(found), Brings(g, "call", found)
          PROVE  /\ Moved(g) /\ Paid /\ hop'[g].at = "record" /\ hop'[g].thing = "call"
                 /\ hop'[g].brings \subseteq there \intersect Parts
        <3>1. "call" \in Things /\ found \subseteq there /\ Paid
            BY <2>3 DEF Things, Objects, Extras, Paid
        <3> QED  BY <2>3, <3>1, BringMoves DEF MirrorInv
    <2> QED  BY <2>1, <2>2, <2>3 DEF MirrorsCall
<1>4. hop'[g].job = hop[g].job /\ UNCHANGED <<phase, rows, there>>
    BY <1>1, <1>3 DEF Moved, workerVars, lineVars, ledgerVars
<1>5. HopGood(g)'
    BY <1>2, <1>3, <1>4 DEF HopGood, Readable, Parts
<1>6. due' \subseteq Hooks /\ filed' \subseteq Objects /\ noted' \subseteq there
    BY <1>1 DEF MirrorInv, MirrorShape
<1>7. /\ WorkerInv' /\ MirrorShape' /\ LineInv' /\ LedgerInv' /\ HopInv' /\ MineInv'
      /\ StrayInv' /\ TickInv' /\ NothingMissed' /\ Promised
    BY <1>1, <1>3, <1>5, <1>6, HopStepKeeps
<1>8. g = mine => hop[g].job \notin due
    BY <1>1 DEF MirrorInv, DueInv, Carried
<1>9. DueInv'
    BY <1>1, <1>3, <1>4, <1>8, DueMoves
<1> QED  BY <1>7, <1>9 DEF MirrorInv

(* A request reads the part it announces. *)
LEMMA ReadsPartKeeps ==
    ASSUME MirrorInv, NEW g \in Slots, ReadsPart(g)
    PROVE  MirrorInv' /\ Promised
<1>1. /\ hop[g].at = "part"
      /\ UNCHANGED <<workerVars, lineVars, ledgerVars, pollVars, mine, due, repair, filed, noted,
                     dropped>>
    BY DEF ReadsPart, crmVars
<1>2. /\ hop[g].job \in Hooks /\ hop[g].job \in Jobs /\ phase[hop[g].job] # "absent"
      /\ Thing(g) \in Parts /\ Thing(g) \in there /\ Thing(g) \in Things
    BY <1>1, About DEF MirrorInv, HopInv, HopGood
<1>3. /\ Moved(g) /\ Paid
      /\ \/ hop'[g].at = "failed"
         \/ hop'[g].at = "taken" /\ Thing(g) \in rows
         \/ hop'[g].at = "record" /\ hop'[g].thing = Thing(g) /\ hop'[g].brings = {Thing(g)}
    <2>1. CASE Thing(g) \in rows /\ Step(g, "part", "taken") /\ UNCHANGED faults
        BY <2>1, StepMoves DEF MirrorInv, Paths, Paid
    <2>2. CASE Brings(g, Thing(g), {Thing(g)}) /\ UNCHANGED faults
        BY <1>2, <2>2, BringMoves DEF MirrorInv, Paid
    <2>3. CASE Step(g, "part", "failed") /\ Fault
        BY <2>3, StepMoves DEF MirrorInv, Paths, Paid
    <2> QED  BY <2>1, <2>2, <2>3 DEF ReadsPart
<1>4. hop'[g].job = hop[g].job /\ UNCHANGED <<phase, rows, there>>
    BY <1>1, <1>3 DEF Moved, workerVars, lineVars, ledgerVars
<1>5. HopGood(g)'
    BY <1>2, <1>3, <1>4 DEF HopGood, Readable
<1>6. due' \subseteq Hooks /\ filed' \subseteq Objects /\ noted' \subseteq there
    BY <1>1 DEF MirrorInv, MirrorShape
<1>7. /\ WorkerInv' /\ MirrorShape' /\ LineInv' /\ LedgerInv' /\ HopInv' /\ MineInv'
      /\ StrayInv' /\ TickInv' /\ NothingMissed' /\ Promised
    BY <1>1, <1>3, <1>5, <1>6, HopStepKeeps
<1>8. Carried(g)'
    BY <1>3, <1>4 DEF Carried, Thing
<1>9. DueInv'
    BY <1>1, <1>3, <1>4, <1>8, DueMoves
<1> QED  BY <1>7, <1>9 DEF MirrorInv

(* A request posts a delivery to the CRM. *)
LEMMA PostsEventKeeps ==
    ASSUME MirrorInv, NEW g \in Slots, PostsEvent(g)
    PROVE  MirrorInv' /\ Promised
<1>1. /\ hop[g].at = "asked" /\ hop[g].job \in Deliveries
      /\ UNCHANGED <<workerVars, lineVars, ledgerVars, pollVars, mine, due, repair>>
      /\ Step(g, "asked", "taken") \/ Step(g, "asked", "failed")
      /\ Paid
      /\ Takes(Thing(g)) \/ UNCHANGED <<filed, noted>>
    BY DEF PostsEvent, crmVars, Paid
<1>2. /\ hop[g].job \notin Hooks /\ hop[g].job \in Jobs /\ phase[hop[g].job] # "absent"
      /\ Thing(g) \in Things
    BY <1>1, About, JobNames
<1>3. Moved(g) /\ hop'[g].at \in {"taken", "failed"}
    BY <1>1, StepMoves DEF MirrorInv, Paths
<1>4. hop'[g].job = hop[g].job /\ UNCHANGED <<phase, rows, there>>
    BY <1>1, <1>3 DEF Moved, workerVars, lineVars, ledgerVars
<1>5. HopGood(g)'
    BY <1>2, <1>3, <1>4 DEF HopGood
<1>6. due' \subseteq Hooks /\ filed' \subseteq Objects /\ noted' \subseteq there
    <2>1. Key(Thing(g)) \in Objects
        BY <1>2 DEF Key, Objects, Parts, Things
    <2>2. payload[Thing(g)] \subseteq there
        BY <1>2 DEF MirrorInv, LedgerInv
    <2> QED  BY <1>1, <2>1, <2>2 DEF MirrorInv, MirrorShape, Takes
<1>7. /\ WorkerInv' /\ MirrorShape' /\ LineInv' /\ LedgerInv' /\ HopInv' /\ MineInv'
      /\ StrayInv' /\ TickInv' /\ NothingMissed' /\ Promised
    BY <1>1, <1>3, <1>5, <1>6, HopStepKeeps
<1>8. hop[g].job \notin due
    BY <1>2 DEF MirrorInv, MirrorShape
<1>9. DueInv'
    BY <1>1, <1>3, <1>4, <1>8, DueMoves
<1> QED  BY <1>7, <1>9 DEF MirrorInv

-----------------------------------------------------------------------------
(* The worker *)

(* The books are as they were; only the worker and its requests move. *)
Books == UNCHANGED <<lineVars, ledgerVars, closed, swept, due, repair, crmVars>>

(* With the books as they were, what the invariant says of them is kept. *)
LEMMA BooksKept ==
    ASSUME MirrorInv, Books, WorkerInv', UNCHANGED poll \/ poll' = NoTick,
           hop' \in [Slots -> Hops], mine' \in Slots \union {NoSlot},
           at' \in {"idle", "down", "posted"},
           \E f \in Nat : faults' = f, crashes' + faults' <= MaxFaults,
           \A j \in Jobs : (phase[j] = "absent") = (phase'[j] = "absent")
    PROVE  MirrorShape' /\ LineInv' /\ LedgerInv' /\ TickInv' /\ NothingMissed' /\ JobsStay
<1>1. UNCHANGED <<mix, there, aged, ready, rows, payload, queued, snubbed, closed, swept, due,
                  repair, filed, noted, dropped>>
    BY DEF Books, lineVars, ledgerVars, crmVars
<1>2. poll' \in Ticks /\ (poll' = poll \/ (poll'.at = "idle" /\ poll'.start = {}))
    <2>1. CASE poll' = poll
        BY <2>1 DEF MirrorInv, MirrorShape
    <2>2. CASE poll' = NoTick
        BY <2>2 DEF NoTick, Ticks
    <2> QED  BY <2>1, <2>2
<1>3. MirrorShape'
    BY <1>1, <1>2 DEF MirrorInv, MirrorShape
<1>4. LineInv' /\ LedgerInv'
    BY <1>1, JobNames DEF MirrorInv, LineInv, LedgerInv
<1>5. TickInv' /\ NothingMissed'
    BY <1>1, <1>2 DEF MirrorInv, TickInv, NothingMissed, Handled, Readable
<1> QED  BY <1>3, <1>4, <1>5 DEF JobsStay

(* The worker lets go of its request: at most one more is astray. *)
LEMMA OneMoreStray ==
    ASSUME WorkerInv, MirrorShape, StrayInv, Stray' \subseteq Stray \union {mine}, mine \in Slots,
           \/ crashes' = crashes + 1 /\ faults' = faults
           \/ crashes' = crashes /\ faults' = faults + 1
    PROVE  StrayInv'
<1>1. IsFiniteSet(Stray) /\ Cardinality(Stray) \in Nat /\ Cardinality(Stray) <= crashes + faults
    BY SlotsFinite, FS_Subset, FS_CardinalityType DEF Stray, StrayInv
<1>2. /\ IsFiniteSet(Stray \union {mine})
      /\ Cardinality(Stray \union {mine}) \in {Cardinality(Stray), Cardinality(Stray) + 1}
    BY <1>1, FS_AddElement
<1>3. /\ Cardinality(Stray') \in Nat
      /\ Cardinality(Stray') <= Cardinality(Stray \union {mine})
    BY <1>2, FS_Subset, FS_CardinalityType
<1>4. crashes \in Nat /\ faults \in Nat
    BY WorkerAssumption DEF WorkerInv, MirrorShape
<1>5. Cardinality(Stray') <= crashes + faults + 1
    BY <1>1, <1>2, <1>3, <1>4
<1>6. CASE crashes' = crashes + 1 /\ faults' = faults
    BY <1>4, <1>5, <1>6 DEF StrayInv
<1>7. CASE crashes' = crashes /\ faults' = faults + 1
    BY <1>4, <1>5, <1>7 DEF StrayInv
<1> QED  BY <1>6, <1>7

(* A request that is answered, or one nobody had, leaves no more astray. *)
LEMMA FewerStray ==
    ASSUME WorkerInv, MirrorShape, StrayInv, Stray' \subseteq Stray, UNCHANGED <<crashes, faults>>
    PROVE  StrayInv'
<1>1. IsFiniteSet(Stray) /\ Cardinality(Stray) \in Nat /\ Cardinality(Stray) <= crashes + faults
    BY SlotsFinite, FS_Subset, FS_CardinalityType DEF Stray, StrayInv
<1>2. Cardinality(Stray') \in Nat /\ Cardinality(Stray') <= Cardinality(Stray)
    BY <1>1, FS_Subset, FS_CardinalityType
<1>3. crashes \in Nat /\ faults \in Nat
    BY WorkerAssumption DEF WorkerInv, MirrorShape
<1>4. Cardinality(Stray') <= crashes + faults
    BY <1>1, <1>2, <1>3
<1> QED  BY <1>4 DEF StrayInv

(* The worker claims a job and has a slot for its request. *)
LEMMA ClaimKeeps ==
    ASSUME MirrorInv, NEW j \in Jobs, MirrorClaim(j)
    PROVE  MirrorInv' /\ Promised
<1> DEFINE free == CHOOSE g \in Slots : hop[g] = NoHop
           asked == [NoHop EXCEPT !.at = "asked", !.job = j]
<1>1. /\ ClaimFor(j, "posted") /\ mine' = free /\ hop' = [hop EXCEPT ![free] = asked]
      /\ Books /\ UNCHANGED <<poll, faults>>
    BY DEF MirrorClaim, Books, pollVars
<1>2. /\ WorkerInv' /\ at = "idle" /\ phase[j] = "pending" /\ at' = "posted" /\ cur' = j
      /\ UNCHANGED <<phase, tries, crashes>>
    BY <1>1, ClaimsJob DEF MirrorInv
<1>3. free \in Slots /\ hop[free] = NoHop
    BY <1>2, FreeSlot DEF MirrorInv
<1>4. asked \in Hops /\ asked.at = "asked" /\ asked.job = j
    BY DEF NoHop, Hops, Paths
<1> HIDE DEF free, asked
<1>5. /\ hop' \in [Slots -> Hops] /\ hop'[free] = asked
      /\ \A k \in Slots : k # free => hop'[k] = hop[k]
    BY <1>1, <1>3, <1>4 DEF MirrorInv, MirrorShape
<1>6. mine = NoSlot /\ NoSlot \notin Slots
    BY <1>2, LineThings DEF MirrorInv, MineInv
<1>7. faults \in Nat /\ crashes' + faults' <= MaxFaults
    BY <1>1, <1>2 DEF MirrorInv, MirrorShape
<1>8. MirrorShape' /\ LineInv' /\ LedgerInv' /\ TickInv' /\ NothingMissed' /\ JobsStay
    BY <1>1, <1>2, <1>3, <1>5, <1>7, BooksKept DEF MirrorInv
<1>9. there' = there
    BY <1>1 DEF Books, lineVars
<1>10. HopInv'
    BY <1>2, <1>4, <1>5, <1>9 DEF MirrorInv, HopInv, HopGood, Readable, Thing
<1>11. MineInv'
    BY <1>1, <1>2, <1>3, <1>4, <1>5 DEF MineInv
<1>12. StrayInv'
    <2>1. Stray' = Stray
        BY <1>1, <1>3, <1>5, <1>6 DEF Stray
    <2> QED  BY <1>1, <1>2, <2>1, FewerStray DEF MirrorInv
<1>13. DueInv'
    BY <1>1, <1>2, <1>4, <1>5, <1>3 DEF MirrorInv, DueInv, Carried, Thing, Books, ledgerVars
<1> QED  BY <1>2, <1>8, <1>10, <1>11, <1>12, <1>13, TableKept DEF MirrorInv

(* The verdict on the job the worker has posted. *)
LEMMA Judged ==
    ASSUME MirrorInv, at = "posted", Completed \/ Failed
    PROVE  /\ WorkerInv' /\ at' = "idle" /\ UNCHANGED crashes /\ Promised
           /\ phase[cur] # "absent" /\ phase'[cur] # "absent"
           /\ \A j \in Jobs \ {cur} : phase'[j] = phase[j]
           /\ Failed => phase'[cur] # "done"
<1>1. Busy /\ cur \in Jobs /\ phase \in [Jobs -> Phases]
    BY DEF MirrorInv, WorkerInv, Busy
<1>2. Failed => phase'[cur] # "done"
    BY <1>1 DEF Failed, Q!Verdict
<1>3. /\ WorkerInv' /\ at' = "idle" /\ crashes' = crashes
      /\ phase[cur] \in Undecided /\ phase'[cur] \in Phases \ {"absent", "running"}
      /\ \A k \in Jobs \ {cur} : phase'[k] = phase[k]
    BY <1>1, Concludes DEF MirrorInv
<1>4. Promised
    BY <1>1, VerdictPromised DEF MirrorInv
<1> QED  BY <1>2, <1>3, <1>4 DEF Undecided

(* A part whose hook's job is not done on this account. *)
LEMMA DueLetGo ==
    ASSUME MirrorInv, UNCHANGED <<rows, due>>, mine' = NoSlot,
           \A j \in due : phase'[j] = "done" => phase[j] = "done" \/ j[2] \in rows
    PROVE  DueInv'
<1>1. NoSlot \notin Slots
    BY LineThings DEF MirrorInv
<1> QED  BY <1>1 DEF MirrorInv, DueInv


(* The slot of an answered request is free again. *)
LEMMA SlotFreed ==
    ASSUME MirrorShape, HopInv, NEW g \in Slots, hop' = [hop EXCEPT ![g] = NoHop]
    PROVE  /\ hop' \in [Slots -> Hops] /\ hop'[g] = NoHop
           /\ \A k \in Slots : k # g => hop'[k] = hop[k]
<1>1. NoHop \in Hops
    BY DEF NoHop, Hops, Paths
<1> QED  BY <1>1 DEF MirrorShape

(* The answer is the worker's verdict if it still waits for it; what it announced
   is done only if it is carried. *)
LEMMA AdapterAnswersKeeps ==
    ASSUME MirrorInv, NEW g \in Slots, AdapterAnswers(g)
    PROVE  MirrorInv' /\ Promised
<1>1. /\ hop[g].at \in {"taken", "failed"} /\ hop' = [hop EXCEPT ![g] = NoHop]
      /\ Books /\ UNCHANGED <<poll, faults>>
    BY DEF AdapterAnswers, Books, pollVars
<1>2. /\ hop' \in [Slots -> Hops] /\ hop'[g] = NoHop
      /\ \A k \in Slots : k # g => hop'[k] = hop[k]
    BY <1>1, SlotFreed DEF MirrorInv
<1>3. UNCHANGED <<rows, there, due>>
    BY <1>1 DEF Books, ledgerVars, lineVars
<1>4. /\ NoSlot \notin Slots /\ faults \in Nat /\ faults' = faults /\ crashes + faults <= MaxFaults
    BY <1>1, LineThings DEF MirrorInv, MirrorShape
<1>5. CASE g = mine /\ at = "posted"
    <2>1. /\ IF hop[g].at = "taken" THEN Completed ELSE Failed
          /\ mine' = NoSlot
        BY <1>5 DEF AdapterAnswers
    <2>2. /\ WorkerInv' /\ at' = "idle" /\ crashes' = crashes /\ Promised
          /\ phase[cur] # "absent" /\ phase'[cur] # "absent"
          /\ \A j \in Jobs \ {cur} : phase'[j] = phase[j]
          /\ Failed => phase'[cur] # "done"
        BY <1>5, <2>1, Judged
    <2>3. MirrorShape' /\ LineInv' /\ LedgerInv' /\ TickInv' /\ NothingMissed' /\ JobsStay
        BY <1>1, <1>2, <1>4, <2>1, <2>2, BooksKept
    <2>4. HopInv'
        BY <1>2, <1>3, <2>3 DEF MirrorInv, HopInv, HopGood, JobsStay, Readable, Thing, NoHop
    <2>5. MineInv'
        BY <2>1, <2>2 DEF MineInv
    <2>6. StrayInv'
        <3>1. Stray' \subseteq Stray
            BY <1>2, <1>5, <2>1 DEF Stray
        <3> QED  BY <1>1, <2>2, <3>1, FewerStray DEF MirrorInv
    <2>7. DueInv'
        <3>1. ASSUME NEW j \in due, phase'[j] = "done"
              PROVE  phase[j] = "done" \/ j[2] \in rows
            <4>1. CASE j = cur
                <5>1. hop[g].job = j
                    BY <1>5, <4>1 DEF MirrorInv, MineInv
                <5>2. hop[g].at = "taken"
                    BY <2>1, <2>2, <3>1, <4>1
                <5> QED  BY <1>5, <5>1, <5>2 DEF MirrorInv, DueInv, Carried, Thing
            <4>2. CASE j # cur
                BY <2>2, <3>1, <4>2, JobNames DEF MirrorInv, DueInv
            <4> QED  BY <4>1, <4>2
        <3> QED  BY <1>3, <2>1, <3>1, DueLetGo
    <2> QED  BY <2>2, <2>3, <2>4, <2>5, <2>6, <2>7 DEF MirrorInv
<1>6. CASE ~(g = mine /\ at = "posted")
    <2>1. UNCHANGED <<phase, tries, at, cur, crashes, mine>>
        BY <1>6 DEF AdapterAnswers, workerVars
    <2>2. g # mine
        BY <1>4, <1>6 DEF MirrorInv, MineInv
    <2>3. WorkerInv' /\ Promised
        BY <2>1, TableKept DEF MirrorInv, WorkerInv
    <2>4. mine' \in Slots \union {NoSlot} /\ at' \in {"idle", "down", "posted"}
        BY <2>1 DEF MirrorInv, MirrorShape
    <2>5. MirrorShape' /\ LineInv' /\ LedgerInv' /\ TickInv' /\ NothingMissed' /\ JobsStay
        BY <1>1, <1>2, <1>4, <2>1, <2>3, <2>4, BooksKept
    <2>6. HopInv'
        BY <1>2, <1>3, <2>5 DEF MirrorInv, HopInv, HopGood, JobsStay, Readable, Thing, NoHop
    <2>7. MineInv' /\ DueInv'
        BY <1>2, <1>3, <2>1, <2>2 DEF MirrorInv, MineInv, DueInv, Carried, Thing
    <2>8. StrayInv'
        <3>1. Stray' \subseteq Stray
            BY <1>2, <2>1 DEF Stray
        <3> QED  BY <1>1, <2>1, <3>1, FewerStray DEF MirrorInv
    <2> QED  BY <2>3, <2>5, <2>6, <2>7, <2>8 DEF MirrorInv
<1> QED  BY <1>5, <1>6

(* The worker's patience ends: the attempt is spent, the request goes on alone. *)
LEMMA StopsWaitingKeeps ==
    ASSUME MirrorInv, StopsWaiting
    PROVE  MirrorInv' /\ Promised
<1>1. /\ at = "posted" /\ Failed /\ Fault /\ mine' = NoSlot
      /\ Books /\ UNCHANGED <<poll, hop>>
    BY DEF StopsWaiting, Books, pollVars
<1>2. /\ WorkerInv' /\ at' = "idle" /\ crashes' = crashes /\ Promised
      /\ phase[cur] # "absent" /\ phase'[cur] # "absent"
      /\ \A j \in Jobs \ {cur} : phase'[j] = phase[j]
      /\ phase'[cur] # "done"
    BY <1>1, Judged
<1>3. /\ faults \in Nat /\ crashes \in Nat /\ MaxFaults \in Nat /\ faults' = faults + 1
      /\ crashes + faults < MaxFaults
    BY <1>1, LineThings, WorkerAssumption DEF MirrorInv, WorkerInv, MirrorShape, Fault
<1>4. (\E f \in Nat : faults' = f) /\ crashes' + faults' <= MaxFaults
    BY <1>2, <1>3
<1>5. hop' \in [Slots -> Hops] /\ UNCHANGED <<rows, there, due>>
    BY <1>1 DEF MirrorInv, MirrorShape, Books, ledgerVars, lineVars
<1>6. MirrorShape' /\ LineInv' /\ LedgerInv' /\ TickInv' /\ NothingMissed' /\ JobsStay
    BY <1>1, <1>2, <1>4, <1>5, BooksKept
<1>7. HopInv'
    BY <1>1, <1>5, <1>6, HopsStay DEF MirrorInv
<1>8. MineInv'
    BY <1>1, <1>2 DEF MineInv
<1>9. StrayInv'
    <2>1. mine \in Slots /\ Stray' \subseteq Stray \union {mine}
        BY <1>1 DEF MirrorInv, MineInv, Stray
    <2> QED  BY <1>2, <1>3, <2>1, OneMoreStray DEF MirrorInv
<1>10. DueInv'
    <2>1. \A j \in due : phase'[j] = "done" => phase[j] = "done"
        BY <1>2, JobNames DEF MirrorInv, DueInv
    <2> QED  BY <1>1, <1>5, <2>1, DueLetGo
<1> QED  BY <1>2, <1>6, <1>7, <1>8, <1>9, <1>10 DEF MirrorInv

(* The worker dies, the poll with it; the app's request goes on alone. *)
LEMMA CrashKeeps ==
    ASSUME MirrorInv, MirrorCrash
    PROVE  MirrorInv' /\ Promised
<1>1. /\ Died /\ crashes + faults < MaxFaults /\ mine' = NoSlot /\ poll' = NoTick
      /\ Books /\ UNCHANGED <<hop, faults>>
    BY DEF MirrorCrash, Books
<1>2. WorkerInv' /\ at' = "down" /\ crashes' = crashes + 1 /\ UNCHANGED <<phase, tries>>
    BY <1>1, Dies DEF MirrorInv
<1>3. /\ faults \in Nat /\ crashes \in Nat /\ MaxFaults \in Nat /\ faults' = faults
    BY <1>1, LineThings, WorkerAssumption DEF MirrorInv, WorkerInv, MirrorShape
<1>4. (\E f \in Nat : faults' = f) /\ crashes' + faults' <= MaxFaults
    BY <1>1, <1>2, <1>3
<1>5. hop' \in [Slots -> Hops] /\ UNCHANGED <<rows, there, due>>
    BY <1>1 DEF MirrorInv, MirrorShape, Books, ledgerVars, lineVars
<1>6. MirrorShape' /\ LineInv' /\ LedgerInv' /\ TickInv' /\ NothingMissed' /\ JobsStay
    BY <1>1, <1>2, <1>4, <1>5, BooksKept
<1>7. HopInv' /\ MineInv' /\ Promised
    BY <1>1, <1>2, <1>5, <1>6, HopsStay, TableKept DEF MirrorInv, MineInv
<1>8. DueInv'
    BY <1>1, <1>2, <1>5, DueLetGo
<1>9. StrayInv'
    <2>1. CASE mine \in Slots
        <3>1. Stray' \subseteq Stray \union {mine}
            BY <1>1 DEF Stray
        <3> QED  BY <1>2, <1>3, <2>1, <3>1, OneMoreStray DEF MirrorInv
    <2>2. CASE mine \notin Slots
        <3>1. Stray' = Stray
            BY <1>1, <2>2, LineThings DEF MirrorInv, MirrorShape, Stray
        <3>2. Cardinality(Stray) \in Nat
            BY SlotsFinite, FS_Subset, FS_CardinalityType DEF Stray
        <3> QED  BY <1>2, <1>3, <3>1, <3>2 DEF MirrorInv, StrayInv
    <2> QED  BY <2>1, <2>2
<1> QED  BY <1>2, <1>6, <1>7, <1>8, <1>9 DEF MirrorInv

(* It comes back with nothing in hand. *)
LEMMA RestartKeeps ==
    ASSUME MirrorInv, MirrorRestart
    PROVE  MirrorInv' /\ Promised
<1>1. /\ Restarted /\ Books /\ UNCHANGED <<poll, hop, mine, faults>>
    BY DEF MirrorRestart, Books, pollVars, hopVars
<1>2. /\ WorkerInv' /\ at' = "idle" /\ UNCHANGED <<phase, tries, cur, crashes>>
      /\ at = "down"
    BY <1>1, Restarts DEF MirrorInv, Restarted
<1>3. /\ hop' \in [Slots -> Hops] /\ mine' \in Slots \union {NoSlot}
      /\ (\E f \in Nat : faults' = f) /\ crashes' + faults' <= MaxFaults
      /\ UNCHANGED <<rows, there, due>>
    BY <1>1, <1>2 DEF MirrorInv, MirrorShape, Books, ledgerVars, lineVars
<1>4. MirrorShape' /\ LineInv' /\ LedgerInv' /\ TickInv' /\ NothingMissed' /\ JobsStay
    BY <1>1, <1>2, <1>3, BooksKept
<1>5. HopInv' /\ MineInv' /\ DueInv' /\ Promised
    BY <1>1, <1>2, <1>3, <1>4, HopsStay, TableKept DEF MirrorInv, MineInv, DueInv, Carried, Thing
<1>6. StrayInv'
    BY <1>1, <1>2, FewerStray DEF MirrorInv, Stray
<1> QED  BY <1>2, <1>4, <1>5, <1>6 DEF MirrorInv

-----------------------------------------------------------------------------
(* The webhook, the poll and the repair *)

(* A hook's job is about something that happened, and the key is set. *)
LEMMA HookPostedKeeps ==
    ASSUME MirrorInv, NEW x \in Things, NEW n \in Posts, HookPosted(x, n)
    PROVE  MirrorInv' /\ Promised
<1> DEFINE j == <<"hook", x, n>>
<1>1. /\ ready /\ x \in there /\ Submit(j) /\ Paid
      /\ UNCHANGED <<mix, there, aged, ready, rows, payload, queued, snubbed, poll, closed, swept,
                     hop, mine, due, repair, filed, noted, dropped>>
    BY DEF HookPosted, lineVars, ledgerVars, pollVars, hopVars, crmVars, Paid
<1>2. j \in Hooks /\ j \in Jobs /\ j[2] = x /\ j \notin Deliveries
    BY JobNames
<1> HIDE DEF j
<1>3. /\ WorkerInv' /\ phase[j] = "absent" /\ phase' = [phase EXCEPT ![j] = "pending"]
      /\ UNCHANGED <<tries, at, cur, crashes>> /\ Promised
    BY <1>1, <1>2, Submits, SubmitPromised DEF MirrorInv
<1>4. phase'[j] = "pending" /\ \A k \in Jobs : k # j => phase'[k] = phase[k]
    BY <1>2, <1>3 DEF MirrorInv, WorkerInv
<1>5. JobsStay
    BY <1>3, <1>4 DEF JobsStay
<1>6. MirrorShape'
    <2>1. faults' \in Nat /\ crashes' + faults' <= MaxFaults
        BY <1>1, <1>3, Pays DEF MirrorInv
    <2> QED  BY <1>1, <1>3, <2>1 DEF MirrorInv, MirrorShape
<1>7. LineInv'
    BY <1>1, <1>2, <1>4, JobNames DEF MirrorInv, LineInv
<1>8. LedgerInv'
    <2>1. \A y \in Things : <<"event", y>> \in Jobs /\ <<"event", y>> # j
        BY <1>2, JobNames
    <2> QED  BY <1>1, <1>4, <2>1 DEF MirrorInv, LedgerInv
<1>9. HopInv' /\ MineInv' /\ TickInv' /\ NothingMissed'
    BY <1>1, <1>3, <1>5, HopsStay, TickStays DEF MirrorInv, MineInv
<1>10. StrayInv'
    BY <1>1, <1>3, StrayStays DEF MirrorInv, Stray
<1>11. DueInv'
    BY <1>1, <1>3, <1>4, JobNames DEF MirrorInv, DueInv, Carried, Thing
<1> QED  BY <1>3, <1>6, <1>7, <1>8, <1>9, <1>10, <1>11 DEF MirrorInv

(* A step of the poll that only reads. *)
LEMMA ReadingKeeps ==
    ASSUME MirrorInv, Paid, poll' \in Ticks, closed' \in BOOLEAN, swept' \subseteq Things,
           UNCHANGED <<workerVars, lineVars, ledgerVars, hopVars, crmVars>>,
           repair' \in {"none", "read", "done"}, repair' = "read" => repair = "read" \/ "recording" \in there,
           TickInv', NothingMissed'
    PROVE  MirrorInv' /\ Promised
<1>1. UNCHANGED <<phase, tries, at, cur, crashes, mix, there, aged, ready, rows, payload, queued,
                  snubbed, hop, mine, due, filed, noted, dropped>>
    BY DEF workerVars, lineVars, ledgerVars, hopVars, crmVars
<1>2. WorkerInv' /\ Promised
    BY <1>1, TableKept DEF MirrorInv, WorkerInv
<1>3. MirrorShape'
    <2>1. faults' \in Nat /\ crashes' + faults' <= MaxFaults
        BY <1>1, Pays DEF MirrorInv
    <2> QED  BY <1>1, <2>1 DEF MirrorInv, MirrorShape
<1>4. LineInv' /\ LedgerInv' /\ JobsStay
    BY <1>1 DEF MirrorInv, LineInv, LedgerInv, JobsStay
<1>5. HopInv' /\ MineInv' /\ DueInv'
    BY <1>1, <1>4, HopsStay, DueStays DEF MirrorInv, MineInv
<1>6. StrayInv'
    BY <1>1, StrayStays DEF MirrorInv, Stray
<1> QED  BY <1>2, <1>3, <1>4, <1>5, <1>6 DEF MirrorInv

(* A tick starts: all it can list is still to be asked for, or it is not clean. *)
LEMMA PollStartsKeeps ==
    ASSUME MirrorInv, PollStarts
    PROVE  MirrorInv' /\ Promised
<1>1. /\ UNCHANGED <<workerVars, lineVars, ledgerVars, closed, swept, hopVars, repair, crmVars>>
      /\ Paid
    BY DEF PollStarts, Paid
<1>2. /\ UNCHANGED <<there, aged, rows, snubbed, closed, swept, repair>>
    BY <1>1 DEF lineVars, ledgerVars
<1>3. there \subseteq Things /\ there \subseteq mix.on /\ aged \subseteq there \intersect Objects
    BY LineThings DEF MirrorInv, MirrorShape
<1>4. /\ poll' \in Ticks /\ poll'.at = "asking" /\ poll'.start = there \ rows
      /\ poll'.clean => poll'.todo = mix.on \intersect Objects
    <2>1. CASE poll' = [NoTick EXCEPT !.at = "asking", !.all = ~closed, !.start = there \ rows,
                                      !.todo = mix.on \intersect Objects]
        BY <1>3, <2>1 DEF NoTick, Ticks
    <2>2. CASE poll' = [NoTick EXCEPT !.at = "asking", !.all = ~closed, !.clean = FALSE,
                                      !.start = there \ rows,
                                      !.todo = (mix.on \intersect Objects) \ Strangers]
        BY <1>3, <2>2 DEF NoTick, Ticks
    <2> QED  BY <2>1, <2>2 DEF PollStarts
<1>5. TickInv' /\ NothingMissed'
    BY <1>2, <1>3, <1>4 DEF MirrorInv, TickInv, NothingMissed, Handled
<1> QED  BY <1>1, <1>2, <1>4, <1>5, ReadingKeeps DEF MirrorInv, MirrorShape

(* What it passes over is mirrored, or too old to be looked at, or costs it its
   cleanness. *)
LEMMA PollPassesKeeps ==
    ASSUME MirrorInv, NEW x \in Objects, PollPasses(x)
    PROVE  MirrorInv' /\ Promised
<1>1. /\ UNCHANGED <<workerVars, lineVars, ledgerVars, closed, swept, hopVars, repair, crmVars>>
      /\ Paid /\ poll.at = "asking"
    BY DEF PollPasses, Paid
<1>2. /\ UNCHANGED <<there, aged, rows, snubbed, closed, swept, repair>>
    BY <1>1 DEF lineVars, ledgerVars
<1>3. /\ poll' \in Ticks /\ poll'.at = "asking" /\ poll'.start = poll.start
      /\ poll'.all = poll.all /\ poll'.todo = poll.todo \ {x}
      /\ poll'.clean => poll.clean /\ (InWindow(x) => x \in rows)
    <2>0. poll \in Ticks /\ poll.todo \ {x} \in SUBSET Objects
        BY DEF MirrorInv, MirrorShape, Ticks
    <2>1. CASE (InWindow(x) => x \in rows) /\ poll' = [poll EXCEPT !.todo = poll.todo \ {x}]
        <3>1. poll' = [poll EXCEPT !.todo = poll.todo \ {x}] /\ (InWindow(x) => x \in rows)
            BY <2>1
        <3>2. /\ poll' \in Ticks /\ poll'.at = poll.at /\ poll'.start = poll.start
              /\ poll'.all = poll.all /\ poll'.todo = poll.todo \ {x} /\ poll'.clean = poll.clean
            BY <2>0, <3>1 DEF Ticks
        <3> QED  BY <1>1, <3>1, <3>2
    <2>2. CASE poll' = [poll EXCEPT !.todo = poll.todo \ {x}, !.clean = FALSE]
        BY <1>1, <2>0, <2>2 DEF Ticks
    <2> QED  BY <2>1, <2>2 DEF PollPasses
<1>4. aged \subseteq there /\ poll.start \subseteq there
    BY DEF MirrorInv, MirrorShape, TickInv
<1>5. TickInv' /\ NothingMissed'
    BY <1>1, <1>2, <1>3, <1>4 DEF MirrorInv, TickInv, NothingMissed, Handled, InWindow
<1> QED  BY <1>1, <1>2, <1>3, <1>5, ReadingKeeps DEF MirrorInv, MirrorShape

(* What it reads is in its hands, with what Quo has of it. *)
LEMMA PollReadsKeeps ==
    ASSUME MirrorInv, PollReadsText \/ PollReadsCall
    PROVE  MirrorInv' /\ Promised
<1>1. PICK x \in Objects, found \in SUBSET Parts :
          PollReads(x, found) /\ Paid /\ found \subseteq there
    <2>1. CASE PollReadsText
        BY <2>1 DEF PollReadsText, Objects, Paid
    <2>2. CASE PollReadsCall
        BY <2>2 DEF PollReadsCall, Extras, Objects, Paid
    <2> QED  BY <2>1, <2>2
<1>2. /\ UNCHANGED <<workerVars, lineVars, ledgerVars, closed, swept, hopVars, repair, crmVars>>
      /\ poll.at = "asking" /\ x \in poll.todo /\ x \in there
      /\ poll' = [poll EXCEPT !.at = "read", !.thing = x, !.brings = found]
    BY <1>1 DEF PollReads, InWindow
<1>3. /\ UNCHANGED <<there, aged, rows, snubbed, closed, swept, repair>>
    BY <1>2 DEF lineVars, ledgerVars
<1>4. x \in Things /\ x \notin Parts
    BY DEF Things, Objects, Parts
<1>5. /\ poll' \in Ticks /\ poll'.at = "read" /\ poll'.start = poll.start /\ poll'.all = poll.all
      /\ poll'.todo = poll.todo /\ poll'.clean = poll.clean /\ poll'.thing = x /\ poll'.brings = found
    BY <1>2, <1>4 DEF MirrorInv, MirrorShape, Ticks
<1>6. TickInv' /\ NothingMissed'
    BY <1>1, <1>2, <1>3, <1>4, <1>5 DEF MirrorInv, TickInv, NothingMissed, Handled, Readable
<1> QED  BY <1>1, <1>2, <1>3, <1>5, <1>6, ReadingKeeps DEF MirrorInv, MirrorShape

(* A clean tick over everything has left nothing: the backfill closes on that. *)
LEMMA PollEndsKeeps ==
    ASSUME MirrorInv, PollEnds
    PROVE  MirrorInv' /\ Promised
<1>1. /\ UNCHANGED <<workerVars, lineVars, ledgerVars, hopVars, repair, crmVars, faults>>
      /\ poll.at = "asking" /\ poll.todo = {} /\ poll' = NoTick
      /\ closed' = (closed \/ Closes)
      /\ swept' = (IF poll.clean THEN swept \union poll.start ELSE swept) \ rows
    BY DEF PollEnds
<1>2. /\ UNCHANGED <<there, aged, rows, snubbed, repair>>
    BY <1>1 DEF lineVars, ledgerVars
<1>3. poll' \in Ticks /\ poll'.at = "idle" /\ poll'.start = {}
    BY <1>1 DEF NoTick, Ticks
<1>4. swept' \subseteq Things /\ closed' \in BOOLEAN /\ Paid
    BY <1>1 DEF MirrorInv, MirrorShape, Ticks, Closes, Paid
<1>5. TickInv' /\ NothingMissed'
    BY <1>1, <1>2, <1>3 DEF MirrorInv, TickInv, NothingMissed, Handled, Closes
<1> QED  BY <1>1, <1>2, <1>3, <1>4, <1>5, ReadingKeeps DEF MirrorInv, MirrorShape

(* The repair asks for the audio of a call that is mirrored. *)
LEMMA RepairReadsKeeps ==
    ASSUME MirrorInv, RepairReads
    PROVE  MirrorInv' /\ Promised
<1>1. /\ "recording" \in there /\ repair' = IF crowd THEN "done" ELSE "read"
      /\ UNCHANGED <<workerVars, lineVars, ledgerVars, pollVars, hopVars, crmVars, faults>>
    BY DEF RepairReads
<1>2. /\ repair' \in {"none", "read", "done"} /\ Paid
      /\ UNCHANGED <<there, aged, rows, snubbed, poll, closed, swept>>
    BY <1>1 DEF lineVars, ledgerVars, pollVars, Paid
<1>3. TickInv' /\ NothingMissed'
    BY <1>2, TickStays DEF MirrorInv
<1> QED  BY <1>1, <1>2, <1>3, ReadingKeeps DEF MirrorInv, MirrorShape

-----------------------------------------------------------------------------
(* The theorems *)

(* On a silent line with an empty queue the invariant holds. *)
LEMMA MirrorStarts == MirrorInit => MirrorInv
<1> SUFFICES ASSUME MirrorInit PROVE MirrorInv
    OBVIOUS
<1>1. WorkerInv /\ at = "idle" /\ crashes = 0 /\ phase = [j \in Jobs |-> "absent"]
    BY WorkerStarts DEF MirrorInit, WorkerInit, Q!Init
<1>2. NoHop \in Hops /\ NoTick \in Ticks /\ MaxFaults \in Nat /\ NoSlot \notin Slots
    <2>1. MaxFaults \in Nat
        BY OpenPhoneAssumption
    <2> QED  BY <2>1 DEF NoHop, NoTick, Hops, Ticks, Paths, NoSlot, Slots
<1>3. /\ mix \in Mixes /\ there = {} /\ aged = {} /\ rows = {} /\ closed = FALSE /\ poll = NoTick
      /\ payload = [x \in Things |-> {}] /\ queued = [x \in Things |-> 0]
      /\ swept = {} /\ hop = [g \in Slots |-> NoHop] /\ mine = NoSlot /\ due = {}
      /\ repair = "none" /\ filed = {} /\ noted = {} /\ snubbed = {} /\ faults = 0
      /\ ready \in BOOLEAN
    BY DEF MirrorInit
<1>4. MirrorShape
    <2>1. hop \in [Slots -> Hops] /\ mine \in Slots \union {NoSlot} /\ poll \in Ticks
        BY <1>2, <1>3
    <2>2. payload \in [Things -> SUBSET Parts] /\ queued \in [Things -> {0, 1}]
        BY <1>3
    <2>3. faults \in Nat /\ crashes + faults <= MaxFaults
        BY <1>1, <1>2, <1>3
    <2> QED  BY <1>1, <1>3, <2>1, <2>2, <2>3 DEF MirrorShape
<1>5. LineInv
    BY <1>1, <1>3, JobNames DEF LineInv
<1>6. LedgerInv
    BY <1>1, <1>3, JobNames DEF LedgerInv
<1>7. HopInv
    BY <1>3 DEF HopInv, HopGood, NoHop
<1>8. MineInv /\ DueInv
    BY <1>1, <1>2, <1>3 DEF MineInv, DueInv
<1>9. StrayInv
    <2>1. Stray = {}
        BY <1>3 DEF Stray
    <2> QED  BY <1>1, <1>3, <2>1, FS_EmptySet DEF StrayInv
<1>10. TickInv /\ NothingMissed
    BY <1>3 DEF TickInv, NothingMissed, NoTick, Handled
<1> QED  BY <1>1, <1>4, <1>5, <1>6, <1>7, <1>8, <1>9, <1>10 DEF MirrorInv

(* Every step keeps the invariant, and moves the jobs table as the queue promises. *)
LEMMA Steady == MirrorInv /\ [MirrorNext]_mirrorVars => MirrorInv' /\ Promised
<1> SUFFICES ASSUME MirrorInv, [MirrorNext]_mirrorVars PROVE MirrorInv' /\ Promised
    OBVIOUS
<1>1. CASE Line
    BY <1>1, LineSteps
<1>2. CASE Poll
    BY <1>2, PollStartsKeeps, PollPassesKeeps, PollReadsKeeps, PollRecordsKeeps, PollEndsKeeps
    DEF Poll
<1>3. ASSUME NEW x \in Things, NEW n \in Posts, HookPosted(x, n)
      PROVE  MirrorInv' /\ Promised
    BY <1>3, HookPostedKeeps
<1>4. ASSUME NEW j \in Jobs, MirrorClaim(j)
      PROVE  MirrorInv' /\ Promised
    BY <1>4, ClaimKeeps
<1>5. ASSUME NEW g \in Slots, Adapter(g)
      PROVE  MirrorInv' /\ Promised
    BY <1>5, LooksKeeps, MirrorsCallKeeps, ReadsPartKeeps, RecordsKeeps, PostsEventKeeps,
       AdapterAnswersKeeps DEF Adapter
<1>6. CASE StopsWaiting \/ MirrorCrash \/ MirrorRestart
    BY <1>6, StopsWaitingKeeps, CrashKeeps, RestartKeeps
<1>7. CASE RepairReads \/ RepairRecords
    BY <1>7, RepairReadsKeeps, RepairRecordsKeeps
<1>8. CASE UNCHANGED mirrorVars
    <2>1. /\ UNCHANGED <<workerVars, lineVars, ledgerVars, pollVars, hopVars, crmVars>>
          /\ UNCHANGED <<there, aged, rows, snubbed, poll, closed, swept, repair, faults>>
        BY <1>8 DEF mirrorVars, lineVars, ledgerVars, pollVars
    <2>2. TickInv' /\ NothingMissed'
        BY <2>1, TickStays DEF MirrorInv
    <2> QED  BY <2>1, <2>2, ReadingKeeps DEF MirrorInv, MirrorShape, Paid
<1> QED  BY <1>1, <1>2, <1>3, <1>4, <1>5, <1>6, <1>7, <1>8 DEF MirrorNext

(* The invariant of the mirror holds for any line, any faults and any number of
   posts. *)
THEOREM MirrorInvariant == MirrorSpec => []MirrorInv
<1> QED  BY MirrorStarts, Steady, PTL DEF MirrorSpec

(* NothingMissed: the backfill closes only when whatever the poll will no longer
   look back for is mirrored, or was refused for want of the key. *)
THEOREM NothingLeftBehind == MirrorSpec => []NothingMissed
<1>1. MirrorInv => NothingMissed
    BY DEF MirrorInv
<1> QED  BY <1>1, MirrorInvariant, PTL

(* MirroredWhole: an object is queued once, exactly if its state row is there,
   the CRM's keys are the objects', and a part whose announcement found the call
   mirrored and is done with is queued for the CRM. *)
THEOREM MirroredOnceAndWhole == MirrorSpec => []MirroredWhole
<1>1. ASSUME MirrorInv
      PROVE  MirroredWhole
    <2>1. WorkerTypeOK({"posted"})
        BY <1>1, WorkerTyped DEF MirrorInv, MirrorShape
    <2>2. MirrorTypeOK
        BY <1>1, <2>1 DEF MirrorInv, MirrorShape, MirrorTypeOK, Hops, Paths, Ticks
    <2>3. OnceEach
        BY <1>1, <2>2 DEF MirrorInv, MirrorShape, LedgerInv, OnceEach
    <2>4. ASSUME NEW j \in due, phase[j] = "done"
          PROVE  j[2] \in payload[j[2]]
        <3>1. j[2] \in Parts /\ j[2] \in rows
            BY <1>1, <2>4 DEF MirrorInv, DueInv
        <3> QED  BY <1>1, <3>1 DEF MirrorInv, LedgerInv, Things
    <2> QED  BY <2>3, <2>4 DEF MirroredWhole, PartsKept
<1> QED  BY <1>1, MirrorInvariant, PTL

(* The handler, the webhook, the poll and the repair move the jobs table only as
   the queue promises. *)
THEOREM MirrorKeepsToTheQueue == MirrorSpec => Q!Spec
<1>1. MirrorInit => Q!Init
    BY DEF MirrorInit, WorkerInit
<1>2. MirrorInv /\ [MirrorNext]_mirrorVars => [Q!Next]_(Q!wqVars)
    BY Steady DEF Promised
<1> QED  BY <1>1, <1>2, MirrorInvariant, PTL DEF MirrorSpec, Q!Spec

-----------------------------------------------------------------------------
(***************************************************************************)
(* A contact's thread                                                      *)
(***************************************************************************)

(* What a thread is made of: what comes to it and what leaves it. *)
Ids == Incoming \cup Replies

AskedRecords == [at : {"asked"}, col : Columns, mark : Nat, over : SUBSET Ids]

(* A request of an operator, wherever it has got to; one that has resolved leaves
   from the number the list showed. *)
DeskOK(x) ==
    \/ x = Free
    \/ x \in AskedRecords
    \/ x.at = "begun" /\ x.id \in Replies /\ x.mark \in Nat \ {0}
    \/ x.at = "resolved" /\ x.id \in Replies /\ x.mark \in Nat \ {0} /\ x.did = x.shown

(* A row of the log. *)
RowOK(row) ==
    /\ row.id \in Ids /\ row.at \in Nat \ {0}
    /\ row.kind \in {"message", "call"}
    /\ row.id \in Replies => row.did = row.shown

(* What the variables of a thread hold. *)
ThreadTypeOK ==
    /\ now \in Nat
    /\ \A row \in log : RowOK(row)
    /\ underway \in [Incoming -> Nat]
    /\ thread \in [Columns -> Nat]
    /\ done \in [Columns -> [on : BOOLEAN, over : SUBSET Ids]]
    /\ desk = [d \in Desks |-> desk[d]] /\ \A d \in Desks : DeskOK(desk[d])

Trace(x, t) == [id |-> x, at |-> t]
Coming   == {i \in Incoming : underway[i] > 0 /\ ~Filed(i)}
Replying == {d \in Desks : desk[d].at \in {"begun", "resolved"}}

(* What has begun, each with its stamp, whether it is filed or still underway. *)
Traces ==
    {Trace(row.id, row.at) : row \in log}
        \cup {Trace(i, underway[i]) : i \in Coming}
        \cup {Trace(desk[d].id, desk[d].mark) : d \in Replying}

(* Each thing has one stamp, and no two share one. *)
OneStamp ==
    /\ \A p \in Traces : p.at =< now
    /\ \A p, q \in Traces : p.id = q.id <=> p.at = q.at

(* Each thing has one row at most, and a reply underway has none. *)
OneRow ==
    /\ \A row, other \in log : row.id = other.id => row = other
    /\ \A d \in Replying : ~Filed(desk[d].id)
    /\ \A d, e \in Replying : desk[d].id = desk[e].id => d = e

(* An act's stamp parts what had begun from what began since. *)
Parted(mark, over) == \A p \in Traces : p.at > mark <=> p.id \notin over

ActsPart ==
    \A c \in Columns :
        /\ thread[c] =< now
        /\ done[c].on <=> thread[c] > 0
        /\ done[c].on => Parted(thread[c], done[c].over)

AsksPart ==
    \A d \in Desks : desk[d].at = "asked" =>
        /\ desk[d].mark =< now
        /\ desk[d].mark > 0 => Parted(desk[d].mark, desk[d].over)

HasNewest(kin) == kin # {} => \E row \in kin : \A other \in kin : row.at >= other.at
NewestThere == HasNewest(log) /\ HasNewest(LastOf("message")) /\ HasNewest(LastOf("call"))

ThreadInv ==
    /\ ThreadTypeOK /\ OneStamp /\ OneRow /\ ActsPart /\ AsksPart /\ NewestThere

(* A trace bears an identity and a stamp. *)
LEMMA TracesAre ==
    ASSUME ThreadTypeOK, NEW p \in Traces
    PROVE  p.id \in Ids /\ p.at \in Nat /\ p.at > 0 /\ p = Trace(p.id, p.at)
<1>1. CASE \E row \in log : p = Trace(row.id, row.at)
  BY <1>1 DEF ThreadTypeOK, RowOK, Trace
<1>2. CASE \E i \in Coming : p = Trace(i, underway[i])
  BY <1>2 DEF ThreadTypeOK, Coming, Trace, Ids
<1>3. CASE \E d \in Replying : p = Trace(desk[d].id, desk[d].mark)
  <2>1. PICK d \in Replying : p = Trace(desk[d].id, desk[d].mark) BY <1>3
  <2>2. desk[d].id \in Replies /\ desk[d].mark \in Nat \ {0}
    BY <2>1 DEF Replying, ThreadTypeOK, DeskOK, Free, AskedRecords
  <2> QED BY <2>1, <2>2 DEF Trace, Ids
<1> QED BY <1>1, <1>2, <1>3 DEF Traces

(* What has left a trace has begun. *)
LEMMA TracesBegun ==
    ASSUME ThreadTypeOK, NEW p \in Traces
    PROVE  p.id \in Begun
<1>1. CASE \E row \in log : p = Trace(row.id, row.at)
  BY <1>1 DEF Begun, Trace
<1>2. CASE \E i \in Coming : p = Trace(i, underway[i])
  BY <1>2 DEF Begun, Coming, Trace
<1>3. CASE \E d \in Replying : p = Trace(desk[d].id, desk[d].mark)
  BY <1>3 DEF Begun, Replying, Trace
<1> QED BY <1>1, <1>2, <1>3 DEF Traces

(* A row is a trace. *)
LEMMA RowTrace ==
    ASSUME NEW row \in log
    PROVE  Trace(row.id, row.at) \in Traces
BY DEF Traces

(* Stamps stay apart when traces only go. *)
LEMMA StampsFewer ==
    ASSUME ThreadTypeOK, OneStamp, Traces' \subseteq Traces, now' \in Nat, now' >= now
    PROVE  OneStamp'
<1>1. \A p \in Traces : p.at \in Nat BY TracesAre
<1>2. now \in Nat BY DEF ThreadTypeOK
<1>3. \A p \in Traces' : p.at =< now' BY <1>1, <1>2 DEF OneStamp
<1>4. \A p, q \in Traces' : p.id = q.id <=> p.at = q.at BY DEF OneStamp
<1> QED BY <1>3, <1>4 DEF OneStamp

(* And when one comes with the time of now. *)
LEMMA StampsMore ==
    ASSUME ThreadTypeOK, OneStamp, NEW x, now' = now + 1,
           Traces' \subseteq Traces \cup {Trace(x, now + 1)},
           \A p \in Traces : p.id # x
    PROVE  OneStamp'
<1>1. \A p \in Traces : p.at \in Nat /\ p.at =< now BY TracesAre DEF OneStamp
<1>2. now \in Nat BY DEF ThreadTypeOK
<1>3. Trace(x, now + 1).id = x /\ Trace(x, now + 1).at = now + 1 BY DEF Trace
<1>4. \A p \in Traces' : p.at =< now' BY <1>1, <1>2, <1>3
<1>5. ASSUME NEW p \in Traces', NEW q \in Traces' PROVE p.id = q.id <=> p.at = q.at
  <2>1. CASE p \in Traces /\ q \in Traces BY <2>1 DEF OneStamp
  <2>2. CASE p \in Traces /\ q \notin Traces
    <3>1. q = Trace(x, now + 1) BY <2>2
    <3> QED BY <2>2, <3>1, <1>1, <1>2, <1>3
  <2>3. CASE p \notin Traces /\ q \in Traces
    <3>1. p = Trace(x, now + 1) BY <2>3
    <3> QED BY <2>3, <3>1, <1>1, <1>2, <1>3
  <2>4. CASE p \notin Traces /\ q \notin Traces
    <3>1. p = Trace(x, now + 1) /\ q = Trace(x, now + 1) BY <2>4
    <3> QED BY <3>1
  <2> QED BY <2>1, <2>2, <2>3, <2>4
<1> QED BY <1>4, <1>5 DEF OneStamp

(* Newest finds the newest row where there is one. *)
LEMMA NewestIs ==
    ASSUME NEW kin, HasNewest(kin), kin # {}
    PROVE  Newest(kin) \in kin /\ \A other \in kin : Newest(kin).at >= other.at
BY DEF HasNewest, Newest

(* There is one newest row at most. *)
LEMMA SameNewest ==
    ASSUME ThreadTypeOK, OneStamp, OneRow, NEW r \in log, NEW s \in log,
           r.at >= s.at, s.at >= r.at
    PROVE  r = s
<1>1. r.at \in Nat /\ s.at \in Nat BY DEF ThreadTypeOK, RowOK
<1>2. r.at = s.at BY <1>1
<1>3. Trace(r.id, r.at) \in Traces /\ Trace(s.id, s.at) \in Traces BY RowTrace
<1>4. r.id = s.id
  BY <1>2, <1>3 DEF OneStamp, Trace
<1> QED BY <1>4 DEF OneRow

(* The number a reply leaves from (api/inbox.py send) is the one the list shows
   (inbox_threads.py): the later of the last text's and the last call's rows is the
   newest row of all. *)
LEMMA ListAndRequestAgree ==
    ASSUME ThreadInv
    PROVE  LastUsed = Sticky
<1> USE DEF ThreadInv
<1> DEFINE texts == LastOf("message")
           calls == LastOf("call")
<1>1. log = texts \cup calls /\ texts \subseteq log /\ calls \subseteq log
  BY DEF LastOf, ThreadTypeOK, RowOK
<1>2. \A row \in log : row.at \in Nat BY DEF ThreadTypeOK, RowOK
<1>3. texts # {} =>
          Newest(texts) \in texts /\ \A other \in texts : Newest(texts).at >= other.at
  BY NewestIs DEF NewestThere
<1>4. calls # {} =>
          Newest(calls) \in calls /\ \A other \in calls : Newest(calls).at >= other.at
  BY NewestIs DEF NewestThere
<1>5. log # {} =>
          Newest(log) \in log /\ \A other \in log : Newest(log).at >= other.at
  BY NewestIs DEF NewestThere
<1>6. ASSUME NEW row \in log, \A other \in log : row.at >= other.at
      PROVE  row = Newest(log)
  BY <1>5, <1>6, SameNewest
<1> HIDE DEF texts, calls
<1>7. CASE texts # {} /\ calls # {}
  <2>1. CASE Newest(texts).at >= Newest(calls).at
    <3>1. \A other \in log : Newest(texts).at >= other.at
      BY <2>1, <1>1, <1>2, <1>3, <1>4, <1>7
    <3>2. Newest(texts) = Newest(log) BY <3>1, <1>1, <1>3, <1>6, <1>7
    <3> QED BY <2>1, <3>2, <1>1, <1>7 DEF LastUsed, Sticky, texts, calls
  <2>2. CASE ~(Newest(texts).at >= Newest(calls).at)
    <3>1. \A other \in log : Newest(calls).at >= other.at
      BY <2>2, <1>1, <1>2, <1>3, <1>4, <1>7
    <3>2. Newest(calls) = Newest(log) BY <3>1, <1>1, <1>4, <1>6, <1>7
    <3> QED BY <2>2, <3>2, <1>1, <1>7 DEF LastUsed, Sticky, texts, calls
  <2> QED BY <2>1, <2>2
<1>8. CASE texts # {} /\ calls = {}
  <2>1. log = texts BY <1>1, <1>8
  <2> QED BY <2>1, <1>8 DEF LastUsed, Sticky, texts, calls
<1>9. CASE texts = {} /\ calls # {}
  <2>1. log = calls BY <1>1, <1>9
  <2> QED BY <2>1, <1>9 DEF LastUsed, Sticky, texts, calls
<1>10. CASE texts = {} /\ calls = {}
  <2>1. log = {} BY <1>1, <1>10
  <2> QED BY <2>1, <1>10 DEF LastUsed, Sticky, texts, calls
<1> QED BY <1>7, <1>8, <1>9, <1>10

(* A row more leaves a newest one. *)
LEMMA AddsNewest ==
    ASSUME NEW kin, NEW row, HasNewest(kin),
           row.at \in Nat, \A other \in kin : other.at \in Nat
    PROVE  HasNewest(kin \cup {row})
<1>1. CASE kin = {} BY <1>1 DEF HasNewest
<1>2. CASE kin # {}
  <2>1. PICK best \in kin : \A other \in kin : best.at >= other.at
    BY <1>2 DEF HasNewest
  <2>2. CASE best.at >= row.at BY <2>1, <2>2 DEF HasNewest
  <2>3. CASE ~(best.at >= row.at)
    <3>1. \A other \in kin : row.at >= other.at BY <2>1, <2>3
    <3> QED BY <3>1 DEF HasNewest
  <2> QED BY <2>2, <2>3
<1> QED BY <1>1, <1>2

(* A thread begins with nothing. *)
LEMMA ThreadBegins == ThreadInit => ThreadInv
<1> SUFFICES ASSUME ThreadInit PROVE ThreadInv OBVIOUS
<1> USE DEF ThreadInit
<1>1. ThreadTypeOK BY DEF ThreadTypeOK, DeskOK
<1>2. Coming = {} BY DEF Coming
<1>3. Replying = {} BY DEF Replying, Free
<1>4. Traces = {} BY <1>2, <1>3 DEF Traces
<1>5. OneStamp BY <1>4 DEF OneStamp
<1>6. OneRow BY <1>3 DEF OneRow
<1>7. ActsPart BY DEF ActsPart
<1>8. AsksPart BY DEF AsksPart, Free
<1>9. NewestThere BY DEF NewestThere, HasNewest, LastOf
<1> QED BY <1>1, <1>5, <1>6, <1>7, <1>8, <1>9 DEF ThreadInv

(* Leaving a thing that begins now out of a request's history changes no more. *)
LEMMA WithoutOK ==
    ASSUME NEW x, DeskOK(x), NEW i
    PROVE  /\ DeskOK(Without(i, x))
           /\ Without(i, x).at = x.at
           /\ x.at # "asked" => Without(i, x) = x
           /\ x.at = "asked" => /\ Without(i, x).mark = x.mark
                                /\ Without(i, x).col = x.col
                                /\ Without(i, x).over = x.over \ {i}
<1>1. CASE x.at = "asked"
  <2>1. x \in AskedRecords BY <1>1 DEF DeskOK, Free
  <2>2. Without(i, x) \in AskedRecords BY <1>1, <2>1 DEF Without, AskedRecords
  <2> QED BY <1>1, <2>1, <2>2 DEF Without, DeskOK, AskedRecords
<1>2. CASE x.at # "asked" BY <1>2 DEF Without
<1> QED BY <1>1, <1>2

(* Nor of the acts that are done. *)
LEMMA DoneOK ==
    ASSUME ThreadTypeOK, NEW i, BeginsNow(i)
    PROVE  /\ done' \in [Columns -> [on : BOOLEAN, over : SUBSET Ids]]
           /\ \A c \in Columns : done'[c].on = done[c].on
           /\ \A c \in Columns : done'[c].over = done[c].over \ {i}
BY DEF BeginsNow, ThreadTypeOK

(* Every step keeps the types. *)
LEMMA ThreadTyped ==
    ASSUME ThreadInv, [ThreadNext]_threadVars
    PROVE  ThreadTypeOK'
<1> ThreadTypeOK BY DEF ThreadInv
<1>1. ASSUME NEW i \in Incoming, Arrives(i) PROVE ThreadTypeOK'
  <2> USE <1>1 DEF Arrives, Stamped
  <2>1. now' \in Nat /\ underway' \in [Incoming -> Nat] BY DEF ThreadTypeOK
  <2>2. (\A row \in log : RowOK(row))' BY DEF ThreadTypeOK, RowOK
  <2>3. CASE Filed(i) BY <2>1, <2>2, <2>3 DEF ThreadTypeOK, DeskOK
  <2>4. CASE ~Filed(i)
    <3>1. done' \in [Columns -> [on : BOOLEAN, over : SUBSET Ids]] BY <2>4, DoneOK
    <3>2. desk' = [d \in Desks |-> Without(i, desk[d])] BY <2>4
    <3>3. \A d \in Desks : DeskOK(desk'[d]) BY <3>2, WithoutOK DEF ThreadTypeOK
    <3>4. desk' = [d \in Desks |-> desk'[d]] BY <3>2
    <3> QED BY <2>1, <2>2, <3>1, <3>3, <3>4 DEF ThreadTypeOK, DeskOK
  <2> QED BY <2>3, <2>4
<1>2. ASSUME NEW i \in Incoming, Cut(i) PROVE ThreadTypeOK'
  BY <1>2 DEF Cut, ThreadTypeOK, RowOK, DeskOK
<1>3. ASSUME NEW i \in Incoming, NEW dir \in {"in", "out"}, Files(i, dir) PROVE ThreadTypeOK'
  <2> USE <1>3 DEF Files
  <2>1. underway' \in [Incoming -> Nat] BY DEF ThreadTypeOK
  <2> DEFINE new == [id |-> i, kind |-> IF i \in Texts THEN "message" ELSE "call",
                     dir |-> dir, did |-> Through[i], at |-> underway[i]]
  <2>2. RowOK(new)
    BY ThingsAreToldApart DEF RowOK, ThreadTypeOK, Ids, Incoming
  <2>3. log' \subseteq log \cup {new} BY DEF FiledOnce
  <2>4. \A row \in log' : RowOK(row) BY <2>2, <2>3 DEF ThreadTypeOK
  <2> QED BY <2>1, <2>4 DEF ThreadTypeOK, DeskOK, RowOK
<1>4. ASSUME NEW d \in Desks, NEW c \in Columns, NEW on \in BOOLEAN, Asks(d, c, on)
      PROVE  ThreadTypeOK'
  <2> USE <1>4 DEF Asks, Stamped
  <2> DEFINE asked == [at |-> "asked", col |-> c, mark |-> IF on THEN now' ELSE 0,
                       over |-> Begun]
  <2>1. now' \in Nat BY DEF ThreadTypeOK
  <2>2. \A e \in Desks : desk[e].at \in {"begun", "resolved"} => desk[e].id \in Ids
    BY DEF ThreadTypeOK, DeskOK, Free, AskedRecords, Ids
  <2>3. Begun \subseteq Ids BY <2>2 DEF Begun, ThreadTypeOK, RowOK, Ids
  <2>4. asked \in AskedRecords BY <2>1, <2>3 DEF AskedRecords
  <2>5. desk' = [desk EXCEPT ![d] = asked] OBVIOUS
  <2>6. \A e \in Desks : DeskOK(desk'[e]) BY <2>4, <2>5 DEF ThreadTypeOK, DeskOK
  <2>7. desk' = [e \in Desks |-> desk'[e]] BY <2>5 DEF ThreadTypeOK
  <2> QED BY <2>1, <2>6, <2>7 DEF ThreadTypeOK, DeskOK, RowOK
<1>5. ASSUME NEW d \in Desks, Upserts(d) PROVE ThreadTypeOK'
  <2> USE <1>5 DEF Upserts
  <2>1. desk[d] \in AskedRecords BY DEF ThreadTypeOK, DeskOK, Free
  <2>2. thread' \in [Columns -> Nat] BY <2>1 DEF Upserted, AskedRecords, ThreadTypeOK
  <2>3. done' \in [Columns -> [on : BOOLEAN, over : SUBSET Ids]]
    BY <2>1 DEF AskedRecords, ThreadTypeOK
  <2>4. \A e \in Desks : DeskOK(desk'[e]) BY DEF ThreadTypeOK, DeskOK
  <2>5. desk' = [e \in Desks |-> desk'[e]] BY DEF ThreadTypeOK
  <2> QED BY <2>2, <2>3, <2>4, <2>5 DEF ThreadTypeOK, DeskOK, RowOK
<1>6. ASSUME NEW d \in Desks, NEW id \in Replies, NEW named \in Dids \cup {NoDid},
             Begins(d, id, named)
      PROVE  ThreadTypeOK'
  <2> USE <1>6 DEF Begins, Stamped
  <2>1. now' \in Nat \ {0} BY DEF ThreadTypeOK
  <2>2. done' \in [Columns -> [on : BOOLEAN, over : SUBSET Ids]] BY DoneOK
  <2> DEFINE begun == [at |-> "begun", id |-> id, named |-> named, mark |-> now']
  <2>3. DeskOK(begun) BY <2>1 DEF DeskOK
  <2>4. desk' = [e \in Desks |-> IF e = d THEN begun ELSE Without(id, desk[e])] OBVIOUS
  <2> HIDE DEF begun
  <2>5. \A e \in Desks : DeskOK(desk'[e]) BY <2>3, <2>4, WithoutOK DEF ThreadTypeOK
  <2>6. desk' = [e \in Desks |-> desk'[e]] BY <2>4
  <2> QED BY <2>1, <2>2, <2>5, <2>6 DEF ThreadTypeOK, DeskOK, RowOK
<1>7. ASSUME NEW d \in Desks, Resolves(d) PROVE ThreadTypeOK'
  <2> DEFINE named  == desk[d].named
             chosen == IF named = NoDid THEN SmsFrom(LastUsed) ELSE named
             res == [at |-> "resolved", id |-> desk[d].id, mark |-> desk[d].mark,
                     did |-> chosen, shown |-> IF named = NoDid THEN Shown ELSE named]
  <2>1. desk[d].at = "begun" /\ desk[d].id \in Replies /\ desk[d].mark \in Nat \ {0}
    BY <1>7 DEF Resolves, ThreadTypeOK, DeskOK, Free, AskedRecords
  <2>2. chosen = IF named = NoDid THEN Shown ELSE named
    BY ListAndRequestAgree DEF Shown
  <2> HIDE DEF named, chosen
  <2>3. DeskOK(res) BY <2>1, <2>2 DEF DeskOK
  <2>4. PICK next \in {Free, res} : desk' = [desk EXCEPT ![d] = next]
    <3>1. desk' = [desk EXCEPT ![d] = Free] \/ desk' = [desk EXCEPT ![d] = res]
      BY <1>7 DEF Resolves, named, chosen
    <3> QED BY <3>1
  <2>5. DeskOK(next) BY <2>3, <2>4 DEF DeskOK
  <2> HIDE DEF res
  <2>6. \A e \in Desks : DeskOK(desk'[e]) BY <2>4, <2>5 DEF ThreadTypeOK
  <2>7. desk' = [e \in Desks |-> desk'[e]] BY <2>4 DEF ThreadTypeOK
  <2> QED BY <1>7, <2>6, <2>7 DEF Resolves, ThreadTypeOK, DeskOK, RowOK
<1>8. ASSUME NEW d \in Desks, SendsOut(d) PROVE ThreadTypeOK'
  <2> USE <1>8 DEF SendsOut
  <2> DEFINE new == [id |-> desk[d].id, kind |-> "message", dir |-> "out",
                     did |-> desk[d].did, at |-> desk[d].mark, shown |-> desk[d].shown]
  <2>1. desk[d].id \in Replies /\ desk[d].mark \in Nat \ {0} /\ desk[d].did = desk[d].shown
    BY DEF ThreadTypeOK, DeskOK, Free, AskedRecords
  <2>2. RowOK(new) BY <2>1 DEF RowOK, Ids
  <2>3. \A row \in log' : RowOK(row) BY <2>2 DEF ThreadTypeOK
  <2>4. \A e \in Desks : DeskOK(desk'[e]) BY DEF ThreadTypeOK, DeskOK
  <2>5. desk' = [e \in Desks |-> desk'[e]] BY DEF ThreadTypeOK
  <2> QED BY <2>3, <2>4, <2>5 DEF ThreadTypeOK, DeskOK, RowOK
<1>9. ASSUME NEW d \in Desks, Refuses(d) PROVE ThreadTypeOK'
  <2> USE <1>9 DEF Refuses
  <2>1. \A e \in Desks : DeskOK(desk'[e]) BY DEF ThreadTypeOK, DeskOK
  <2>2. desk' = [e \in Desks |-> desk'[e]] BY DEF ThreadTypeOK
  <2> QED BY <2>1, <2>2 DEF ThreadTypeOK, DeskOK, RowOK
<1>10. ASSUME NEW did, SetsDefault(did) PROVE ThreadTypeOK'
  BY <1>10 DEF SetsDefault, ThreadTypeOK, DeskOK, RowOK
<1>11. ASSUME NEW did, Provisions(did) PROVE ThreadTypeOK'
  BY <1>11 DEF Provisions, ThreadTypeOK, DeskOK, RowOK
<1>12. CASE UNCHANGED threadVars BY <1>12 DEF threadVars, ThreadTypeOK, DeskOK, RowOK
<1> QED
  BY <1>1, <1>2, <1>3, <1>4, <1>5, <1>6, <1>7, <1>8, <1>9, <1>10, <1>11, <1>12
  DEF ThreadNext, Serve

(* What arrives leaves a trace of its own, unless it is a repeat of what is filed. *)
LEMMA ArrivalTraces ==
    ASSUME ThreadInv, NEW i \in Incoming, Arrives(i)
    PROVE  /\ Filed(i) => Traces' \subseteq Traces
           /\ ~Filed(i) => /\ Traces' \subseteq Traces \cup {Trace(i, now + 1)}
                           /\ \A p \in Traces : p.id # i
<1> USE DEF Arrives, Stamped, ThreadInv
<1>1. \A j \in Incoming : Filed(j)' <=> Filed(j) BY DEF Filed
<1>2. \A d \in Desks : desk[d].at # "asked" => desk'[d] = desk[d]
  BY WithoutOK DEF ThreadTypeOK
<1>3. \A d \in Desks : desk[d].at = "asked" => desk'[d].at = "asked"
  BY WithoutOK DEF ThreadTypeOK
<1>4. Replying' = Replying BY <1>2, <1>3 DEF Replying
<1>5. \A d \in Replying : desk'[d] = desk[d] BY <1>2 DEF Replying
<1>6. \A j \in Incoming : j # i => underway'[j] = underway[j] BY DEF ThreadTypeOK
<1>7. underway'[i] = now + 1 BY DEF ThreadTypeOK
<1>8. CASE Filed(i)
  <2>1. Coming' \subseteq Coming /\ i \notin Coming' BY <1>1, <1>6, <1>8 DEF Coming
  <2>2. \A j \in Coming' : underway'[j] = underway[j] BY <1>6, <2>1 DEF Coming
  <2> QED BY <1>4, <1>5, <1>8, <2>1, <2>2 DEF Traces, Trace
<1>9. CASE ~Filed(i)
  <2>1. Coming' \subseteq Coming \cup {i} BY <1>1, <1>6 DEF Coming
  <2>2. \A j \in Coming' \ {i} : underway'[j] = underway[j] BY <1>6 DEF Coming
  <2>3. Traces' \subseteq Traces \cup {Trace(i, now + 1)}
    BY <1>4, <1>5, <1>7, <2>1, <2>2 DEF Traces, Trace
  <2>4. i \notin Coming BY DEF Coming
  <2>5. \A d \in Replying : desk[d].id \in Replies
    BY DEF Replying, ThreadTypeOK, DeskOK, Free, AskedRecords
  <2>6. \A d \in Replying : desk[d].id # i BY <2>5, ThingsAreToldApart DEF Incoming
  <2>7. \A p \in Traces : p.id # i BY <1>9, <2>4, <2>6 DEF Traces, Trace, Filed
  <2> QED BY <1>9, <2>3, <2>7
<1> QED BY <1>8, <1>9

(* So does a reply that begins. *)
LEMMA ReplyTraces ==
    ASSUME ThreadInv, NEW d \in Desks, NEW id \in Replies, NEW named, Begins(d, id, named)
    PROVE  /\ Traces' \subseteq Traces \cup {Trace(id, now + 1)}
           /\ \A p \in Traces : p.id # id
<1> USE DEF Begins, Stamped, ThreadInv
<1>1. Coming' = Coming BY DEF Coming, Filed
<1>2. \A e \in Desks \ {d} : desk[e].at # "asked" => desk'[e] = desk[e]
  BY WithoutOK DEF ThreadTypeOK
<1>3. \A e \in Desks \ {d} : desk[e].at = "asked" => desk'[e].at = "asked"
  BY WithoutOK DEF ThreadTypeOK
<1>4. Replying' \subseteq Replying \cup {d} BY <1>2, <1>3 DEF Replying
<1>5. \A e \in Replying' \ {d} : desk'[e] = desk[e] BY <1>2, <1>3 DEF Replying
<1>6. desk'[d].id = id /\ desk'[d].mark = now + 1 OBVIOUS
<1>7. Traces' \subseteq Traces \cup {Trace(id, now + 1)}
  BY <1>1, <1>4, <1>5, <1>6 DEF Traces, Trace
<1>8. \A p \in Traces : p.id # id BY TracesBegun
<1> QED BY <1>7, <1>8

(* Filing takes a thing from underway to the log with the stamp it had. *)
LEMMA FilingTraces ==
    ASSUME ThreadInv, NEW i \in Incoming, NEW dir, Files(i, dir)
    PROVE  Traces' \subseteq Traces
<1> USE DEF Files, ThreadInv
<1>1. \A j \in Incoming : j # i => underway'[j] = underway[j] BY DEF ThreadTypeOK
<1>2. underway'[i] = 0 BY DEF ThreadTypeOK
<1>3. \A j : Filed(j) => Filed(j)' BY DEF Filed, FiledOnce
<1>4. Coming' \subseteq Coming /\ i \notin Coming' BY <1>1, <1>2, <1>3 DEF Coming
<1>5. \A j \in Coming' : underway'[j] = underway[j] BY <1>1, <1>4 DEF Coming
<1>6. \A row \in log' : row \in log \/ (Trace(row.id, row.at) = Trace(i, underway[i]) /\ ~Filed(i))
  BY DEF FiledOnce
<1>7. ~Filed(i) => i \in Coming BY DEF Coming
<1>8. Replying' = Replying BY DEF Replying
<1> QED BY <1>4, <1>5, <1>6, <1>7, <1>8 DEF Traces

(* So does sending a reply out. *)
LEMMA SendingTraces ==
    ASSUME ThreadInv, NEW d \in Desks, SendsOut(d)
    PROVE  Traces' \subseteq Traces
<1> USE DEF SendsOut, ThreadInv
<1>1. \A j : Filed(j) => Filed(j)' BY DEF Filed
<1>2. Coming' \subseteq Coming BY <1>1 DEF Coming
<1>3. \A row \in log' : row \in log \/ Trace(row.id, row.at) = Trace(desk[d].id, desk[d].mark)
  OBVIOUS
<1>4. d \in Replying BY DEF Replying
<1>5. Replying' \subseteq Replying /\ d \notin Replying'
  BY DEF Replying, Free, ThreadTypeOK
<1>6. \A e \in Replying' : desk'[e] = desk[e] BY <1>5 DEF Replying, ThreadTypeOK
<1> QED BY <1>2, <1>3, <1>4, <1>5, <1>6 DEF Traces

(* A request that goes on, or ends, leaves no new trace. *)
LEMMA DeskTraces ==
    ASSUME ThreadTypeOK, NEW d \in Desks,
           UNCHANGED <<log, underway>>,
           \A e \in Desks \ {d} : desk'[e] = desk[e],
           \/ desk'[d].at \notin {"begun", "resolved"}
           \/ /\ desk[d].at = "begun"
              /\ desk'[d].id = desk[d].id /\ desk'[d].mark = desk[d].mark
    PROVE  Traces' \subseteq Traces
<1>1. Coming' = Coming BY DEF Coming, Filed
<1>2. Replying' \subseteq Replying BY DEF Replying
<1>3. \A e \in Replying' : desk'[e].id = desk[e].id /\ desk'[e].mark = desk[e].mark
  BY DEF Replying
<1> QED BY <1>1, <1>2, <1>3 DEF Traces

(* Resolving the number of a reply keeps its identity and its stamp. *)
LEMMA ResolvedDesk ==
    ASSUME ThreadTypeOK, NEW d \in Desks, Resolves(d)
    PROVE  /\ desk[d].at = "begun"
           /\ \A e \in Desks \ {d} : desk'[e] = desk[e]
           /\ \/ desk'[d] = Free
              \/ /\ desk'[d].at = "resolved"
                 /\ desk'[d].id = desk[d].id /\ desk'[d].mark = desk[d].mark
BY DEF Resolves, ThreadTypeOK

(* A delivery that is cut takes its trace with it. *)
LEMMA CutTraces ==
    ASSUME ThreadTypeOK, NEW i \in Incoming, Cut(i)
    PROVE  Traces' \subseteq Traces
<1> USE DEF Cut
<1>1. \A j \in Incoming : j # i => underway'[j] = underway[j] BY DEF ThreadTypeOK
<1>2. underway'[i] = 0 BY DEF ThreadTypeOK
<1>3. Coming' \subseteq Coming /\ i \notin Coming' BY <1>1, <1>2 DEF Coming, Filed
<1>4. \A j \in Coming' : underway'[j] = underway[j] BY <1>1, <1>3 DEF Coming
<1>5. Replying' = Replying BY DEF Replying
<1> QED BY <1>3, <1>4, <1>5 DEF Traces

(* No other step leaves a trace. *)
LEMMA QuietTraces ==
    ASSUME ThreadInv,
           \/ \E i \in Incoming : Cut(i)
           \/ \E i \in Incoming, dir \in {"in", "out"} : Files(i, dir)
           \/ \E d \in Desks : Serve(d)
           \/ \E d \in Desks, c \in Columns, on \in BOOLEAN : Asks(d, c, on)
           \/ \E did : SetsDefault(did) \/ Provisions(did)
           \/ UNCHANGED threadVars
    PROVE  Traces' \subseteq Traces /\ (now' = now \/ now' = now + 1)
<1> ThreadTypeOK BY DEF ThreadInv
<1>1. ASSUME NEW i \in Incoming, Cut(i) PROVE Traces' \subseteq Traces /\ now' = now
  BY <1>1, CutTraces DEF Cut
<1>2. ASSUME NEW i \in Incoming, NEW dir \in {"in", "out"}, Files(i, dir)
      PROVE  Traces' \subseteq Traces /\ now' = now
  BY <1>2, FilingTraces DEF Files
<1>3. ASSUME NEW d \in Desks, Upserts(d) \/ Refuses(d)
      PROVE  Traces' \subseteq Traces /\ now' = now
  <2>1. desk'[d] = Free /\ \A e \in Desks \ {d} : desk'[e] = desk[e]
    BY <1>3 DEF Upserts, Refuses, ThreadTypeOK
  <2> QED BY <1>3, <2>1, DeskTraces DEF Upserts, Refuses, Free
<1>4. ASSUME NEW d \in Desks, Resolves(d) PROVE Traces' \subseteq Traces /\ now' = now
  <2>1. UNCHANGED <<log, underway, now>> BY <1>4 DEF Resolves
  <2> QED BY <1>4, <2>1, ResolvedDesk, DeskTraces DEF Free
<1>5. ASSUME NEW d \in Desks, SendsOut(d) PROVE Traces' \subseteq Traces /\ now' = now
  BY <1>5, SendingTraces DEF SendsOut
<1>6. ASSUME NEW d \in Desks, NEW c \in Columns, NEW on \in BOOLEAN, Asks(d, c, on)
      PROVE  Traces' \subseteq Traces /\ now' = now + 1
  <2>1. desk'[d].at = "asked" /\ \A e \in Desks \ {d} : desk'[e] = desk[e]
    BY <1>6 DEF Asks, ThreadTypeOK
  <2> QED BY <1>6, <2>1, DeskTraces DEF Asks, Stamped
<1>7. ASSUME NEW did, SetsDefault(did) \/ Provisions(did)
      PROVE  Traces' \subseteq Traces /\ now' = now
  BY <1>7 DEF SetsDefault, Provisions, Traces, Coming, Replying, Filed
<1>8. CASE UNCHANGED threadVars
  BY <1>8 DEF threadVars, Traces, Coming, Replying, Filed
<1> QED BY <1>1, <1>2, <1>3, <1>4, <1>5, <1>6, <1>7, <1>8 DEF Serve

StirsNothing ==
    \/ \E i \in Incoming : Cut(i)
    \/ \E i \in Incoming, dir \in {"in", "out"} : Files(i, dir)
    \/ \E d \in Desks : Serve(d)
    \/ \E d \in Desks, c \in Columns, on \in BOOLEAN : Asks(d, c, on)
    \/ \E did : SetsDefault(did) \/ Provisions(did)
    \/ UNCHANGED threadVars

(* These are the steps. *)
LEMMA ThreadStepIs ==
    ASSUME [ThreadNext]_threadVars
    PROVE  \/ StirsNothing
           \/ \E i \in Incoming : Arrives(i)
           \/ \E d \in Desks, id \in Replies : \E named : Begins(d, id, named)
BY DEF ThreadNext, StirsNothing

(* Every step keeps the stamps apart. *)
LEMMA StampsStay ==
    ASSUME ThreadInv, [ThreadNext]_threadVars
    PROVE  OneStamp'
<1> ThreadTypeOK /\ OneStamp /\ now \in Nat BY DEF ThreadInv, ThreadTypeOK
<1>1. CASE StirsNothing
  <2>1. Traces' \subseteq Traces /\ (now' = now \/ now' = now + 1)
    BY <1>1, QuietTraces DEF StirsNothing
  <2> QED BY <2>1, StampsFewer
<1>2. ASSUME NEW i \in Incoming, Arrives(i) PROVE OneStamp'
  <2>1. now' = now + 1 BY <1>2 DEF Arrives, Stamped
  <2>2. CASE Filed(i) BY <1>2, <2>1, <2>2, ArrivalTraces, StampsFewer
  <2>3. CASE ~Filed(i) BY <1>2, <2>1, <2>3, ArrivalTraces, StampsMore
  <2> QED BY <2>2, <2>3
<1>3. ASSUME NEW d \in Desks, NEW id \in Replies, NEW named, Begins(d, id, named)
      PROVE  OneStamp'
  <2>1. now' = now + 1 BY <1>3 DEF Begins, Stamped
  <2> QED BY <1>3, <2>1, ReplyTraces, StampsMore
<1> QED BY <1>1, <1>2, <1>3, ThreadStepIs

(* What is parted stays parted when nothing begins, and when something does. *)
LEMMA PartsFewer ==
    ASSUME NEW mark, NEW over, Parted(mark, over), Traces' \subseteq Traces
    PROVE  \A p \in Traces' : p.at > mark <=> p.id \notin over
BY DEF Parted

(* What begins after an act is beyond its stamp. *)
LEMMA PartsMore ==
    ASSUME ThreadTypeOK, NEW mark \in Nat, NEW over, Parted(mark, over), mark =< now, NEW x,
           Traces' \subseteq Traces \cup {Trace(x, now + 1)},
           \A p \in Traces : p.id # x
    PROVE  \A p \in Traces' : p.at > mark <=> p.id \notin over \ {x}
<1> SUFFICES ASSUME NEW p \in Traces' PROVE p.at > mark <=> p.id \notin over \ {x} OBVIOUS
<1>1. CASE p \in Traces BY <1>1 DEF Parted
<1>2. CASE p \notin Traces
  <2>1. p.id = x /\ p.at = now + 1 BY <1>2 DEF Trace
  <2> QED BY <2>1 DEF ThreadTypeOK
<1> QED BY <1>1, <1>2

(* The stamp of a new act is beyond all that has begun. *)
LEMMA PartsNew ==
    ASSUME ThreadTypeOK, OneStamp, Traces' \subseteq Traces
    PROVE  \A p \in Traces' : p.at > now + 1 <=> p.id \notin Begun
<1> SUFFICES ASSUME NEW p \in Traces PROVE p.at > now + 1 <=> p.id \notin Begun OBVIOUS
<1>1. p.at \in Nat /\ p.at =< now /\ now \in Nat BY TracesAre DEF OneStamp, ThreadTypeOK
<1>2. p.id \in Begun BY TracesBegun
<1> QED BY <1>1, <1>2

(* Every step keeps the acts that are done where they were in time. *)
LEMMA ActsStay ==
    ASSUME ThreadInv, [ThreadNext]_threadVars
    PROVE  ActsPart'
<1> ThreadTypeOK /\ now \in Nat /\ ActsPart /\ AsksPart
  BY DEF ThreadInv, ThreadTypeOK
<1>1. ASSUME StirsNothing, UNCHANGED <<thread, done>> PROVE ActsPart'
  <2>1. Traces' \subseteq Traces /\ (now' = now \/ now' = now + 1)
    BY <1>1, QuietTraces DEF StirsNothing
  <2>2. ASSUME NEW c \in Columns
        PROVE  /\ thread'[c] =< now'
               /\ done'[c].on <=> thread'[c] > 0
               /\ done'[c].on => \A p \in Traces' : p.at > thread'[c] <=> p.id \notin done'[c].over
    <3>1. thread[c] \in Nat /\ thread[c] =< now BY DEF ThreadTypeOK, ActsPart
    <3>2. thread'[c] =< now' BY <1>1, <2>1, <3>1
    <3>3. done[c].on => Parted(thread[c], done[c].over) BY DEF ActsPart
    <3>4. done[c].on <=> thread[c] > 0 BY DEF ActsPart
    <3> QED BY <1>1, <2>1, <3>2, <3>3, <3>4, PartsFewer
  <2> QED BY <2>2 DEF ActsPart, Parted
<1>2. ASSUME NEW x, now' = now + 1, Traces' \subseteq Traces \cup {Trace(x, now + 1)},
             \A p \in Traces : p.id # x, BeginsNow(x), UNCHANGED thread
      PROVE  ActsPart'
  <2>1. ASSUME NEW c \in Columns
        PROVE  /\ thread'[c] =< now'
               /\ done'[c].on <=> thread'[c] > 0
               /\ done'[c].on => \A p \in Traces' : p.at > thread'[c] <=> p.id \notin done'[c].over
    <3>1. thread[c] \in Nat /\ thread[c] =< now BY DEF ThreadTypeOK, ActsPart
    <3>2. thread'[c] =< now' BY <1>2, <3>1
    <3>3. done'[c].on = done[c].on /\ done'[c].over = done[c].over \ {x} BY <1>2, DoneOK
    <3>4. done[c].on => Parted(thread[c], done[c].over) BY DEF ActsPart
    <3>5. done[c].on <=> thread[c] > 0 BY DEF ActsPart
    <3>6. done[c].on =>
            \A p \in Traces' : p.at > thread[c] <=> p.id \notin done[c].over \ {x}
      BY <1>2, <3>1, <3>4, PartsMore
    <3> QED BY <1>2, <3>2, <3>3, <3>5, <3>6
  <2> QED BY <2>1 DEF ActsPart, Parted
<1>3. ASSUME NEW i \in Incoming, Arrives(i) PROVE ActsPart'
  <2>1. now' = now + 1 /\ UNCHANGED thread BY <1>3 DEF Arrives, Stamped
  <2>2. CASE Filed(i)
    <3>1. Traces' \subseteq Traces /\ UNCHANGED done BY <1>3, <2>2, ArrivalTraces DEF Arrives
    <3>2. \A c \in Columns : thread[c] \in Nat /\ thread[c] =< now' BY <2>1 DEF ThreadTypeOK, ActsPart
    <3>3. \A c \in Columns : done[c].on =>
             \A p \in Traces' : p.at > thread[c] <=> p.id \notin done[c].over
      BY <3>1, PartsFewer DEF ActsPart
    <3> QED BY <2>1, <3>1, <3>2, <3>3 DEF ActsPart, Parted
  <2>3. CASE ~Filed(i)
    <3>1. BeginsNow(i) BY <1>3, <2>3 DEF Arrives
    <3> QED BY <1>2, <1>3, <2>1, <2>3, <3>1, ArrivalTraces
  <2> QED BY <2>2, <2>3
<1>4. ASSUME NEW d \in Desks, NEW id \in Replies, NEW named, Begins(d, id, named)
      PROVE  ActsPart'
  <2>1. now' = now + 1 /\ UNCHANGED thread /\ BeginsNow(id) BY <1>4 DEF Begins, Stamped
  <2> QED BY <1>2, <1>4, <2>1, ReplyTraces
<1>5. ASSUME NEW d \in Desks, Upserts(d) PROVE ActsPart'
  <2>1. StirsNothing BY <1>5 DEF StirsNothing, Serve
  <2>2. Traces' \subseteq Traces BY <2>1, QuietTraces DEF StirsNothing
  <2>3. desk[d] \in AskedRecords /\ desk[d].at = "asked" /\ now' = now
    BY <1>5 DEF Upserts, ThreadTypeOK, DeskOK, Free
  <2> DEFINE col  == desk[d].col
             mark == desk[d].mark
             over == desk[d].over
  <2>4. col \in Columns /\ mark \in Nat BY <2>3 DEF AskedRecords
  <2>5. thread' = [thread EXCEPT ![col] = mark] BY <1>5 DEF Upserts, Upserted
  <2>6. done' = [done EXCEPT ![col] = [on |-> mark > 0, over |-> over]] BY <1>5 DEF Upserts
  <2>7. mark =< now /\ (mark > 0 => Parted(mark, over)) BY <2>3 DEF AsksPart
  <2> HIDE DEF col, mark, over
  <2>8. ASSUME NEW c \in Columns
        PROVE  /\ thread'[c] =< now'
               /\ done'[c].on <=> thread'[c] > 0
               /\ done'[c].on => \A p \in Traces' : p.at > thread'[c] <=> p.id \notin done'[c].over
    <3>1. CASE c = col
      <4>1. thread'[c] = mark /\ done'[c].on = (mark > 0) /\ done'[c].over = over
        BY <2>5, <2>6, <3>1 DEF ThreadTypeOK
      <4> QED BY <2>2, <2>3, <2>4, <2>7, <4>1, PartsFewer
    <3>2. CASE c # col
      <4>1. thread'[c] = thread[c] /\ done'[c] = done[c]
        BY <2>5, <2>6, <3>2 DEF ThreadTypeOK
      <4>2. done[c].on => Parted(thread[c], done[c].over) BY DEF ActsPart
      <4>3. done[c].on =>
               \A p \in Traces' : p.at > thread[c] <=> p.id \notin done[c].over
        BY <2>2, <4>2, PartsFewer
      <4> QED BY <2>3, <4>1, <4>3 DEF ActsPart
    <3> QED BY <3>1, <3>2
  <2> QED BY <2>8 DEF ActsPart, Parted
<1>6. ASSUME NEW i \in Incoming, Cut(i) PROVE ActsPart'
  BY <1>1, <1>6 DEF Cut, StirsNothing
<1>7. ASSUME NEW i \in Incoming, NEW dir \in {"in", "out"}, Files(i, dir) PROVE ActsPart'
  BY <1>1, <1>7 DEF Files, StirsNothing
<1>8. ASSUME NEW d \in Desks, Resolves(d) \/ SendsOut(d) \/ Refuses(d) PROVE ActsPart'
  <2>1. StirsNothing BY <1>8 DEF StirsNothing, Serve
  <2> QED BY <1>1, <1>8, <2>1 DEF Resolves, SendsOut, Refuses
<1>9. ASSUME NEW d \in Desks, NEW c \in Columns, NEW on \in BOOLEAN, Asks(d, c, on)
      PROVE  ActsPart'
  BY <1>1, <1>9 DEF Asks, StirsNothing
<1>10. ASSUME NEW did, SetsDefault(did) \/ Provisions(did) PROVE ActsPart'
  <2>1. StirsNothing BY <1>10 DEF StirsNothing
  <2> QED BY <1>1, <1>10, <2>1 DEF SetsDefault, Provisions
<1>11. CASE UNCHANGED threadVars
  BY <1>1, <1>11 DEF StirsNothing, threadVars
<1> QED
  BY <1>3, <1>4, <1>5, <1>6, <1>7, <1>8, <1>9, <1>10, <1>11 DEF ThreadNext, Serve

(* And the ones that are asked for. *)
LEMMA AsksStay ==
    ASSUME ThreadInv, [ThreadNext]_threadVars
    PROVE  AsksPart'
<1> ThreadTypeOK /\ now \in Nat /\ ActsPart /\ AsksPart /\ OneStamp
  BY DEF ThreadInv, ThreadTypeOK
<1> DEFINE Right(x) ==
        x.at = "asked" =>
            /\ x.mark =< now'
            /\ x.mark > 0 => \A p \in Traces' : p.at > x.mark <=> p.id \notin x.over
<1>1. SUFFICES \A e \in Desks : Right(desk'[e])
  BY DEF AsksPart, Parted
<1>2. \A e \in Desks : desk[e].at = "asked" =>
          /\ desk[e].mark \in Nat /\ desk[e].mark =< now
          /\ desk[e].mark > 0 => Parted(desk[e].mark, desk[e].over)
  BY DEF AsksPart, ThreadTypeOK, DeskOK, Free, AskedRecords
<1>3. ASSUME Traces' \subseteq Traces, now' = now \/ now' = now + 1, NEW e \in Desks
      PROVE  Right(desk[e])
  BY <1>2, <1>3, PartsFewer
<1>4. ASSUME NEW x, now' = now + 1, Traces' \subseteq Traces \cup {Trace(x, now + 1)},
             \A p \in Traces : p.id # x, NEW e \in Desks
      PROVE  Right(Without(x, desk[e]))
  <2> DEFINE new == Without(x, desk[e])
  <2>1. DeskOK(desk[e]) BY DEF ThreadTypeOK
  <2>2. new.at = desk[e].at /\ (desk[e].at = "asked" =>
           new.mark = desk[e].mark /\ new.over = desk[e].over \ {x})
    BY <2>1, WithoutOK
  <2> HIDE DEF new
  <2>3. CASE desk[e].at = "asked" /\ desk[e].mark > 0
    <3>1. \A p \in Traces' : p.at > desk[e].mark <=> p.id \notin desk[e].over \ {x}
      BY <1>2, <1>4, <2>3, PartsMore
    <3>2. Right(new) BY <1>2, <1>4, <2>2, <2>3, <3>1
    <3> QED BY <3>2 DEF new
  <2>4. CASE desk[e].at # "asked" \/ ~(desk[e].mark > 0)
    <3>1. Right(new)
      <4>1. CASE desk[e].at # "asked" BY <2>2, <4>1
      <4>2. CASE desk[e].at = "asked" /\ ~(desk[e].mark > 0)
        <5>1. new.mark =< now' /\ ~(new.mark > 0) BY <1>2, <1>4, <2>2, <4>2
        <5> QED BY <5>1
      <4> QED BY <2>4, <4>1, <4>2
    <3> QED BY <3>1 DEF new
  <2> QED BY <2>3, <2>4
<1>5. ASSUME StirsNothing, NEW d \in Desks, Right(desk'[d]),
             \A e \in Desks \ {d} : desk'[e] = desk[e]
      PROVE  \A e \in Desks : Right(desk'[e])
  <2>1. Traces' \subseteq Traces /\ (now' = now \/ now' = now + 1)
    BY <1>5, QuietTraces DEF StirsNothing
  <2>2. \A e \in Desks \ {d} : Right(desk'[e]) BY <1>3, <1>5, <2>1
  <2> QED BY <1>5, <2>2
<1>6. ASSUME StirsNothing, UNCHANGED desk PROVE \A e \in Desks : Right(desk'[e])
  <2>1. Traces' \subseteq Traces /\ (now' = now \/ now' = now + 1)
    BY <1>6, QuietTraces DEF StirsNothing
  <2> QED BY <1>3, <1>6, <2>1
<1>7. ASSUME NEW i \in Incoming, Arrives(i) PROVE \A e \in Desks : Right(desk'[e])
  <2>1. now' = now + 1 BY <1>7 DEF Arrives, Stamped
  <2>2. CASE Filed(i)
    <3>1. Traces' \subseteq Traces /\ UNCHANGED desk BY <1>7, <2>2, ArrivalTraces DEF Arrives
    <3> QED BY <1>3, <2>1, <3>1
  <2>3. CASE ~Filed(i)
    <3>1. \A e \in Desks : desk'[e] = Without(i, desk[e]) BY <1>7, <2>3 DEF Arrives
    <3>2. Traces' \subseteq Traces \cup {Trace(i, now + 1)} /\ \A p \in Traces : p.id # i
      BY <1>7, <2>3, ArrivalTraces
    <3> QED BY <1>4, <2>1, <3>1, <3>2
  <2> QED BY <2>2, <2>3
<1>8. ASSUME NEW d \in Desks, NEW id \in Replies, NEW named, Begins(d, id, named)
      PROVE  \A e \in Desks : Right(desk'[e])
  <2>1. now' = now + 1 BY <1>8 DEF Begins, Stamped
  <2>2. Traces' \subseteq Traces \cup {Trace(id, now + 1)} /\ \A p \in Traces : p.id # id
    BY <1>8, ReplyTraces
  <2>3. \A e \in Desks \ {d} : desk'[e] = Without(id, desk[e]) BY <1>8 DEF Begins
  <2>4. desk'[d].at = "begun" BY <1>8 DEF Begins
  <2>5. \A e \in Desks \ {d} : Right(desk'[e]) BY <1>4, <2>1, <2>2, <2>3
  <2> QED BY <2>4, <2>5
<1>9. ASSUME NEW d \in Desks, NEW c \in Columns, NEW on \in BOOLEAN, Asks(d, c, on)
      PROVE  \A e \in Desks : Right(desk'[e])
  <2>1. StirsNothing BY <1>9 DEF StirsNothing
  <2>2. Traces' \subseteq Traces BY <2>1, QuietTraces DEF StirsNothing
  <2>3. now' = now + 1 BY <1>9 DEF Asks, Stamped
  <2>4. /\ desk'[d].at = "asked" /\ desk'[d].over = Begun
        /\ desk'[d].mark = IF on THEN now + 1 ELSE 0
        /\ \A e \in Desks \ {d} : desk'[e] = desk[e]
    BY <1>9, <2>3 DEF Asks, ThreadTypeOK
  <2>5. \A p \in Traces' : p.at > now + 1 <=> p.id \notin Begun BY <2>2, PartsNew
  <2>6. Right(desk'[d])
    <3>1. CASE on
      <4>1. desk'[d].mark = now + 1 BY <2>4, <3>1
      <4> QED BY <2>3, <2>4, <2>5, <4>1
    <3>2. CASE ~on
      <4>1. desk'[d].mark = 0 BY <2>4, <3>2
      <4> QED BY <2>3, <4>1
    <3> QED BY <3>1, <3>2
  <2> QED BY <1>5, <2>1, <2>4, <2>6
<1>10. ASSUME NEW d \in Desks, Upserts(d) \/ SendsOut(d) \/ Refuses(d)
      PROVE  \A e \in Desks : Right(desk'[e])
  <2>1. StirsNothing BY <1>10 DEF StirsNothing, Serve
  <2>2. desk'[d].at = "idle" /\ \A e \in Desks \ {d} : desk'[e] = desk[e]
    BY <1>10 DEF Upserts, SendsOut, Refuses, ThreadTypeOK, Free
  <2> QED BY <1>5, <2>1, <2>2
<1>11. ASSUME NEW d \in Desks, Resolves(d) PROVE \A e \in Desks : Right(desk'[e])
  <2>1. StirsNothing BY <1>11 DEF StirsNothing, Serve
  <2>2. desk'[d].at # "asked" /\ \A e \in Desks \ {d} : desk'[e] = desk[e]
    BY <1>11, ResolvedDesk DEF Free
  <2> QED BY <1>5, <2>1, <2>2
<1>12. ASSUME NEW i \in Incoming, Cut(i) PROVE \A e \in Desks : Right(desk'[e])
  BY <1>6, <1>12 DEF Cut, StirsNothing
<1>13. ASSUME NEW i \in Incoming, NEW dir \in {"in", "out"}, Files(i, dir)
      PROVE  \A e \in Desks : Right(desk'[e])
  BY <1>6, <1>13 DEF Files, StirsNothing
<1>14. ASSUME NEW did, SetsDefault(did) \/ Provisions(did)
      PROVE  \A e \in Desks : Right(desk'[e])
  <2>1. StirsNothing BY <1>14 DEF StirsNothing
  <2> QED BY <1>6, <1>14, <2>1 DEF SetsDefault, Provisions
<1>15. CASE UNCHANGED threadVars
  BY <1>6, <1>15 DEF StirsNothing, threadVars
<1> HIDE DEF Right
<1> QED
  BY <1>7, <1>8, <1>9, <1>10, <1>11, <1>12, <1>13, <1>14, <1>15 DEF ThreadNext, Serve

(* Every step keeps a thing to one row. *)
LEMMA RowsStay ==
    ASSUME ThreadInv, [ThreadNext]_threadVars
    PROVE  OneRow'
<1> ThreadTypeOK /\ OneRow BY DEF ThreadInv
<1>1. ASSUME UNCHANGED log, \A e \in Replying' : e \in Replying /\ desk'[e].id = desk[e].id
      PROVE  OneRow'
  BY <1>1 DEF OneRow, Filed
<1>2. ASSUME NEW i \in Incoming, Arrives(i) PROVE OneRow'
  <2>1. UNCHANGED log BY <1>2 DEF Arrives
  <2>2. \A e \in Desks : desk[e].at # "asked" => desk'[e] = desk[e]
    BY <1>2, WithoutOK DEF Arrives, ThreadTypeOK
  <2>3. \A e \in Desks : desk[e].at = "asked" => desk'[e].at = "asked"
    BY <1>2, WithoutOK DEF Arrives, ThreadTypeOK
  <2> QED BY <1>1, <2>1, <2>2, <2>3 DEF Replying
<1>3. ASSUME NEW i \in Incoming, Cut(i) PROVE OneRow'
  BY <1>1, <1>3 DEF Cut, Replying
<1>4. ASSUME NEW i \in Incoming, NEW dir \in {"in", "out"}, Files(i, dir) PROVE OneRow'
  <2> USE <1>4 DEF Files
  <2>1. \A row \in log' : row \in log \/ row.id = i BY DEF FiledOnce
  <2>2. \A row, other \in log' : row.id = other.id => row = other
    <3>1. CASE Filed(i) BY <3>1 DEF FiledOnce, OneRow
    <3>2. CASE ~Filed(i) BY <3>2 DEF FiledOnce, OneRow, Filed
    <3> QED BY <3>1, <3>2
  <2>3. Replying' = Replying BY DEF Replying
  <2>4. \A d \in Replying : desk[d].id \in Replies
    BY DEF Replying, ThreadTypeOK, DeskOK, Free, AskedRecords
  <2>5. \A d \in Replying : desk[d].id # i BY <2>4, ThingsAreToldApart DEF Incoming
  <2>6. \A d \in Replying : ~\E row \in log' : row.id = desk[d].id
    BY <2>1, <2>5 DEF OneRow, Filed
  <2> QED BY <2>2, <2>3, <2>6 DEF OneRow, Filed
<1>5. ASSUME NEW d \in Desks, NEW c \in Columns, NEW on \in BOOLEAN, Asks(d, c, on)
      PROVE  OneRow'
  <2>1. desk'[d].at = "asked" /\ UNCHANGED log /\ \A e \in Desks \ {d} : desk'[e] = desk[e]
    BY <1>5 DEF Asks, ThreadTypeOK
  <2> QED BY <1>1, <2>1 DEF Replying
<1>6. ASSUME NEW d \in Desks, Upserts(d) \/ Refuses(d) PROVE OneRow'
  <2>1. desk'[d].at = "idle" /\ UNCHANGED log /\ \A e \in Desks \ {d} : desk'[e] = desk[e]
    BY <1>6 DEF Upserts, Refuses, ThreadTypeOK, Free
  <2> QED BY <1>1, <2>1 DEF Replying
<1>7. ASSUME NEW d \in Desks, NEW id \in Replies, NEW named, Begins(d, id, named)
      PROVE  OneRow'
  <2>1. UNCHANGED log /\ id \notin Begun BY <1>7 DEF Begins
  <2>2. \A e \in Desks \ {d} : desk[e].at # "asked" => desk'[e] = desk[e]
    BY <1>7, WithoutOK DEF Begins, ThreadTypeOK
  <2>3. \A e \in Desks \ {d} : desk[e].at = "asked" => desk'[e].at = "asked"
    BY <1>7, WithoutOK DEF Begins, ThreadTypeOK
  <2>4. \A e \in Replying' \ {d} : e \in Replying /\ desk'[e] = desk[e]
    BY <2>2, <2>3 DEF Replying
  <2>5. desk'[d].id = id BY <1>7 DEF Begins
  <2>6. ~Filed(id) BY <2>1 DEF Begun, Filed
  <2>7. \A e \in Replying : desk[e].id # id BY <2>1 DEF Begun, Replying
  <2> QED BY <2>1, <2>4, <2>5, <2>6, <2>7 DEF OneRow, Filed
<1>8. ASSUME NEW d \in Desks, Resolves(d) PROVE OneRow'
  <2>1. UNCHANGED log BY <1>8 DEF Resolves
  <2> QED BY <1>1, <1>8, <2>1, ResolvedDesk DEF Replying, Free
<1>9. ASSUME NEW d \in Desks, SendsOut(d) PROVE OneRow'
  <2> USE <1>9 DEF SendsOut
  <2>1. desk[d].at = "resolved" /\ d \in Replying BY DEF Replying
  <2>2. ~Filed(desk[d].id) BY <2>1 DEF OneRow
  <2>3. \A row, other \in log' : row.id = other.id => row = other
    BY <2>2 DEF OneRow, Filed
  <2>4. desk'[d].at = "idle" /\ \A e \in Desks \ {d} : desk'[e] = desk[e]
    BY DEF ThreadTypeOK, Free
  <2>5. \A e \in Replying' : e \in Replying /\ e # d /\ desk'[e] = desk[e]
    BY <2>4 DEF Replying
  <2>6. \A e \in Replying' : ~\E row \in log' : row.id = desk'[e].id
    BY <2>1, <2>5 DEF OneRow, Filed
  <2> QED BY <2>3, <2>5, <2>6 DEF OneRow, Filed
<1>10. ASSUME NEW did, SetsDefault(did) \/ Provisions(did) PROVE OneRow'
  BY <1>1, <1>10 DEF SetsDefault, Provisions, Replying
<1>11. CASE UNCHANGED threadVars
  BY <1>1, <1>11 DEF threadVars, Replying
<1> QED
  BY <1>2, <1>3, <1>4, <1>5, <1>6, <1>7, <1>8, <1>9, <1>10, <1>11 DEF ThreadNext, Serve

(* Every step leaves a newest row, of all and of each kind. *)
LEMMA NewestStays ==
    ASSUME ThreadInv, [ThreadNext]_threadVars
    PROVE  NewestThere'
<1> ThreadTypeOK /\ NewestThere BY DEF ThreadInv
<1>1. ASSUME UNCHANGED log PROVE NewestThere'
  BY <1>1 DEF NewestThere, HasNewest, LastOf
<1>2. ASSUME NEW new, new.at \in Nat, log' = log \cup {new} PROVE NewestThere'
  <2>1. \A row \in log : row.at \in Nat BY DEF ThreadTypeOK, RowOK
  <2>2. HasNewest(log \cup {new}) BY <1>2, <2>1, AddsNewest DEF NewestThere
  <2>3. ASSUME NEW kind, HasNewest(LastOf(kind)) PROVE HasNewest({row \in log' : row.kind = kind})
    <3>1. CASE new.kind = kind
      <4>1. {row \in log' : row.kind = kind} = LastOf(kind) \cup {new}
        BY <1>2, <3>1 DEF LastOf
      <4>2. HasNewest(LastOf(kind) \cup {new})
        BY <1>2, <2>1, <2>3, AddsNewest DEF LastOf
      <4> QED BY <4>1, <4>2
    <3>2. CASE new.kind # kind
      <4>1. {row \in log' : row.kind = kind} = LastOf(kind) BY <1>2, <3>2 DEF LastOf
      <4> QED BY <2>3, <4>1
    <3> QED BY <3>1, <3>2
  <2>4. HasNewest({row \in log' : row.kind = "message"}) /\ HasNewest({row \in log' : row.kind = "call"})
    BY <2>3 DEF NewestThere
  <2> QED BY <1>2, <2>2, <2>4 DEF NewestThere, HasNewest, LastOf
<1>3. ASSUME NEW i \in Incoming, NEW dir \in {"in", "out"}, Files(i, dir) PROVE NewestThere'
  <2> DEFINE new == [id |-> i, kind |-> IF i \in Texts THEN "message" ELSE "call",
                     dir |-> dir, did |-> Through[i], at |-> underway[i]]
  <2>1. new.at \in Nat BY DEF ThreadTypeOK
  <2>2. log' = log \/ log' = log \cup {new} BY <1>3 DEF Files, FiledOnce
  <2> QED BY <1>1, <1>2, <2>1, <2>2
<1>4. ASSUME NEW d \in Desks, SendsOut(d) PROVE NewestThere'
  <2> DEFINE new == [id |-> desk[d].id, kind |-> "message", dir |-> "out",
                     did |-> desk[d].did, at |-> desk[d].mark, shown |-> desk[d].shown]
  <2>1. new.at \in Nat
    BY <1>4 DEF SendsOut, ThreadTypeOK, DeskOK, Free, AskedRecords
  <2>2. log' = log \cup {new} BY <1>4 DEF SendsOut
  <2> QED BY <1>2, <2>1, <2>2
<1>5. ASSUME NEW d \in Desks, Upserts(d) \/ Resolves(d) \/ Refuses(d) PROVE NewestThere'
  BY <1>1, <1>5 DEF Upserts, Resolves, Refuses
<1> QED
  BY <1>1, <1>3, <1>4, <1>5
  DEF ThreadNext, Serve, Arrives, Cut, Asks, Begins, SetsDefault, Provisions, threadVars

(* For any texts, calls, replies, operators and cut deliveries: a stamp tells what
   had begun when an act was asked for from what began later, though rows are
   committed late and in any order, and no two things share a stamp or a row. *)
THEOREM ThreadInvariant == ThreadSpec => []ThreadInv
<1>1. ThreadInit => ThreadInv BY ThreadBegins
<1>2. ThreadInv /\ [ThreadNext]_threadVars => ThreadInv'
  BY ThreadTyped, StampsStay, RowsStay, ActsStay, AsksStay, NewestStays DEF ThreadInv
<1> QED BY <1>1, <1>2, PTL DEF ThreadSpec

(* The invariant tells what the list shows. *)
LEMMA TheThreadFollows == ThreadInv => ThreadIsTrue
<1> SUFFICES ASSUME ThreadInv PROVE ThreadIsTrue OBVIOUS
<1> ThreadTypeOK BY DEF ThreadInv
<1>1. ASSUME NEW c \in Columns, done[c].on, NEW row \in log
      PROVE  row.at > thread[c] <=> row.id \notin done[c].over
  <2>1. Parted(thread[c], done[c].over) BY <1>1 DEF ThreadInv, ActsPart
  <2>2. Trace(row.id, row.at) \in Traces BY RowTrace
  <2> QED BY <2>1, <2>2 DEF Parted, Trace
<1>2. \A c \in Columns : thread[c] \in Nat /\ (done[c].on <=> thread[c] > 0)
  BY DEF ThreadInv, ActsPart, ThreadTypeOK
<1>3. ASSUME NEW c \in Columns, NEW row \in log
      PROVE  (thread[c] = 0 \/ row.at > thread[c]) <=> row \in Since(c)
  BY <1>1, <1>2, <1>3 DEF Since
<1>4. UnreadRows = {row \in Since("read") : row.dir = "in"}
  <2>1. \A row \in log : (thread["read"] = 0 \/ row.at > thread["read"]) <=> row \in Since("read")
    BY <1>3 DEF Columns
  <2> QED BY <2>1 DEF UnreadRows, Unread, Newer, Since
<1>5. LastAt \in Nat /\ (log = {} => LastAt = 0)
      /\ (log # {} => LastAt \in Stamps /\ \A s \in Stamps : LastAt >= s)
  <2>1. CASE log = {} BY <2>1 DEF LastAt
  <2>2. CASE log # {}
    <3>1. PICK best \in log : \A other \in log : best.at >= other.at
      BY <2>2 DEF ThreadInv, NewestThere, HasNewest
    <3>2. \E s \in Stamps : \A other \in Stamps : s >= other BY <3>1 DEF Stamps
    <3>3. LastAt = Max(Stamps) BY <2>2 DEF LastAt
    <3>4. Max(Stamps) \in Stamps /\ \A s \in Stamps : Max(Stamps) >= s BY <3>2 DEF Max
    <3>5. Stamps \subseteq Nat BY DEF Stamps, ThreadTypeOK, RowOK
    <3> QED BY <2>2, <3>3, <3>4, <3>5
  <2> QED BY <2>1, <2>2
<1>6. ASSUME NEW c \in Columns, done[c].on
      PROVE  LastAt > thread[c] <=> Since(c) # {}
  <2>1. thread[c] \in Nat /\ thread[c] > 0 BY <1>2, <1>6
  <2>2. ASSUME LastAt > thread[c] PROVE Since(c) # {}
    <3>1. log # {} BY <1>5, <2>1, <2>2
    <3>2. PICK row \in log : row.at = LastAt BY <1>5, <3>1 DEF Stamps
    <3> QED BY <1>3, <2>2, <3>2
  <2>3. ASSUME Since(c) # {} PROVE LastAt > thread[c]
    <3>1. PICK row \in Since(c) : row \in log BY <2>3 DEF Since
    <3>2. row.at > thread[c] BY <1>3, <2>1, <3>1
    <3>3. LastAt >= row.at /\ row.at \in Nat
      BY <1>5, <3>1 DEF Stamps, ThreadTypeOK, RowOK
    <3> QED BY <1>5, <2>1, <3>2, <3>3
  <2> QED BY <2>2, <2>3
<1>7. OpenNow <=> (~done["closed"].on \/ Since("closed") # {})
  <2>1. "closed" \in Columns BY DEF Columns
  <2>2. thread["closed"] \in Nat /\ (done["closed"].on <=> thread["closed"] > 0) BY <1>2, <2>1
  <2>3. done["closed"].on => (LastAt > thread["closed"] <=> Since("closed") # {}) BY <1>6, <2>1
  <2> QED BY <2>2, <2>3 DEF OpenNow, Newer
<1>8. DeletedNow <=> (done["deleted"].on /\ Since("deleted") = {})
  <2>1. "deleted" \in Columns BY DEF Columns
  <2>2. thread["deleted"] \in Nat /\ (done["deleted"].on <=> thread["deleted"] > 0) BY <1>2, <2>1
  <2>3. done["deleted"].on => (LastAt > thread["deleted"] <=> Since("deleted") # {}) BY <1>6, <2>1
  <2> QED BY <2>2, <2>3 DEF DeletedNow, Newer
<1>9. BlockedNow <=> done["blocked"].on
  <2>1. "blocked" \in Columns BY DEF Columns
  <2> QED BY <1>2, <2>1 DEF BlockedNow
<1>10. LeavesAsShown BY DEF LeavesAsShown, ThreadTypeOK, RowOK
<1> QED BY <1>4, <1>7, <1>8, <1>9, <1>10 DEF ThreadIsTrue, ShownAsActed

(* A thread is unread, open, blocked or deleted exactly as the last act on it and
   what came since make it, and a reply leaves from the number it was shown to
   leave from: ThreadIsTrue. *)
THEOREM TheThreadIsTrue == ThreadSpec => []ThreadIsTrue
BY ThreadInvariant, TheThreadFollows, PTL
=============================================================================
