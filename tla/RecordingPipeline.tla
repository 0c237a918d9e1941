-------------------------- MODULE RecordingPipeline -------------------------
(***************************************************************************)
(* The recording pipeline of workers/handlers.py                           *)
(*     recording_fetch -> transcribe -> analyze                            *)
(* executed by the single worker (QueueWorker), together with what feeds   *)
(* it (the recording webhook and the reconciler) and what deletes from it  *)
(* (the provider-side delete after a fetch, the retention sweep).          *)
(*                                                                         *)
(* A handler is split where its effects become durable: its own commits,   *)
(* the enqueue of the next stage, the end of the job.  The worker may die  *)
(* between any two of them.  Recs are the recordings of ONE call (a        *)
(* transferred call has several), so the transcript analyze reads, and the *)
(* analysis row, are single.                                               *)
(***************************************************************************)
EXTENDS QueueWorker

CONSTANTS
    Recs,          \* the recordings of one call
    DeleteRemote,  \* settings.DELETE_REMOTE_RECORDING
    MaxPolls       \* bound: reconciler polls explored, per recording

ASSUME PipelineAssumption == DeleteRemote \in BOOLEAN /\ MaxPolls \in Nat

VARIABLES
    work,           \* job.type and the recording in job.payload
    stored,         \* recordings.storage_path IS NOT NULL
    file,           \* the audio is on the local disk
    remote,         \* the provider still holds the audio
    transcribed,    \* recordings.transcribed
    text,           \* text of the call's latest transcription
    analysed,       \* the call_analysis row exists
    hook, polls,    \* the recording webhook's progress; polls so far
    fresh           \* this fetch downloaded the audio itself

audioVars == <<stored, file, remote>>
textVars  == <<transcribed, text, analysed>>
feedVars  == <<hook, polls>>
vars == <<workerVars, work, audioVars, textVars, feedVars, fresh>>

Stages == {"fetch", "transcribe", "analyze"}
NoWork == [stage |-> "none", rec |-> "none"]

Init ==
    /\ WorkerInit
    /\ work        = [j \in Jobs |-> NoWork]
    /\ stored      = [r \in Recs |-> FALSE]
    /\ file        = [r \in Recs |-> FALSE]
    /\ remote      = [r \in Recs |-> TRUE]
    /\ transcribed = [r \in Recs |-> FALSE]
    /\ text        = "none"
    /\ analysed    = FALSE
    /\ hook        = [r \in Recs |-> "waiting"]
    /\ polls       = [r \in Recs |-> 0]
    /\ fresh = FALSE

Rec == work[cur].rec

\* `rec.storage_path and os.path.exists(rec.storage_path)`
Held(r) == stored[r] /\ file[r]

\* The id of the next jobs row (which one is immaterial), and its payload.
Unused == {j \in Jobs : phase[j] = "absent"}
NewId == CHOOSE j \in Unused : TRUE
NewRow(stage, r) ==
    /\ Unused # {}
    /\ work' = [work EXCEPT ![NewId] = [stage |-> stage, rec |-> r]]

-----------------------------------------------------------------------------
(* The feeds: app processes and the scheduler, in sessions of their own. *)

FetchJob(r) == NewRow("fetch", r) /\ Submit(NewId)

(* webhooks/common.py recording: ingest commits the row, then the fetch is
   enqueued.  The process may die in between. *)
WebhookIngest(r) ==
    /\ hook[r] = "waiting"
    /\ hook' = [hook EXCEPT ![r] = "ingested"]
    /\ UNCHANGED <<workerVars, work, audioVars, textVars, polls, fresh>>

WebhookEnqueue(r) ==
    /\ hook[r] = "ingested"
    /\ hook' = [hook EXCEPT ![r] = "enqueued"]
    /\ FetchJob(r)
    /\ UNCHANGED <<audioVars, textVars, polls, fresh>>

WebhookDies(r) ==
    /\ hook[r] = "ingested"
    /\ hook' = [hook EXCEPT ![r] = "lost"]
    /\ UNCHANGED <<workerVars, work, audioVars, textVars, polls, fresh>>

(* reconciler.py: the provider lists a recording; enqueue a fetch unless the
   audio is already held. *)
Reconcile(r) ==
    /\ polls[r] < MaxPolls
    /\ remote[r] /\ ~stored[r]
    /\ polls' = [polls EXCEPT ![r] = @ + 1]
    /\ FetchJob(r)
    /\ UNCHANGED <<audioVars, textVars, hook, fresh>>

(* worker.py retention_sweep: remove the file, null the path.  (Whether the
   retention window has passed is left open.)  It runs in the worker's
   process, which may die after os.remove and before the commit. *)
DueAny(r) == stored[r]                             \* mutant of Due: gate dropped

Due(r) == transcribed[r] /\ stored[r]

Sweep(r) ==
    /\ at # "down" /\ Due(r)
    /\ file'   = [file EXCEPT ![r] = FALSE]
    /\ stored' = [stored EXCEPT ![r] = FALSE]
    /\ UNCHANGED <<workerVars, work, remote, textVars, feedVars, fresh>>

SweepDies(r) ==
    /\ Due(r) /\ Died
    /\ file' = [file EXCEPT ![r] = FALSE]
    /\ UNCHANGED <<work, stored, remote, textVars, feedVars, fresh>>

-----------------------------------------------------------------------------
(* The worker. *)

Claim(j) ==
    /\ ClaimFor(j, work[j].stage)
    /\ fresh' = FALSE
    /\ UNCHANGED <<work, audioVars, textVars, feedVars>>

Commit == CommitWith({}) /\ UNCHANGED work

(* queue.enqueue on the handler's session. *)
HandOver(stage) == NewRow(stage, Rec) /\ CommitWith({NewId})

Finish ==
    /\ at = "finish" /\ Completed
    /\ UNCHANGED <<work, audioVars, textVars, feedVars, fresh>>

Raise == Failed /\ UNCHANGED <<work, audioVars, textVars, feedVars, fresh>>

(* handle_recording_fetch *)
FetchHeld ==
    /\ at = "fetch" /\ Held(Rec)
    /\ Advance("stored")
    /\ UNCHANGED <<tableVars, work, audioVars, textVars, feedVars, fresh>>

FetchDownload ==
    /\ at = "fetch" /\ ~Held(Rec) /\ remote[Rec]
    /\ file'   = [file EXCEPT ![Rec] = TRUE]
    /\ stored' = [stored EXCEPT ![Rec] = TRUE]
    /\ Commit /\ Advance("stored") /\ fresh' = TRUE
    /\ UNCHANGED <<remote, textVars, feedVars>>

FetchFails == at = "fetch" /\ ~Held(Rec) /\ Raise

(* The provider's copy is deleted, best effort, once ours is committed. *)
FetchDeletesRemote ==
    /\ at = "stored" /\ fresh /\ DeleteRemote
    /\ remote' = [remote EXCEPT ![Rec] = FALSE]
    /\ fresh' = FALSE
    /\ UNCHANGED <<workerVars, work, stored, file, textVars, feedVars>>

FetchHandsOver ==
    /\ at = "stored"
    /\ IF transcribed[Rec] THEN UNCHANGED <<tableVars, work>> ELSE HandOver("transcribe")
    /\ Advance("finish")
    /\ UNCHANGED <<audioVars, textVars, feedVars, fresh>>

(* handle_transcribe *)
TranscribeFails == at = "transcribe" /\ Raise      \* audio missing, or the engine raised

TranscribedUnflagged(t) ==                         \* mutant of Transcribed: flag forgotten
    /\ at = "transcribe" /\ Held(Rec)
    /\ text' = t
    /\ Commit
    /\ UNCHANGED <<audioVars, transcribed, analysed, feedVars, fresh>>

Transcribed(t) ==
    /\ at = "transcribe" /\ Held(Rec)
    /\ text' = t
    /\ transcribed' = [transcribed EXCEPT ![Rec] = TRUE]
    /\ Commit
    /\ UNCHANGED <<audioVars, analysed, feedVars, fresh>>

TranscribeShort == Transcribed("empty") /\ Advance("finish")
TranscribeStore == \E t \in {"empty", "speech"} : Transcribed(t) /\ Advance("transcribed")

TranscribeHandsOver ==
    /\ at = "transcribed"
    /\ HandOver("analyze") /\ Advance("finish")
    /\ UNCHANGED <<audioVars, textVars, feedVars, fresh>>

(* handle_analyze *)
AnalyzeFails == at = "analyze" /\ Raise            \* no transcript, or the engine raised

AnalyzeStore ==
    /\ at = "analyze" /\ text = "speech"           \* `if not text: raise`
    /\ analysed' = TRUE
    /\ Commit /\ Advance("finish")
    /\ UNCHANGED <<audioVars, transcribed, text, feedVars, fresh>>

Crash   == Died /\ UNCHANGED <<work, audioVars, textVars, feedVars, fresh>>
Restart == Restarted /\ UNCHANGED <<work, audioVars, textVars, feedVars, fresh>>

Stage == \/ FetchHeld \/ FetchDownload \/ FetchFails \/ FetchDeletesRemote \/ FetchHandsOver
         \/ TranscribeFails \/ TranscribeShort \/ TranscribeStore \/ TranscribeHandsOver
         \/ AnalyzeFails \/ AnalyzeStore \/ Finish

Next == \/ \E r \in Recs : \/ WebhookIngest(r) \/ WebhookEnqueue(r) \/ WebhookDies(r)
                           \/ Reconcile(r) \/ Sweep(r) \/ SweepDies(r)
        \/ \E j \in Jobs : Claim(j)
        \/ Stage \/ Crash \/ Restart

Spec == Init /\ [][Next]_vars

(* The worker keeps draining, its handlers' I/O times out, docker restarts it,
   and the reconciler polls every five minutes. *)
Fairness == /\ \A j \in Jobs : WF_vars(Claim(j))
            /\ WF_vars(Stage) /\ WF_vars(Restart)
            /\ \A r \in Recs : WF_vars(WebhookEnqueue(r)) /\ WF_vars(Reconcile(r))

FairSpec == Spec /\ Fairness

-----------------------------------------------------------------------------
TypeOK ==
    /\ WorkerTypeOK(Stages \union {"stored", "transcribed", "finish"})
    /\ work \in [Jobs -> [stage : Stages, rec : Recs] \union {NoWork}]
    /\ \A v \in {stored, file, remote, transcribed} : v \in [Recs -> BOOLEAN]
    /\ text \in {"none", "empty", "speech"} /\ {analysed, fresh} \subseteq BOOLEAN
    /\ hook \in [Recs -> {"waiting", "ingested", "enqueued", "lost"}]
    /\ polls \in [Recs -> 0..MaxPolls]

(* The audio is never lost before it is transcribed: not by the provider-side
   delete racing a crash, not by the retention sweep ("transcription gates
   deletion", worker.py). *)
AudioNotLost ==
    TypeOK /\ \A r \in Recs : transcribed[r] \/ remote[r] \/ Held(r)

(* A stage's job exists only behind the durable result of the stage before:
   whatever dies, and whoever deletes, it finds its input or the work is
   already done. *)
StagesInOrder ==
    \A j \in Jobs :
        phase[j] \in {"pending", "running"} =>
            /\ work[j].stage = "transcribe" => Held(work[j].rec) \/ transcribed[work[j].rec]
            /\ work[j].stage = "analyze" => transcribed[work[j].rec] /\ text # "none"

(* Both: at every moment, whoever dies, the audio or its transcript is there
   for the stage that is due. *)
InputIsKept == AudioNotLost /\ StagesInOrder

(* Without a crash every recording whose fetch was enqueued is transcribed, or
   a job of it was dead-lettered. *)
DeadLettered(r, stages) ==
    \E j \in Jobs : phase[j] = "failed" /\ work[j].rec = r /\ work[j].stage \in stages

Settled(r) == transcribed[r] \/ DeadLettered(r, {"fetch", "transcribe"})

EnqueuedIsSettled ==
    \A r \in Recs : hook[r] = "enqueued" ~> Settled(r) \/ crashes > 0

(* Without a crash a call with words in its transcript is analysed, or the
   analysis was dead-lettered -- also when a later transcription of the same call is
   empty and hides the words from analyze. *)
SpeechIsAnalysed ==
    text = "speech" ~> \/ analysed \/ crashes > 0
                        \/ \E r \in Recs : DeadLettered(r, {"analyze"})

(* Both: short of a worker's death no recording found is left half way. *)
RecordingsSettle == EnqueuedIsSettled /\ SpeechIsAnalysed
=============================================================================
