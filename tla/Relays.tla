------------------------------- MODULE Relays -------------------------------
(***************************************************************************)
(* The relays to GoHighLevel's inbound webhooks: every text that arrives,  *)
(* and every call that has ended, once its recording is analysed -- or has *)
(* been waited for long enough.  A webhook, the poll of the carriers and   *)
(* the scan of Asterisk's call records each enqueue the relay of a call    *)
(* they find ended and not relayed; the worker's handler posts it, and     *)
(* puts a call off by enqueueing the same job again.                       *)
(*                                                                         *)
(* The feeds read and enqueue in two transactions, the handler reads and   *)
(* posts without a lock: only the committed flag relayed_to_ghl keeps a    *)
(* subject from being posted again.  What is posted is what was read.      *)
(***************************************************************************)
EXTENDS QueueWorker, FiniteSetsExt

CONSTANTS
    Subjects,     \* calls and texts; Jobs = Subjects \X 1..n
    TextsIn,      \* those that are texts
    Nothing,      \* the feed has nothing in hand
    MaxFeeds,     \* bound: times a subject is announced or found by a scan
    MaxFaults     \* bound: posts refused, or answered too late

VARIABLES
    over,         \* subjects OWEN knows to have arrived or ended
    recorded, analysed,   \* calls with a recording row, and with an analysis
    late,         \* calls that ended GHL_CALL_RELAY_MAX_WAIT_SECONDS ago
    relayed,      \* subjects whose relayed_to_ghl is committed
    posts,        \* subject -> times GoHighLevel accepted it
    unheard,      \* subject -> accepted posts the flag does not tell of
    told,         \* subject -> what was known when it was posted last
    hand, feeds,  \* what the feed is about to enqueue, how often it found it
    faults

feedVars  == <<over, hand, feeds>>
callVars  == <<recorded, analysed, late>>
postVars  == <<posts, unheard, told, faults>>
relayVars == <<workerVars, feedVars, callVars, relayed, postVars>>

About(j) == j[1]
Spare(s) == {j \in Jobs : About(j) = s /\ phase[j] = "absent"}
Known(s) == [recording |-> s \in recorded, analysis |-> s \in analysed, late |-> s \in late]
Unposted == [recording |-> FALSE, analysis |-> FALSE, late |-> FALSE]

Fresh ==
    /\ WorkerInit
    /\ over = {} /\ recorded = {} /\ analysed = {} /\ late = {} /\ relayed = {}
    /\ posts = [s \in Subjects |-> 0] /\ unheard = posts
    /\ told = [s \in Subjects |-> Unposted]
    /\ hand = Nothing /\ faults = 0

(* One subject per behaviour (bound): the handlers share nothing but the worker. *)
RelayInit ==
    /\ Fresh
    /\ \E s \in Subjects : feeds = [t \in Subjects |-> IF t = s THEN 0 ELSE MaxFeeds]

-----------------------------------------------------------------------------
(* The feeds *)

Found(s) ==
    /\ hand = Nothing /\ feeds[s] < MaxFeeds
    /\ feeds' = [feeds EXCEPT ![s] = @ + 1]
    /\ UNCHANGED <<workerVars, callVars, relayed, postVars>>

(* A carrier's final status is ingested: the relay is for a call not relayed. *)
CallEnds(s) ==
    /\ s \notin TextsIn /\ Found(s)
    /\ over' = over \union {s}
    /\ hand' = IF s \in relayed THEN Nothing ELSE s

(* A text is delivered, or delivered again: enqueued whatever the flag says. *)
TextArrives(s) ==
    /\ s \in TextsIn /\ Found(s)
    /\ over' = over \union {s} /\ hand' = s

(* The poll and the scan of the call records find an ended call. *)
Scan(s) ==
    /\ s \in over \ (TextsIn \union relayed) /\ Found(s)
    /\ hand' = s /\ UNCHANGED over

(* Their second transaction. *)
Enqueue ==
    /\ hand # Nothing
    /\ \E j \in Spare(hand) : Submit(j)
    /\ hand' = Nothing
    /\ UNCHANGED <<over, feeds, callVars, relayed, postVars>>

(* The process dies in between, or no row is left (bound). *)
FeedDies ==
    /\ hand # Nothing
    /\ hand' = Nothing
    /\ UNCHANGED <<workerVars, over, feeds, callVars, relayed, postVars>>

-----------------------------------------------------------------------------
(* The recording pipeline, and time *)

Recorded(s) ==
    /\ s \in over \ (TextsIn \union recorded)
    /\ recorded' = recorded \union {s}
    /\ UNCHANGED <<workerVars, feedVars, analysed, late, relayed, postVars>>

Analysed(s) ==
    /\ s \in recorded \ analysed
    /\ analysed' = analysed \union {s}
    /\ UNCHANGED <<workerVars, feedVars, recorded, late, relayed, postVars>>

WaitIsUp(s) ==
    /\ s \in over \ (TextsIn \union late)
    /\ late' = late \union {s}
    /\ UNCHANGED <<workerVars, feedVars, recorded, analysed, relayed, postVars>>

-----------------------------------------------------------------------------
(* The handlers *)

ClaimRelay(j) ==
    /\ ClaimFor(j, "look")
    /\ UNCHANGED <<feedVars, callVars, relayed, postVars>>

Subject == About(cur)
RelayedNever == FALSE             \* mutant of AlreadyRelayed: the flag is not looked at
AlreadyRelayed == Subject \in relayed
Pending == Subject \in (recorded \ analysed) \ late

Skips ==
    /\ at = "look" /\ AlreadyRelayed
    /\ Completed /\ UNCHANGED <<feedVars, callVars, relayed, postVars>>

(* The analysis is still to come: the job is enqueued again, which commits. *)
DefersNothing == CommitWith({})   \* mutant of Deferral: the job is not enqueued again
Deferral == \E j \in Spare(Subject) : CommitWith({j})

PutsOff ==
    /\ at = "look" /\ ~AlreadyRelayed /\ Pending
    /\ Deferral /\ Advance("done")
    /\ UNCHANGED <<feedVars, callVars, relayed, postVars>>

Reads ==
    /\ at = "look" /\ ~AlreadyRelayed /\ ~Pending
    /\ told' = [told EXCEPT ![Subject] = Known(Subject)]
    /\ Advance("read")
    /\ UNCHANGED <<tableVars, feedVars, callVars, relayed, posts, unheard, faults>>

Accepted(n) ==
    /\ posts' = [posts EXCEPT ![Subject] = @ + 1]
    /\ unheard' = [unheard EXCEPT ![Subject] = @ + n]

Posts ==
    /\ at = "read" /\ Accepted(0) /\ Advance("posted")
    /\ UNCHANGED <<tableVars, feedVars, callVars, relayed, told, faults>>

(* GoHighLevel refuses, or its answer does not come: raised to the queue. *)
PostFails ==
    /\ at = "read" /\ faults < MaxFaults /\ faults' = faults + 1
    /\ Accepted(1) \/ UNCHANGED <<posts, unheard>>
    /\ Failed /\ UNCHANGED <<feedVars, callVars, relayed, told>>

Marks ==
    /\ at = "posted"
    /\ relayed' = relayed \union {Subject}
    /\ CommitWith({}) /\ Advance("done")
    /\ UNCHANGED <<feedVars, callVars, postVars>>

FinishRelay ==
    /\ at = "done" /\ Completed
    /\ UNCHANGED <<feedVars, callVars, relayed, postVars>>

RelayDies ==
    /\ Died
    /\ unheard' = IF at = "posted" THEN [unheard EXCEPT ![Subject] = @ + 1] ELSE unheard
    /\ UNCHANGED <<feedVars, callVars, relayed, posts, told, faults>>

RelayRestarts == Restarted /\ UNCHANGED <<feedVars, callVars, relayed, postVars>>

Handles == Skips \/ PutsOff \/ Reads \/ Posts \/ PostFails \/ Marks \/ FinishRelay

RelayNext ==
    \/ \E s \in Subjects : CallEnds(s) \/ TextArrives(s) \/ Scan(s)
                           \/ Recorded(s) \/ Analysed(s) \/ WaitIsUp(s)
    \/ Enqueue \/ FeedDies
    \/ (\E j \in Jobs : ClaimRelay(j)) \/ Handles
    \/ RelayDies \/ RelayRestarts

RelaySpec == RelayInit /\ [][RelayNext]_relayVars

(* A behaviour that follows something else. *)
Parked == Fresh /\ feeds = [s \in Subjects |-> MaxFeeds]

(* The worker polls, its handlers end, it is restarted, and time passes. *)
Works == (\E j \in Jobs : ClaimRelay(j)) \/ Handles \/ RelayRestarts

RelayFairness == WF_relayVars(Works) /\ \A s \in Subjects \ TextsIn : WF_relayVars(WaitIsUp(s))

-----------------------------------------------------------------------------
(* A subject is relayed once, however many feeds found it and however often
   its job was put off: it is posted again only after a post the flag does not
   tell of -- an answer that never came, a worker that died before its commit.
   And a call that had a recording is posted without an analysis only when the
   wait was over (handlers.py: "call_relay_ghl ... guards against re-sending"). *)
RelayedOnce ==
    \A s \in Subjects :
        /\ posts[s] =< unheard[s] + (IF s \in relayed \/ (at = "posted" /\ Subject = s)
                                     THEN 1 ELSE 0)
        /\ s \in relayed /\ told[s].recording => told[s].analysis \/ told[s].late

(* A relay whose job was stored is made, or given up by the queue: so it is in
   the end; putting it off never loses it.  (A worker's death may leave the job
   'running' for ever.) *)
Made ==
    \A s \in Subjects :
        (\E j \in Jobs : About(j) = s /\ phase[j] # "absent") =>
            \/ s \in relayed
            \/ \E j \in Jobs : About(j) = s /\ phase[j] = "failed"
            \/ crashes > 0
=============================================================================
