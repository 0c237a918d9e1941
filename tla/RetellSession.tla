--------------------------- MODULE RetellSession ---------------------------
(***************************************************************************)
(* A call whose conversation Retell holds.  The worker dials Retell,       *)
(* bridges the caller to it and waits (agents/retell.py); the app answers  *)
(* what the agent asks for during the call (integrations/retell/           *)
(* functions.py) and what Retell posts afterwards (webhook.py).  They      *)
(* share one row per session, retell_calls (registry.py), and a call has   *)
(* a second session when a transfer went unanswered (flows/runtime.py).    *)
(*                                                                         *)
(* Supervisors who seize the call are Takeover's subject.  Of the webhooks  *)
(* call_ended is followed: call_analyzed is claimed, retried and reported   *)
(* the same way and writes columns of its own; likewise capture_lead stands *)
(* for request_change, which merges into the row the same way.              *)
(***************************************************************************)
EXTENDS Naturals, Sequences, FiniteSets

CONSTANT
    MaxEvents   \* bound: function calls of the agent, and faults (statements that
                \* fail, a lost BYE, the death of a request), in one call

ASSUME EventsAreCounted == MaxEvents \in Nat

VARIABLES
    party,     \* the caller's channel
    leg,        \* Retell's channel here
    talk,       \* the conversation, as Retell has it
    calls,        \* retell_calls, a row for each session
    session,    \* which of the two sessions runs
    flow,       \* where the worker's task is
    port,       \* what the session ended with
    snap,       \* what finish() found noted in the row
    kept,       \* notes stored with the call, call_captures and the report's
    tool,       \* each function call
    post,       \* what Retell thinks of each of its webhooks
    hook,       \* the request that claimed each webhook
    script,     \* the call's Retell transcripts, each the sessions it holds
    done,       \* history: webhooks that were processed
    luck,       \* history: webhooks repeated while at work, notes that crossed, two
                \* transcripts at once, sessions whose leg could not be hung up:
                \* what excuses a loss
    failed

worker == <<session, flow, port, snap, kept>>
channels == <<party, leg, talk>>
webhooks == <<hook, script, done>>
retellVars == <<channels, calls, worker, tool, post, webhooks, luck, failed>>

Sessions == 1..2
Tools == 1..MaxEvents
Kinds == {"capture", "transfer", "end_call"}

NoCall == [status |-> "none", exit |-> "none", reason |-> FALSE, claimed |-> FALSE,
          captured |-> {}]
NoTool == [at |-> "idle", in |-> 1, kind |-> "end_call", saw |-> {}]
NoHook == [at |-> "idle", found |-> 0, saw |-> <<>>]

Mine == calls[session]
Bridged == flow \in {"talk", "grace"}

StartsAt(at) ==
    /\ party = "up" /\ leg = "none" /\ talk = "none"
    /\ calls = [s \in Sessions |-> NoCall]
    /\ session = 1 /\ flow = at /\ port = "none" /\ snap = {} /\ kept = {}
    /\ tool = [t \in Tools |-> NoTool]
    /\ post = [e \in Sessions |-> "none"] /\ hook = [e \in Sessions |-> NoHook]
    /\ script = <<>> /\ done = {} /\ failed = 0
    /\ luck = [raced |-> {}, notes |-> {}, crossed |-> FALSE, left |-> {}]

RetellInit == StartsAt("start")

Calls == {t \in Tools : tool[t].at # "idle"}
MoreEvents == Cardinality(Calls) + failed < MaxEvents

GoesWrong == MoreEvents /\ failed' = failed + 1
Fine == UNCHANGED failed

(* the conversation is over for Retell, which then has its event to post *)
Over == /\ talk' = IF talk = "on" THEN "over" ELSE talk
        /\ post' = IF talk = "on" THEN [post EXCEPT ![session] = "owed"] ELSE post

-----------------------------------------------------------------------------
(* The people and Retell *)

CallerHangsUp ==
    /\ party = "up" /\ flow \notin {"start", "report", "done"}
    /\ party' = "gone"
    /\ UNCHANGED <<leg, talk, calls, worker, tool, post, webhooks, luck, failed>>

AgentHangsUp ==                             \* its BYE may be lost
    /\ talk = "on"
    /\ Over
    /\ \/ leg' = "gone" /\ Fine
       \/ UNCHANGED leg /\ GoesWrong
    /\ UNCHANGED <<party, calls, worker, tool, webhooks, luck>>

LeftAloneEnds ==                \* the first agent, on a leg nobody could hang up
    /\ session = 2 /\ 1 \in luck.left /\ post[1] = "none"
    /\ post' = [post EXCEPT ![1] = "owed"]
    /\ UNCHANGED <<channels, calls, worker, tool, webhooks, luck, failed>>

-----------------------------------------------------------------------------
(* The worker: RetellVoiceAgentSession.run, within run_agent_on_call *)

Ends(p, at) == port' = p /\ flow' = at

Registers ==
    /\ flow = "start"
    /\ \/ /\ calls' = [calls EXCEPT ![session].status = "live"]
          /\ flow' = "connect" /\ UNCHANGED port
       \/ UNCHANGED calls /\ Ends("failed", "store")     \* off, over the cap, refused
    /\ UNCHANGED <<channels, session, snap, kept, tool, post, webhooks, luck, failed>>

Connects ==
    /\ flow = "connect"
    /\ leg' = "up"                          \* one given up on may ring still
    /\ \/ talk' = "on" /\ flow' = "bridge" /\ UNCHANGED port
       \/ UNCHANGED talk /\ Ends("failed", "teardown")
    /\ UNCHANGED <<party, calls, session, snap, kept, tool, post, webhooks, luck, failed>>

Bridges ==
    /\ flow = "bridge"
    /\ \/ party = "up" /\ leg = "up" /\ flow' = "talk" /\ UNCHANGED port /\ Fine
       \/ "gone" \in {party, leg} /\ Ends("failed", "teardown") /\ Fine
       \/ Ends("failed", "teardown") /\ GoesWrong
    /\ UNCHANGED <<channels, calls, session, snap, kept, tool, post, webhooks, luck>>

(* Retell's webhook says so, though the leg may look up here *)
NeverSaid(r) == FALSE                       \* mutant of SaidEnded
SaidEnded(r) == r.claimed \/ r.reason

Leaves == IF Mine.exit # "none" THEN Ends(Mine.exit, "grace") ELSE Ends("end_call", "teardown")

HearsAgentGo ==
    /\ flow = "talk" /\ leg = "gone"
    /\ \/ Leaves /\ Fine
       \/ Ends("end_call", "teardown") /\ GoesWrong        \* the row cannot be read
    /\ UNCHANGED <<channels, calls, session, snap, kept, tool, post, webhooks, luck>>

HearsCallerGo ==
    /\ flow = "talk" /\ party = "gone"
    /\ Ends("default", "teardown")
    /\ UNCHANGED <<channels, calls, session, snap, kept, tool, post, webhooks, luck, failed>>

Polls ==
    /\ flow = "talk" /\ (Mine.exit # "none" \/ SaidEnded(Mine))
    /\ Leaves
    /\ UNCHANGED <<channels, calls, session, snap, kept, tool, post, webhooks, luck, failed>>

CapReached ==
    /\ flow = "talk"
    /\ Ends("end_call", "teardown")
    /\ UNCHANGED <<channels, calls, session, snap, kept, tool, post, webhooks, luck, failed>>

GracePasses ==
    /\ flow = "grace" /\ flow' = "teardown"
    /\ UNCHANGED <<channels, calls, session, port, snap, kept, tool, post, webhooks, luck, failed>>

TakenForGone == port # "end_call" \/ talk # "over"      \* mutant of LegToDrop
LegToDrop == leg = "up"

TearsDown ==                                \* a hangup that fails is swallowed
    /\ flow = "teardown" /\ flow' = "finish"
    /\ \/ LegToDrop /\ leg' = "gone" /\ Over /\ UNCHANGED luck /\ Fine
       \/ ~LegToDrop /\ UNCHANGED <<leg, talk, post, luck>> /\ Fine
       \/ /\ LegToDrop /\ GoesWrong
          /\ luck' = [luck EXCEPT !.left = @ \union {session}]
          /\ UNCHANGED <<leg, talk, post>>
    /\ UNCHANGED <<party, calls, session, port, snap, kept, tool, webhooks>>

Finishes ==                                 \* registry.finish and its snapshot
    /\ flow = "finish" /\ flow' = "store"
    /\ \/ calls' = [calls EXCEPT ![session].status = "ended"] /\ snap' = Mine.captured /\ Fine
       \/ UNCHANGED <<calls, snap>> /\ GoesWrong
    /\ UNCHANGED <<channels, session, port, kept, tool, post, webhooks, luck>>

ForgetsTheFirst(notes) == IF session = 2 THEN notes ELSE kept \union notes  \* mutant of Together

Together(notes) == kept \union notes        \* both sessions' notes are the call's

Stores ==                                   \* best effort; a failed second never spoke
    /\ flow = "store"
    /\ \/ kept' = Together(snap) /\ Fine
       \/ UNCHANGED kept /\ GoesWrong
    /\ snap' = {}
    /\ flow' = IF port = "transfer" /\ session = 1 THEN "ring" ELSE "report"
    /\ UNCHANGED <<channels, calls, session, port, tool, post, webhooks, luck>>

TransfersCaller ==                                \* answered, or the caller left meanwhile
    /\ flow = "ring"
    /\ \/ party = "up" /\ Ends("transferred", "report")
       \/ party = "gone" /\ Ends("transfer", "report")
    /\ UNCHANGED <<channels, calls, session, snap, kept, tool, post, webhooks, luck, failed>>

ReturnsToAgent ==                           \* nobody answered, or the office is closed
    /\ flow = "ring"
    /\ session' = 2 /\ flow' = "start" /\ port' = "none"
    /\ leg' = "none" /\ talk' = "none"
    /\ UNCHANGED <<party, calls, snap, kept, tool, post, webhooks, luck, failed>>

Reports ==                                  \* and the node takes the port
    /\ flow = "report" /\ Ends("none", "done")
    /\ UNCHANGED <<channels, calls, session, snap, kept, tool, post, webhooks, luck, failed>>

WorkerStep ==
    \/ Registers \/ Connects \/ Bridges \/ HearsAgentGo \/ HearsCallerGo \/ Polls
    \/ GracePasses \/ TearsDown \/ Finishes \/ Stores \/ TransfersCaller \/ ReturnsToAgent
    \/ Reports

-----------------------------------------------------------------------------
(* What the agent asks for during the call *)

Goes(t, at) == tool' = [tool EXCEPT ![t].at = at]
RowOf(t) == calls[tool[t].in]

AgentCalls(t) ==
    /\ t = Cardinality(Calls) + 1 /\ MoreEvents /\ talk = "on" /\ Bridged
    /\ \E k \in Kinds :
           tool' = [tool EXCEPT ![t] = [NoTool EXCEPT !.at = "sent", !.in = session, !.kind = k]]
    /\ UNCHANGED <<channels, calls, worker, post, webhooks, luck, failed>>

NeverTried(t) == FALSE                      \* mutant of TransferTried
TransferTried(t) == \E s \in Sessions \ {tool[t].in} : calls[s].exit = "transfer"

LastWins(t) == TRUE                         \* mutant of MayExit
MayExit(t) == RowOf(t).exit = "none"          \* the UPDATE's WHERE, with Live

Live(t) == RowOf(t).status = "live"           \* the row, when the request is answered

Refuses(t) ==
    /\ tool[t].at = "sent"
    /\ ~Live(t) \/ (tool[t].kind = "transfer" /\ TransferTried(t))
    /\ Goes(t, "refused")
    /\ UNCHANGED <<channels, calls, worker, post, webhooks, luck, failed>>

AsksToLeave(t) ==                           \* told so whether the UPDATE took or not
    /\ tool[t].at = "sent" /\ Live(t) /\ tool[t].kind \in {"transfer", "end_call"}
    /\ tool[t].kind = "transfer" => ~TransferTried(t)
    /\ Goes(t, "told")
    /\ calls' = IF MayExit(t) THEN [calls EXCEPT ![tool[t].in].exit = tool[t].kind] ELSE calls
    /\ UNCHANGED <<channels, worker, post, webhooks, luck, failed>>

(* merge_capture: the row is read, and written back, unlocked *)
ReadsNotes(t) ==
    /\ tool[t].at = "sent" /\ Live(t) /\ tool[t].kind = "capture"
    /\ tool' = [tool EXCEPT ![t] = [@ EXCEPT !.at = "merging", !.saw = RowOf(t).captured]]
    /\ UNCHANGED <<channels, calls, worker, post, webhooks, luck, failed>>

(* to be overwritten by another call still merging, or not seen by finish() *)
Crossed(t) == \E u \in Tools \ {t} : /\ tool[u].at = "merging" /\ tool[u].in = tool[t].in

WritesNotes(t) ==
    /\ tool[t].at = "merging"
    /\ calls' = [calls EXCEPT ![tool[t].in].captured = tool[t].saw \union {t}]
    /\ tool' = [tool EXCEPT ![t] = [@ EXCEPT !.at = "saved", !.saw = {}]]
    /\ luck' = IF Crossed(t) \/ RowOf(t).status # "live" THEN [luck EXCEPT !.notes = @ \union {t}]
               ELSE luck
    /\ UNCHANGED <<channels, worker, post, webhooks, failed>>

ToolStep(t) == Refuses(t) \/ AsksToLeave(t) \/ ReadsNotes(t) \/ WritesNotes(t)

-----------------------------------------------------------------------------
(* What Retell posts: repeated until it is acknowledged *)

At(e, at) == hook' = [hook EXCEPT ![e].at = at]
Working(e) == hook[e].at \in {"claimed", "loaded", "stored"}

ClaimsAgain(e) == hook[e].at = "idle"       \* mutant of Unclaimed
Unclaimed(e) == ~calls[e].claimed

Claims(e) ==                                \* the end's reason is written with the claim
    /\ post[e] = "owed" /\ Unclaimed(e)
    /\ calls' = [calls EXCEPT ![e] = [@ EXCEPT !.claimed = TRUE, !.reason = TRUE]]
    /\ At(e, "claimed")
    /\ UNCHANGED <<channels, worker, tool, post, script, done, luck, failed>>

Duplicate(e) ==                             \* acknowledged, whatever the claimant does
    /\ post[e] = "owed" /\ ~Unclaimed(e)
    /\ post' = [post EXCEPT ![e] = "acked"]
    /\ luck' = IF Working(e) THEN [luck EXCEPT !.raced = @ \union {e}] ELSE luck
    /\ UNCHANGED <<channels, calls, worker, tool, webhooks, failed>>

Loads(e) ==                                 \* the call's transcript, any if there are two
    /\ hook[e].at = "claimed"
    /\ \E i \in IF script = <<>> THEN {0} ELSE DOMAIN script :
           hook' = [hook EXCEPT ![e] = [at |-> "loaded", found |-> i,
                                        saw |-> IF i = 0 THEN <<>> ELSE script[i]]]
    /\ luck' = [luck EXCEPT !.crossed = @ \/ \E f \in Sessions \ {e} : hook[f].at = "loaded"]
    /\ UNCHANGED <<channels, calls, worker, tool, post, script, done, failed>>

Replaced(parts, s) == <<s>>                 \* mutant of Appended

Appended(parts, s) ==
    IF parts # <<>> /\ parts[Len(parts)] = s THEN parts ELSE Append(parts, s)

Persists(e) ==
    /\ hook[e].at = "loaded"
    /\ script' = IF hook[e].found = 0 THEN Append(script, Appended(<<>>, e))
                 ELSE [script EXCEPT ![hook[e].found] = Appended(hook[e].saw, e)]
    /\ hook' = [hook EXCEPT ![e] = [NoHook EXCEPT !.at = "stored"]]
    /\ UNCHANGED <<channels, calls, worker, tool, post, done, luck, failed>>

Processed(e) ==                             \* reported to the CRM, answered 200
    /\ hook[e].at = "stored"
    /\ hook' = [hook EXCEPT ![e] = NoHook]
    /\ done' = done \union {e}
    /\ post' \in {post, [post EXCEPT ![e] = "acked"]}      \* the answer may be lost
    /\ UNCHANGED <<channels, calls, worker, tool, script, luck, failed>>

Released(e) ==                              \* the claim is given back for the retry
    /\ Working(e) /\ GoesWrong
    /\ calls' = [calls EXCEPT ![e].claimed = FALSE]
    /\ hook' = [hook EXCEPT ![e] = NoHook]
    /\ UNCHANGED <<channels, worker, tool, post, script, done, luck>>

DiesWorking(e) ==
    /\ Working(e) /\ GoesWrong
    /\ At(e, "dead")
    /\ UNCHANGED <<channels, calls, worker, tool, post, script, done, luck>>

HookStep(e) == Loads(e) \/ Persists(e) \/ Processed(e)
PostStep(e) == Claims(e) \/ Duplicate(e)

-----------------------------------------------------------------------------

RetellNext ==
    \/ WorkerStep \/ CapReached \/ CallerHangsUp \/ AgentHangsUp \/ LeftAloneEnds
    \/ \E t \in Tools : ToolStep(t) \/ AgentCalls(t)
    \/ \E e \in Sessions : HookStep(e) \/ PostStep(e) \/ Released(e) \/ DiesWorking(e)

RetellSpec == RetellInit /\ [][RetellNext]_retellVars

(* The task and the requests go on; Retell repeats what is not acknowledged.
   Nothing is asked of the people, nor of the cap, which is an hour away. *)
RetellFairness ==
    /\ WF_retellVars(WorkerStep)
    /\ \A t \in Tools : WF_retellVars(ToolStep(t))
    /\ \A e \in Sessions : WF_retellVars(HookStep(e)) /\ WF_retellVars(PostStep(e))

-----------------------------------------------------------------------------
SessionRows == [status : {"none", "live", "ended"}, exit : {"none", "transfer", "end_call"},
                reason : BOOLEAN, claimed : BOOLEAN, captured : SUBSET Tools]
ToolCalls == [at : {"idle", "sent", "merging", "saved", "told", "refused"}, in : Sessions,
              kind : Kinds, saw : SUBSET Tools]
Deliveries == [at : {"idle", "claimed", "loaded", "stored", "dead"}, found : Nat,
             saw : Seq(Sessions)]

(* Types of the variables; a call has two sessions at most. *)
RetellTypes ==
    /\ party \in {"up", "gone"} /\ leg \in {"none", "up", "gone"}
    /\ talk \in {"none", "on", "over"} /\ session \in Sessions
    /\ calls \in [Sessions -> SessionRows]
    /\ flow \in {"start", "connect", "bridge", "talk", "grace", "teardown", "finish",
                 "store", "ring", "report", "done"}
    /\ port \in {"none", "failed", "default", "end_call", "transfer", "transferred"}
    /\ snap \subseteq Tools /\ kept \subseteq Tools
    /\ tool \in [Tools -> ToolCalls]
    /\ post \in [Sessions -> {"none", "owed", "acked"}]
    /\ hook \in [Sessions -> Deliveries]
    /\ script \in Seq(Seq(Sessions)) /\ done \subseteq Sessions /\ failed \in 0..MaxEvents
    /\ luck \in [raced : SUBSET Sessions, notes : SUBSET Tools, crossed : BOOLEAN,
                 left : SUBSET Sessions]

Past == {"finish", "store", "ring", "report", "done"}

(* The first way out the agent asked for is the one taken: the caller is rung
   through only on a transfer that was accepted and that nothing changed since,
   at most once in a call, and by then the agent is off the line, however the
   end of its conversation was learnt, unless its leg could not be hung up. *)
LeavesAsAsked ==
    /\ RetellTypes
    /\ flow = "ring" \/ port = "transferred" => calls[1].exit = "transfer"
    /\ \A s \in Sessions : calls[s].exit = "transfer" => s = 1
    /\ flow \in Past => leg # "up" \/ session \in luck.left

InTranscript(s) == \E i \in DOMAIN script : \E j \in DOMAIN script[i] : script[i][j] = s

(* What was heard is kept.  A webhook Retell was told is done has been done, or
   died in our hands, or its retry came while we were failing it; a session's
   part is in the call's one transcript once; and what the agent was told is
   saved is with the call when the session is stored.  Not promised where two
   read-modify-writes of one row cross, nor to a note after the snapshot. *)
Kept ==
    /\ \A e \in Sessions :
           /\ post[e] = "acked" => e \in done \/ Working(e) \/ hook[e].at = "dead"
                                  \/ e \in luck.raced
           /\ e \in done /\ ~luck.crossed => InTranscript(e)
    /\ failed = 0 /\ ~luck.crossed =>
           script \in {<<>>, <<<<1>>>>, <<<<2>>>>, <<<<1, 2>>>>, <<<<2, 1>>>>}
    /\ \A t \in Tools \ luck.notes :
           tool[t].at = "saved" /\ failed = 0 /\ (tool[t].in < session \/ flow \in {"ring", "report", "done"})
               => t \in kept

(* The first way out the agent asked for is the one taken, and what was heard is
   kept, once. *)
AskedAndHeard == LeavesAsAsked /\ Kept

AtRest ==
    /\ flow = "done"
    /\ \A t \in Tools : tool[t].at \in {"idle", "saved", "told", "refused"}
    /\ \A e \in Sessions : post[e] # "owed" /\ ~Working(e)

(* What every call comes to, a conversation that goes on for ever apart: a caller
   whose agent has left is not kept in silence though the BYE was lost, and every
   webhook is acknowledged in the end. *)
Settled == AtRest \/ (flow = "talk" /\ talk = "on" /\ party = "up")
=============================================================================
