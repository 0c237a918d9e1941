------------------------------ MODULE RingGroup -----------------------------
(***************************************************************************)
(* An inbound call on a number with no flow: ring every phone at once,     *)
(* bridge the caller to the first that answers, take a voicemail when      *)
(* nobody does.  Two handlers share this shape: the built-in default       *)
(* (flows/runtime.py _handle_unassigned with ring_and_bridge) and the CRM  *)
(* line (integrations/crm/handler.py with hybrid_ring_and_bridge).         *)
(*                                                                         *)
(* The handler is one asyncio task.  It commands Asterisk by HTTP requests *)
(* that can fail, and learns what happens from channel events that travel  *)
(* over one websocket to a queue it watches; events raised while the       *)
(* websocket is down are never seen.  Every wait has a deadline, which the *)
(* model lets pass at any moment.  Channels and bridges are Asterisk's.    *)
(***************************************************************************)
EXTENDS Naturals, Sequences

CONSTANTS
    Caller,     \* the caller's channel
    Legs,       \* the channels of the phones that can be rung
    NoLeg,
    MaxFaults,  \* bound: ARI requests that fail though the channels are fine
    MaxDrops    \* bound: losses of the events websocket

ASSUME RingGroupAssumption ==
    /\ Caller \notin Legs /\ NoLeg \notin Legs
    /\ MaxFaults \in Nat /\ MaxDrops \in Nat

VARIABLES
    line,       \* state of each channel
    talking,    \* channels in the bridge
    online,     \* the events websocket is connected
    wire,       \* events on their way to the worker
    watched,    \* channels whose events reach the handler's queue
    heard,      \* that queue
    handler,    \* which of the two handlers runs
    stage,      \* where it is
    noticed,    \* a recording notice is configured and was played
    plan,       \* phones it rings
    todo,       \* phones left in the loop it is in
    pending,    \* phones that may still answer
    winner,     \* phone that answered first
    result,     \* what the ring group came to
    outcome,    \* what the call came to
    reported,   \* phases of the call reported to the CRM
    faults, drops,
    kept,       \* history: live channels whose hangup request failed
    met         \* history: the caller and a phone were bridged

asterisk == <<line, talking, online, wire>>
queue == <<watched, heard>>
ring == <<plan, todo, pending, winner, result>>
handling == <<handler, noticed, outcome, reported>>
vars == <<asterisk, queue, stage, ring, handling, faults, drops, kept, met>>

Parties == Legs \union {Caller}
Live == {"ringing", "up", "stasis"}
Down(p) == line[p] \notin Live
Event(p, what) == [who |-> p, what |-> what]
Events == [who : Parties, what : {"up", "stasis", "gone"}]

Init ==
    /\ line = [p \in Parties |-> IF p = Caller THEN "stasis" ELSE "none"]
    /\ talking = {} /\ online = TRUE /\ wire = <<>>
    /\ watched = {} /\ heard = <<>>
    /\ handler \in {"default", "crm"} /\ stage = "begin"
    /\ noticed = FALSE
    /\ plan = {} /\ todo = {} /\ pending = {} /\ winner = NoLeg
    /\ result = "none" /\ outcome = "none" /\ reported = {}
    /\ faults = 0 /\ drops = 0 /\ kept = {} /\ met = FALSE

-----------------------------------------------------------------------------
(* Asterisk *)

(* Once the ring group stops watching, an event reaches nobody: what follows
   waits for silence, the caller's hangup or a cap, any of them at any moment. *)
Over == stage \in {"drop", "unanswered", "greet", "record", "message", "hangup", "report", "done"}
Raises(p, what) == wire' = IF online /\ ~Over THEN Append(wire, Event(p, what)) ELSE wire

Leaves(p) ==
    /\ line' = [line EXCEPT ![p] = "gone"]
    /\ talking' = talking \ {p}
    /\ Raises(p, "gone")
    /\ UNCHANGED online

(* a party hangs up; a phone declines, is busy or rings out *)
PartyLeaves(p) ==
    /\ ~Down(p)
    /\ Leaves(p)
    /\ UNCHANGED <<queue, stage, ring, handling, faults, drops, kept, met>>

(* the phone is picked up, and a moment later the channel enters our app *)
PhoneAnswers(l) ==
    /\ line[l] = "ringing"
    /\ line' = [line EXCEPT ![l] = "up"]
    /\ Raises(l, "up")
    /\ UNCHANGED <<talking, online, queue, stage, ring, handling, faults, drops, kept, met>>

PhoneEnters(l) ==
    /\ line[l] = "up"
    /\ line' = [line EXCEPT ![l] = "stasis"]
    /\ Raises(l, "stasis")
    /\ UNCHANGED <<talking, online, queue, stage, ring, handling, faults, drops, kept, met>>

(* asterisk_consumer _handle: one event at a time, pushed to its watchers *)
Deliver ==
    /\ wire # <<>>
    /\ wire' = Tail(wire)
    /\ heard' = IF Head(wire).who \in watched THEN Append(heard, Head(wire)) ELSE heard
    /\ UNCHANGED <<line, talking, online, watched, stage, ring, handling, faults, drops, kept, met>>

SocketDrops ==
    /\ online /\ drops < MaxDrops
    /\ online' = FALSE /\ wire' = <<>> /\ drops' = drops + 1
    /\ UNCHANGED <<line, talking, queue, stage, ring, handling, faults, kept, met>>

SocketReconnects ==
    /\ ~online /\ online' = TRUE
    /\ UNCHANGED <<line, talking, wire, queue, stage, ring, handling, faults, drops, kept, met>>

-----------------------------------------------------------------------------
(* Requests: a request can fail without effect, or take effect and time out *)

Fault == faults < MaxFaults /\ faults' = faults + 1
NoFault == UNCHANGED faults

Delete(p) ==                                       \* DELETE /ari/channels/p
    \/ ~Down(p) /\ Leaves(p) /\ NoFault /\ UNCHANGED kept
    \/ Down(p) /\ NoFault /\ UNCHANGED <<asterisk, kept>>
    \/ ~Down(p) /\ Fault /\ kept' = kept \union {p} /\ UNCHANGED asterisk

-----------------------------------------------------------------------------
(* The handler, up to the ring *)

Begins ==                                          \* report, answer, notice
    /\ stage = "begin"
    /\ reported' = IF handler = "crm" THEN {"started"} ELSE {}
    /\ noticed' \in {handler = "crm", FALSE}           \* only the CRM line asks later
    /\ stage' = "plan"
    /\ UNCHANGED <<asterisk, queue, ring, handler, outcome, faults, drops, kept, met>>

Plans ==                                           \* who can be rung now
    /\ stage = "plan"
    /\ plan' \in SUBSET Legs
    /\ todo' = plan'
    /\ IF plan' = {}
       THEN stage' = "unanswered" /\ result' = "noanswer" /\ UNCHANGED queue
       ELSE /\ stage' = "originate" /\ UNCHANGED result
            /\ watched' = plan' \union {Caller} /\ heard' = <<>>
    /\ UNCHANGED <<asterisk, pending, winner, handling, faults, drops, kept, met>>

(* ring_and_bridge waits for every leg it asked for, hybrid_ring_and_bridge
   only for those whose request was answered. *)
Counts(l, accepted) == pending' = IF accepted \/ handler = "default"
                                  THEN pending \union {l} ELSE pending

StartsRinging(l) ==
    /\ line' = [line EXCEPT ![l] = "ringing"]
    /\ UNCHANGED <<talking, online, wire>>

Originates(l) ==
    /\ stage = "originate" /\ l \in todo
    /\ \/ ~Down(Caller) /\ StartsRinging(l) /\ Counts(l, TRUE) /\ NoFault
       \/ Down(Caller) /\ UNCHANGED asterisk /\ Counts(l, FALSE) /\ NoFault
       \/ UNCHANGED asterisk /\ Counts(l, FALSE) /\ Fault
       \/ ~Down(Caller) /\ StartsRinging(l) /\ Counts(l, FALSE) /\ Fault
    /\ todo' = todo \ {l}
    /\ UNCHANGED <<queue, stage, plan, winner, result, handling, drops, kept, met>>

DropStillPending == pending                        \* mutant of LegsToDrop
(* the finally of both: the CRM line skips the phones it already hung up *)
LegsToDrop == IF handler = "crm" /\ winner # NoLeg THEN {winner} ELSE plan

RingEnds(r) ==
    /\ result' = r
    /\ todo' = LegsToDrop
    /\ stage' = "finally"

AllOriginated ==
    /\ stage = "originate" /\ todo = {}
    /\ IF pending = {} THEN RingEnds("failed")
       ELSE stage' = "await" /\ UNCHANGED <<todo, result>>
    /\ UNCHANGED <<asterisk, queue, plan, pending, winner, handling, faults, drops, kept, met>>

-----------------------------------------------------------------------------
(* _await_first_answer *)

CallerGone(e) == e = Event(Caller, "gone")

HearsRinging ==
    /\ stage = "await" /\ heard # <<>>
    /\ heard' = Tail(heard)
    /\ LET e == Head(heard) IN
       \/ CallerGone(e) /\ RingEnds("noanswer") /\ UNCHANGED <<pending, winner>>
       \/ /\ e.who \in pending /\ e.what = "gone"
          /\ pending' = pending \ {e.who}
          /\ IF pending' = {} THEN RingEnds("noanswer") ELSE UNCHANGED <<stage, todo, result>>
          /\ UNCHANGED winner
       \/ /\ e.who \in pending /\ e.what # "gone"
          /\ winner' = e.who
          /\ todo' = plan \ {e.who}
          /\ stage' = "losers"
          /\ UNCHANGED <<pending, result>>
       \/ /\ e.who \notin pending /\ ~CallerGone(e)
          /\ UNCHANGED <<stage, todo, pending, winner, result>>
    /\ UNCHANGED <<asterisk, watched, plan, handling, faults, drops, kept, met>>

NoDeadline == stage = "await" /\ pending = {}         \* mutant of RingDeadline

RingDeadline == stage = "await"

RingTimesOut ==
    /\ RingDeadline
    /\ RingEnds("noanswer")
    /\ UNCHANGED <<asterisk, queue, plan, pending, winner, handling, faults, drops, kept, met>>

-----------------------------------------------------------------------------
(* A phone answered *)

LosersKeepRinging(l) ==                            \* mutant of DropsLoser
    /\ stage = "losers" /\ l \in todo
    /\ todo' = todo \ {l}
    /\ UNCHANGED <<asterisk, queue, stage, plan, pending, winner, result, handling, faults, drops, kept, met>>

DropsLoser(l) ==
    /\ stage = "losers" /\ l \in todo
    /\ Delete(l)
    /\ todo' = todo \ {l}
    /\ UNCHANGED <<queue, stage, plan, pending, winner, result, handling, drops, met>>

LosersDown ==
    /\ stage = "losers" /\ todo = {}
    /\ stage' = "bridge"
    /\ UNCHANGED <<asterisk, queue, ring, handling, faults, drops, kept, met>>

(* ARI bridges only channels that are in our app, all of them or none *)
CanBridge == line[Caller] = "stasis" /\ line[winner] = "stasis"

Joins ==
    /\ CanBridge
    /\ talking' = {Caller, winner} /\ met' = TRUE
    /\ UNCHANGED <<line, online, wire>>

NotJoined == UNCHANGED <<asterisk, met>>

Talks == stage' = "talk" /\ UNCHANGED <<todo, result>>

JoinUnchecked ==                                   \* mutant of Joined
    \/ Joins /\ NoFault /\ Talks
    \/ NotJoined /\ ((~CanBridge /\ NoFault) \/ Fault) /\ Talks

(* create_bridge, add_to_bridge, record_bridge *)
Joined ==
    \/ Joins /\ NoFault /\ Talks
    \/ Joins /\ Fault /\ RingEnds("failed")
    \/ NotJoined /\ ((~CanBridge /\ NoFault) \/ Fault) /\ RingEnds("failed")

Bridges ==
    /\ stage = "bridge"
    /\ Joined
    /\ UNCHANGED <<queue, plan, pending, winner, handling, drops, kept>>

HearsTalk ==                                       \* _await_bridge_end
    /\ stage = "talk" /\ heard # <<>>
    /\ heard' = Tail(heard)
    /\ IF Head(heard) \in {Event(Caller, "gone"), Event(winner, "gone")}
       THEN RingEnds("answered") ELSE UNCHANGED <<stage, todo, result>>
    /\ UNCHANGED <<asterisk, watched, plan, pending, winner, handling, faults, drops, kept, met>>

TalkTimesOut ==                                    \* four hours
    /\ stage = "talk"
    /\ RingEnds("answered")
    /\ UNCHANGED <<asterisk, queue, plan, pending, winner, handling, faults, drops, kept, met>>

-----------------------------------------------------------------------------
(* The finally of the ring group *)

DestroysBridge ==
    /\ stage = "finally"
    /\ watched' = {} /\ heard' = <<>> /\ wire' = <<>>
    /\ \/ talking' = {} /\ NoFault
       \/ talking # {} /\ Fault /\ UNCHANGED talking
    /\ stage' = "drop"
    /\ UNCHANGED <<line, online, ring, handling, drops, kept, met>>

DropsLeg(l) ==
    /\ stage = "drop" /\ l \in todo
    /\ Delete(l)
    /\ todo' = todo \ {l}
    /\ UNCHANGED <<queue, stage, plan, pending, winner, result, handling, drops, met>>

RingOver ==
    /\ stage = "drop" /\ todo = {}
    /\ stage' = IF result = "answered" THEN "hangup" ELSE "unanswered"
    /\ outcome' = IF result = "answered" THEN "answered" ELSE outcome
    /\ reported' = IF result = "answered" /\ handler = "crm"
                   THEN reported \union {"answered"} ELSE reported
    /\ plan' = {} /\ pending' = {} /\ result' = "none"   \* its locals end with it
    /\ UNCHANGED <<asterisk, queue, todo, winner, handler, noticed, faults, drops, kept, met>>

-----------------------------------------------------------------------------
(* Nobody answered *)

ToVoicemail ==
    /\ stage = "unanswered"
    /\ stage' = "greet" /\ outcome' = "voicemail"
    /\ UNCHANGED <<asterisk, queue, ring, handler, noticed, reported, faults, drops, kept, met>>

(* _ai_agent_seam, when switched on and the notice was played: the agent has
   the caller; then the call is ended, or left with whoever has it now. *)
AgentTakesCall ==
    /\ stage = "unanswered" /\ handler = "crm" /\ noticed
    /\ stage' \in {"hangup", "report"}
    /\ outcome' = IF stage' = "hangup" THEN "agent" ELSE "handed over"
    /\ UNCHANGED <<asterisk, queue, ring, handler, noticed, reported, faults, drops, kept, met>>

Greets ==                                          \* voicemail: the greeting
    /\ stage = "greet"
    /\ stage' = "record"
    /\ UNCHANGED <<asterisk, queue, ring, handling, faults, drops, kept, met>>

StartsMessage ==
    /\ stage = "record"
    /\ \/ ~Down(Caller) /\ stage' = "message" /\ NoFault
       \/ Down(Caller) /\ stage' = "hangup" /\ NoFault
       \/ stage' = "hangup" /\ Fault
    /\ UNCHANGED <<asterisk, queue, ring, handling, drops, kept, met>>

MessageEnds ==                                     \* silence, hangup, or the cap
    /\ stage = "message"
    /\ stage' = "hangup"
    /\ UNCHANGED <<asterisk, queue, ring, handling, faults, drops, kept, met>>

HangsUp ==
    /\ stage = "hangup"
    /\ Delete(Caller)
    /\ stage' = "report"
    /\ UNCHANGED <<queue, ring, handling, drops, met>>

Reports ==                                         \* the finally of the CRM line
    /\ stage = "report"
    /\ reported' = IF handler = "crm" THEN reported \union {"ended"} ELSE reported
    /\ stage' = "done"
    /\ UNCHANGED <<asterisk, queue, ring, handler, noticed, outcome, faults, drops, kept, met>>

-----------------------------------------------------------------------------

HandlerStep ==
    \/ Begins \/ Plans \/ AllOriginated \/ HearsRinging \/ RingTimesOut
    \/ LosersDown \/ Bridges \/ HearsTalk \/ TalkTimesOut \/ DestroysBridge
    \/ RingOver \/ ToVoicemail \/ AgentTakesCall \/ Greets \/ StartsMessage
    \/ MessageEnds \/ HangsUp \/ Reports
    \/ \E l \in Legs : Originates(l) \/ DropsLoser(l) \/ DropsLeg(l)

World ==
    \/ \E p \in Parties : PartyLeaves(p)
    \/ \E l \in Legs : PhoneAnswers(l) \/ PhoneEnters(l)
    \/ Deliver \/ SocketDrops \/ SocketReconnects

Next == HandlerStep \/ World

Spec == Init /\ [][Next]_vars

(* The task always runs on: its only waits are those with a deadline. *)
FairSpec == Spec /\ WF_vars(HandlerStep)

-----------------------------------------------------------------------------
(* Types of the variables. *)
TypeOK ==
    /\ line \in [Parties -> {"none", "gone"} \union Live]
    /\ talking \subseteq Parties /\ online \in BOOLEAN
    /\ wire \in Seq(Events)
    /\ watched \subseteq Parties /\ heard \in Seq(Events)
    /\ handler \in {"default", "crm"} /\ noticed \in BOOLEAN
    /\ stage \in {"begin", "plan", "originate", "await", "losers", "bridge", "talk",
               "finally", "drop", "unanswered", "greet", "record", "message",
               "hangup", "report", "done"}
    /\ plan \subseteq Legs /\ todo \subseteq plan /\ pending \subseteq plan
    /\ winner \in Legs \union {NoLeg}
    /\ result \in {"none", "answered", "noanswer", "failed"}
    /\ outcome \in {"none", "answered", "voicemail", "agent", "handed over"}
    /\ reported \subseteq {"started", "answered", "ended"}
    /\ faults \in 0..MaxFaults /\ drops \in 0..MaxDrops
    /\ kept \subseteq Parties /\ met \in BOOLEAN

(* Whatever order two phones answer in, the caller is only ever bridged to the
   first one heard, and while they talk no other phone rings or is held on a
   dead line (short of a hangup request Asterisk never got): the losers are
   hung up before the bridge is made. *)
OnlyTheWinnerTalks ==
    /\ TypeOK
    /\ talking \subseteq {Caller, winner}
    /\ stage = "talk" => \A l \in Legs \ {winner} : Down(l) \/ l \in kept

(* The ring group leaves nobody behind: however it ends, when it returns no
   phone it rang is ringing or up, even one that answered after the deadline or
   whose answer was lost with the websocket. *)
NobodyLeftRinging ==
    Over /\ stage # "drop" => \A l \in Legs : Down(l) \/ l \in kept

(* The outcome tells the truth: a call ends as "answered" only when the caller
   was bridged to somebody, and a caller who was is never filed as a voicemail
   unless a request was lost. *)
OutcomeIsTrue ==
    stage = "done" => /\ outcome = "answered" => met
                      /\ met /\ faults = 0 => outcome = "answered"

(* How the ring group ends: with no phone left ringing, and told as it was. *)
EndIsHonest == NobodyLeftRinging /\ OutcomeIsTrue

(* Never dead air: whatever events are lost, the handler gets to its end, so the
   caller's line is released (unless the hangup request fails or an agent
   handed the caller to somebody else), and the CRM hears that the call ended. *)
CallerReleased ==
    <>[](/\ Down(Caller) \/ Caller \in kept \/ outcome = "handed over"
         /\ handler = "crm" => {"started", "ended"} \subseteq reported)
=============================================================================
