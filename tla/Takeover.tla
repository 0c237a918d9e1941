------------------------------ MODULE Takeover ------------------------------
(***************************************************************************)
(* A supervisor seizes a call an AI agent is handling.  Three parties work *)
(* on the caller's channel without a lock between them: the flow task that *)
(* runs the agent session and then follows its port (agents/retell.py or   *)
(* owen-voice, flows/runtime.py, flows/interpreter.py), the take-over jobs *)
(* of the supervisors (telephony/supervision.py, telephony/monitor.py),    *)
(* and Asterisk.  What keeps them apart is the ownership registry          *)
(* (telephony/ownership.py), consulted by each before it acts.             *)
(*                                                                         *)
(* A take-over is asked for with what is known of the session at that      *)
(* moment, waits in the job queue, and runs step by step as a task.  Waits *)
(* of the flow all have a deadline, which may pass at any moment.          *)
(***************************************************************************)
EXTENDS Naturals

CONSTANTS
    Supervisors,    \* each asks for the call once; names its own channel too
    NoOne,
    MaxFaults       \* bound: requests that fail though the channels are fine

ASSUME TakeoverAssumption ==
    /\ NoOne \notin Supervisors /\ MaxFaults \in Nat
    /\ Supervisors \cap {"caller", "desk", "agent1", "agent2"} = {}

VARIABLES
    line,       \* state of each channel
    room,       \* the bridge each channel is in
    bridges,    \* the bridges there are
    engine,     \* what runs the agent: Retell over SIP, or owen-voice
    session,    \* number of the agent session, the second after a failed transfer
    flow,       \* where the flow task is
    port,       \* what the session ended with
    known,      \* the session's bridge and leg can be looked up
    job,        \* the take-over job of each supervisor
    owner,      \* whom the call belongs to
    seized,     \* history: it was claimed in conversation, before the session's port was settled
    trespass,   \* history: the first thing the flow did to the caller once claimed, or a hangup
    faults

asterisk == <<line, room, bridges>>
agent == <<engine, session, known>>
task == <<flow, port>>
ownership == <<owner, seized>>
vars == <<asterisk, agent, task, job, ownership, trespass, faults>>

Caller == "caller"
Desk == "desk"                              \* the leg of the person transferred to
Leg == <<"agent1", "agent2">>
Talk == <<"talk1", "talk2">>
Channels == {Caller, Desk, Leg[1], Leg[2]} \union Supervisors
Bridges == {Talk[1], Talk[2], "desk", "own"}

Up(c) == line[c] = "up"
Retell == engine = "retell"
Owned(c) == owner # NoOne /\ c \in {Caller, owner}    \* is_channel_owned

NoJob == [at |-> "idle", bridge |-> "none", leg |-> "none"]

(* a supervisor who listened before has a leg up to take over with *)
Init ==
    /\ \E listening \in SUBSET Supervisors :
           line = [c \in Channels |-> IF c \in listening \union {Caller} THEN "up" ELSE "none"]
    /\ room = [c \in Channels |-> "none"] /\ bridges = {}
    /\ engine \in {"retell", "owen_voice"} /\ session = 1 /\ known = FALSE
    /\ flow = "connect" /\ port = "none"
    /\ job = [s \in Supervisors |-> NoJob]
    /\ owner = NoOne /\ seized = FALSE /\ trespass = "none" /\ faults = 0

-----------------------------------------------------------------------------
(* Asterisk *)

Fault == faults < MaxFaults /\ faults' = faults + 1
NoFault == UNCHANGED faults

Drops(cs) ==                                \* the channels in cs are hung up
    /\ line' = [c \in Channels |-> IF c \in cs /\ Up(c) THEN "gone" ELSE line[c]]
    /\ room' = [c \in Channels |-> IF c \in cs THEN "none" ELSE room[c]]

Destroys(b, cs) ==                          \* the bridge b goes, and the channels in cs
    /\ line' = [c \in Channels |-> IF c \in cs /\ Up(c) THEN "gone" ELSE line[c]]
    /\ room' = [c \in Channels |-> IF c \in cs \/ room[c] = b THEN "none" ELSE room[c]]
    /\ bridges' = bridges \ {b}

(* addChannel takes all or none, out of wherever they are, and refuses a
   channel that is being recorded *)
CanAdd(cs) == \A c \in cs : Up(c) /\ ~(c = Caller /\ flow = "message")

Adds(b, cs) ==
    /\ CanAdd(cs)
    /\ room' = [c \in Channels |-> IF c \in cs THEN b ELSE room[c]]
    /\ bridges' = bridges \union {b}
    /\ UNCHANGED line

Refused(cs) == \/ ~CanAdd(cs) /\ NoFault
               \/ Fault

PartyLeaves(c) ==
    /\ Up(c)
    /\ Drops({c})
    /\ UNCHANGED <<bridges, agent, task, job, ownership, trespass, faults>>

-----------------------------------------------------------------------------
(* The agent session *)

Touches(what) ==
    trespass' = IF Owned(Caller) /\ (trespass = "none" \/ what = "hangup") THEN what ELSE trespass

Connects ==
    /\ flow = "connect" /\ Up(Caller)
    /\ line' = [line EXCEPT ![Leg[session]] = "up"]
    /\ flow' = "join"
    /\ UNCHANGED <<room, bridges, agent, port, job, ownership, trespass, faults>>

ConnectFails ==
    /\ flow = "connect"
    /\ port' = "failed" /\ flow' = "teardown"
    /\ UNCHANGED <<asterisk, agent, job, ownership, trespass, faults>>

Joins ==
    /\ flow = "join"
    /\ Adds(Talk[session], {Caller, Leg[session]})
    /\ Touches("bridge")
    /\ known' = ~Retell
    /\ flow' = "store"
    /\ UNCHANGED <<engine, session, port, job, ownership, faults>>

(* owen-voice's _teardown hangs up the caller as well *)
JoinFails ==
    /\ flow = "join"
    /\ Refused({Caller, Leg[session]})
    /\ IF Retell
       THEN UNCHANGED <<line, room, trespass>>
       ELSE /\ Drops({Caller, Leg[session]})
            /\ IF Up(Caller) THEN Touches("hangup") ELSE UNCHANGED trespass
    /\ port' = "failed" /\ flow' = "teardown"
    /\ UNCHANGED <<bridges, agent, job, ownership>>

Stores ==                                   \* best effort
    /\ flow = "store"
    /\ known' \in IF Retell THEN BOOLEAN ELSE {TRUE}
    /\ flow' = "talking"
    /\ UNCHANGED <<asterisk, engine, session, port, job, ownership, trespass, faults>>

PortAsAsked(asked) == IF port = "taken_over" THEN port ELSE asked   \* mutant of PortOf

(* Retell looks at the ownership, owen-voice was told by stop_session *)
PortOf(asked) == IF port = "taken_over" \/ (Retell /\ owner # NoOne)
                 THEN "taken_over" ELSE asked

(* The exit tool of a turn, or a recogniser that dies, writes over the port a stop
   has left, as long as nobody has read it. *)
Overwrites == ~Retell /\ port' \in {"transfer", "complete", "failed"} /\ seized' = FALSE

(* a hangup on either side, the cap *)
SessionEnds ==
    /\ flow = "talking"
    /\ \/ port' \in {PortOf("complete"), PortOf("default")} /\ UNCHANGED seized
       \/ Overwrites
    /\ flow' = "teardown"
    /\ UNCHANGED <<asterisk, agent, job, owner, trespass, faults>>

(* Retell's exit tool: the port is settled, and the last words get their grace;
   nobody asks again whose call it is. *)
AsksToLeave ==
    /\ flow = "talking" /\ Retell
    /\ port' \in {PortOf("transfer"), PortOf("complete")}
    /\ flow' = IF port' = "taken_over" THEN "teardown" ELSE "grace"
    /\ UNCHANGED <<asterisk, agent, job, ownership, trespass, faults>>

GraceEnds ==
    /\ flow = "grace" /\ flow' = "teardown"
    /\ UNCHANGED <<asterisk, agent, port, job, ownership, trespass, faults>>

Spared == Retell /\ owner # NoOne

TearsDown ==
    /\ flow = "teardown"
    /\ IF Spared
       THEN flow' = "route" /\ UNCHANGED <<line, room>>
       ELSE flow' = "unbridge" /\ Drops({Leg[session]})
    /\ UNCHANGED <<bridges, agent, port, job, ownership, trespass, faults>>

Unbridges ==
    /\ flow = "unbridge"
    /\ Destroys(Talk[session], {})
    /\ flow' = "route"
    /\ UNCHANGED <<agent, port, job, ownership, trespass, faults>>

-----------------------------------------------------------------------------
(* What the flow does with the port *)

(* the agent that takes a caller back is refused its transfer function *)
MayTransfer == port = "transfer" /\ session = 1

Routes ==
    /\ flow = "route"
    /\ flow' \in IF port = "taken_over" THEN {"stood down"}
                 ELSE IF MayTransfer THEN {"dial", "edge"}
                 ELSE {"edge"}
    /\ port' = IF port = "taken_over" THEN port ELSE "none"
    /\ known' = FALSE
    /\ UNCHANGED <<asterisk, engine, session, job, ownership, trespass, faults>>

Dials ==                                    \* hold music, originate
    /\ flow = "dial"
    /\ IF Up(Caller) THEN Touches("play") ELSE UNCHANGED trespass
    /\ flow' = "ringing"
    /\ UNCHANGED <<asterisk, agent, port, job, ownership, faults>>

DeskAnswers ==
    /\ flow = "ringing"
    /\ line' = [line EXCEPT ![Desk] = "up"]
    /\ flow' = "joindesk"
    /\ UNCHANGED <<room, bridges, agent, port, job, ownership, trespass, faults>>

DialFails ==
    /\ flow = "ringing"
    /\ flow' = "undialed"
    /\ UNCHANGED <<asterisk, agent, port, job, ownership, trespass, faults>>

JoinsDesk ==
    /\ flow = "joindesk"
    /\ Adds("desk", {Caller, Desk})
    /\ Touches("bridge")
    /\ flow' = "desktalk"
    /\ UNCHANGED <<agent, port, job, ownership, faults>>

JoinDeskFails ==
    /\ flow = "joindesk"
    /\ Refused({Caller, Desk})
    /\ Drops({Desk})
    /\ flow' = "undialed"
    /\ UNCHANGED <<bridges, agent, port, job, ownership, trespass>>

DeskTalkEnds ==
    /\ flow = "desktalk"
    /\ Destroys("desk", {Desk})
    /\ flow' = "parting"
    /\ UNCHANGED <<agent, port, job, ownership, trespass, faults>>

(* _return_to_agent: the same agent takes the caller back *)
Returns ==
    /\ flow = "undialed" /\ Retell
    /\ session' = session + 1
    /\ flow' = "connect"
    /\ UNCHANGED <<asterisk, engine, known, port, job, ownership, trespass, faults>>

GivesUp ==                                  \* the caller left, or no second session
    /\ flow = "undialed" /\ (Retell => ~Up(Caller))
    /\ flow' = "edge"
    /\ UNCHANGED <<asterisk, agent, port, job, ownership, trespass, faults>>

FollowsEdge ==                              \* the graph, its fallback, or a hangup
    /\ flow = "edge"
    /\ flow' \in {"greet", "hangup"}
    /\ UNCHANGED <<asterisk, agent, port, job, ownership, trespass, faults>>

Greets ==                                   \* play_and_wait checks, then makes the speech
    /\ flow = "greet"
    /\ flow' = IF Owned(Caller) THEN "record" ELSE "play"
    /\ UNCHANGED <<asterisk, agent, port, job, ownership, trespass, faults>>

Plays ==
    /\ flow = "play"
    /\ IF Up(Caller) THEN Touches("play") ELSE UNCHANGED trespass
    /\ flow' = "record"
    /\ UNCHANGED <<asterisk, agent, port, job, ownership, faults>>

Records ==                                  \* refused for a channel in a bridge
    /\ flow = "record"
    /\ \/ /\ Up(Caller) /\ room[Caller] = "none"
          /\ Touches("record") /\ flow' = "message" /\ NoFault
       \/ /\ ~Up(Caller) \/ room[Caller] # "none"
          /\ flow' = "hangup" /\ UNCHANGED trespass /\ NoFault
       \/ flow' = "hangup" /\ UNCHANGED trespass /\ Fault
    /\ UNCHANGED <<asterisk, agent, port, job, ownership>>

MessageEnds ==
    /\ flow = "message"
    /\ flow' = "hangup"
    /\ UNCHANGED <<asterisk, agent, port, job, ownership, trespass, faults>>

LeavesCallerUp == flow = "hangup" /\ ~Owned(Caller)       \* mutant of ReleasesCaller

HangsUpUnasked == flow \in {"hangup", "parting"}          \* another: nobody asks whose call it is

(* the conversation with the desk, or the flow, is over: hangup, if allowed *)
ReleasesCaller == /\ flow \in {"hangup", "parting"}
                  /\ ~Owned(Caller)

HangsUp ==
    /\ flow \in {"hangup", "parting"}
    /\ IF ReleasesCaller
       THEN Drops({Caller}) /\ Touches("hangup")
       ELSE UNCHANGED <<line, room, trespass>>
    /\ flow' = "done"
    /\ UNCHANGED <<bridges, agent, port, job, ownership, faults>>

-----------------------------------------------------------------------------
(* A take-over *)

Live == IF Retell
        THEN flow \in {"connect", "join", "store", "talking", "grace", "teardown", "unbridge"}
        ELSE Up(Leg[session])

Goes(s, at) == job' = [job EXCEPT ![s].at = at]
Ends(s, at) == job' = [job EXCEPT ![s] = [NoJob EXCEPT !.at = at]]

Asks(s) ==                                  \* queue_takeover
    /\ job[s].at = "idle" /\ Live
    /\ job' = [job EXCEPT ![s] =
                 [at |-> "queued",
                  bridge |-> IF known THEN Talk[session] ELSE "none",
                  leg |-> IF known \/ ~Retell THEN Leg[session] ELSE "none"]]
    /\ UNCHANGED <<asterisk, agent, task, ownership, trespass, faults>>

(* only owen-voice has a session to stop; the request may fail *)
Stops(s) ==
    /\ job[s].at = "queued"
    /\ IF ~Retell /\ Live /\ flow \in {"join", "store", "talking"}
       THEN \/ port' = "taken_over" /\ NoFault
            \/ UNCHANGED port /\ Fault
       ELSE UNCHANGED <<port, faults>>
    /\ Goes(s, "claim")
    /\ UNCHANGED <<asterisk, agent, flow, ownership, trespass>>

ClaimUnchecked(s) == TRUE                   \* mutant of MayClaim

MayClaim(s) == owner \in {NoOne, s}

StandingDown == IF Retell THEN flow = "talking"
                ELSE port = "taken_over" /\ flow \notin {"connect", "join"}

Claims(s) ==                                \* ownership.claim
    /\ job[s].at = "claim" /\ MayClaim(s)
    /\ owner' = s /\ seized' = StandingDown
    /\ Goes(s, "eject")
    /\ UNCHANGED <<asterisk, agent, task, trespass, faults>>

ClaimRefused(s) ==
    /\ job[s].at = "claim" /\ ~MayClaim(s)
    /\ Ends(s, "refused")
    /\ UNCHANGED <<asterisk, agent, task, ownership, trespass, faults>>

EjectsUnclaimed(s) == {}                    \* mutant of ToEject: the agent's leg claimed too

ToEject(s) == {job[s].leg} \ {"none"}

Ejects(s) ==
    /\ job[s].at = "eject"
    /\ \/ Drops(ToEject(s)) /\ NoFault
       \/ UNCHANGED <<line, room>> /\ Fault
    /\ Goes(s, IF job[s].bridge = "none" THEN "open" ELSE "join")
    /\ UNCHANGED <<bridges, agent, task, ownership, trespass>>

Opens(s) ==
    /\ job[s].at = "open"
    /\ \/ /\ bridges' = bridges \union {"own"}
          /\ job' = [job EXCEPT ![s].at = "add", ![s].bridge = "own"] /\ NoFault
       \/ Ends(s, "failed") /\ UNCHANGED bridges /\ Fault
    /\ UNCHANGED <<line, room, agent, task, ownership, trespass>>

AddsCaller(s) ==                            \* the answer is not looked at
    /\ job[s].at = "add"
    /\ \/ Adds(job[s].bridge, {Caller}) /\ NoFault
       \/ Refused({Caller}) /\ UNCHANGED asterisk
    /\ Goes(s, "join")
    /\ UNCHANGED <<agent, task, ownership, trespass>>

AddsOperator(s) ==
    /\ job[s].at = "join"
    /\ job[s].bridge \in bridges
    /\ Adds(job[s].bridge, {s})
    /\ Ends(s, "ok")
    /\ UNCHANGED <<agent, task, ownership, trespass, faults>>

OperatorRefused(s) ==
    /\ job[s].at = "join"
    /\ \/ job[s].bridge \notin bridges /\ NoFault
       \/ Refused({s})
    /\ Ends(s, "failed")
    /\ UNCHANGED <<asterisk, agent, task, ownership, trespass>>

-----------------------------------------------------------------------------

FlowStep ==
    \/ Connects \/ ConnectFails \/ Joins \/ JoinFails \/ Stores \/ SessionEnds
    \/ AsksToLeave \/ GraceEnds \/ TearsDown \/ Unbridges \/ Routes \/ Dials \/ DeskAnswers \/ DialFails
    \/ JoinsDesk \/ JoinDeskFails \/ DeskTalkEnds \/ Returns \/ GivesUp
    \/ FollowsEdge \/ Greets \/ Plays \/ Records \/ MessageEnds \/ HangsUp

JobStep(s) ==
    \/ Stops(s) \/ Claims(s) \/ ClaimRefused(s) \/ Ejects(s) \/ Opens(s)
    \/ AddsCaller(s) \/ AddsOperator(s) \/ OperatorRefused(s)

Next ==
    \/ FlowStep
    \/ \E s \in Supervisors : JobStep(s) \/ Asks(s)
    \/ \E c \in Channels : PartyLeaves(c)

Spec == Init /\ [][Next]_vars

-----------------------------------------------------------------------------
JobStates == {"idle", "queued", "claim", "refused", "eject", "open", "add", "join", "ok", "failed"}
Jobs == [at : JobStates, bridge : Bridges \union {"none"}, leg : {Leg[1], Leg[2], "none"}]

(* Types of the variables; the agent takes a caller back at most once. *)
TypeOK ==
    /\ line \in [Channels -> {"none", "up", "gone"}]
    /\ room \in [Channels -> Bridges \union {"none"}]
    /\ bridges \subseteq Bridges
    /\ engine \in {"retell", "owen_voice"} /\ session \in 1..2 /\ known \in BOOLEAN
    /\ flow \in {"connect", "join", "store", "talking", "grace", "teardown", "unbridge",
                 "route", "dial", "ringing", "joindesk", "desktalk", "parting",
                 "undialed", "edge", "greet", "play", "record", "message", "hangup",
                 "stood down", "done"}
    /\ port \in {"none", "failed", "transfer", "complete", "default", "taken_over"}
    /\ job \in [Supervisors -> Jobs]
    /\ owner \in Supervisors \union {NoOne} /\ seized \in BOOLEAN
    /\ trespass \in {"none", "bridge", "play", "record", "hangup"}
    /\ faults \in 0..MaxFaults

(* A take-over that succeeded, of a call in conversation whose session had not
   settled on its port, none of whose requests was lost *)
HandedOver(s) == job[s].at = "ok" /\ seized /\ faults = 0

Together(c, d) == room[c] = room[d] /\ room[c] # "none"


(* Once a take-over of a call in conversation reports success, the agent neither
   hears the caller nor speaks to them, whatever the request knew of the session
   when it was made; and with Retell the caller and the human share a bridge for
   as long as both are on the line: nothing the flow was still doing (its
   teardown, a transfer, a voicemail) parts them. *)
HumanHasCaller ==
    /\ TypeOK
    /\ \A s \in Supervisors : HandedOver(s) =>
           /\ \A n \in 1..2 : ~Together(Caller, Leg[n])
           /\ Retell /\ Up(Caller) /\ Up(s) => Together(Caller, s)

(* A call claimed in conversation, before the session settled on its port, is left
   alone from then on, by every path the flow could still take: it is never
   played to, recorded, bridged or hung up, and the flow comes to an end without
   routing the caller anywhere.  A claim that comes later, in the grace of an exit
   or behind the port owen-voice wrote over the stop, has no such promise: the flow
   goes on to the transfer. *)
StandsDown ==
    seized => /\ trespass = "none"
              /\ flow \in {"store", "talking", "teardown", "unbridge", "route", "stood down"}

(* Whenever the claim came, in the exit's grace, the transfer or the voicemail, the
   flow that goes on never hangs the claimed caller up -- but for owen-voice's
   teardown of a media leg that could not be bridged. *)
HungUpByNobody == Retell => trespass # "hangup"

(* Of two supervisors who seize one call, one gets it: the other neither
   displaces the first nor ends up in the caller's bridge. *)
OneOwner ==
    \A s \in Supervisors :
        /\ job[s].at \in {"eject", "open", "add", "join", "ok", "failed"} => owner = s
        /\ Together(Caller, s) => owner = s

(* What a supervisor who takes a call over gets: the caller, and alone. *)
SeizedByOne == HumanHasCaller /\ OneOwner

(* One supervisor has the caller, the flow is out of the way, or at least lets the
   caller's line alone. *)
SupervisorPrevails == SeizedByOne /\ StandsDown /\ HungUpByNobody

(* A call nobody owns is not forgotten: when the flow is over and no take-over is
   on its way, the caller's line has been released, or a human has it. *)
TakeoverComing == \E s \in Supervisors : job[s].at \in {"queued", "claim"}
CallerNotStranded ==
    flow \in {"stood down", "done"} /\ ~TakeoverComing => ~Up(Caller) \/ Owned(Caller)
=============================================================================
