---------------------------- MODULE OutboundCall ----------------------------
(***************************************************************************)
(* Calls OWEN places: an AI agent's, because a person asked for it         *)
(* (agents/outbound_call.py), and an operator's from the softphone         *)
(* (AsteriskAriClient.run_outbound_call).                                  *)
(*                                                                         *)
(* A request passes its guards, is written down in one settings row and    *)
(* queued.  The worker's handler only starts a task and completes; the     *)
(* task rings the legs, watches them answer and hang up, and takes         *)
(* everything down.  The same worker reads Asterisk's events, and its      *)
(* router decides what each leg is (EventRouter).  A worker that dies      *)
(* takes its tasks along, never the channels.                              *)
(*                                                                         *)
(* A behaviour has agent requests racing at the door (their calls are not  *)
(* followed), or one agent call, or one softphone call, or one caller.     *)
(***************************************************************************)
EXTENDS QueueWorker, EventRouter

CONSTANTS
    Manual,       \* the softphone call's job
    DailyMax      \* AGENT_OUTBOUND_DAILY_MAX

ASSUME OutboundAssumption ==
    /\ Jobs = Agents \union {Manual} /\ Manual \notin Agents /\ IsFiniteSet(Agents)
    /\ DailyMax \in Nat /\ MaxFaults \in Nat

VARIABLES
    kind,         \* "door", "agent", "manual" or "inbound"
    door,         \* how far each agent request has come
    sameNumber,   \* the requests are to one number, within REPEAT_MINUTES
    earlier,      \* calls placed today before these
    logged,       \* the settings row was there when this began
    log,          \* the attempts of these requests written in it
    lock,         \* requests holding the row's lock (FOR UPDATE)
    entries,      \* what each request read in it
    run,          \* where each call's task is
    heard,        \* its queue of watched events
    up,           \* softphone call: the leg that is awaited
    talking,      \* legs in the softphone call's bridge
    told,         \* agent calls whose end was reported to the CRM
    owned,        \* agent calls a supervisor took over (ownership.py)
    kept,         \* history: legs left up, as their hangup failed or a
                  \*   supervisor has them
    rings         \* history: times each leg was rung

doorVars == <<door, log, lock, entries>>
setup    == <<kind, sameNumber, earlier, logged, channelvars>>
task     == <<run, heard, up, talking, told, owned>>
asterisk == <<line, router, faults>>
vars == <<workerVars, doorVars, setup, task, asterisk, kept, rings>>

Running == {"begin", "ring", "answered", "agent", "unanswered", "consent", "bridge",
            "talk", "drop", "hangup"}
Listening == {"begin", "ring", "consent", "bridge", "talk"}
LegsOf(j) == IF j = Manual THEN {Op, Callee} ELSE {j}
Task(p) == IF p \in {Op, Callee} THEN Manual ELSE p

(* The events its task waits for: an answer shows twice, and is heard once. *)
Watched(p, what) ==
    /\ p \in Agents \union {Op, Callee}
    /\ run[Task(p)] \in Listening
    /\ what = "stasis" => p \in missed

Init ==
    /\ WorkerInit /\ RouterInit
    /\ kind \in {"door", "agent", "manual", "inbound"}
    /\ door = [j \in Agents |-> "none"]
    /\ sameNumber \in BOOLEAN
    /\ logged \in BOOLEAN /\ earlier \in IF logged THEN 0..DailyMax ELSE {0}
    /\ kind # "door" => ~sameNumber /\ ~logged
    /\ kind = "door" => channelvars
    /\ log = {} /\ lock = {} /\ entries = [j \in Agents |-> {}]
    /\ run = [j \in Jobs |-> "none"] /\ heard = [j \in Jobs |-> <<>>]
    /\ up = Op /\ talking = {} /\ told = {} /\ owned = {}
    /\ kept = {} /\ rings = [p \in Legs |-> 0]

-----------------------------------------------------------------------------
(* The door: place() *)

(* every guard that needs no lock *)
Asks(j) ==
    /\ door[j] = "none"
    /\ kind = "door" \/ (kind = "agent" /\ \A k \in Agents : door[k] = "none")
    /\ door' = [door EXCEPT ![j] = "asked"]
    /\ UNCHANGED <<workerVars, log, lock, entries, setup, task, asterisk, kept, rings>>

RowThere == logged \/ log # {}

(* DbStore.log(lock=True): only a row that is there can be locked. *)
ReadsUnlocked(j) ==                                \* mutant of ReadsLog
    /\ door[j] = "asked"
    /\ door' = [door EXCEPT ![j] = "read"]
    /\ entries' = [entries EXCEPT ![j] = log]
    /\ UNCHANGED <<workerVars, log, lock, setup, task, asterisk, kept, rings>>

ReadsLog(j) ==
    /\ door[j] = "asked"
    /\ RowThere => lock = {}
    /\ lock' = IF RowThere THEN {j} ELSE lock
    /\ entries' = [entries EXCEPT ![j] = log]
    /\ door' = [door EXCEPT ![j] = "read"]
    /\ UNCHANGED <<workerVars, log, setup, task, asterisk, kept, rings>>

used_today(j) == earlier + Cardinality(entries[j])
called_recently(j) == sameNumber /\ entries[j] # {}

Decides(j, verdict) ==
    /\ door' = [door EXCEPT ![j] = verdict]
    /\ lock' = lock \ {j}

(* the cap, the repeat rule, or the spend cap; also a session that fails *)
Refuses(j) ==
    /\ door[j] = "read"
    /\ Decides(j, "refused")
    /\ UNCHANGED <<workerVars, log, entries, setup, task, asterisk, kept, rings>>

(* DbStore.record and the job, in one commit.  The row is looked for again: it
   may be there by now, and is overwritten with what this request read. *)
Records(j) ==
    /\ door[j] = "read"
    /\ used_today(j) < DailyMax /\ ~called_recently(j)
    /\ Decides(j, "placed")
    /\ log' = entries[j] \union {j}
    /\ Submit(j)
    /\ UNCHANGED <<entries, setup, task, asterisk, kept, rings>>

(* the softphone's and the CRM's call buttons *)
PlacesCall ==
    /\ kind = "manual"
    /\ Submit(Manual)
    /\ UNCHANGED <<doorVars, setup, task, asterisk, kept, rings>>

-----------------------------------------------------------------------------
(* The worker: handle_outbound_call, handle_agent_outbound_call *)

Claims(j) ==
    /\ kind # "door" /\ ClaimFor(j, "spawn")
    /\ UNCHANGED <<doorVars, setup, task, asterisk, kept, rings>>

StartsTask ==
    /\ at = "spawn"
    /\ Advance("complete") /\ UNCHANGED tableVars
    /\ run' = [run EXCEPT ![cur] = "begin"]
    /\ heard' = [heard EXCEPT ![cur] = <<>>]       \* dtmf.watch
    /\ up' = Op
    /\ UNCHANGED <<doorVars, setup, talking, told, owned, asterisk, kept, rings>>

Completes ==
    /\ at = "complete"
    /\ Completed
    /\ UNCHANGED <<doorVars, setup, task, asterisk, kept, rings>>

WorkerDies ==
    /\ kind # "door" /\ Died
    /\ run' = [j \in Jobs |-> IF run[j] \in Running THEN "lost" ELSE run[j]]
    /\ heard' = [j \in Jobs |-> <<>>]
    /\ owned' = {}                                 \* in memory
    /\ RouterForgets
    /\ UNCHANGED <<doorVars, setup, up, talking, told, line, faults, kept, rings>>

WorkerReturns ==
    /\ Restarted
    /\ UNCHANGED <<doorVars, setup, task, asterisk, kept, rings>>

-----------------------------------------------------------------------------
(* Asterisk and the people on the phones *)

(* One event, read by the worker at once or by nobody. *)
Raises(p, what) ==
    \/ /\ at # "down" /\ Route(p, what)
       /\ heard' = IF Watched(p, what)
                   THEN [heard EXCEPT ![Task(p)] = Append(@, Event(p, what))] ELSE heard
    \/ /\ at = "down" /\ Unheard(p) /\ NoFault /\ UNCHANGED heard
    \/ /\ at # "down" /\ Unheard(p) /\ Fault /\ UNCHANGED heard

Others == UNCHANGED <<workerVars, doorVars, setup, run, up, told, owned, kept>>

Picks(p) ==
    /\ line[p] = "ringing" /\ p # Caller
    /\ line' = [line EXCEPT ![p] = "up"]
    /\ Raises(p, "up")
    /\ UNCHANGED <<talking, rings>> /\ Others

Enters(p) ==
    /\ line[p] = "up" /\ p # Caller
    /\ line' = [line EXCEPT ![p] = "stasis"]
    /\ Raises(p, "stasis")
    /\ UNCHANGED <<talking, rings>> /\ Others

Leaves(p) ==
    /\ line' = [line EXCEPT ![p] = "gone"]
    /\ talking' = talking \ {p}
    /\ Raises(p, "gone")

(* hangs up, declines, is busy, rings out *)
PartyLeaves(p) ==
    /\ ~Down(p)
    /\ Leaves(p) /\ UNCHANGED rings /\ Others

(* an inbound call enters our app before it is answered *)
CallerRings ==
    /\ kind = "inbound" /\ line[Caller] = "none"
    /\ line' = [line EXCEPT ![Caller] = "ringing"]
    /\ Raises(Caller, "stasis")
    /\ UNCHANGED <<talking, rings>> /\ Others

(* its flow answers, then dials a leg into our app *)
FlowAnswers ==
    /\ Caller \in flows /\ at # "down" /\ line[Caller] = "ringing"
    /\ line' = [line EXCEPT ![Caller] = "up"]
    /\ Raises(Caller, "up")
    /\ UNCHANGED <<talking, rings>> /\ Others

FlowDials ==
    /\ Caller \in flows /\ at # "down" /\ line[Caller] = "up" /\ line[Dialled] = "none"
    /\ line' = [line EXCEPT ![Dialled] = "ringing"]
    /\ UNCHANGED <<router, faults, heard, talking, rings>> /\ Others

-----------------------------------------------------------------------------
(* Steps the two tasks share *)

At(j, step) == run[j] = step /\ at # "down"
Goes(j, step) == run' = [run EXCEPT ![j] = step]

(* with the events left in its queue, which it drops when it stops watching *)
Turns(j, step, left) ==
    /\ Goes(j, step)
    /\ heard' = [heard EXCEPT ![j] = IF step \in Listening THEN left ELSE <<>>]

(* ARI originates under the id it is given, unless a channel has it already;
   the answer to the request can be lost. *)
Originates(p, accepted) ==
    \/ /\ accepted /\ NoFault /\ Down(p)
       /\ line' = [line EXCEPT ![p] = "ringing"] /\ rings' = [rings EXCEPT ![p] = @ + 1]
    \/ /\ ~accepted /\ NoFault /\ ~Down(p) /\ UNCHANGED <<line, rings>>
    \/ /\ ~accepted /\ Fault /\ UNCHANGED <<line, rings>>
    \/ /\ ~accepted /\ Fault /\ Down(p)
       /\ line' = [line EXCEPT ![p] = "ringing"] /\ rings' = [rings EXCEPT ![p] = @ + 1]

Delete(p) ==
    \/ ~Down(p) /\ Leaves(p) /\ UNCHANGED kept
    \/ Down(p) /\ UNCHANGED <<line, talking, heard, router, faults, kept>>
    \/ ~Down(p) /\ Fault /\ kept' = kept \union {p}
       /\ UNCHANGED <<line, talking, heard, router>>

IsGone(e, p) == e = Event(p, "gone")
Answers(e, p) == e.who = p /\ e.what \in {"up", "stasis"}
Hears(j) == heard[j] # <<>>
Rest(j) == Tail(heard[j])

Elsewhere == UNCHANGED <<workerVars, doorVars, setup>>

-----------------------------------------------------------------------------
(* An agent's call: run_call *)

AgentRings(j) ==
    /\ At(j, "begin") /\ j \in Agents
    /\ \/ Originates(j, TRUE) /\ Turns(j, "ring", heard[j])
       \/ Originates(j, FALSE) /\ Turns(j, "unanswered", <<>>)
    /\ UNCHANGED <<up, talking, told, owned, router, kept>> /\ Elsewhere

AgentHears(j) ==
    /\ At(j, "ring") /\ j \in Agents /\ Hears(j)
    /\ LET e == Head(heard[j]) IN
       IF Answers(e, j) THEN Turns(j, "agent", <<>>)
       ELSE IF IsGone(e, j) THEN Turns(j, "unanswered", <<>>)
       ELSE Turns(j, "ring", Rest(j))
    /\ UNCHANGED <<up, talking, told, owned, asterisk, kept, rings>> /\ Elsewhere

GivesUpOnTheGone(j) ==                             \* mutant of AgentGivesUp
    /\ At(j, "ring") /\ j \in Agents /\ Down(j)
    /\ Turns(j, "unanswered", <<>>)
    /\ UNCHANGED <<up, talking, told, owned, asterisk, kept, rings>> /\ Elsewhere

AgentGivesUp(j) ==                                 \* the ring's deadline
    /\ At(j, "ring") /\ j \in Agents
    /\ Turns(j, "unanswered", <<>>)
    /\ UNCHANGED <<up, talking, told, owned, asterisk, kept, rings>> /\ Elsewhere

Tells(j) ==
    \/ told' = told \union {j} /\ NoFault
    \/ UNCHANGED told /\ Fault

ReportsUnanswered(j) ==
    /\ At(j, "unanswered")
    /\ Tells(j) /\ Goes(j, "hangup")
    /\ UNCHANGED <<heard, up, talking, owned, line, router, kept, rings>> /\ Elsewhere

(* runtime.run_agent_on_call: the conversation ends, and is reported; with
   _provider_id's failure before it there is neither. *)
AgentFinishes(j) ==
    /\ At(j, "agent")
    /\ Tells(j) /\ Goes(j, "hangup")
    /\ UNCHANGED <<heard, up, talking, owned, line, router, kept, rings>> /\ Elsewhere

SupervisorTakes(j) ==
    /\ At(j, "agent") /\ j \notin owned
    /\ owned' = owned \union {j}
    /\ UNCHANGED <<run, heard, up, talking, told, asterisk, kept, rings>> /\ Elsewhere

LeavesItRinging(j) ==                              \* mutant of AgentHangsUp
    /\ At(j, "hangup")
    /\ IF j \in told THEN UNCHANGED <<line, talking, heard, router, faults, kept>>
       ELSE Delete(j)
    /\ Goes(j, "over")
    /\ UNCHANGED <<up, told, owned, rings>> /\ Elsewhere

AgentHangsUp(j) ==
    /\ At(j, "hangup")
    /\ IF j \in owned
       THEN kept' = kept \union {j} /\ UNCHANGED <<line, talking, heard, router, faults>>
       ELSE Delete(j)
    /\ Goes(j, "over")
    /\ UNCHANGED <<up, told, owned, rings>> /\ Elsewhere

-----------------------------------------------------------------------------
(* The softphone call: run_outbound_call *)

ToDrop == Turns(Manual, "drop", <<>>) /\ up' = Callee

Rings ==
    /\ At(Manual, "begin")
    /\ \/ Originates(up, TRUE) /\ Turns(Manual, "ring", heard[Manual]) /\ UNCHANGED up
       \/ Originates(up, FALSE) /\ ToDrop
    /\ UNCHANGED <<talking, told, owned, router, kept>> /\ Elsewhere

Keeps(step) == Turns(Manual, step, Rest(Manual)) /\ UNCHANGED up

(* _await_channel_up; once the operator is up, their hangup ends the wait *)
HearsRinging ==
    /\ At(Manual, "ring") /\ Hears(Manual)
    /\ LET e == Head(heard[Manual]) IN
       IF Answers(e, Op) /\ up = Op
       THEN Turns(Manual, "begin", Rest(Manual)) /\ up' = Callee
       ELSE IF Answers(e, up) THEN Keeps("consent")
       ELSE IF IsGone(e, up) \/ (up = Callee /\ IsGone(e, Op)) THEN ToDrop
       ELSE Keeps("ring")
    /\ UNCHANGED <<talking, told, owned, asterisk, kept, rings>> /\ Elsewhere

RingTimesOut ==
    /\ At(Manual, "ring") /\ ToDrop
    /\ UNCHANGED <<talking, told, owned, asterisk, kept, rings>> /\ Elsewhere

(* _play_consent_or_leg_gone: the notice ends, cannot play or overruns; when an
   event arrives in the same wake-up, only one of the two is seen. *)
NoticeEnds ==
    /\ At(Manual, "consent")
    /\ \/ Hears(Manual) /\ Keeps("bridge")
       \/ Turns(Manual, "bridge", heard[Manual]) /\ UNCHANGED up
    /\ UNCHANGED <<talking, told, owned, asterisk, kept, rings>> /\ Elsewhere

HearsUntilGone(step) ==
    /\ At(Manual, step) /\ Hears(Manual)
    /\ IF Head(heard[Manual]).what = "gone" THEN ToDrop ELSE Keeps(step)
    /\ UNCHANGED <<talking, told, owned, asterisk, kept, rings>> /\ Elsewhere

HearsDuringNotice == HearsUntilGone("consent")

(* create_bridge and add_to_bridge: ARI takes both legs or neither *)
CanBridge == line[Op] = "stasis" /\ line[Callee] = "stasis"

Bridges ==
    /\ At(Manual, "bridge")
    /\ \/ CanBridge /\ NoFault /\ talking' = {Op, Callee}
          /\ Turns(Manual, "talk", heard[Manual]) /\ UNCHANGED up
       \/ CanBridge /\ Fault /\ talking' = {Op, Callee} /\ ToDrop
       \/ UNCHANGED talking /\ ToDrop /\ (Fault \/ (~CanBridge /\ NoFault))
    /\ UNCHANGED <<told, owned, line, router, kept, rings>> /\ Elsewhere

HearsTalk == HearsUntilGone("talk")                \* _await_bridge_end

TalkTimesOut ==
    /\ At(Manual, "talk") /\ ToDrop
    /\ UNCHANGED <<talking, told, owned, asterisk, kept, rings>> /\ Elsewhere

DropsOperatorOnly ==                               \* mutant of Drops
    /\ At(Manual, "drop") /\ Delete(Op) /\ Goes(Manual, "over")
    /\ UNCHANGED <<up, told, owned, rings>> /\ Elsewhere

(* the finally: the callee's leg, then the operator's; the bridge with them *)
Drops ==
    /\ At(Manual, "drop") /\ Delete(up)
    /\ IF up = Callee THEN up' = Op /\ UNCHANGED run
       ELSE Goes(Manual, "over") /\ UNCHANGED up
    /\ UNCHANGED <<told, owned, rings>> /\ Elsewhere

-----------------------------------------------------------------------------

DoorStep == \E j \in Agents : ReadsLog(j) \/ Records(j) \/ Refuses(j)

WorkerStep == StartsTask \/ Completes \/ WorkerReturns \/ \E j \in Jobs : Claims(j)

AgentStep(j) ==
    \/ AgentRings(j) \/ AgentHears(j) \/ AgentGivesUp(j) \/ ReportsUnanswered(j)
    \/ AgentFinishes(j) \/ AgentHangsUp(j)

ManualStep ==
    \/ Rings \/ HearsRinging \/ RingTimesOut \/ NoticeEnds \/ HearsDuringNotice
    \/ Bridges \/ HearsTalk \/ TalkTimesOut \/ Drops

World ==
    \/ PlacesCall \/ WorkerDies \/ CallerRings \/ FlowAnswers \/ FlowDials
    \/ \E j \in Agents : Asks(j) \/ SupervisorTakes(j)
    \/ \E p \in Legs : Picks(p) \/ Enters(p) \/ PartyLeaves(p)

Next == DoorStep \/ WorkerStep \/ ManualStep \/ World \/ \E j \in Agents : AgentStep(j)

Spec == Init /\ [][Next]_vars

(* Requests and tasks run on (every wait has a deadline), the worker drains
   its queue and is restarted; of the people nothing is asked. *)
FairSpec ==
    /\ Spec
    /\ WF_vars(DoorStep) /\ WF_vars(WorkerStep) /\ WF_vars(ManualStep)
    /\ \A j \in Agents : WF_vars(AgentStep(j))

-----------------------------------------------------------------------------
(* Types of the variables. *)
TypeOK ==
    /\ WorkerTypeOK({"spawn", "complete"}) /\ RouterTypeOK
    /\ kind \in {"door", "agent", "manual", "inbound"}
    /\ door \in [Agents -> {"none", "asked", "read", "placed", "refused"}]
    /\ sameNumber \in BOOLEAN /\ logged \in BOOLEAN /\ earlier \in 0..DailyMax
    /\ log \subseteq Agents /\ lock \subseteq Agents
    /\ entries \in [Agents -> SUBSET Agents]
    /\ run \in [Jobs -> Running \union {"none", "lost", "over"}]
    /\ heard \in [Jobs -> Seq([who : Legs, what : {"up", "stasis", "gone"}])]
    /\ up \in {Op, Callee} /\ talking \subseteq {Op, Callee}
    /\ told \subseteq Agents /\ owned \subseteq Agents /\ kept \subseteq Legs
    /\ rings \in [Legs -> Nat]

Placed == {j \in Agents : door[j] = "placed"}

(* An agent's calls keep to their limits whatever requests race: no more a day
   than the cap, none twice to one number inside the repeat window, none
   uncounted.  It takes the settings row to be there: the deployment's very
   first requests have nothing to lock, and one may overwrite the other. *)
CapsHold ==
    /\ TypeOK
    /\ logged =>
        /\ earlier + Cardinality(Placed) <= DailyMax
        /\ sameNumber => Cardinality(Placed) <= 1
        /\ Placed = log

(* A call that is over leaves nobody on the line, whatever was lost on the
   way: not the person called, not the operator, not a leg that was rung by a
   request thought to have failed, not one that answered after the deadline.
   Only a supervisor keeps a call.  And nobody is rung twice for one request,
   unless the worker died in the instant before the job was completed. *)
CallsEndClean ==
    \A j \in Jobs :
        /\ run[j] = "over" => \A p \in LegsOf(j) : Down(p) \/ p \in kept
        /\ \A p \in LegsOf(j) : rings[p] <= 1 + crashes

(* Only a caller is ever put through a flow: never a leg a flow dialled, nor
   an agent's call, not even when ari.conf exports no variables; and with them
   exported neither is any leg of a softphone call.  *)
FlowsAreCallers ==
    /\ flows \subseteq {Caller, Op, Callee}
    /\ channelvars => flows \subseteq {Caller}
    /\ line[Caller] # "none" /\ Caller \notin missed => Caller \in flows

(* One call is one record, and it ends with the call: no second leg is filed
   as a call of its own, and a leg that is gone was filed as ended unless its
   event was lost or could not be stored. *)
FiledAsOne ==
    /\ row[Dialled] = 0
    /\ channelvars => row[Callee] = 0
    /\ \A p \in Legs : line[p] = "gone" /\ is_entry_channel(p) /\ p # Dialled /\ p \notin missed
                       => row[p] = 4

(* How the router tells legs apart. *)
RoutedRight == FlowsAreCallers /\ FiledAsOne

Over(j) == run[j] = "over" /\ (j \in Agents => j \in told)

(* Every request is decided, and every call that is placed comes to its end and
   is reported, unless its worker died or the report was lost. *)
EveryCallEnds ==
    <>[](/\ \A j \in Agents : door[j] \in {"none", "placed", "refused"}
         /\ \A j \in Jobs : phase[j] # "absent" /\ kind # "door" =>
                Over(j) \/ (run[j] = "lost" /\ crashes > 0)
                        \/ (run[j] = "over" /\ faults > 0))
=============================================================================
