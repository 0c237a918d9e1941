----------------------------- MODULE EventRouter ----------------------------
(***************************************************************************)
(* How the worker takes in one event of Asterisk's: workers/               *)
(* asterisk_consumer.py `_handle` over the AsteriskEventRouter of          *)
(* providers/asterisk.py.  An event of a channel first goes to the task    *)
(* that watches the channel, then becomes a status of the call it belongs  *)
(* to, and a caller's entry into our app starts a flow.                    *)
(*                                                                         *)
(* Every leg a call can have is here, because telling them apart is the    *)
(* router's work: a caller and the leg a flow dials for them; an           *)
(* operator's softphone and the person they call; the person an AI agent   *)
(* calls.  Which of them the router can tell depends on ari.conf.          *)
(***************************************************************************)
EXTENDS Naturals, Sequences

CONSTANTS
    Caller, Dialled,   \* an inbound call, and the leg its flow dials
    Op, Callee,        \* a softphone call: the operator, and whom they call
    Agents,            \* an AI agent's calls, each named after its only leg
    MaxFaults          \* bound: failures of a request, a commit or the socket

Legs == {Caller, Dialled, Op, Callee} \union Agents

(* Channels have different ids. *)
ASSUME LegsAssumption ==
    /\ Caller \notin {Dialled, Op, Callee} \union Agents
    /\ Dialled \notin {Op, Callee} \union Agents
    /\ Op \notin {Callee} \union Agents /\ Callee \notin Agents

VARIABLES
    channelvars,       \* ari.conf exports the channel variables (deploy-time)
    line,              \* state of each channel
    seen,              \* AsteriskEventRouter._seen
    row,               \* highest rank filed for each call, by linkedid
    flows,             \* legs a flow was started on
    missed,            \* history: legs one of whose events was lost or not filed
    faults

router == <<seen, row, flows, missed>>

Live == {"ringing", "up", "stasis"}
Down(p) == line[p] \notin Live
Event(p, what) == [who |-> p, what |-> what]

(* A request, a commit or an event goes wrong. *)
Fault == faults < MaxFaults /\ faults' = faults + 1
NoFault == UNCHANGED faults

RouterInit ==
    /\ channelvars \in BOOLEAN
    /\ line = [p \in Legs |-> "none"]
    /\ seen = {} /\ row = [p \in Legs |-> 0] /\ flows = {} /\ missed = {}
    /\ faults = 0

-----------------------------------------------------------------------------
(* What an event says of itself *)

linkedid(p) ==                        \* `originator` links a leg to its call's
    IF channelvars /\ p = Callee THEN Op
    ELSE IF channelvars /\ p = Dialled THEN Caller ELSE p

is_entry_channel(p) == p = linkedid(p)
is_flow_dial_leg(p) == p = Dialled                 \* its id says so
is_agent_outbound_leg(p) == p \in Agents           \* its id says so
is_outbound_leg(p) == channelvars /\ p \in {Op, Callee} \union Agents

Rank(what) == CASE what = "stasis" -> 1 [] what = "up" -> 3 [] what = "gone" -> 4

FiledForEveryLeg(p, what) == <<linkedid(p), what>> \notin seen   \* mutant of Routed

(* AsteriskEventRouter.route keeps this event *)
Routed(p, what) ==
    /\ is_entry_channel(p) /\ ~is_flow_dial_leg(p)
    /\ <<linkedid(p), what>> \notin seen

StartsUnlessOutbound(p, what) ==                   \* mutant of StartsFlow
    what = "stasis" /\ is_entry_channel(p) /\ ~is_flow_dial_leg(p) /\ ~is_outbound_leg(p)

StartsFlow(p, what) ==
    /\ what = "stasis"
    /\ is_entry_channel(p) /\ ~is_flow_dial_leg(p)
    /\ ~is_outbound_leg(p) /\ ~is_agent_outbound_leg(p)

Files(p, what) ==
    /\ row' = [row EXCEPT ![linkedid(p)] = IF @ < Rank(what) THEN Rank(what) ELSE @]
    /\ flows' = IF StartsFlow(p, what) THEN flows \union {p} ELSE flows
    /\ UNCHANGED missed /\ NoFault

(* ingest_status_event raises: the event is marked seen and gone for good,
   with the flow it would have started *)
FailsToFile(p) == Fault /\ missed' = missed \union {p} /\ UNCHANGED <<row, flows>>

Route(p, what) ==
    IF Routed(p, what)
    THEN /\ seen' = seen \union {<<linkedid(p), what>>}
         /\ Files(p, what) \/ FailsToFile(p)
    ELSE UNCHANGED router /\ NoFault

(* Nobody reads the socket: the worker is down, or is reconnecting. *)
Unheard(p) == missed' = missed \union {p} /\ UNCHANGED <<seen, row, flows>>

(* The router lives in the worker's memory. *)
RouterForgets == seen' = {} /\ UNCHANGED <<row, flows, missed>>

RouterTypeOK ==
    /\ channelvars \in BOOLEAN
    /\ line \in [Legs -> {"none", "gone"} \union Live]
    /\ seen \subseteq Legs \X {"stasis", "up", "gone"}
    /\ row \in [Legs -> 0..4]
    /\ flows \subseteq Legs /\ missed \subseteq Legs
    /\ faults \in 0..MaxFaults
=============================================================================
