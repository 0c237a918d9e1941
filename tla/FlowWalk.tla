------------------------------ MODULE FlowWalk ------------------------------
(***************************************************************************)
(* Call flows: the library an operator edits (api/flows.py, api/numbers.py,*)
(* flows/validator.py, flows/service.py), the resolution of a number to a  *)
(* version and its pin (flows/runtime.py), the walk of one call through    *)
(* the version's graph (flows/interpreter.py), the agent's transfers, and  *)
(* the safety net under all of it.                                         *)
(*                                                                         *)
(* A graph is a record: nodes, a function from node ids to [type, next,    *)
(* bad], where next maps the wired ports to node ids and bad says that the *)
(* handler cannot use the node's settings; and fallback, a node id or      *)
(* Nowhere.  Prompts, variables, recordings and events are left out, but   *)
(* not the failures of the writes that record them.                        *)
(***************************************************************************)
EXTENDS Naturals, Sequences, FiniteSets

CONSTANTS
    Flows, NoFlow,
    Numbers,      \* DIDs on the Asterisk platform
    Nowhere,      \* no node
    Graphs,       \* what an operator may save
    Libraries,    \* libraries to start from: from some flows to their graph
    Lines,        \* which flow answers which number at the start: functions
    Nets,         \* whether FLOW_FALLBACK_FORWARD_NUMBER is set
    Transfers,    \* allowed transfers: sequences of "number" or <<"flow">>
    TransferTo,   \* the number whose flow a "flow" transfer runs
    MaxSteps,     \* FlowInterpreter.max_steps
    MaxVersions,  \* bound: versions of one flow
    MaxEdits,     \* bound: edits of the library
    MaxFaults     \* bound: failed database writes and lost ARI requests

Terminal == {"voicemail", "hangup"}
Digits == {"1", "2"}
Allowed(type) ==
    CASE type \in {"entry", "play", "voicemail", "set_vars", "send_sms"} -> {"default"}
      [] type = "hours" -> {"open", "closed"}
      [] type = "conditions" -> {"row", "else"}
      [] type = "request" -> {"success", "failure"}
      [] type = "menu" -> Digits \union {"timeout", "invalid", "default"}
      [] type = "dial" -> {"answered", "noanswer", "busy", "failed"}
      [] type = "ai_agent" -> {"default", "transfer", "complete", "failed"}
      [] OTHER -> {}

Entries(g) == {n \in DOMAIN g.nodes : g.nodes[n].type = "entry"}

(* The hard errors of validate_graph; its warnings (unwired ports, cycles,
   unreachable nodes) do not block an activation. *)
Valid(g) ==
    /\ Cardinality(Entries(g)) = 1
    /\ \A n \in DOMAIN g.nodes :
          LET next == g.nodes[n].next IN
          /\ DOMAIN next \subseteq Allowed(g.nodes[n].type)
          /\ \A port \in DOMAIN next : next[port] \in DOMAIN g.nodes
    /\ g.fallback \in DOMAIN g.nodes \union {Nowhere}

ASSUME FlowWalkAssumption ==
    /\ NoFlow \notin Flows
    /\ \A library \in Libraries :
          /\ DOMAIN library \subseteq Flows
          /\ \A f \in DOMAIN library : Valid(library[f])
          /\ \A lines \in Lines : lines \in [Numbers -> DOMAIN library \union {NoFlow}]
    /\ Transfers \subseteq Seq({"number", "flow"}) \ {<<>>}
    /\ TransferTo \in Numbers /\ Nets \subseteq BOOLEAN
    /\ MaxSteps \in Nat \ {0} /\ MaxVersions \in Nat \ {0}
    /\ MaxEdits \in Nat /\ MaxFaults \in Nat

VARIABLES
    row,       \* flows: "none", "kept", "archived" or "deleted"
    versions,  \* flow_versions: the graphs of each flow, append-only
    active,    \* flows.active_version_id: an index of versions, 0 for NULL
    line,      \* numbers.flow_id
    plan,      \* a DELETE of a flow that has read and not yet written
    edits,
    at,        \* where the call is
    caller,    \* "ringing", "waiting", "talking", "human", "elsewhere", "gone"
    dialed,    \* the number the call came in on
    using,     \* the version the runtime resolved
    pinned,    \* calls.flow_version_id
    walk,      \* the interpreter: [graph, node, step, fallback]
    nested,    \* the walk is a flow the agent transferred the caller into
    agent,     \* the agent: [engine, left: transfer legs to try, again]
    reason,    \* flow.call.summary's "ended"
    net,       \* the safety net's number is configured
    lost,      \* the request to hang the caller up was lost
    faults

libraryVars == <<row, versions, active, line>>
deskVars    == <<libraryVars, plan, edits>>
walkVars    == <<walk, nested, agent>>
callVars    == <<at, caller, dialed, using, pinned, walkVars, reason, lost>>
vars        == <<deskVars, callVars, net, faults>>

Unpinned == [flow |-> NoFlow, version |-> 0]
NoPlan   == [flow |-> NoFlow, outcome |-> "none"]
NoAgent  == [engine |-> "none", left |-> <<>>, again |-> FALSE]
NoWalk   == [graph |-> Nowhere, node |-> Nowhere, step |-> 0, fallback |-> Nowhere]

Init ==
    /\ \E library \in Libraries :
          /\ versions = [f \in Flows |-> IF f \in DOMAIN library THEN <<library[f]>> ELSE <<>>]
          /\ active = [f \in Flows |-> IF f \in DOMAIN library THEN 1 ELSE 0]
          /\ line \in Lines
          /\ row \in [Flows -> {"kept", "archived", "none"}]
          /\ \A f \in Flows : /\ row[f] = "none" <=> f \notin DOMAIN library
                              /\ row[f] = "archived" => \A n \in Numbers : line[n] # f
    /\ plan = NoPlan /\ edits = 0
    /\ at = "idle" /\ caller = "ringing" /\ dialed \in Numbers
    /\ using = Unpinned /\ pinned = Unpinned
    /\ walk = NoWalk /\ nested = FALSE /\ agent = NoAgent
    /\ reason = "none" /\ net \in Nets /\ lost = FALSE /\ faults = 0

-----------------------------------------------------------------------------
(* The library: api/flows.py, api/numbers.py assign_flow *)

Edit ==
    /\ edits < MaxEdits /\ edits' = edits + 1
    /\ UNCHANGED <<callVars, net, faults>>

Exists(f) == row[f] \in {"kept", "archived"}

(* save_version: nothing is validated, and max + 1 is unique per flow. *)
Save(f) ==
    /\ Edit /\ Exists(f) /\ Len(versions[f]) < MaxVersions
    /\ \E g \in Graphs : versions' = [versions EXCEPT ![f] = Append(@, g)]
    /\ UNCHANGED <<row, active, line, plan>>

ActivateAnything(f) ==                  \* mutant of Activate: no validation
    /\ Edit /\ Exists(f)
    /\ \E v \in DOMAIN versions[f] : active' = [active EXCEPT ![f] = v]
    /\ UNCHANGED <<row, versions, line, plan>>

Activate(f) ==
    /\ Edit /\ Exists(f)
    /\ \E v \in DOMAIN versions[f] :
          /\ Valid(versions[f][v])
          /\ active' = [active EXCEPT ![f] = v]
    /\ UNCHANGED <<row, versions, line, plan>>

(* clone_flow: the active version, else the latest, as a draft of its own. *)
Clone(f, copy) ==
    /\ Edit /\ Exists(f) /\ row[copy] = "none" /\ versions[f] # <<>>
    /\ row' = [row EXCEPT ![copy] = "kept"]
    /\ versions' = [versions EXCEPT ![copy] =
           <<versions[f][IF active[f] # 0 THEN active[f] ELSE Len(versions[f])]>>]
    /\ UNCHANGED <<active, line, plan>>

(* An archived flow with an active version is accepted. *)
Assign(n, f) ==
    /\ Edit /\ Exists(f) /\ active[f] # 0
    /\ line' = [line EXCEPT ![n] = f]
    /\ UNCHANGED <<row, versions, active, plan>>

Unassign(n) ==
    /\ Edit /\ line[n] # NoFlow
    /\ line' = [line EXCEPT ![n] = NoFlow]
    /\ UNCHANGED <<row, versions, active, plan>>

Assigned(f) == \E n \in Numbers : line[n] = f
Attributed(f) == pinned.flow = f

(* delete_flow decides on what it reads, and writes afterwards. *)
PlanDelete(f) ==
    /\ Edit /\ Exists(f) /\ plan = NoPlan /\ ~Assigned(f)
    /\ plan' = [flow |-> f, outcome |-> IF Attributed(f) THEN "archived" ELSE "deleted"]
    /\ UNCHANGED libraryVars

(* The foreign keys of numbers and calls refuse the rows' removal. *)
Referenced(f) == Assigned(f) \/ Attributed(f)

DeleteOnPlan ==                         \* mutant of Delete: no foreign keys
    LET f == plan.flow IN
    /\ plan # NoPlan /\ plan' = NoPlan
    /\ row' = [row EXCEPT ![f] = plan.outcome]
    /\ versions' = IF plan.outcome = "deleted" THEN [versions EXCEPT ![f] = <<>>] ELSE versions
    /\ active' = IF plan.outcome = "deleted" THEN [active EXCEPT ![f] = 0] ELSE active
    /\ UNCHANGED <<line, edits, callVars, net, faults>>

Delete ==
    LET f == plan.flow IN
    /\ plan # NoPlan /\ plan' = NoPlan
    /\ \/ /\ plan.outcome = "archived"
          /\ row' = [row EXCEPT ![f] = "archived"]
          /\ UNCHANGED <<versions, active>>
       \/ /\ plan.outcome = "deleted" /\ ~Referenced(f)
          /\ row' = [row EXCEPT ![f] = "deleted"]
          /\ versions' = [versions EXCEPT ![f] = <<>>]
          /\ active' = [active EXCEPT ![f] = 0]
       \/ plan.outcome = "deleted" /\ Referenced(f) /\ UNCHANGED <<row, versions, active>>
    /\ UNCHANGED <<line, edits, callVars, net, faults>>

Unarchive(f) ==                         \* restore_flow
    /\ Edit /\ row[f] = "archived"
    /\ row' = [row EXCEPT ![f] = "kept"]
    /\ UNCHANGED <<versions, active, line, plan>>

Operator ==
    \/ \E f \in Flows : Save(f) \/ Activate(f) \/ PlanDelete(f) \/ Unarchive(f)
    \/ \E f, copy \in Flows : Clone(f, copy)
    \/ \E n \in Numbers, f \in Flows : Assign(n, f)
    \/ \E n \in Numbers : Unassign(n)
    \/ Delete

-----------------------------------------------------------------------------
(* flows/runtime.py run_flow_for_stasis: which graph answers *)

Fails == faults < MaxFaults /\ faults' = faults + 1
Works == faults' = faults

(* _resolve_active_flow_version, for the number n. *)
Runnable(n) == line[n] # NoFlow /\ active[line[n]] # 0
Resolved(n) == versions[line[n]][active[line[n]]]

(* The interpreter at the entry node of g. *)
Start(g) ==
    [graph |-> g, step |-> 0,
     fallback |-> IF g.fallback \in DOMAIN g.nodes THEN g.fallback ELSE Nowhere,
     node |-> IF Entries(g) = {} THEN Nowhere ELSE CHOOSE n \in Entries(g) : TRUE]

Resolve ==
    /\ at = "idle"
    /\ \/ /\ Works /\ Runnable(dialed)
          /\ walk' = Start(Resolved(dialed))
          /\ using' = [flow |-> line[dialed], version |-> active[line[dialed]]]
          /\ at' = "pin" /\ UNCHANGED caller
       \/ /\ Works /\ line[dialed] = NoFlow    \* the CRM line or the ring group
          /\ at' = "done" /\ caller' = "elsewhere" /\ UNCHANGED <<walk, using>>
       \/ /\ Works /\ line[dialed] # NoFlow /\ ~Runnable(dialed)
          /\ at' = "net" /\ UNCHANGED <<caller, walk, using>>
       \/ Fails /\ at' = "net" /\ UNCHANGED <<caller, walk, using>>
    /\ UNCHANGED <<deskVars, dialed, pinned, nested, agent, reason, net, lost>>

(* _pin_flow_version: once, its failure swallowed; the foreign key refuses a
   version that is gone. *)
Pin ==
    /\ at = "pin" /\ at' = "node"
    /\ \/ /\ Works
          /\ pinned' = IF Exists(using.flow) THEN using ELSE pinned
       \/ Fails /\ UNCHANGED pinned
    /\ UNCHANGED <<deskVars, caller, dialed, using, walkVars, reason, net, lost>>

-----------------------------------------------------------------------------
(* flows/interpreter.py _run_graph *)

Node == walk.graph.nodes[walk.node]
On(type) == at = "node" /\ walk.step < MaxSteps /\ walk.node \in DOMAIN walk.graph.nodes
            /\ Node.type = type
Quiet == UNCHANGED <<deskVars, dialed, using, pinned, net>>

(* A walk an agent transferred the caller into ends the outer one too, which
   stands down. *)
End(r) ==
    /\ at' = "done" /\ reason' = (IF nested THEN "transferred" ELSE r)
    /\ agent' = NoAgent /\ UNCHANGED <<walk, nested>>

HangUpWith(r) == at' = "hang" /\ reason' = r /\ agent' = NoAgent /\ UNCHANGED <<walk, nested>>

GoToUncounted(n, left) ==               \* mutant of GoTo: step is not counted
    /\ walk' = [walk EXCEPT !.node = n, !.fallback = left]
    /\ at' = "node" /\ agent' = NoAgent /\ UNCHANGED <<nested, reason>>

GoTo(n, left) ==
    /\ walk' = [walk EXCEPT !.node = n, !.fallback = left, !.step = @ + 1]
    /\ at' = "node" /\ agent' = NoAgent /\ UNCHANGED <<nested, reason>>

(* _fall: the flow's fallback, once. *)
Fall(r) ==
    IF walk.fallback # Nowhere THEN GoTo(walk.fallback, Nowhere) ELSE HangUpWith(r)

DropUnrouted(port) ==                   \* mutant of Follow: leaves without a hang-up
    IF port \in DOMAIN Node.next THEN GoTo(Node.next[port], walk.fallback)
    ELSE IF walk.fallback # Nowhere THEN GoTo(walk.fallback, Nowhere)
    ELSE End("unrouted_hangup")

Follow(port) ==
    IF port \in DOMAIN Node.next THEN GoTo(Node.next[port], walk.fallback)
    ELSE Fall(IF Node.type = "dial" /\ port = "answered" THEN "dial_completed"
              ELSE "unrouted_hangup")

(* A loop reached its limit, or an edge leads nowhere. *)
Stray ==
    /\ at = "node"
    /\ \/ walk.step >= MaxSteps /\ HangUpWith("max_steps")
       \/ /\ walk.step < MaxSteps /\ walk.node \notin DOMAIN walk.graph.nodes
          /\ IF walk.node = Nowhere THEN HangUpWith("no_entry") ELSE Fall("dangling_edge")
    /\ Works /\ Quiet /\ UNCHANGED <<caller, lost>>

(* The entry event of a node is not guarded: its failure ends the run. *)
Crashes ==
    /\ at = "node" /\ ~nested /\ walk.step < MaxSteps
    /\ walk.node \in DOMAIN walk.graph.nodes
    /\ Fails /\ at' = "net" /\ reason' = "error"
    /\ Quiet /\ UNCHANGED <<caller, walkVars, lost>>

Passes(type) ==
    /\ On(type) /\ \E port \in Allowed(type) : Follow(port)
    /\ Works /\ Quiet /\ UNCHANGED lost

Answers  == Passes("entry") /\ caller' = IF caller = "ringing" THEN "waiting" ELSE caller
Plays    == Passes("play") /\ UNCHANGED caller
Sets     == Passes("set_vars") /\ UNCHANGED caller       \* and unset_vars
Texts    == Passes("send_sms") /\ UNCHANGED caller       \* sent by a task of its own
Opens    == Passes("hours") /\ UNCHANGED caller
Matches  == Passes("conditions") /\ UNCHANGED caller     \* the first row that holds
Requests == Passes("request") /\ UNCHANGED caller

(* read_digit: a digit pressed during the prompt or after it, or none. *)
Pressed == Digits \union {"none"}

MenuPort(d) ==                          \* no digit; a wired digit; another one
    CASE d = "none" -> "timeout"
      [] d # "none" /\ d \notin DOMAIN Node.next /\ "invalid" \in DOMAIN Node.next -> "invalid"
      [] OTHER -> d

Asks ==
    /\ On("menu") /\ ~Node.bad
    /\ \E d \in Pressed : Follow(MenuPort(d))
    /\ Works /\ Quiet /\ UNCHANGED <<caller, lost>>

(* An exception, or a target that resolves to nothing: no port fits. *)
Unusable ==
    /\ \E type \in {"menu", "dial"} : On(type) /\ Node.bad /\ Follow("error")
    /\ Works /\ Quiet /\ UNCHANGED <<caller, lost>>

Dials ==
    /\ On("dial") /\ ~Node.bad
    /\ \/ /\ caller = "waiting" /\ caller' = "talking" /\ at' = "dial"
          /\ UNCHANGED <<walkVars, reason>>
       \/ \E port \in {"noanswer", "busy", "failed"} : Follow(port) /\ UNCHANGED caller
    /\ Works /\ Quiet /\ UNCHANGED lost

DialEnds ==
    /\ at = "dial"
    /\ caller' = IF caller = "talking" THEN "waiting" ELSE caller
    /\ Follow("answered")
    /\ Works /\ Quiet /\ UNCHANGED lost

(* A request to hang up: an owned call is left alone, and nothing is retried. *)
Release ==
    \/ Works /\ caller' = (IF caller = "human" THEN caller ELSE "gone") /\ UNCHANGED lost
    \/ Fails /\ lost' = TRUE /\ UNCHANGED caller

(* voicemail hangs up whatever happens to the recording; but a node whose
   caps are no numbers fails before it, and terminal nodes end the walk. *)
Terminates ==
    /\ \E type \in Terminal : On(type)
    /\ End("terminal")
    /\ IF Node.bad THEN Works /\ UNCHANGED <<caller, lost>> ELSE Release
    /\ Quiet

HangsUp ==
    /\ at = "hang"
    /\ End(reason) /\ Release /\ Quiet

-----------------------------------------------------------------------------
(* The ai_agent node: runtime.py run_agent_on_call *)

(* A transferred-into flow runs without agents. *)
Greets ==
    /\ On("ai_agent")
    /\ \/ nested /\ Follow("default")
       \/ ~nested /\ Follow("failed")          \* no agent, no version, no leg
       \/ /\ ~nested /\ \E e \in {"retell", "owen_voice"} :
                agent' = [NoAgent EXCEPT !.engine = e]
          /\ at' = "agent" /\ UNCHANGED <<walk, nested, reason>>
    /\ Works /\ Quiet /\ UNCHANGED <<caller, lost>>

(* The session's port (a transfer that names no destination, or a second
   session that never started, is the graph's); a person who seized the call
   keeps it. *)
SessionEnds ==
    /\ at = "agent"
    /\ \/ \E port \in Allowed("ai_agent") : Follow(port) /\ UNCHANGED caller
       \/ caller # "gone" /\ caller' = "human" /\ End("taken_over")
    /\ Works /\ Quiet /\ UNCHANGED lost

AskTransfer ==
    /\ at = "agent" /\ ~agent.again
    /\ \E legs \in Transfers : agent' = [agent EXCEPT !.left = legs]
    /\ at' = "transfer"
    /\ Works /\ Quiet /\ UNCHANGED <<caller, walk, nested, reason, lost>>

(* _agent_transfer_outcome: nobody took the caller.  The next number, else
   back to the agent (Retell's, once, unless the caller is gone or the second
   session does not start), else the graph's transfer port. *)
NotTaken ==
    \/ /\ Len(agent.left) > 1 /\ caller # "gone"
       /\ agent' = [agent EXCEPT !.left = Tail(@)] /\ at' = "transfer"
       /\ UNCHANGED <<walk, nested, reason>>
    \/ /\ Len(agent.left) = 1 \/ caller = "gone"
       /\ \/ Follow("transfer")
          \/ /\ agent.engine = "retell" /\ caller # "gone"
             /\ agent' = [agent EXCEPT !.left = <<>>, !.again = TRUE] /\ at' = "agent"
             /\ UNCHANGED <<walk, nested, reason>>

Rings ==
    /\ at = "transfer" /\ Head(agent.left) = "number"
    /\ \/ caller = "waiting" /\ caller' = "talking" /\ at' = "joined"
          /\ UNCHANGED <<walkVars, reason>>
       \/ NotTaken /\ UNCHANGED caller            \* closed, missed, or sent back to us
    /\ Works /\ Quiet /\ UNCHANGED lost

(* The dial returns when either leg leaves, and the caller is hung up; unless
   the office's platform forwarded the call back to us (bounced_transfer). *)
JoinedEnds ==
    /\ at = "joined"
    /\ \/ Release /\ End("transferred")
       \/ NotTaken /\ caller = "talking" /\ caller' = "waiting" /\ Works /\ UNCHANGED lost
    /\ Quiet

IntoFlow ==
    /\ at = "transfer" /\ Head(agent.left) = "flow"
    /\ \/ /\ Works /\ Runnable(TransferTo)
          /\ walk' = Start(Resolved(TransferTo)) /\ nested' = TRUE
          /\ agent' = NoAgent /\ at' = "node" /\ UNCHANGED reason
       \/ Works /\ ~Runnable(TransferTo) /\ NotTaken
       \/ Fails /\ NotTaken
    /\ Quiet /\ UNCHANGED <<caller, lost>>

-----------------------------------------------------------------------------
(* runtime.py _fallback_forward: answer, dial, and hang up whatever happens. *)

NetForwards ==
    /\ at = "net" /\ net /\ caller \in {"ringing", "waiting"}
    /\ caller' = "talking" /\ at' = "netted"
    /\ Works /\ Quiet /\ UNCHANGED <<walkVars, reason, lost>>

NetEnds ==
    /\ at \in {"net", "netted"}
    /\ at' = "done" /\ Release
    /\ Quiet /\ UNCHANGED <<walkVars, reason>>

CallerLeaves ==
    /\ at # "done" /\ caller \in {"ringing", "waiting", "talking"}
    /\ caller' = "gone"
    /\ Works /\ Quiet /\ UNCHANGED <<at, walkVars, reason, lost>>

-----------------------------------------------------------------------------
Steps == Answers \/ Plays \/ Sets \/ Texts \/ Opens \/ Matches \/ Requests
Interpreter == Stray \/ Crashes \/ Steps \/ Asks \/ Unusable \/ Dials \/ Terminates \/ HangsUp
Agent == Greets \/ SessionEnds \/ AskTransfer \/ Rings \/ IntoFlow
Hangs == DialEnds \/ JoinedEnds \/ NetEnds   \* somebody puts the phone down

Next == Operator \/ Resolve \/ Pin \/ Interpreter \/ Agent \/ Hangs \/ NetForwards \/ CallerLeaves

(* Prompts, digits, dials and sessions are bounded by timeouts, and every
   conversation ends. *)
Fairness == WF_vars(Resolve \/ Pin \/ Interpreter \/ Agent \/ Hangs)

Spec     == Init /\ [][Next]_vars
FairSpec == Spec /\ Fairness

-----------------------------------------------------------------------------
(* Properties *)

TypeOK ==
    /\ row \in [Flows -> {"none", "kept", "archived", "deleted"}]
    /\ \A f \in Flows : /\ active[f] \in 0..Len(versions[f])
                        /\ ~Exists(f) => versions[f] = <<>>
    /\ line \in [Numbers -> Flows \union {NoFlow}]
    /\ at \in {"idle", "pin", "node", "dial", "hang", "agent", "transfer", "joined", "net",
               "netted", "done"}
    /\ caller \in {"ringing", "waiting", "talking", "human", "elsewhere", "gone"}
    /\ walk.step \in 0..MaxSteps

(* Whatever an operator does to the library meanwhile, a number that has a
   flow has one that runs, a call's version outlives the call, and no walk
   ends for a reason validation rules out (no entry, an edge to nowhere). *)
LibraryHolds ==
    /\ TypeOK
    /\ \A n \in Numbers : line[n] # NoFlow => Runnable(n)
    /\ pinned # Unpinned => pinned.version \in DOMAIN versions[pinned.flow]
    /\ reason \notin {"no_entry", "dangling_edge"}

(* Never dead air: when the platform is done with a call, the caller is hung
   up or somebody else has the call.  Only a request lost on its way leaves a
   caller waiting, since no hang-up is ever tried twice, and a terminal node
   that fails before it hangs up: its walk ends as if it had. *)
FailedTerminal ==
    reason \in {"terminal", "transferred"} /\ Node.type \in Terminal /\ Node.bad

NoDeadAir ==
    at = "done" => caller \in {"gone", "human", "elsewhere"} \/ lost \/ FailedTerminal

(* Loops in a graph, transfers that ring from one number to the next and an
   agent that takes the caller back all end. *)
WalkEnds == <>(at = "done")
=============================================================================
