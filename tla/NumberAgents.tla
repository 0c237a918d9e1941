---------------------------- MODULE NumberAgents ----------------------------
(***************************************************************************)
(* Which flow answers a number, and which version of an agent answers the  *)
(* flow: the CRM's assignments and publishes (integrations/crm/numbers.py, *)
(* agent_versions.py), the operators' own edits (api/numbers.py, flows.py, *)
(* agents.py), and the carrier's inventory, polled (workers/bulkvs_sync.py,*)
(* services/number_sync.py).  One number, one agent.                       *)
(*                                                                         *)
(* A request reads, decides and commits in one transaction, and any other  *)
(* transaction may commit between its reads and its commit.  A mapped      *)
(* column is written only when the request changed the value it had read.  *)
(***************************************************************************)
EXTENDS Naturals, Sequences, FiniteSets

CONSTANTS
    Requests,       \* CRM requests that can be served at the same time
    HandBuilt,      \* flows the operators built
    Built,          \* flows the CRM's requests can make
    Nobody,         \* no flow
    MaxVersions,    \* bound on the versions of the agent
    MaxActs,        \* bound on requests, edits and changes at the carrier, of a kind
    MaxCuts         \* bound on requests and polls cut short

VARIABLES
    tn,         \* the numbers row: its flow, and how the carrier sync keeps it
    flows,      \* flow -> none yet, kept, archived or deleted
    memory,     \* app_settings crm_number_assignment:<id>, or NoMemory
    rows,       \* agent_versions of the agent, in order of their version
    active,     \* agents.active_version_id: an index of rows, or 0
    request,    \* what each CRM request has read and decided
    listed,     \* what GET /tnRecord says of the number
    poll,       \* the inventory poll: idle, or the record it fetched
    own,        \* history: the flow the owner last gave the number by hand
    overtaken,  \* history: requests that read before another committed
    raced,      \* history: requests and edits overlapped as OwnersFlowKept excludes
    acts,       \* what was asked so far, of the number and of the agent
    cuts

tnVars    == <<tn, flows, memory, own, raced, overtaken>>
agentVars == <<rows, active>>
numberVars == <<tnVars, agentVars, request, listed, poll, acts, cuts>>

Flow  == HandBuilt \cup Built \cup {Nobody}
Subjects == {"number", "agent", "inventory"}   \* a behaviour is about one of them
CrmVersions == {1, 2}
Statuses == {"Active", "SUBMITTED", "gone"}
NoMemory == [flow |-> Nobody, previous |-> Nobody, kept |-> FALSE]
Idle     == [at |-> "idle"]

-----------------------------------------------------------------------------
(* What may be answered by a flow, and which flows can run. *)

Assignable ==                              \* assignable_reason
    tn.known /\ tn.active /\ tn.media /\ tn.status = "Active"
Runs(f) == f # Nobody /\ flows[f] = "kept"

(* The ORM writes the column only when its value differs from the one read. *)
Written(now, read, new) == IF new = read THEN now ELSE new

Parked ==
    /\ tn = [known |-> FALSE, ours |-> TRUE, active |-> FALSE, media |-> FALSE,
             status |-> "gone", flow |-> Nobody]
    /\ flows = [f \in HandBuilt \cup Built |-> "none"]
    /\ memory = NoMemory /\ rows = <<>> /\ active = 0
    /\ request = [r \in Requests |-> Idle]
    /\ listed = "gone" /\ poll = Idle /\ own = Nobody /\ raced = FALSE /\ overtaken = {}
    /\ acts = [about \in Subjects |-> MaxActs] /\ cuts = MaxCuts

(* A number the carrier lists, answered by an operator's flow or by none; when
   the inventory is asked about, perhaps another provider's row from before it
   was ported, or none yet. *)
NumbersInit ==
    /\ \E about \in Subjects :
        /\ acts = [[s \in Subjects |-> MaxActs] EXCEPT ![about] = 0]
        /\ \E known, ours \in BOOLEAN, f \in {Nobody} \cup HandBuilt :
            /\ (known /\ ours) \/ (about = "inventory" /\ (known \/ ours) /\ f = Nobody)
            /\ tn = [known |-> known, ours |-> ours, active |-> known,
                     media |-> known /\ ours, status |-> "Active", flow |-> f]
    /\ own = tn.flow
    /\ flows = [f \in HandBuilt \cup Built |-> IF f \in HandBuilt THEN "kept" ELSE "none"]
    /\ memory = NoMemory
    /\ rows = <<[crm |-> 0, body |-> "good"]>> /\ active = 1
    /\ request = [r \in Requests |-> Idle]
    /\ listed = "Active" /\ poll = Idle /\ raced = FALSE /\ overtaken = {}
    /\ cuts = 0

Act(about) == acts[about] < MaxActs /\ acts' = [acts EXCEPT ![about] = @ + 1]

-----------------------------------------------------------------------------
(* PUT and DELETE /api/crm-link/numbers/{id}/assignment. *)

Pending == {r \in Requests : request[r].at \in {"assign", "unassign"}}
Overlaps(r) == r \in overtaken \/ Pending \ {r} # {}

(* r commits what it read: for those that have read as well it comes between. *)
Overtakes(r, unclear) ==
    /\ raced' = \/ raced \/ (unclear /\ Overlaps(r))
                \/ r \in overtaken /\ Pending \ {r} # {}
                \/ (Pending \ {r}) \intersect overtaken # {}
    /\ overtaken' = (overtaken \union Pending) \ {r}

Reads(r) == overtaken' = overtaken \ {r} /\ UNCHANGED <<tn, flows, memory, own, raced>>

HandBuiltNow == tn.flow # Nobody /\ tn.flow # memory.flow

PreviousAnyhow ==                          \* mutant of PreviousFlow: whatever runs now
    tn.flow
PreviousFlow == IF HandBuiltNow THEN tn.flow ELSE memory.previous

(* assign: refuses a number no flow can answer, and a hand-built flow unless
   asked to replace it; re-versions its own flow, or makes one. *)
ReadsAssign(r, replace) ==
    /\ request[r].at = "idle" /\ Act("number")
    /\ Assignable
    /\ HandBuiltNow => replace
    /\ \E f \in Built :
        /\ IF memory.kept /\ flows[memory.flow] = "kept" THEN f = memory.flow
           ELSE /\ flows[f] = "none"                 \* a fresh id
                /\ \A q \in Requests : request[q].at = "assign" => request[q].flow # f
        /\ request' = [request EXCEPT ![r] =
                [at |-> "assign", flow |-> f, read |-> tn.flow, previous |-> PreviousFlow,
                 new |-> flows[f] = "none"]]
    /\ Reads(r)
    /\ UNCHANGED <<agentVars, listed, poll, cuts>>

Deleted(f) == f # Nobody /\ flows[f] = "deleted"

Assigns(r) ==
    /\ request[r].at = "assign"
    /\ LET q == request[r] IN
        /\ q.new \/ ~Deleted(q.flow)
        \* uq_flow_version: two re-versions of one flow take the same number
        /\ request' = [s \in Requests |->
                IF s = r THEN Idle
                ELSE IF request[s].at = "assign" /\ request[s].flow = q.flow
                     THEN [at |-> "refused"] ELSE request[s]]
        /\ flows' = IF q.new THEN [flows EXCEPT ![q.flow] = "kept"] ELSE flows
        /\ tn' = [tn EXCEPT !.flow = Written(@, q.read, q.flow)]
        /\ memory' = [flow |-> q.flow, previous |-> q.previous, kept |-> TRUE]
    /\ Overtakes(r, FALSE)
    /\ UNCHANGED <<agentVars, listed, poll, own, acts, cuts>>

(* The flow to re-version was deleted meanwhile: nothing of it is committed. *)
AssignFails(r) ==
    /\ request[r].at = "assign" /\ ~request[r].new /\ Deleted(request[r].flow)
    /\ request' = [request EXCEPT ![r] = [at |-> "refused"]]
    /\ UNCHANGED <<tnVars, agentVars, listed, poll, acts, cuts>>

RestoreAny(f) == f                         \* mutant of Restored
Restored(f) == IF Runs(f) THEN f ELSE Nobody

(* unassign: puts the flow before it back if it can still run, leaves a flow
   chosen by hand since, and archives its own. *)
ReadsUnassign(r) ==
    /\ request[r].at = "idle" /\ Act("number")
    /\ memory.kept
    /\ request' = [request EXCEPT ![r] =
            [at |-> "unassign", flow |-> memory.flow, read |-> tn.flow,
             restored |-> IF tn.flow = memory.flow THEN Restored(memory.previous)
                          ELSE tn.flow,
             lost |-> tn.flow = memory.flow /\ ~Runs(own)]]
    /\ Reads(r)
    /\ UNCHANGED <<agentVars, listed, poll, cuts>>

Unassigns(r) ==
    /\ request[r].at = "unassign"
    /\ request' = [request EXCEPT ![r] = Idle]
    /\ LET q == request[r] IN
        IF Deleted(q.restored) /\ q.read = q.flow
        THEN UNCHANGED <<tn, flows, memory, own>>    \* fk_numbers_flow_id
        ELSE /\ tn' = [tn EXCEPT !.flow = Written(@, q.read, q.restored)]
             /\ flows' = IF flows[q.flow] = "kept"
                         THEN [flows EXCEPT ![q.flow] = "archived"] ELSE flows
             /\ memory' = NoMemory
             /\ own' = IF q.read # q.flow THEN q.read
                       ELSE IF q.lost THEN Nobody ELSE own
    /\ Overtakes(r, request[r].read # request[r].flow \/ request[r].lost)
    /\ UNCHANGED <<agentVars, listed, poll, acts, cuts>>

-----------------------------------------------------------------------------
(* POST /api/crm-link/agent-versions. *)

Stored(v) == {i \in 1..Len(rows) : rows[i].crm = v}

(* plan: a version already stored is recognised, or in conflict; a new one is
   validated as activation would, and appended. *)
ReadsPublish(r, v, body, activate) ==
    /\ request[r].at = "idle" /\ Act("agent")
    /\ IF Stored(v) # {} THEN \E i \in Stored(v) : rows[i].body = body
       ELSE body # "bad" /\ Len(rows) < MaxVersions
    /\ request' = [request EXCEPT ![r] =
            [at |-> "publish", row |-> [crm |-> v, body |-> body], read |-> active,
             index |-> IF Stored(v) # {} THEN CHOOSE i \in Stored(v) : TRUE ELSE Len(rows) + 1,
             append |-> Stored(v) = {}, activate |-> activate, tries |-> 1]]
    /\ UNCHANGED <<tnVars, agentVars, listed, poll, cuts>>

AlwaysFree(q) == FALSE                     \* mutant of Taken: no uq_agent_version
Taken(q) == q.append /\ Len(rows) >= q.index

Publishes(r) ==
    /\ request[r].at = "publish"
    /\ ~Taken(request[r])
    /\ LET q == request[r]
           i == IF q.append THEN Len(rows) + 1 ELSE q.index IN
        /\ rows' = IF q.append THEN Append(rows, q.row) ELSE rows
        /\ active' = IF q.activate THEN Written(active, q.read, i) ELSE active
    /\ request' = [request EXCEPT ![r] = Idle]
    /\ UNCHANGED <<tnVars, listed, poll, acts, cuts>>

ReplansAsBefore(q) ==                      \* mutant of Replans: only the number moves
    [q EXCEPT !.index = Len(rows) + 1, !.tries = 2]
Replans(q) ==
    [q EXCEPT !.append = Stored(q.row.crm) = {}, !.tries = 2, !.read = active,
              !.index = IF Stored(q.row.crm) # {} THEN CHOOSE i \in Stored(q.row.crm) : TRUE
                        ELSE Len(rows) + 1]

(* The number was taken: rolled back and, unless reading the agent again fails or
   this was the second try, planned once more; stored by now with another
   content, it is refused. *)
Collides(r) ==
    /\ request[r].at = "publish"
    /\ Taken(request[r])
    /\ LET q == request[r]
           same == \A i \in Stored(q.row.crm) : rows[i].body = q.row.body IN
        \/ q.tries = 1 /\ same /\ request' = [request EXCEPT ![r] = Replans(q)]
        \/ request' = [request EXCEPT ![r] = [at |-> "refused"]]
    /\ UNCHANGED <<tnVars, agentVars, listed, poll, acts, cuts>>

Deactivates ==
    /\ Act("agent") /\ active # 0
    /\ active' = 0
    /\ UNCHANGED <<tnVars, rows, request, listed, poll, cuts>>

Answers(r) ==                              \* an error is answered and the request is over
    /\ request[r].at = "refused"
    /\ request' = [request EXCEPT ![r] = Idle]
    /\ UNCHANGED <<tnVars, agentVars, listed, poll, acts, cuts>>

Dies(r) ==                                 \* nothing of it is committed
    /\ request[r].at \notin {"idle", "refused"} /\ cuts < MaxCuts
    /\ cuts' = cuts + 1
    /\ request' = [request EXCEPT ![r] = Idle]
    /\ UNCHANGED <<tnVars, agentVars, listed, poll, acts>>

Serve(r) ==
    Assigns(r) \/ AssignFails(r) \/ Unassigns(r) \/ Publishes(r) \/ Collides(r) \/ Answers(r)

-----------------------------------------------------------------------------
(* The operators' panel; each of its requests is short enough to be one step. *)

(* PATCH /api/numbers/{id}: a flow that exists and has an active version,
   archived or not, for a number of the platform; or none, always. *)
OperatorAssigns(f) ==
    /\ Act("number") /\ tn.known /\ tn.flow # f
    /\ f # Nobody => tn.media /\ flows[f] \in {"kept", "archived"}
    /\ tn' = [tn EXCEPT !.flow = f]
    \* cleared, or given the CRM's flow again: the assignment and what it remembers stand
    /\ own' = IF memory.kept /\ f \in {memory.flow, Nobody} THEN memory.previous ELSE f
    /\ raced' = (raced \/ Pending # {})
    /\ UNCHANGED <<flows, memory, overtaken, agentVars, request, listed, poll, cuts>>

(* DELETE /api/flows/{id}: refused while it is assigned; kept when calls ran it. *)
OperatorDeletes(f, to) ==
    /\ Act("number") /\ flows[f] = "kept" /\ tn.flow # f
    /\ flows' = [flows EXCEPT ![f] = to]
    /\ raced' = (raced \/ Pending # {})
    /\ UNCHANGED <<tn, memory, own, overtaken, agentVars, request, listed, poll, cuts>>

(* POST .../versions: a draft, of anything. *)
OperatorSaves(body) ==
    /\ Act("agent") /\ Len(rows) < MaxVersions
    /\ rows' = Append(rows, [crm |-> 0, body |-> body])
    /\ UNCHANGED <<tnVars, active, request, listed, poll, cuts>>

ActivatesAny(i) == TRUE                    \* mutant of Valid: saved is good enough
Valid(i) == rows[i].body # "bad"

(* POST .../activate: validation gates the pointer. *)
OperatorActivates(i) ==
    /\ Act("agent") /\ i # active /\ Valid(i)
    /\ active' = i
    /\ UNCHANGED <<tnVars, rows, request, listed, poll, cuts>>

Operator ==
    \/ \E f \in Flow : OperatorAssigns(f)
    \/ \E f \in HandBuilt \cup Built, to \in {"archived", "deleted"} : OperatorDeletes(f, to)
    \/ \E body \in {"good", "bad"} : OperatorSaves(body)
    \/ \E i \in 1..Len(rows) : OperatorActivates(i)

-----------------------------------------------------------------------------
(* The inventory poll. *)

CarrierChanges(to) ==
    /\ Act("inventory") /\ listed' = to /\ to # listed
    /\ UNCHANGED <<tnVars, agentVars, request, poll, cuts>>

(* plan_sync and apply_sync. *)
Inserted(s) == [tn EXCEPT !.known = TRUE, !.active = TRUE, !.media = TRUE, !.status = s]
ReactivatedAsItWas(s) == [tn EXCEPT !.active = TRUE]    \* mutant of InForce: label only
InForce(s) == [tn EXCEPT !.active = TRUE, !.media = TRUE, !.status = s]
Restatused(s) == [tn EXCEPT !.status = s]
SoftReleased == [tn EXCEPT !.active = FALSE]

Synced(s) ==
    CASE ~tn.known /\ s # "gone"                        -> Inserted(s)
      [] tn.known /\ ~tn.ours /\ s # "gone"           -> InForce(s)      \* adopt
      [] tn.known /\ tn.ours /\ ~tn.active /\ s # "gone" -> InForce(s) \* reactivate
      [] tn.known /\ tn.ours /\ tn.active /\ s # "gone"  -> Restatused(s)
      [] tn.known /\ tn.ours /\ tn.active /\ s = "gone"  -> SoftReleased
      [] OTHER                                            -> tn

Fetches ==
    /\ poll = Idle /\ Synced(listed) # tn      \* else the poll changes nothing
    /\ poll' = [at |-> "fetched", record |-> listed]
    /\ UNCHANGED <<tnVars, agentVars, request, listed, acts, cuts>>

FetchFails ==                              \* logged; the next poll asks again
    /\ poll.at = "fetched" /\ cuts < MaxCuts
    /\ cuts' = cuts + 1 /\ poll' = Idle
    /\ UNCHANGED <<tnVars, agentVars, request, listed, acts>>

Applies ==
    /\ poll.at = "fetched"
    /\ tn' = Synced(poll.record)
    /\ poll' = Idle
    /\ UNCHANGED <<flows, memory, own, raced, overtaken, agentVars, request, listed, acts,
                   cuts>>

NumbersNext ==
    \/ \E r \in Requests :
        \/ \E replace \in BOOLEAN : ReadsAssign(r, replace)
        \/ ReadsUnassign(r)
        \/ \E v \in CrmVersions, body \in {"good", "other", "bad"}, activate \in BOOLEAN :
               ReadsPublish(r, v, body, activate)
        \/ Serve(r) \/ Dies(r)
    \/ Deactivates \/ Operator
    \/ \E to \in Statuses : CarrierChanges(to)
    \/ Fetches \/ FetchFails \/ Applies

NumbersSpec == NumbersInit /\ [][NumbersNext]_numberVars

(* Requests are served and the poll goes on; nothing is asked of people. *)
NumbersFairness ==
    /\ \A r \in Requests : WF_numberVars(Serve(r))
    /\ WF_numberVars(Fetches) /\ WF_numberVars(Applies)

-----------------------------------------------------------------------------
NumbersTyped ==
    /\ tn \in [known : BOOLEAN, ours : BOOLEAN, active : BOOLEAN, media : BOOLEAN,
               status : Statuses, flow : Flow]
    /\ flows \in [HandBuilt \cup Built -> {"none", "kept", "archived", "deleted"}]
    /\ memory \in [flow : Flow, previous : Flow, kept : BOOLEAN]
    /\ active \in 0..Len(rows) /\ own \in Flow

(* "taking the assignment away puts the old behaviour back exactly" (numbers.py):
   whatever the order of assignments, removals, deletions and edits by hand, an
   assigned number remembers the flow its owner last gave it, and a number taken
   back runs that flow, unless it is gone -- so long as no edit by hand fell between
   a request's reads and its commit, no request overlapped two others, and no
   removal that found an edit by hand, or nothing to restore, overlapped another. *)
OwnersFlowKept ==
    /\ NumbersTyped
    /\ ~raced =>
        /\ memory.kept /\ tn.flow = memory.flow => memory.previous = own
        /\ ~memory.kept => tn.flow = own

(* "a retried push after a lost response must not leave two rows"
   (agent_versions.py), however pushes and drafts overlap; and what answers calls
   has passed validation. *)
PublishedOnce ==
    /\ \A i, j \in 1..Len(rows) : rows[i].crm = rows[j].crm /\ rows[i].crm # 0 => i = j
    /\ active # 0 => rows[active].body # "bad"

(* The CRM may rearrange who answers; it neither loses what the owner chose nor puts
   anything unvalidated in its place. *)
NumbersAreRight == OwnersFlowKept /\ PublishedOnce

(* In the end requests are answered and the number is in service as the carrier
   lists it: released when it vanished, back with its flow when it returns.  A
   row of another provider is taken into service but never released. *)
Settled ==
    /\ \A r \in Requests : request[r].at = "idle"
    /\ tn.known \/ listed = "gone"
    /\ tn.known /\ tn.ours => tn.active = (listed # "gone")
    /\ tn.known /\ listed # "gone" => tn.active /\ tn.media /\ tn.status = listed
InventorySettles == <>[]Settled
=============================================================================
