------------------------------ MODULE OpenPhone -----------------------------
(***************************************************************************)
(* The mirror of an OpenPhone (Quo) line into the CRM                      *)
(* (integrations/openphone: sync.py, webhook.py, recordings.py, api.py).   *)
(*                                                                         *)
(* Three readers bring the calls and texts of the line: the poll in the    *)
(* worker, the webhook processed in the app, the operator's repair of      *)
(* recordings.  Each records an object in openphone_mirror_rows and queues *)
(* its delivery in one transaction; the worker then posts the delivery to  *)
(* an adapter in the app, which posts it to the CRM under the object's     *)
(* dedupe key.  A part of a call that Quo finishes later (a recording, a   *)
(* transcript) is an object of its own, delivered under the call's key.    *)
(***************************************************************************)
EXTENDS QueueWorker

CONSTANTS
    Posts,      \* bound: times Quo posts one event
    Mixes,      \* bound: the lines explored: what happens, the events ticked at Quo, circumstances
    Strangers,  \* objects of customers in no address book
    MaxFaults   \* bound: failed reads, lost or late answers, worker deaths

Objects == {"call", "text"}
Parts == {"recording", "transcript"}
Things == Objects \union Parts
Deliveries == {"event"} \X Things
Hooks == {"hook"} \X Things \X Posts

ASSUME OpenPhoneAssumption ==
    /\ Jobs = Deliveries \union Hooks
    /\ Mixes \subseteq [on : SUBSET Things, ticked : SUBSET Things,
                        with : SUBSET {"keyless", "twice", "crowd", "repair"}]
    /\ Strangers \subseteq Objects
    /\ Posts \subseteq Nat \ {0} /\ MaxFaults \in Nat

VARIABLES
    mix,       \* which of Mixes this behaviour has
    there,     \* what has happened on the line, as Quo tells it
    aged,      \* objects older than the poll's overlap
    ready,     \* AGENT_RUNTIME_KEY is set
    rows,      \* openphone_mirror_rows
    payload,   \* each delivery: the parts it carries
    queued,    \* each delivery: how many times it was enqueued
    closed,    \* app_settings: the backfill is done
    poll,      \* the tick under way
    hop,       \* the app's adapter routes: requests of the worker
    mine,      \* the one of them the worker waits for
    repair,    \* the recordings command
    filed,     \* the CRM: dedupe keys it has a row for
    noted,     \* the CRM: parts on the call's row
    dropped,   \* deliveries the CRM answered with a 4xx
    swept,     \* history: not mirrored by a clean tick though there at its start
    snubbed,   \* history: objects refused for want of the key
    due,       \* history: hooks about a part that found the call mirrored while the worker waited
    faults     \* (bounded by MaxFaults)

lineVars   == <<mix, there, aged, ready>>
ledgerVars == <<rows, payload, queued, snubbed>>
pollVars   == <<poll, closed, swept>>
hopVars    == <<hop, mine, due>>
crmVars    == <<filed, noted, dropped>>
mirrorVars == <<workerVars, lineVars, ledgerVars, pollVars, hopVars, repair, crmVars, faults>>

crowd == "crowd" \in mix.with                     \* the call had more than two participants

Slots == 0..MaxFaults
NoSlot == MaxFaults + 1
NoHop == [at |-> "idle", job |-> NoJob, thing |-> "none", brings |-> {}]
NoTick == [at |-> "idle", all |-> FALSE, clean |-> TRUE, start |-> {}, todo |-> {}, thing |-> "none", brings |-> {}]
Fault == crashes + faults < MaxFaults /\ faults' = faults + 1

MirrorInit ==
    /\ WorkerInit
    /\ mix \in Mixes /\ there = {} /\ aged = {}
    /\ ready = ("keyless" \notin mix.with)
    /\ rows = {} /\ payload = [x \in Things |-> {}] /\ queued = [x \in Things |-> 0]
    /\ closed = FALSE /\ poll = NoTick /\ swept = {}
    /\ hop = [g \in Slots |-> NoHop] /\ mine = NoSlot /\ due = {}
    /\ repair = "none"
    /\ filed = {} /\ noted = {} /\ dropped = {}
    /\ snubbed = {} /\ faults = 0

-----------------------------------------------------------------------------
(* The line.  A part of a call comes after the call. *)
Happens(x) ==
    /\ x \in mix.on \ there /\ (x \in Parts => "call" \in there)
    /\ there' = there \union {x}
    /\ UNCHANGED <<workerVars, mix, aged, ready, ledgerVars, pollVars, hopVars, repair, crmVars, faults>>

(* An hour passes, which matters to an object not mirrored yet.  Once the
   backfill is closed the poll is never an hour behind: within the hour some tick
   ran without an error on a whole list. *)
Ages(x) ==
    /\ x \in (there \intersect Objects) \ (aged \union rows)
    /\ x \in swept \/ (~closed /\ poll.at = "idle")
    /\ aged' = aged \union {x}
    /\ UNCHANGED <<workerVars, mix, there, ready, ledgerVars, pollVars, hopVars, repair, crmVars, faults>>

KeySet ==                                          \* the operator sets it and restarts
    /\ ~ready /\ ready' = TRUE
    /\ poll' = NoTick
    /\ UNCHANGED <<workerVars, mix, there, aged, ledgerVars, closed, swept, hopVars, repair, crmVars, faults>>

-----------------------------------------------------------------------------
(* _record_and_enqueue: the state row and the delivery in one commit; the loser
   of a race is stopped by the UNIQUE constraint. *)
Forgetful(x) == FALSE                              \* mutant of Duplicate: no UNIQUE (kind, external_id)
Duplicate(x) == x \in rows

Queues(x, parts) ==
    /\ queued' = [queued EXCEPT ![x] = @ + 1]
    /\ payload' = [payload EXCEPT ![x] = parts]
    /\ phase' = [phase EXCEPT ![<<"event", x>>] = "pending"]
    /\ UNCHANGED <<tries, at, cur, crashes>>

RecordAndEnqueue(x, parts) ==
    IF ~ready THEN snubbed' = snubbed \union {x} /\ UNCHANGED <<workerVars, rows, payload, queued>>
    ELSE IF Duplicate(x) THEN UNCHANGED <<workerVars, ledgerVars>>
    ELSE rows' = rows \union {x} /\ Queues(x, parts) /\ UNCHANGED snubbed

(* _call_extras and the question for a recording: what of the call's parts Quo
   has by now; a read that fails is passed over. *)
Extras(found) ==
    /\ found \subseteq there
    /\ IF found = there \intersect Parts THEN UNCHANGED faults ELSE Fault

-----------------------------------------------------------------------------
(* The poll (run_once).  The list of conversations names every customer; when it
   cannot be read, or is cut at the ceiling, only the known ones are asked for. *)
PollStarts ==
    /\ at # "down" /\ poll.at = "idle"
    /\ \/ poll' = [NoTick EXCEPT !.at = "asking", !.all = ~closed, !.start = there \ rows, !.todo = mix.on \intersect Objects]
          /\ UNCHANGED faults
       \/ poll' = [NoTick EXCEPT !.at = "asking", !.all = ~closed, !.clean = FALSE,
                                 !.start = there \ rows, !.todo = (mix.on \intersect Objects) \ Strangers]
          /\ Fault
    /\ UNCHANGED <<workerVars, lineVars, ledgerVars, closed, swept, hopVars, repair, crmVars>>

InWindow(x) == x \in there /\ (poll.all \/ x \notin aged)

PollPasses(x) ==                                   \* nothing new there, or the listing fails
    /\ poll.at = "asking" /\ x \in poll.todo
    /\ \/ (InWindow(x) => x \in rows) /\ poll' = [poll EXCEPT !.todo = @ \ {x}] /\ UNCHANGED faults
       \/ poll' = [poll EXCEPT !.todo = @ \ {x}, !.clean = FALSE] /\ Fault
    /\ UNCHANGED <<workerVars, lineVars, ledgerVars, closed, swept, hopVars, repair, crmVars>>

PollReads(x, found) ==                             \* an object not mirrored yet
    /\ poll.at = "asking" /\ x \in poll.todo /\ InWindow(x) /\ x \notin rows
    /\ poll' = [poll EXCEPT !.at = "read", !.thing = x, !.brings = found]
    /\ UNCHANGED <<workerVars, lineVars, ledgerVars, closed, swept, hopVars, repair, crmVars>>

PollReadsText == PollReads("text", {}) /\ UNCHANGED faults
PollReadsCall == \E found \in SUBSET Parts : PollReads("call", found) /\ Extras(found)

PollRecords ==
    /\ poll.at = "read"
    /\ RecordAndEnqueue(poll.thing, poll.brings)
    /\ poll' = [poll EXCEPT !.at = "asking", !.todo = @ \ {poll.thing}, !.thing = "none", !.brings = {}]
    /\ UNCHANGED <<lineVars, closed, swept, hopVars, repair, crmVars, faults>>

Hasty == poll.all                                  \* mutant of Closes: whatever was missed
Closes == poll.all /\ poll.clean

PollEnds ==
    /\ poll.at = "asking" /\ poll.todo = {}
    /\ closed' = (closed \/ Closes)
    /\ swept' = (IF poll.clean THEN swept \union poll.start ELSE swept) \ rows
    /\ poll' = NoTick
    /\ UNCHANGED <<workerVars, lineVars, ledgerVars, hopVars, repair, crmVars, faults>>

-----------------------------------------------------------------------------
(* The webhook's route: one job, and the 200.  Without the key it answers 503
   and Quo posts again; an answer that is lost has it post again too. *)
HookPosted(x, n) ==
    /\ x \in mix.ticked /\ ready /\ x \in there
    /\ IF n = 1 THEN UNCHANGED faults ELSE "twice" \in mix.with /\ phase[<<"hook", x, 1>>] # "absent" /\ Fault
    /\ Submit(<<"hook", x, n>>)
    /\ UNCHANGED <<lineVars, ledgerVars, pollVars, hopVars, repair, crmVars>>

(* handle_crm_report: the worker claims the job and posts it to its adapter
   route; nothing is committed before the answer. *)
MirrorClaim(j) ==
    /\ ClaimFor(j, "posted")
    /\ LET free == CHOOSE g \in Slots : hop[g] = NoHop
       IN  mine' = free /\ hop' = [hop EXCEPT ![free] = [NoHop EXCEPT !.at = "asked", !.job = j]]
    /\ UNCHANGED <<lineVars, ledgerVars, pollVars, due, repair, crmVars, faults>>

Step(g, from, to) == hop[g].at = from /\ hop' = [hop EXCEPT ![g].at = to]
Thing(g) == hop[g].job[2]

(* process: a text, or a call, or a part of a call that is not mirrored, goes
   through the poll's functions.  Any read of Quo may fail: 502. *)
Brings(g, x, parts) == hop' = [hop EXCEPT ![g].at = "record", ![g].thing = x, ![g].brings = parts]

PartAsCall(g) == FALSE                              \* mutant of LaterPart: every event goes to the call
LaterPart(g) == Thing(g) \in Parts /\ "call" \in rows

Looks(g) ==
    /\ hop[g].at = "asked" /\ hop[g].job \in Hooks
    /\ \/ Step(g, "asked", "failed") /\ Fault
       \/ /\ Thing(g) = "text"
          /\ IF "text" \in rows THEN Step(g, "asked", "taken") ELSE Brings(g, "text", {})
          /\ UNCHANGED faults
       \/ /\ Thing(g) # "text"
          /\ Step(g, "asked", IF LaterPart(g) THEN "part" ELSE "call") /\ UNCHANGED faults
    /\ due' = IF Thing(g) \in Parts /\ "call" \in rows /\ g = mine THEN due \union {hop[g].job} ELSE due
    /\ UNCHANGED <<workerVars, lineVars, ledgerVars, pollVars, mine, repair, crmVars>>

(* _mirror_call, for the call itself or in place of its part.  A transcript has
   only the call's id: Quo never describes a crowded call, and then it is skipped. *)
MirrorsCall(g) ==
    /\ hop[g].at = "call"
    /\ \/ ((crowd /\ Thing(g) = "transcript") \/ "call" \in rows)
          /\ Step(g, "call", "taken") /\ UNCHANGED faults
       \/ /\ ~(crowd /\ Thing(g) = "transcript") /\ "call" \notin rows
          /\ \E found \in SUBSET Parts : Extras(found) /\ Brings(g, "call", found)
       \/ Step(g, "call", "failed") /\ Fault
    /\ UNCHANGED <<workerVars, lineVars, ledgerVars, pollVars, mine, due, repair, crmVars>>

(* A part of a call already mirrored, sent once; what Quo will not describe is
   in the ledger. *)
ReadsPart(g) ==
    /\ hop[g].at = "part"
    /\ \/ Thing(g) \in rows /\ Step(g, "part", "taken") /\ UNCHANGED faults
       \/ Thing(g) \notin rows /\ Brings(g, Thing(g), {Thing(g)}) /\ UNCHANGED faults
       \/ Step(g, "part", "failed") /\ Fault
    /\ UNCHANGED <<workerVars, lineVars, ledgerVars, pollVars, mine, due, repair, crmVars>>

Records(g) ==
    /\ Step(g, "record", "taken")
    /\ RecordAndEnqueue(hop[g].thing, hop[g].brings)
    /\ UNCHANGED <<lineVars, pollVars, mine, due, repair, crmVars, faults>>

(* deliver_mirrored.  The CRM answers a dedupe_key it has seen with the row it
   has, and fills that row's blanks; a part bears the key of its call. *)
Key(x) == IF x \in Parts THEN "call" ELSE x

Takes(x) ==
    /\ filed' = filed \union {Key(x)}
    /\ noted' = noted \union payload[x]

PostsEvent(g) ==
    /\ hop[g].at = "asked" /\ hop[g].job \in Deliveries
    /\ \/ Step(g, "asked", "taken") /\ Takes(Thing(g)) /\ UNCHANGED <<dropped, faults>>
       \/ Step(g, "asked", "taken") /\ Fault /\ dropped' = dropped \union {Thing(g)}   \* a 4xx
          /\ UNCHANGED <<filed, noted>>
       \/ Step(g, "asked", "failed") /\ Fault /\ UNCHANGED crmVars                    \* not reached
       \/ Step(g, "asked", "failed") /\ Fault /\ Takes(Thing(g)) /\ UNCHANGED dropped  \* answer lost
    /\ UNCHANGED <<workerVars, lineVars, ledgerVars, pollVars, mine, due, repair>>

(* The adapter's answer, with which the handler returns or raises.  The worker
   may have stopped waiting: reading Quo, or its whole address book, can outlast
   its patience. *)
AdapterAnswers(g) ==
    /\ hop[g].at \in {"taken", "failed"}
    /\ hop' = [hop EXCEPT ![g] = NoHop]
    /\ IF g = mine /\ at = "posted"
       THEN (IF hop[g].at = "taken" THEN Completed ELSE Failed) /\ mine' = NoSlot
       ELSE UNCHANGED <<workerVars, mine>>
    /\ UNCHANGED <<lineVars, ledgerVars, pollVars, due, repair, crmVars, faults>>

StopsWaiting ==
    /\ at = "posted" /\ Failed /\ Fault
    /\ mine' = NoSlot
    /\ UNCHANGED <<lineVars, ledgerVars, pollVars, hop, due, repair, crmVars>>

MirrorCrash ==                                     \* the poll runs in the worker's process
    /\ crashes + faults < MaxFaults /\ Died
    /\ poll' = NoTick /\ mine' = NoSlot
    /\ UNCHANGED <<lineVars, ledgerVars, closed, swept, hop, due, repair, crmVars, faults>>

MirrorRestart == Restarted /\ UNCHANGED <<lineVars, ledgerVars, pollVars, hopVars, repair, crmVars, faults>>

(* manage.py recordings --commit: the calls mirrored without their audio. *)
RepairReads ==
    /\ "repair" \in mix.with /\ repair = "none" /\ "call" \in rows /\ "recording" \in there \ rows
    /\ repair' = IF crowd THEN "done" ELSE "read"
    /\ UNCHANGED <<workerVars, lineVars, ledgerVars, pollVars, hopVars, crmVars, faults>>

RepairRecords ==
    /\ repair = "read" /\ repair' = "done"
    /\ RecordAndEnqueue("recording", {"recording"})
    /\ UNCHANGED <<lineVars, pollVars, hopVars, crmVars, faults>>

-----------------------------------------------------------------------------
Line == (\E x \in Things : Happens(x)) \/ (\E o \in Objects : Ages(o)) \/ KeySet
Poll == PollStarts \/ (\E o \in Objects : PollPasses(o)) \/ PollReadsText \/ PollReadsCall \/ PollRecords \/ PollEnds
Adapter(g) == \/ Looks(g) \/ MirrorsCall(g) \/ ReadsPart(g) \/ Records(g)
              \/ PostsEvent(g) \/ AdapterAnswers(g)

MirrorNext ==
    \/ Line \/ Poll \/ (\E x \in Things, n \in Posts : HookPosted(x, n))
    \/ (\E j \in Jobs : MirrorClaim(j)) \/ (\E g \in Slots : Adapter(g))
    \/ StopsWaiting \/ MirrorCrash \/ MirrorRestart \/ RepairReads \/ RepairRecords

MirrorSpec == MirrorInit /\ [][MirrorNext]_mirrorVars

(* The scheduler runs the poll, the worker drains the queue and is restarted,
   and a request comes to its answer. *)
MirrorFairness ==
    /\ WF_mirrorVars(Poll) /\ WF_mirrorVars(MirrorRestart)
    /\ \A j \in Jobs : WF_mirrorVars(MirrorClaim(j))
    /\ \A g \in Slots : WF_mirrorVars(Adapter(g))

MirrorFairSpec == MirrorSpec /\ MirrorFairness

-----------------------------------------------------------------------------
MirrorTypeOK ==
    /\ WorkerTypeOK({"posted"})
    /\ mix \in Mixes /\ there \subseteq mix.on /\ aged \subseteq there \intersect Objects
    /\ rows \subseteq there /\ noted \subseteq there
    /\ payload \in [Things -> SUBSET Parts]
    /\ poll.at \in {"idle", "asking", "read"} /\ poll.todo \subseteq Objects
    /\ \A g \in Slots : hop[g].at \in {"idle", "asked", "call", "part", "record", "taken", "failed"}
    /\ repair \in {"none", "read", "done"}

(* Whatever reads an object first, and however often it is read again by the
   poll, a webhook posted twice, a retried job or the repair, it is queued once,
   exactly if its state row is there, and the CRM has one row for it, a call's
   later parts included. *)
OnceEach ==
    /\ MirrorTypeOK
    /\ \A x \in Things : queued[x] = IF x \in rows THEN 1 ELSE 0
    /\ filed \subseteq Objects

(* When the backfill closes nothing of the window is left behind: whatever the
   poll will no longer look back for is mirrored, but for an object that the
   missing key refused. *)
NothingMissed == closed => aged \subseteq rows \union snubbed

(* Quo announces a part of a call once.  When the announcement finds the call
   mirrored and its job is done, the part is queued for the CRM, on its own or
   with the call, even if Quo refuses to describe the call again. *)
PartsKept ==
    \A j \in due : phase[j] = "done" => j[2] \in payload[j[2]] \union payload["call"]

(* One mirrored object, whole: queued once, with every part announced of it. *)
MirroredWhole == OnceEach /\ PartsKept

(* With the key set, every call and text, and every part recorded, comes to the
   CRM in the end with all its delivery carried, unless the delivery failed for
   good or the key came too late; and no job is stranded. *)
Arrived(x) == \/ x \in snubbed \/ x \in dropped \/ phase[<<"event", x>>] = "failed"
              \/ x \in rows /\ Key(x) \in filed /\ payload[x] \subseteq noted
AllSettled ==
    /\ \A j \in Jobs : phase[j] # "pending"
    /\ ready => \A x \in (there \intersect Objects) \union rows : Arrived(x)

EverythingArrives == <>[]AllSettled
=============================================================================
