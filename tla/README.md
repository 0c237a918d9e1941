# OWEN: a verification model

OWEN is a call-monitoring and telephony platform. Web processes receive provider webhooks and
browser requests, a single worker process drains a Postgres job queue, runs periodic sweeps and
drives live calls on Asterisk, and a separate voice service (owen-voice) can carry AI calls. This
directory holds TLA+ models of the backend's core, the TLC configurations that check them on
small instances, and TLAPS proofs that hold for instances of any size.

- [The system](#the-system): parts, state, interactions, what is hard
- [Modules and their code](#modules-and-their-code)
- [Runs, bounds and fairness](#runs-bounds-and-fairness)
- [Proofs](#proofs)
- [Divergences](#divergences): where code and documentation disagree
- [Plan](#plan) and [What is not modelled](#what-is-not-modelled)

Source paths are relative to `src/backend/app/` unless they begin with `owen-voice/` or `docs/`.

## The system

### Processes

| process | what runs in it | concurrency |
|---|---|---|
| app | uvicorn with 4 workers: webhooks, dashboard API, the CRM's and the agents' adapters | requests interleave across processes and at every `await`; each has its own database session (READ COMMITTED) |
| worker | one asyncio loop: `drain_loop`, APScheduler jobs, the Asterisk (ARI) consumer, one task per live call, take-over tasks | interleaves at every `await`; everything kept in memory dies with it |
| owen-voice | one process: a session per AI call on its own ARI application | a task per session and per turn |
| scripts | run by hand: imports, repairs, backfills | beside everything else; may be killed |
| Postgres | all durable state | row locks, unique keys, `FOR UPDATE SKIP LOCKED` |

Containers are restarted by docker (`restart: unless-stopped`), so any process may die between
two statements and come back with nothing but the database.

### Components

**Job queue** (`services/queue.py`, `worker.py`). State: the `jobs` table (status, attempts,
run_after). `enqueue` inserts and commits; `claim_one` picks the oldest due row, sets it
'running' and counts the attempt *without committing*; the handler runs on the same session;
`complete` or `fail` (back-off 30 s × attempts, dead letter after MAX_ATTEMPTS) ends it.
Hard: the claim becomes public with the handler's first commit, so what a crash undoes depends on
where the handler was. Correct when: two drainers never run one job, dead-lettering happens
exactly at the bound, a verdict is final, every waiting job is decided.

**Call ingestion** (`services/ingestion.py`, provider adapters, `workers/reconciler.py`,
`workers/asterisk_cdr.py`). State: `calls`, `call_events`, `callers`. Webhooks, pollers and the ARI consumer
project the same call, late, twice and out of order, in overlapping transactions. Correct when:
the status of a call is its highest event, attribution heals and stays, a call is counted once and
flagged new at most once, a reconciled call is complete, transactions never deadlock.

**Recording pipeline** (`workers/handlers.py`: recording_fetch → transcribe → analyze; the
recording webhook; the reconciler; the retention sweep). State: `recordings`, `transcriptions`,
`call_analysis`, files on disk, the provider's copy. Hard: the provider's copy is deleted after
ours is stored, the sweep deletes ours, and the worker may die in between. Correct when: audio is
never lost before it is transcribed, a stage's job finds its input, what was enqueued is settled.

**Text messaging** (`api/messages.py`, `workers/handlers.py` message_send, `services/messages.py`,
`services/dlr.py`, `webhooks/bulkvs.py`), with **Inbox threads** (`api/inbox.py`), **receipts posted
as texts** (`services/dlr.py`, `scripts/backfill_dlrs.py`) and **pictures**
(`integrations/crm/media.py`). State: `messages`, `sms_opt_outs`, `contact_thread_state`, files. Two kinds of
delivery reports race the sender, none takes a lock; operators act on a thread while traffic comes
in. Correct when: a STOP holds, the shown status is real, a queued text is decided, a receipt is never shown
as a customer's text nor lost, an act of an operator is what later viewers see, a link lives as long as promised.

**Inbound ring group and voicemail** (`flows/runtime.py` `_handle_unassigned`,
`integrations/crm/handler.py`, `integrations/crm/ring.py`, `providers/asterisk_client.py`).
State: Asterisk's channels and bridges, the event socket, local variables of a task. Hard: answers
race each other, the deadline and the caller; requests time out after they took effect; events
are lost while the socket reconnects. Correct when: the caller gets the first phone that answered
and no other is held, nobody is left ringing, the reported outcome is true, the caller's line is released.

**Supervision and ownership** (`telephony/supervision.py`, `telephony/monitor.py`,
`telephony/ownership.py`) and **AI agent sessions** (`agents/retell.py`, `flows/runtime.py`,
`owen-voice/app/main.py`). State: the ownership registry (in memory), the session row, channels
and bridges. Hard: the flow task, the take-over tasks and Asterisk act on one channel without a
lock. Correct when: after a take-over human and caller stay together and the agent is out, the
flow stands down, one supervisor owns the call, and no caller is left on a line nobody serves.

**Flow interpreter** (`flows/`, `api/flows.py`). State: flows, versions, numbers' assignments, the
walk's node and variables. Operators edit while calls walk. Correct when: an assigned number always has
a usable version, a call is pinned to one, and a caller never meets dead air.

**Retell integration** (`integrations/retell/`): the worker's session and the app's webhooks share one
row; webhooks repeat until acknowledged. **Caller context** (`services/caller_context.py`):
lookups with limits while the call is being answered. **AI spend cap** (`agents/spend.py` and its
callers): a sum read before a session and grown after it. **Voice service pipeline**
(`owen-voice/app/pipeline.py`): speculative turns behind a gate, one event loop.

**Outbound calls** (`agents/outbound_call.py`, `run_outbound_call`) and **event routing**
(`workers/asterisk_consumer.py`, `providers/asterisk.py`). State: the attempt log in one settings row,
jobs, channels, the router's memory. Correct when: the day's caps hold for racing requests, every leg is taken
down, only a caller's own leg starts a flow.

**CRM link** (`integrations/crm/hook.py`, `push.py`, `api.py`), **OpenPhone mirror**
(`integrations/openphone/`), **relays** (`workers/handlers.py` call_relay_ghl, message_relay_ghl),
**lead e-mail** (`workers/mail_poller.py`): at-least-once pipelines with a receiver that
may or may not deduplicate. Correct when: what is done was taken, a repetition has a fault behind it, nothing is
recorded as handled that was lost.

**Number assignments, agent versions, inventory** (`integrations/crm/numbers.py`,
`agent_versions.py`, `services/number_sync.py`): requests that read, decide and commit while others
commit in between. **Billing** (`workers/billing.py`): overlapping scans of restated records.
**Workiz scripts** (`scripts/*workiz*.py`): killable, resumable from a ledger.

### How they interact

Webhooks and pollers call ingestion and enqueue jobs; the worker's handlers read and write the
same rows in sessions of their own and enqueue follow-up jobs *on the claiming session* (which
publishes the claim). A live call is one task in the worker: it commands Asterisk over HTTP and
hears back over one websocket, whose events the consumer distributes to per-channel queues. A
take-over is a job that starts a second task on the same call. owen-voice is asked over HTTP to
start and stop sessions and drives the caller's channel itself. The CRM is told through jobs that
post to an adapter in the app, which looks the binding up again; it calls back to send texts, assign numbers,
publish agents and ask for calls.

## Modules and their code

| module | models | built on |
|---|---|---|
| `WorkQueue` | what the queue promises producers: committed rows only | |
| `JobQueue` | `services/queue.py`, `drain_loop` of `worker.py` | implements `WorkQueue` |
| `QueueWorker` | the worker as a handler sees it | uses `WorkQueue` |
| `Ingestion` | `ingest_status_event`, `_ensure_call` | |
| `RecordingPipeline` | the three stages and their feeds | extends `QueueWorker` |
| `Messaging` | sending, opt-outs, receipts of both kinds | extends `QueueWorker` |
| `Receipts` | receipts posted as texts, the orphans, the backfill command | |
| `Inbox` | one contact's thread, operators' acts, replies | |
| `Pictures` | uploads, signed links, sweep, inbound copy | |
| `RingGroup` | both inbound handlers with ring group and voicemail | |
| `Takeover` | agent session, transfer, voicemail against take-overs | |
| `FlowWalk` | library of flows, resolution, the walk, the safety net | |
| `RetellSession` | a call's Retell sessions, webhooks and function calls | |
| `VoiceSession` | one conversation of owen-voice | |
| `CallerContext` | lookups before the agent speaks, the note after | |
| `Spend` | the daily cap, its warning | |
| `OutboundCall`, `EventRouter` | placed calls; what an event of Asterisk does | `OutboundCall` extends both `QueueWorker` and `EventRouter` |
| `MailIntake` | lead e-mails, relay and second delivery | extends `QueueWorker` |
| `CrmLink` | reports to the CRM, texts from it | extends `QueueWorker` |
| `OpenPhone` | poll, webhook and repair of the mirror | extends `QueueWorker` |
| `Relays` | calls and texts posted to GoHighLevel | extends `QueueWorker` |
| `NumberAgents` | assignments, agent versions, inventory poll | |
| `Billing` | the mirror of the carrier's charges | |
| `WorkizImport`, `WorkizDelete` | the import, its repair, its removal | |
| `RaceProofs` | theorems about `JobQueue`, `VoiceSession` and `CallerContext` | those, TLAPS |
| `CallProofs` | theorems about `Ingestion`, `Takeover` and `NumberAgents` | those, TLAPS |
| `HandlerProofs` | theorems about `RecordingPipeline`, `OpenPhone` and `Inbox` | those, `QueueWorkerProofs` |
| `MessagingProofs` | theorems about `Messaging`, `Relays`, `Billing`, `RetellSession` and `WorkizImport` | those, `QueueWorkerProofs` |
| `LinkProofs` | theorems about `RingGroup`, `CrmLink`, `Pictures` and `WorkizDelete` | those, `QueueWorkerProofs` |
| `OutboundProofs` | theorems about `OutboundCall` and `MailIntake` | those, `QueueWorkerProofs` |
| `FlowWalkProofs` | theorems about `FlowWalk`, `Spend` and `Receipts` | those, TLAPS |
| `QueueWorkerProofs` | lemmas about the worker | `QueueWorker`, TLAPS |
| `MC*` | small instances for TLC; some host more than one component | |

PROJECT.json maps every definition to the lines it stands for. Where two components are proved about in one
module, the names both would use carry a prefix in one of them (`IngestInit`, `MirrorSpec`, `SessionNext`, `MailTypeOK`,
`LinkSpec`, `NumbersNext`, `BillInit`). The correspondence in brief:

**JobQueue.** One action per queue function. `Claim` takes a row lock (`Locked`) and leaves the
committed row untouched; `HandlerCommit` and `HandlerEnqueue` publish it; `Complete` and `Fail`
are the end of `drain_loop`'s body. `Crash` is a death of the process, `DatabaseError` a statement
failing in the handler, after which `queue.fail` itself raises on the aborted transaction
and the process exits. Time is `wait`, run_after relative to now, in units of the 30 s back-off.

**Ingestion.** A transaction is split where others can see it or wait for it: the caller upsert
(`Begin`, which waits for the caller's row), the INSERT of the call (`Insert`), the three UPDATEs
with the event's INSERT (`Project`), the commit. `Advance`, `BackfillAnswer` and
`BackfillAttribution` are the UPDATEs, applied in the code's order. An event is a record of what
the adapters extract; a column is abstracted to what filled it.

**QueueWorker** and the modules that extend it. A handler is a sequence of steps `at`, cut where its
effects become durable. `CommitWith(follow)` is a commit of the handler with the jobs it enqueues; the first
is `WorkQueue!Begin`, a later one submits its follow-up job, so the handlers run on the queue's promise, not its innards;
`RaceProofs` shows that the real queue keeps the promise, the theorems `...KeepsToTheQueue` that the
handlers of recordings, texts, placed calls, e-mails, the mirror and the CRM link ask no more of it. The back-off
and the order of claims are therefore open: any pending job may be claimed.

**Messaging.** A web request reads, decides, and commits later (`ReadReceipt`/`ReadStatus`,
then `CommitRequest`). The worker's copy of the row is `mem`. The carrier is `texts`: what it
accepted and what became of it. **Receipts** has the same requests beside the command, which reads everything
and commits its marks at its end; which of several matching texts the time window picks is a choice (`Best`).
**Inbox** stamps rows when their transaction begins and shows them when it commits, the gap every "newer than" test bites on.
**Pictures** is files: bytes aside, rename, sidecar, each its own step; a clock of ticks stands for the TTL.

**RingGroup.** The handler's task is `stage`; `handler` says which of the two handlers it is. ARI
requests either take effect, fail, or take effect and time out (`Fault`). Events go through
`wire` (the socket, lost by `SocketDrops`) to `heard` (the watcher's queue). Every wait has a
deadline, which may pass at any moment, so no clock is needed.

**Takeover.** `flow` is the call's task (agent session, transfer with one return, voicemail),
`job[s]` supervisor s's request. `Asks` keeps what `queue_takeover` looked up; `Claims` to
`AddsOperator` are `take_over`. `engine` chooses Retell (SIP leg; the registry is asked once when the
session settles its port, before the grace of an exit, `AsksToLeave` and `GraceEnds`, and not again) or owen-voice (external media,
session stopped before the claim; a turn that is still draining or a recogniser that dies may write over the port the stop left, `Overwrites`).
A check of the registry and the request it guards are one step, except in `Greets`/`Plays`, where
speech is synthesised in between. **Spend** is the check before such a session and the charge after it.

**FlowWalk.** A graph is a function from nodes to a type and wired ports, a flow a set of versions
with an active one; the operator's requests are `Operator`, the call is `at`, each node type an action (`Dials`, `Asks`, ...).
**RetellSession** follows `agents/retell.py` by `flow` and `talk`, the webhooks by the row they share.
**VoiceSession** cuts at every `await`: what happens between two awaits is one action; `gate` holds the
sentences of an unconfirmed turn. **CallerContext** runs a lookup with its limit beside the answering of the call.

**OutboundCall, EventRouter.** The door (`ReadsLog`, `Records`) is the locked settings row; the handler's
task rings legs whose events come back through `EventRouter`'s rules for which leg an event is of.

**MailIntake, CrmLink, OpenPhone, Relays.** Each reads a feed, writes rows and jobs in the
code's transactions, and posts to a receiver modelled by what it keeps (`crm`, `got`, `posts`). A request
that fails may have been carried out.

**NumberAgents.** A request keeps what it read in `request[r]`; SQLAlchemy writes a mapped column only when it changed
the value read, and so does the model. `overtaken` and `raced` record which requests overlapped. **Billing** scans fetch the window, then write; an amount of 0 is a price, `Silent` the lack of one. **WorkizImport** and **WorkizDelete**
take one row at a time and may be killed between any two writes; a listing of cards may end early unsaid, one of contacts says so.

## Runs, bounds and fairness

No run relies on a state constraint; all bounds are guards named in CONSTANTS. `CHECK_DEADLOCK`
is off everywhere because the system legitimately stops: the bounded jobs, deliveries, texts or
calls are used up. Components that share nothing are checked by one run side by side: a variable `part`,
chosen at the start, says which of them a behaviour is of, the others stay parked in a fixed state, so the state
spaces add and do not multiply.

| run | asks | instance | distinct states |
|---|---|---|---|
| JobQueue_crashes | exclusive claims, dead-lettering, refinement of `WorkQueue`, progress; beside it `Relays` and `Billing`: posted once without a fault, the bill is the carrier's last word | 2 drainers, 3 jobs (1 poison), 2 attempts, 2 deaths; 1 text or call, 2 feeds; 2 records, 2 scanners | 174 792 |
| Ingestion_races | rows tell their events, callers counted once, everything ends; beside it `NumberAgents`: an operator's flow survives, one version published | 2 calls of one caller, 5 events, 2 transactions, 1 redelivery, 1 abort; 2 requests, 4 acts | 337 000 |
| RecordingPipeline_feeds | audio is safe, stages in order, settlement; beside it `Inbox`: what is shown is what was done | 1 recording, 6 jobs, 2 attempts, 1 poll, 1 death; 1 text, 1 call, 1 reply, 2 desks | 427 588 |
| Messaging_texts | STOP holds, status real, one text per attempt, queued decided | 2 texts, 1 open web request, 2 attempts, 1 death, 2 carrier accepts | 759 904 |
| RingGroup_calls | winner, nobody ringing, outcome, release | 2 phones, both handlers, 1 failing request, 1 socket drop | 1 065 642 |
| Takeover_seize | human keeps caller, agent out, flow stands down or at least never hangs up, nobody stranded; beside it `Spend` and `Receipts` | 2 supervisors (symmetric), both engines, 1 failing request; 4 sessions; 3 receipts | 2 224 321 |
| MailIntake_orders | each order relayed or its loss has a fault, what the log says is real, mail is stored; beside it the Workiz scripts: money counted once, "clean" is worth what it says | 3 messages, 2 attempts, 1 death, 1 fault; exports of 1-3 rows | 362 788 |
| FlowWalk_calls | assigned flows stay usable, no dead air, every call ends; beside it `RetellSession`: the caller leaves as asked, what was heard is kept | 6 graphs, 3 flows, 2 numbers, 2 edits, 1 fault; 2 sessions, 2 events | 545 061 |
| CrmLink_reports | repeats need faults, done means taken, unbound is quiet, the CRM's text is marked; beside it `Pictures` | one kind of traffic per behaviour, 1 fault, 1 death, 1 switch | 522 744 |
| OpenPhone_mirror | mirrored once and whole, nothing missed, everything arrives | 4 kinds of line, 2 webhook posts, 1 fault, 1 death | 368 044 |
| VoiceSession_turns | one voice, nothing unconfirmed is spoken, the end is told; beside it `CallerContext` | 2 turn tasks, 1 fault or take-over; 2 calls, 5 agent settings | 1 022 573 |
| OutboundCall_calls | the day's caps, clean ends, routing, every call ends | 1 call of 4 kinds, 2 requests at the door, 1 fault, 1 death | 354 140 |

*Why these bounds.* A race needs two of something: two drainers, two transactions, two phones, two
supervisors, two texts to one contact (so that a receipt can be matched to the wrong one), two requests
at the door, two scanners, two desks. Redelivery, death, lost socket and failed request bring nothing
structurally new after the first: each is followed by a full recovery, so one (two deaths for the queue,
so that an abandoned job can be followed by a second abandonment) reaches every order of failure and
action. Two attempts distinguish "retry left" from "exhausted"; a bound on faults below the number of attempts is
what makes "a single fault loses nothing" a statement. Three jobs allow a poison job ahead of a
healthy one and a follow-up. Six rows are as many jobs as webhook and poll
can cause for one recording: two of each stage. Symmetry is used only in Takeover_seize, which has no
temporal property: behaviours of `Takeover` are finite, so "not stranded"
is asked of the states where the flow and the take-overs are over.

Bounds and simplifications of the other instances, each named in the module:
- `Relays`: three job rows per call and two per text. `Billing`: one inbound record stated up to twice, one
  outbound once and at a price (`PlainOut`), costs of 0 and 1, one operator's edit, dips with one ground for them or no rate at the start (`OneGround`). `Spend`: two Retell and two owen-voice sessions, caps 1-2, warning at 50 %.
- `Receipts`: two texts with one echo, one of them the CRM's; three receipts, one of an unknown text. `Pictures`: one picture,
  two texts, a TTL of 3 ticks, a sweep every tick, 9 ticks.
- `FlowWalk`: four steps before MAX_STEPS ends the walk; operators' requests are atomic but for DELETE, which reads and writes apart.
  `RetellSession`: one call, two sessions. `call_analyzed` and `request_change` go the way of the two that are modelled.
- `VoiceSession`: one sentence per reply, a recogniser that obeys start → (eager → resumed)* → end.
  `CallerContext`: three entries of the CRM, one edit, one fault.
- `OutboundCall`: calls placed at the door are not followed; the guards that only read are one refusal; one day.
- `CrmLink`, `OpenPhone`: one kind of traffic per behaviour; the poll is never an hour behind once the backfill is closed.
- `NumberAgents`: one number, one agent, two hand-built flows and two of the CRM's, three versions. `Inbox`: one clock for app and database, 4 stamps.
- `MailIntake`: one adapter request at a time, because the CRM's 15 s budget is shorter than the worker's 20 s timeout and that shorter
  than the back-off. A message from a
  stranger is one of the second messages. `WorkizImport`: two runs, one kill, one spoiled line, no two phones of one contact. `WorkizDelete`: two contacts, one listing
  cut short or deletion refused, two runs.

*Fairness and why the code grants it.*
- `JobQueue`: `drain_loop` never stops polling; every handler ends, since its I/O has timeouts;
  docker restarts the container; time passes. No fairness is assumed of producers or crashes.
- `Ingestion`: an open transaction's next statement runs once the locks it needs are free. Nothing is
  assumed of providers.
- Modules on `QueueWorker`: as the queue; web requests go on, because their I/O is bounded; the pollers are periodic. Nothing is assumed of the
  contact, the carrier, the CRM or the mailbox's senders.
- `RingGroup`, `FlowWalk`, `RetellSession`, `OutboundCall`, `VoiceSession`, `CallerContext`: the call's task runs on, because each of its waits has a deadline.
  Nothing is assumed of people, phones, the recogniser, the socket or Asterisk's events, except that Retell repeats a webhook until it is acknowledged.
- `Billing`, `NumberAgents`, `Pictures`, `Inbox`: the periodic scan, poll or sweep goes on, requests are served, time passes.
- `Takeover`, `Spend`, `Receipts` and the Workiz scripts are checked for safety only.

*What the conditional properties leave out.* `DecidedOrOrphaned` excuses a job abandoned in 'running'
and jobs behind a poison job; `EnqueuedIsSettled` and `SpeechIsAnalysed` excuse a
crash; `OnlyTheWinnerTalks`, `EndIsHonest`, `CallerReleased` and `CallsEndClean` excuse a channel whose
hangup request failed (`kept`); `HumanKeepsCaller` and `AgentIsOut` speak of calls claimed in
conversation, before the session settled its port, with no failed request; `CapsHold` counts what was written into the log; `RepeatsAreFaults`, `RelayedOnce` and
`ToldOnce` tie a repetition to a fault or an overlap. Each excuse is a behaviour of the code, described below.

## Proofs

The theorems hold for every value of the constants that satisfies the assumptions named in the
modules: any number of jobs, drainers, phones, supervisors, messages, events, transactions, lines, flows, sessions, records, requests,
faults and crashes. The assumptions only say that the bounds are numbers, that names and channels are different things, that
the agents' requests are finitely many, which jobs a component enqueues, what a stored graph looks like (`FlowWalk`), that a fetch of the
mailbox has room beyond the messages without an id (`MailIntake`), that caps are numbers
(`LimitsMakeSense`), that the repair command is no server and a receipt no other payload (`ReceiptsMakeSense`), that there
are finitely many records to bill (`RecordsAreFinite`) and what they cost are numbers (`FiguresAreNumbers`), that an export is a list of
whole rows (`SheetsAreWhole`), that the bound on the agent's function calls is a number (`EventsAreCounted`), that the CRM builds its own flows (`FlowsDiffer`),
that a text, a call and a reply are different things (`ThingsAreToldApart`), that a picture's life is a number of ticks
(`TicksAreCounted`), that an agent has one of the code's engines and lookups and a list of allowed facts (`AgentsAreWhole`), and (in
`Ingestion`) that an event is a record of the adapters' shape whose key contains its status.

A proof module holds the theorems of up to five components. Components in one module are proved about apart: no
proof of one cites the other's assumptions or definitions, and their assumptions hold together.

| component (proof module) | theorem | statement |
|---|---|---|
| `JobQueue` (`RaceProofs`) | `TypeCorrect` | `Spec => []TypeOK` |
| | `NeverGrabTheSameJob` | `Spec => []ExclusiveClaim` |
| | `DeadLettering`, `RunningRows`, `RowsAreAccountedFor` | `Spec => []RowsAccountedFor` and its parts |
| | `FinalVerdicts` | `Spec => VerdictsAreFinal` |
| | `ImplementsWorkQueue` | `Spec => KeepsPromise` (refinement of `WorkQueue`) |
| `VoiceSession` (`RaceProofs`) | `VoiceInvariant` | `SessionSpec => []VoiceInv` |
| | `TurnsAreKept` | `SessionSpec => []SpeaksInTurn` |
| | `EndsAreTold` | `SessionSpec => []EndIsTold` |
| | `TheSessionIsHonest` | `SessionSpec => []SessionIsHonest`, both |
| `CallerContext` (`RaceProofs`) | `TheContextIsHonest` | `ContextInit /\ [][ContextNext]_contextVars => []ContextIsHonest` |
| `Ingestion` (`CallProofs`) | `BooksInvariant` | `IngestSpec => []BooksInv` |
| | `RowsTellTheirEvents` | `IngestSpec => []RowTellsEvents` |
| | `NoCallCountsTwice` | `IngestSpec => []CountedAtMostOnce` |
| `Takeover` (`CallProofs`) | `ClaimsHold`, `RoomsHold` | types, claims and rooms, the layers of the invariant |
| | `NobodyStranded` | `Spec => []CallerNotStranded` |
| | `OneSupervisorPrevails` | `Spec => []SupervisorPrevails` |
| `NumberAgents` (`CallProofs`) | `TheOwnersFlowComesBack`, `OneRowPerVersion` | `NumbersSpec => []OwnersFlowKept`, `[]PublishedOnce` |
| | `NumbersStayRight` | `NumbersSpec => []NumbersAreRight`, both |
| `RecordingPipeline` (`HandlerProofs`) | `Invariant`, `NothingIsLost` | `Spec => []IInv`, `Spec => []InputIsKept` |
| `OpenPhone` (`HandlerProofs`) | `MirrorInvariant` | `MirrorSpec => []MirrorInv` |
| | `NothingLeftBehind` | `MirrorSpec => []NothingMissed` |
| | `MirroredOnceAndWhole` | `MirrorSpec => []MirroredWhole` |
| `Inbox` (`HandlerProofs`) | `ThreadInvariant` | `ThreadSpec => []ThreadInv` |
| | `TheThreadIsTrue` | `ThreadSpec => []ThreadIsTrue` |
| `Messaging` (`MessagingProofs`) | `Invariant` | `Spec => []IInv` |
| | `StopIsFinal` | `Spec => []StopHolds` |
| | `OncePerAttempt` | `Spec => []SentPerAttempt` |
| | `WhatIsShownIsReal`, `TextsTellTheTruth` | `Spec => []StatusIsReal`, `Spec => []TextsAreHonest`, if `BodiesDiffer` |
| `Relays` (`MessagingProofs`) | `RelayInvariant` | `RelaySpec => []RelayInv` |
| | `NothingIsRelayedTwice` | `RelaySpec => []RelayedOnce` |
| `Billing` (`MessagingProofs`) | `TheBillIsHonest` | `BillSpec => []BillIsHonest` |
| | `NoChargeIsForgotten` | `BillSpec => NothingForgotten` |
| `RetellSession` (`MessagingProofs`) | `RetellInvariant` | `RetellSpec => []RetellInv` |
| | `WhatWasAskedIsHeard` | `RetellSpec => []AskedAndHeard` |
| `WorkizImport` (`MessagingProofs`) | `MoneyIsCounted` | `ImportSpec => []MoneyIsAccounted` |
| `RingGroup` (`LinkProofs`) | `Invariant` | `Spec => []IInv` |
| | `TheWinnerTalks` | `Spec => []OnlyTheWinnerTalks` |
| | `TheEndIsHonest` | `Spec => []EndIsHonest` |
| `CrmLink` (`LinkProofs`) | `LinkInvariant` | `LinkSpec => []LinkInv` |
| | `TheCrmIsToldRight` | `LinkSpec => []ReportsAreRight` |
| `Pictures` (`LinkProofs`) | `PicturesAreServed` | `PicturesInit /\ [][PicturesNext]_pictureVars => []PicturesHold` |
| `WorkizDelete` (`LinkProofs`) | `CleanMeansClean` | `DeleteSpec => []CleanIsClean` |
| `OutboundCall` (`OutboundProofs`) | `Invariant` | `Spec => []IInv` |
| | `CapsAreKept` | `Spec => []CapsHold` |
| | `NobodyIsLeftUp` | `Spec => []CallsEndClean` |
| | `LegsAreToldApart` | `Spec => []RoutedRight` |
| `MailIntake` (`OutboundProofs`) | `MailInvariant` | `MailSpec => []MailInv` |
| | `LogCanBeTrusted` | `MailSpec => []LogIsHonest` |
| `FlowWalk` (`FlowWalkProofs`) | `Invariant` | `Spec => []IInv` |
| | `LibraryIsSound` | `Spec => []LibraryHolds` |
| | `NobodyHearsSilence` | `Spec => []NoDeadAir` |
| `Spend` (`FlowWalkProofs`) | `SpendInvariant` | `SpendSpec => []SpendInv` |
| | `SpendIsBounded`, `TheCapIsTold` | `SpendSpec => []OverspendIsBounded`, `[]RefusalIsSaid` |
| `Receipts` (`FlowWalkProofs`) | `ReceiptsInvariant` | `ReceiptsSpec => []ReceiptsInv` |
| | `ReceiptsStay` | `ReceiptsSpec => []ReceiptsAreKept` |
| `RecordingPipeline`, `Messaging`, `OutboundCall` | `KeepsToTheQueue` | `Spec => Q!Spec` (refinement of `WorkQueue`) |
| `OpenPhone`, `MailIntake`, `CrmLink`, `Relays` | `Mirror-`, `Mail-`, `LinkKeepsToTheQueue`, `RelaysKeepToTheQueue` | the same of their specifications |

`QueueWorkerProofs` holds the lemmas about the worker that `HandlerProofs`, `MessagingProofs`, `LinkProofs` and
`OutboundProofs` cite. Every proof has the same form: none of the properties is inductive, an invariant `IInv` is,
TLC finds it true on an instance first; lemmas say what the model's operators leave behind; one lemma per
conjunct of `IInv` has one step per action; `PTL` closes the theorem.

*JobQueue.* That a second drainer cannot claim a held row rests
on what a holder knows about its row. `IInv` adds `Holds` (an unpublished
claim is on a 'pending' row, which its lock protects; a published one on a 'running' row nobody
abandoned), `OrphansStay` (an abandoned row never leaves 'running', because no code reads it
again), `RunningIsHeld` (every other 'running' row has a holder), and `Untried` (a row not yet
inserted has no attempts). `FinalVerdicts` and `ImplementsWorkQueue` use the invariant in the step: a
holder's row is never 'done' or 'failed', hence no action can change a verdict; publishing a claim maps to
`WorkQueue!Begin`, an end of a handler to `WorkQueue!Verdict`, an enqueue to `Submit` or, from an unpublished
handler, to `Begin` with its follow-up; claims, crashes, restarts and time are stutters.

*The worker.* `WorkerInv`: the job being executed is pending or running, and a pending job has an attempt
left. It is what makes a failure end in a retry or a dead letter and never in between. `KeepsToTheQueue` maps a
handler's steps to the queue's: a first commit to `Begin`, a later one to the `Submit` of its one follow-up job or to a stutter
(none enqueues two), the handler's end to `Verdict`; a death, a restart and a claim change no committed row. It joins
`ImplementsWorkQueue`: what the queue keeps is what these seven handlers rely on.

*Ingestion.* `LockInv`: from the caller's upsert on, one transaction at a time writes a call's row. This
is why `WriteInv` holds: what a transaction is about to commit keeps what the committed row already says
(`Keeps`: the rank never falls, a number stays known, an ended call keeps its duration and answer time) and says its own event
(`Says`). `RowInv` carries this to the log: a row's rank is the highest of its log's. `CountInv`: who is about to count a call
has written its row and nobody has counted it. That the new-caller flag is raised at most once
(`NewAtMostOnce`, the rest of `CountedOnce`) is left to TLC for a reason: it is not true of every set of
events. The attribution back-fill writes number, campaign and flag but not the caller, and the advance overwrites
campaign and caller without computing the flag again (`services/ingestion.py`), so events of one call that
first withhold the caller and the number, or that name different callers, can flag a caller twice. It depends on what the
adapters' events of one call carry, and the run has those the adapters make.

*RecordingPipeline.* `JobsInv`: a live job will find its input. `AtInv`: what each place of the worker has achieved
when it is reached. `AudioKept`: a recording is transcribed, or the provider or the disk still has it. All three follow from one
observation about every step (`Goes`): audio disappears only after its recording is transcribed, words stay.

*Messaging.* `SendInv`: until the carrier's answer is stored nothing of an attempt is committed and the text just
posted is the last of the carrier's. `StopInv`: when a STOP arrives, at most the one job that the worker has
already checked can still post. `TimesInv` counts: the carrier has at most as many texts of a message as the attempts of its
job, the one in the air and the crashes. `TruthInv`: every pending status a request will write is
what the carrier reported of a text of that very message. It needs `BodiesDiffer`, that the carrier's echo tells
the contact's messages apart: of two messages with one text the code credits a receipt to either, so without it
the statement is false. The run's instance has different bodies.

*RingGroup.* `RungDown` says for every place of the handler which phones may still be live; in `finally` it shrinks to the phones not
yet hung up. `TalkInv`: the caller is bridged to nobody before the bridge and to the winner after it, and
what the ring group and the call came to is what happened.

*Takeover.* Three layers. `TypeInv` adds that a second session has begun only after a transfer. `ClaimInv`
relates the registry to what each actor believes: the owner is the supervisor whose job got past the claim; nobody else is ever in a room; a flow
that was told to stop stands down. It gives `CallerNotStranded`. `RoomInv` says who is in which bridge at each step of a take-over
(what a request was given when it was made stays true of the session; who was ejected stays out) and
gives `SupervisorPrevails`. A flow stands down after a claim in conversation only if the session had not settled its port: `seized`
records the claims of which that is so. Of the others (in an exit's grace, the transfer, the voicemail, or behind a port owen-voice wrote over the
stop) no such thing is true, and what is proved is `HungUpByNobody`: every hangup of the flow asks the registry, so the claimed caller is not hung up.

*OutboundCall.* `DoorInv`: once the settings row is there, the request between its read and its commit is the one that
holds the lock, so what it read is the whole log, and what it counts is everybody's calls. `RingInv`: a job that nobody alive has
started has been rung at most once per death, and a started task has its legs yet to ring (`ToRing`) at that count; it needs
`CallsInv` (a call's handler commits nothing before it completes). `EndInv`: between the two hangups of a softphone call the callee is
quiet, and who is quiet is only rung again by a task that begins (`QuietStays`). `RouteInv`: an event the router remembers is of an
entry channel that exists, and a remembered hangup is filed or missed; this is why a repeated hangup, which the router drops, does
not leave a call open. The lemma `StepEffect` reduces every action to the four things a step can do to the lines.

*VoiceSession.* `TurnInv`: one turn at most is at work and it is the conversation's own; while the caller talks there is none; an
unconfirmed one is a draft, and what it speaks waits behind the gate. `PlayInv`: what is heard without a
confirmed turn came by the fallback's blocking call or after the recogniser died, which opens the gate (both are under
[Divergences](#divergences)). `PlaceInv` says where the end of a session may be, from which `EndIsTold` follows.

*OpenPhone.* Layers. `LedgerInv`: an event is queued exactly if its row is there. `HopInv`, `MineInv` and `StrayInv` say of the
worker's requests at the app, those it gave up included, that they bring only what Quo has. `DueInv`: a
part whose announcement found its call mirrored is not done before it has a row. `TickInv`: a clean tick has left nothing of what it
could see. The proof found an earlier form of a layer false on instances larger than the run's (the job of a part's first announcement is done, then a
second announcement makes the part due again); it is now stated per announcement.

*MailIntake.* `RowsInv` and `StampInv` relate a message's row to its jobs; `LossInv` counts: a death or a failed statement
strands one order at most. `WayInv` and `OrderInv` follow an order to the place where it is relayed. They rest on `MailGrows`: no step takes back a row,
a stamp or an order. The proof also found that `Annotates` lacked a condition of the query it models (only parsed rows are candidates,
`handlers.py`); it has it now.

*CrmLink.* A worker that dies leaves its request under way, so what is in the CRM is not what the worker knows. `RequestsInv`: one
request per life of the worker. `FiledInv` counts: the rows in the CRM and the requests that may still file one are at most the
crashes, the lapses of the network and one for a report that is settled. `LeftInv` bounds what still leaves after the binding was switched off by the crashes plus
one. `AgentInv`, `AcceptedInv` and `MarkInv` say that what the CRM and the row record is what happened. TLC found `LinkInv` true on
a larger instance too (three attempts, two deaths, two switches, three lapses; over 5 million states, not exhausted).

*FlowWalk.* `LibraryInv`: an active version is a valid graph, a number's flow is active, and the flow of a deletion under way is still
there. `PinInv`: the version a walk has pinned stays as it was, whatever the operator does. `WalkInv`: a walk stands on a node of
a valid graph, so it never ends for want of an entry or of an edge's target. `NoDeadAir` follows.

*Relays.* `RelayAtInv`: past its look at the flag, the worker holds a subject nobody has relayed. The posts of a subject are at most one more
than those whose answer was not heard, and once the flag is committed nobody posts it. A call is posted with its
analysis, or when the wait is up (`Ripe`).

*Billing.* `RowsInv`: a row is unpriced and carries nothing, or priced at what the carrier has said of that call, and a dip comes with its call and a ground for it. What is new is that the totals of a page agree
whatever it sums, which needs that a sum does not depend on the order of its rows, and so induction: a finite set with a property has a least
subset with it (`LeastSubset`, from the well-foundedness of the library), and from a least counterexample the sum lemmas follow (`SumTakes`:
any row may be the first; `SumSkips`: unpriced rows add nothing).

*Spend.* `RoomInv`: while the limits stay and the checks answer, what is charged and what the sessions under way will cost stays below the cap plus
that of the sessions that were let in at once (`peak`). `WordInv`: who was refused has told it, or is about to.

*Receipts.* `ReadInv`: what a task has read holds of the rows still, or a commit overtook it. `CountInv` counts what the CRM was told, is about to be
told, and what no row remembers: together at most one more than the overlaps. `RunInv`: what the repair
command owes is ahead of it, in hand, or applied and hidden. `InboxInv`: a customer's text is shown.

*NumberAgents.* `OwnInv` says where the owner's flow is: in the memory of the assignment while the CRM's flow runs, at the number otherwise. `Current`: a request no
commit overtook has decided what it would decide now; `Late`: one that a commit overtook leads to the owner's flow all the same. Two
assignments of one flow cannot both commit (`uq_flow_version`), so the pairs are few. The proof found an earlier form of the property false on instances
larger than the run's: two overlapping removals, of which one had found an edit by hand or nothing to restore, lose the owner's flow as well. The property excludes
them now, in so many words, and an id of a deleted flow is not used again in the model. TLC finds the invariant true with three requests and seven acts.
`VersionsInv`: a planned row goes behind rows of other versions, since the number it would take is then free.

*Inbox.* `Traces`: whatever has begun leaves a trace with its stamp, as a row or as a transaction still open; `OneStamp`: no two things share
one. So "newer than" tells what had begun when an act was asked for from what began later, in whatever order the rows are committed.
`ActsPart` and `AsksPart` say what an operator's act and a request that is under way have seen. `ListAndRequestAgree`: the number the list shows and the
one the send takes come from one rule, so they differ only if the rows changed in between. TLC found the invariant true on a larger instance, of 1.56 million states.

*Pictures.* The sweep spares a picture for twice the life of a link, so a link that finds its picture gone was minted after the first of
the two; what lies about longer has lost the process that would have removed it. The proof found guards of two `CASE` expressions (`Fetches`, `TriesPlain`)
overlapping, which TLA+ leaves to a CHOOSE; the model now says which comes first, as `media.py` does.

*CallerContext.* `InHand`: while the greeting is due, what it will be made of was allowed to this agent and answered by its lookup. `ReportedInTurn`: a call's
note is counted against the job that posts it, so two notes need a slip between them.

*RetellSession.* No step needs what another leaves open, so the layers follow the row: `WayInv` (the caller leaves the way the row says, and only a first session is
transferred), `HookInv` (what is claimed is worked on, done or dead, and an acknowledgement has its reason), `OneScript` and `PartsInv` (while no two requests held the transcript at
once there is one, and what was stored is in it), `NotesInv` (a note nothing crossed is in every later copy). A leg that could not be hung up (`luck.left`) lets its agent talk on.

*WorkizDelete.* `CleanInv`: once the cards are listed again, every dated card is planned or was missed, and no step makes a card or a contact one of the import's
again (`NothingComesBack`). *WorkizImport.* `CopiesInv` and `BookedInv` count: the repetitions, and the jobs done that a kill or half a line has hidden and a run may do
again, are together at most the kills and half lines. `CapInv` says why no client's cards exceed the client's jobs: one card only, or cards of different jobs. `SumInv`: what the first job of a client
stands for is on a card, said not to be, hidden by half a line, or in hand.

*Only model-checked, and why.* Liveness (`WorkIsDone`, `AllFinish`, `EverythingSettles`, `QueuedIsDecided`,
`CallerReleased`, `MailIsStored`, `CallsEnd`, `AllSettle`, `EverythingArrives`, `EveryCallEnds`): TLAPS proves no liveness
under fairness and no facts about ENABLED. `CountedOnce` for the reason above; its larger half, `CountedAtMostOnce`, is proved. Of the `MC` modules that join
components, `BooksAreHonest` and `CapAndReceiptsHold` are proved part by part,
`NumbersAreRight` as it stands; so are both halves of `ScriptsAreHonest`, `MoneyIsAccounted` and `CleanIsClean`. What a recursive definition or a fold computes is proved only where it could be done without an induction
rule that takes an operator: by a least counterexample, as for the bill and the import. No module declares a RECURSIVE operator.

## Divergences

The runs check what the code does. Where a document, a comment or a docstring says otherwise, it is noted here; each was
met while modelling and is a behaviour of the model unless it is said to be left out.

**Queue.** A death after a handler's first commit leaves the row 'running' for ever (`worker.py:58`, there is no
reaper), though docs/AI_AGENT_SPEC.md:224 says the queue "guarantees delivery with backoff and dead-lettering". A database error in a handler
kills the worker and its attempt is not counted, so it is never dead-lettered (docs/CODE_MAP.md:254 says it is after 5 tries);
`JobQueue!DatabaseError` models it.

**Ingestion.** `services/ingestion.py:157` "Reconciliation later overwrites this with the provider's authoritative
start_time": no UPDATE writes started_at. When a recording stub comes first, the status event fills number and
campaign but not is_new_for_campaign, and the back-fill no longer matches: the flag stays NULL although ingestion.py:8 says it
is computed at first sight of the call; nor does the back-fill fill the caller. total_calls is only incremented by the very first event row of a
call; when that one carries no caller, the call is never counted. The status-advance UPDATE writes
answered_at and duration as the event has them, so a terminal event without them blanks what was known until a
reconciler report restores it. `providers/asterisk.py` marks a status as seen before it is ingested, so a
failed ingestion is not repeated by a repeated event; the CDR reconciler repairs the row later.

**Recordings.** `workers/reconciler.py:36` "idempotent": a recording seen by both feeds can be transcribed twice, since
transcribe does not look at the flag. A crash between fetch's commit and the enqueue of transcribe strands the
recording: the claim is public, the poll sees the audio as held.

**Texts.** `services/sms.py:67` "once terminal, status never moves again": message_send overwrites a receipt committed
during its POST. messageSend carries no idempotency key: a send that times out after the carrier
accepted it, or a death before the commit, is retried and the text goes out twice ("Idempotent" covers only a retry
after the commit). `integrations/crm/config.py` says message_send never touches raw_payload; it rewrites it. A STOP the carrier posts again after
a START opts the contact out again. Receipts of two equal texts can be credited to either.

**Receipts.** The backfill's "the relay is re-attempted for any row whose CRM hop has not been recorded": `apply` returns "already
applied" without relaying, so receipts skipped with --no-crm never reach the CRM; "a row already marked is skipped", though a hidden row is applied
again. A failure inside `_take_receipt` is answered 200 and the receipt is lost ("kept either way"). An orphan is
visible between its two commits.

**Pictures.** A link minted more than one TTL after the upload may be broken before its expiry, and a text that waits
in the queue past the TTL hands the carrier an expired link ("Refused BEFORE anything is queued: a message whose
picture has already been swept would go out as words"). A worker death between removing bytes and sidecar leaves a sidecar no sweep
removes; `.part` files are never removed.

**Inbox.** `api/messages.py` send never asks is_contact_blocked, though `services/messages.py` says it gates outbound
send; the worker does not ask again about a block set after acceptance. An inbound committed between page load and POST
/read is marked read unseen. A call filed late with an older start neither reopens nor shows unread. A text from a number
whose row keeps the other carrier's provider id is filtered out. The list shows an `sms_from` that send then refuses.

**Ring group.** `_await_first_answer` accepts a ChannelStateChange to Up, possibly before the
channel enters the application; ARI then refuses the bridge, the phone that answered is hung up
and the caller goes to voicemail. `ring_and_bridge` counts legs whose originate was refused and waits the whole
timeout for them. An unplayable consent notice returns quietly and the bridge is recorded
all the same (docs/DEFAULT_CALL_HANDLING_SPEC.md:47). A caller who hangs up during the notice is noticed only
by the refusals that follow. `_play_consent_or_leg_gone` awaits two queues at once and drops one
event when both deliver.

**Take-over.** `telephony/ownership.py:5` "no automated path may hang up, play, record or bridge that channel
again": bridging, recording and hold music do not ask the registry, and a call claimed while its agent leg connects is
bridged to the agent after the claim. With owen-voice the stopped session destroys the bridge the operator was just added to
(`owen-voice/app/main.py:195`; telephony/monitor.py:9 "The operator's own leg joins the call"). owen-voice's teardown hangs the caller
up when the media leg cannot be bridged, though `owen-voice/app/main.py:92` lets the flow take its fallback. `take_over` reports
ok without looking at whether the caller joined its own new bridge. A take-over asked for before the session's
bridge and leg were stored leaves the agent's leg up, alone. `release` is called by nobody and the
registry dies with its process. With Retell the registry is asked before the exit's grace (`agents/retell.py:230-234`) and the flow follows the port without asking
(`flows/runtime.py:961-972`): a claim in the grace is followed by the transfer the agent asked for, which dials a desk and bridges the claimed
caller to it. With owen-voice a draining turn or a recogniser that dies writes its own port over the stop's (`owen-voice/app/pipeline.py:734`, `:463`), with the
same end. The model does both; `HungUpByNobody` is what remains true.

**Flows.** A voicemail node with non-numeric caps raises before it hangs up and the walk returns "terminal": the caller
stays on a silent line. An archived flow with an active version can still be assigned, though delete_flow's doc says it "would leave it hidden but STILL
ANSWERING CALLS". `unrouted_hangup`, documented "caller was NOT connected to anything", is also recorded after a
conversation that ended on an unwired port.

**Retell.** A death between claiming and processing a webhook loses the event, and a repeat acknowledged while the claimant is
still at work is not repeated if that then fails (`webhook.py`: "a claimed-but-unprocessed event would otherwise be lost for good").
A repeated `ended` of session 1 after session 2's was stored appends its part twice ("this part is already there"); two at once lose a part
or make two rows. A hangup of the Retell leg that fails is swallowed (`agents/retell.py:256`) and the agent talks
on to nobody. Two concurrent capture_lead calls lose one. A capture saved after finish's snapshot never reaches
call_captures though "Saved." was said. An exit accepted when the caller is gone is not performed; a second, refused request is still answered
"Transferring the caller now." A failed finish leaves the row `live`. ACTIVE_TRANSFERS is keyed by the caller's
number: two transferred calls of one number share an entry (not modelled).

**Voice sessions.** `_tool_calls` is emptied only by `_dispatch_tools`, so calls of an abandoned turn run with the next
(`pipeline.py` "Act on the tools the model called this turn"). "A DRAFT may be generated but never SPOKEN": the blocking fallback reply is spoken without the
gate and its tools dispatched, and a dying stream opens the gate of an unconfirmed draft. A draining turn's exit port overwrites
"failed" or "taken_over". A stop acknowledged between answer and socket close is not reported. A clean close of the
recogniser's socket ends the read loop without the documented `error` event. A StasisStart before create_external_media was answered is
ignored and the attach times out. The watchdog can fire during a slow greeting.

**Caller context.** `total_calls` counts the present call and the latest started_at is the present one, so every repeat
caller is told to have called "N times before, most recently earlier today" ("Rung us 4 times, last time 3 days ago"). A name an agent captured wins over the
CRM's in merge_identity, though "a human's entry beats a model's". A GoHighLevel failure in the lookup answers like an unknown caller and is never
marked degraded. A failed contact search is answered 200 "no matching contact", so the note is lost (handle_crm_report: "Raise so the
queue retries: a CRM briefly down should not silently lose the entry"). The 8 s read of opportunities inside the 1.2 s budget loses the whole
lookup ("a name with no pipeline detail is still far better than no context at all"). A late answer posts the note twice (20 s client, 30 s note).
Of the three queries of `local_context` the second, for the time of the last call, stands outside any try (`services/caller_context.py:85-87`); its error is caught by the
session's run (`agents/remote.py:67-70`), which goes on with no context and no provider: nobody is asked, nothing is marked, and a caller the CRM knows passes for
unknown ("never fail a call over context"). The model does so, and `SilenceIsMarked` excuses it (`marred`).

**Spend.** Only Retell's paths call check_alert, so a deployment with owen_voice alone is never warned; two concurrent
checks both warn; a check that had read the old limits marks the day after they were set anew. A second owen_voice session of a call collides on
its unique id and its whole output is rolled back ("a partial capture … is still worth keeping").

**Outbound calls, routing.** The very first agent requests of a deployment find no settings row to lock, and `record()`
overwrites the other's attempt ("a call is never queued without being counted"): `CapsHold` is about what is logged. Calling hours are
checked only at the door. A crash between create_task and completion rings again (comment: "the queue NEVER retries it"); the re-claimed job finds its id
in use, reports "failed" and hangs up a call that may be supervised. An answered agent call whose `_provider_id()` raises is never
reported. Legs of a dead worker's calls stay up ("the person being called never dangles on a live call"). An ingestion failure
of StasisStart leaves the inbound caller unanswered. The monitor's listening leg carries no marks, so its StasisStart starts a flow on
the supervisor; `snoop()` uses `self._request`, which does not exist. A CDR row of an outbound call is filed "inbound".

**Lead e-mail.** A second order is recorded "sent_as_note" though adding the note failed (`handlers.py`: "this note is the ONLY record…").
A retried relay that meets the card it opened itself before a death files its order as a duplicate's note too.

**CRM link.** `is_new_inbound_message` reads before the upsert, so two concurrent redeliveries both report; a crash
between ingest and report loses the push. A call's queued reports still go after the binding is switched off, a text's do not.
A receipt before the CRM stored the message id gets 404 and is completed. Events with a withheld number are dropped as malformed.
A receipt that arrives before message_send commits finds no row.

**OpenPhone.** With AGENT_RUNTIME_KEY unset every object is "refused" without an error and the backfill closes (`sync.py:722`
"Only close the backfill on a CLEAN, COMPLETE pass"). A part announced while the call is being mirrored by another reader is spent as a
"duplicate" and its content lost.

**Relays.** A call posted before its recording row exists is relayed without analysis for good. Each scan while a call waits starts
another self-deferring chain of jobs. A lost answer, or a death before the commit, posts the call twice ("guards against re-sending").

**Billing.** A re-scan rewrites CNAM rows with the new rate (`models.py` CallCharge: "re-pricing later must never
silently rewrite what a past month cost"; `manage.py` set_rate: "history is frozen"). A CNAM row is never removed after cnam is disabled.
purge_estimates' doc says it "drops the bogus per-call CNAM rows", `workers/billing.py` deliberately does not. Of two overlapping scans the one
with the older figure may win until the next. A record restated after it left the window is never corrected. The summary page is several statements, and
a leg rated between them shows in neither. A record the carrier states at 0 is a priced leg and not listed as unrated. "Correlation failing only costs context, never money", though an inbound record with an
unresolved DID takes its CNAM gate from the correlated call.

**Number assignments.** An operator's edit committed between a request's reads and its commit is overwritten ("an operator's flow is
never overwritten by a CRM click"). A number cleared by hand and assigned again restores the flow it ran before ("puts the old behaviour back
exactly"). An assign overlapping an unassign answers "assigned" while the number runs the restored flow. A publish and a deactivate that overlap can
answer active: true while nothing answers. number_sync's adopt never stamps provider_id: an adopted number is adopted anew each poll and never
soft-released.

**Workiz scripts.** `contacts_seen` is empty on a resumed run, so a client whose card exists gets a second attempt, reported as stranded
or counted twice ("Don't even attempt it"). A kill between card and ledger line makes the re-run's refusal look like a non-Workiz blocker. After a torn line
the next append joins it and one more row is lost ("a killed process loses at most the row in flight"). A note whose POST fails is
ledgered and never retried. Running the repair twice books appointments twice. After
a half line that hid the job standing for a client, a third run limited to that job leaves its client's revenue off the cards unsaid. The repair sets the card
of a client with an e-mail only to a sum that counts clients with a phone, which is 0. The removal prints "clean — nothing matching
remains" when the first page of its listing failed, and when its listing of cards ended on a short page or at page 100, which it does not say (`delete_workiz.py:73`; the
break that "Do NOT reintroduce a short-page break" forbids for contacts); without --csv cards on contacts the relay has written to are left (`:149-150`) and it says "clean" too; the advised re-run overwrites its ledger; a contact the relay touches between listing and deletion is
deleted with the relay's card.

## Plan

1. Queue, ingestion, recordings, texts, ring group, take-over, outbound calls and routing. *(done; safety proved)*
2. Relays, lead e-mail, CRM link, OpenPhone, flows, Retell and owen-voice sessions, number assignments,
   Inbox, receipts, pictures, billing, spend, Workiz scripts. *(modelled and checked)*
3. Proofs of the components that handle the queue's jobs, of flows, owen-voice and Retell sessions, the caller context, spend, receipts, billing, number
   assignments, the Inbox, pictures and both Workiz scripts. *(done)*
4. The parts still left out of modelled components, below.

## What is not modelled

- *Within the modelled parts*: skip_transcribe's raw backfill and the CRM re-report of the
  recording pipeline; callers.last_seen_at and forwarded_to; listening to a call (it never touches the call) and the list of live calls;
  the agent behind the CRM line's no-answer seam, of which only the outcome counts; a supervisor asking twice for one call; softphone
  hold, bridge and transfer; owen-voice's capacity, custom tools, fillers and test calls; the kill switch, signatures and streaming of OpenPhone;
  names, notes and previews in the Inbox; the templates' graphs and hours; monthly fees and the billing pages' filters.
- *Left out for good*: signal processing and speech in owen-voice (numeric code), log capture and health pages (read
  only), authentication and dashboard queries (single-row requests), migrations, the browser
  application and the administration command line.
