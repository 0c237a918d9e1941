---------------------------- MODULE CallerContext ---------------------------
(***************************************************************************)
(* What an agent is told about the person who rings, and what the CRM is   *)
(* told about the call.  OWEN knows the caller's label, a name its agents  *)
(* heard in former calls, and how often the caller rang.  The rest is      *)
(* looked up: by owen-voice through OWEN's adapters, while the media leg   *)
(* is attached and no longer than the greeting can wait; for Retell before *)
(* the call is registered.  What the agent has by its first word is what   *)
(* it has for the call; a lookup that came to nothing is marked.           *)
(*                                                                         *)
(* The call over, its capture is stored and, where the CRM is GoHighLevel  *)
(* or an http provider, a report is queued that becomes a note.            *)
(***************************************************************************)
EXTENDS Naturals, FiniteSets

CONSTANTS
    Facts,       \* fields a CRM may hold of a person
    Agents,      \* configurations: records of engine, kind and allow
    MaxCalls,    \* bound: calls of the caller
    MaxEdits,    \* bound: changes by people, in OWEN or the CRM
    MaxSlips     \* bound, below MAX_ATTEMPTS: lookups, posts, attachments, transactions that fail

ASSUME AgentsAreWhole ==
    /\ Agents \subseteq [engine : {"owen_voice", "retell"},
                       kind : {"none", "ghl", "crm_link", "http"}, allow : SUBSET Facts]
    /\ MaxCalls \in Nat

VARIABLES
    agent,       \* the agent that answers
    ready,       \* the keys are set and the link is on
    label,       \* callers.label
    crm,         \* what the CRM has on the number
    call, place, \* the call, and where it is
    met,         \* history: what there was on the caller when the call came
    fetch,       \* the lookup under way, or what came of it
    local,       \* OWEN's half
    prompt,      \* what the agent is told
    degraded,    \* MediaSession.context_degraded
    marred,      \* history: a failed or lost lookup passed for an unknown caller
    heard,       \* a name was captured in this call
    stored,      \* calls whose capture is kept
    exit,        \* how the call ended
    job,         \* call -> its crm_report job
    notes, says, \* call -> notes the CRM took, and what they say
    edits, slips

aboutVars  == <<label, crm, edits>>
knowVars   == <<met, local, prompt, degraded, marred>>
reportVars == <<job, notes, says>>
contextVars == <<agent, ready, aboutVars, call, place, fetch, knowVars, heard, stored, exit,
                 reportVars, slips>>

Calls == 1..MaxCalls
NoAnswer == [who |-> "silence", facts |-> {}]
Unknown == [who |-> "nobody", facts |-> {}]
NoFetch == [who |-> "unasked", facts |-> {}]
Waiting == [who |-> "out", facts |-> {}]
Entries == {Unknown} \union [who : {"nameless", "named"}, facts : {Facts}]
Untold == [name |-> "none", history |-> FALSE, summary |-> FALSE, facts |-> {}]
Unsaid == [port |-> "none", heard |-> FALSE]

Start(where) ==
    /\ place = where /\ call = 0
    /\ met = [label |-> FALSE, crm |-> Unknown]
    /\ fetch = NoFetch /\ local = Untold /\ prompt = Untold
    /\ degraded = FALSE /\ marred = FALSE /\ heard = FALSE /\ stored = {} /\ exit = "none"
    /\ job = [c \in Calls |-> "none"]
    /\ notes = [c \in Calls |-> 0] /\ says = [c \in Calls |-> Unsaid]
    /\ edits = 0 /\ slips = 0

ContextInit ==
    /\ Start("idle")
    /\ agent \in Agents /\ ready \in BOOLEAN /\ label \in BOOLEAN /\ crm \in Entries

(* A behaviour that follows something else. *)
NoCaller ==
    /\ Start("parked")
    /\ agent = (CHOOSE a \in Agents : TRUE) /\ ready = FALSE /\ label = FALSE /\ crm = Unknown

(* A session keeps nothing for the next. *)
Forgotten ==
    /\ fetch' = NoFetch /\ local' = Untold /\ prompt' = Untold
    /\ degraded' = FALSE /\ marred' = FALSE

Slip == slips < MaxSlips /\ slips' = slips + 1

-----------------------------------------------------------------------------
(* The caller, and the people who write about the caller *)

Rings ==
    /\ place = "idle" /\ call < MaxCalls
    /\ call' = call + 1 /\ place' = "asks"
    /\ met' = [label |-> label, crm |-> crm] /\ heard' = FALSE /\ exit' = "none"
    /\ UNCHANGED <<agent, ready, aboutVars, fetch, local, prompt, degraded, marred, stored,
                   reportVars,
                   slips>>

Edit == edits < MaxEdits /\ edits' = edits + 1

Labels ==
    /\ Edit /\ label' = ~label
    /\ UNCHANGED <<agent, ready, crm, call, place, fetch, knowVars, heard, stored, exit,
                   reportVars, slips>>

CrmChanges(entry) ==
    /\ Edit /\ entry # crm /\ crm' = entry
    /\ UNCHANGED <<agent, ready, label, call, place, fetch, knowVars, heard, stored, exit,
                   reportVars, slips>>

-----------------------------------------------------------------------------
(* OWEN's half, and whom to ask for the other *)

(* A label is a person's; a name an agent heard serves where there is none. *)
HeardFirst == IF stored # {} THEN "heard" ELSE IF label THEN "label" ELSE "none"  \* mutant of LocalName
LocalName == IF label THEN "label" ELSE IF stored # {} THEN "heard" ELSE "none"

(* An agent's provider, unless its configuration is refused or the adapter off. *)
Refused == agent.kind \in {"ghl", "http"} /\ agent.allow = {}
Provider ==
    CASE agent.kind = "none" \/ Refused            -> "none"
      [] agent.kind \in {"ghl", "crm_link"} /\ ~ready -> "none"
      [] OTHER                                     -> agent.kind

(* Retell's agents are told what the linked CRM says, and nothing of OWEN's. *)
Asks == IF agent.engine = "retell" /\ Provider # "crm_link" THEN "none" ELSE Provider

KnownAs(who) == local' = [Untold EXCEPT !.name = who, !.history = (call > 1)]

LooksUp == fetch' = IF Asks = "none" THEN NoFetch ELSE Waiting

(* Of the three queries the first, for the caller, may fail and leave OWEN's half
   empty, and the last, for the captures, leaves it without the name heard.  The
   second, for the time of the last call, is caught only by the session's run: it
   takes the provider with it, and nothing is asked. *)
BuildsContext ==
    /\ place = "asks" /\ agent.engine = "owen_voice"
    /\ \/ KnownAs(LocalName) /\ LooksUp /\ UNCHANGED <<marred, slips>>
       \/ Slip /\ UNCHANGED <<local, marred>> /\ LooksUp
       \/ Slip /\ KnownAs(IF label THEN "label" ELSE "none") /\ LooksUp /\ UNCHANGED marred
       \/ Slip /\ UNCHANGED local /\ fetch' = NoFetch /\ marred' = (Asks # "none")
    /\ place' = "attaches"
    /\ UNCHANGED <<agent, ready, aboutVars, call, met, prompt, degraded, heard, stored, exit,
                   reportVars>>

AsksForRetell ==
    /\ place = "asks" /\ agent.engine = "retell"
    /\ LooksUp
    /\ place' = "greets"
    /\ UNCHANGED <<agent, ready, aboutVars, call, knowVars, heard, stored, exit, reportVars, slips>>

-----------------------------------------------------------------------------
(* The lookup *)

(* crm_link speaks of a caller the CRM names, and of no other; GoHighLevel's
   adapter and an http provider pass on what they hold. *)
AnswerAny(entry) == entry                          \* mutant of Answer
Answer(entry) ==
    IF Asks = "crm_link" /\ entry.who = "nameless" THEN Unknown ELSE entry

CrmAnswers ==
    /\ fetch = Waiting
    /\ fetch' = Answer(crm)
    /\ UNCHANGED <<agent, ready, aboutVars, call, place, knowVars, heard, stored, exit,
                   reportVars, slips>>

(* An error: GoHighLevel's adapter answers as of an unknown caller. *)
CrmFails ==
    /\ fetch = Waiting /\ Slip
    /\ fetch' = IF Asks = "ghl" THEN Unknown ELSE NoAnswer
    /\ marred' = (Asks = "ghl")
    /\ UNCHANGED <<agent, ready, aboutVars, call, place, met, local, prompt, degraded, heard,
                   stored, exit,
                   reportVars>>

Attaches ==
    /\ place = "attaches" /\ place' = "greets"
    /\ UNCHANGED <<agent, ready, aboutVars, call, fetch, knowVars, heard, stored, exit,
                   reportVars, slips>>

(* No service, no slot, or no media: the flow's fallback takes the caller. *)
AttachFails ==
    /\ place = "attaches" /\ Slip
    /\ place' = "ended" /\ exit' = "failed"
    /\ UNCHANGED <<agent, ready, aboutVars, call, fetch, knowVars, heard, stored, reportVars>>

-----------------------------------------------------------------------------
(* The greeting *)

MergeIdentity(remote) ==
    IF local.name # "none" THEN local.name
    ELSE IF remote.who = "named" THEN "crm" ELSE "none"

AllFacts(facts) == facts                           \* mutant of FilterFacts
FilterFacts(facts) == facts \intersect agent.allow

(* owen-voice: names by authority, fields by the agent's list; the linked CRM's
   brief is its summary and holds no fields. *)
RenderBlob(remote) ==
    [name    |-> MergeIdentity(remote),
     history |-> local.history,
     summary |-> remote.who \in {"named", "nameless"},
     facts   |-> IF Asks = "crm_link" THEN {} ELSE FilterFacts(remote.facts)]

(* Retell: everything of a caller the CRM names, or that there is no record. *)
RenderVariables(remote) ==
    IF remote.who = "named"
    THEN [name |-> "crm", history |-> FALSE, summary |-> TRUE, facts |-> {}]
    ELSE Untold

Render(remote) ==
    IF agent.engine = "retell" THEN RenderVariables(remote) ELSE RenderBlob(remote)

Greet(remote) == prompt' = Render(remote) /\ place' = "talks"

Resolves ==
    /\ place = "greets" /\ fetch # Waiting
    /\ Greet(fetch) /\ degraded' = (fetch = NoAnswer)
    /\ UNCHANGED <<agent, ready, aboutVars, call, fetch, met, local, marred, heard, stored, exit,
                   reportVars, slips>>

MarksNothing == degraded                           \* mutant of Marks
Marks == TRUE

(* The time is up: the lookup is cancelled. *)
Overruns ==
    /\ place = "greets" /\ fetch = Waiting
    /\ Greet(NoAnswer) /\ fetch' = NoAnswer /\ degraded' = Marks
    /\ UNCHANGED <<agent, ready, aboutVars, call, met, local, marred, heard, stored, exit,
                   reportVars,
                   slips>>

-----------------------------------------------------------------------------
(* The call and its end *)

Hears ==
    /\ place = "talks" /\ ~heard /\ heard' = TRUE
    /\ UNCHANGED <<agent, ready, aboutVars, call, place, fetch, knowVars, stored, exit,
                   reportVars, slips>>

(* What the session gathered is kept before the caller is moved anywhere. *)
Ends(p) ==
    /\ place = "talks"
    /\ exit' = p /\ place' = IF p = "transfer" THEN "moves" ELSE "ended"
    /\ \/ stored' = (IF heard THEN stored \union {call} ELSE stored) /\ UNCHANGED slips
       \/ heard /\ Slip /\ UNCHANGED stored
    /\ UNCHANGED <<agent, ready, aboutVars, call, fetch, knowVars, heard, reportVars>>

(* The target answers; or nobody does, and the flow's edge or, once, Retell's
   agent takes the caller back, told what it was told before. *)
Moves ==
    /\ place = "moves"
    /\ \/ exit' = "transferred" /\ place' = "ended"
       \/ agent.engine = "owen_voice" /\ place' = "ended" /\ UNCHANGED exit
       \/ agent.engine = "retell" /\ place' = "back" /\ UNCHANGED exit
    /\ UNCHANGED <<agent, ready, aboutVars, call, fetch, knowVars, heard, stored, reportVars,
                   slips>>

BackEnds(p) ==
    /\ place = "back" /\ place' = "ended" /\ exit' = p
    /\ UNCHANGED <<agent, ready, aboutVars, call, fetch, knowVars, heard, stored, reportVars,
                   slips>>

Reportable == agent.kind = "http" \/ (agent.kind = "ghl" /\ ready)

EarlyBody ==                                       \* mutant of ReportBody: before the move
    [port |-> IF exit = "transferred" THEN "transfer" ELSE exit, heard |-> heard]
ReportBody == [port |-> exit, heard |-> heard]

Reports ==
    /\ place = "ended" /\ place' = "idle"
    /\ IF Reportable
       THEN /\ job' = [job EXCEPT ![call] = "queued"]
            /\ says' = [says EXCEPT ![call] = ReportBody]
       ELSE UNCHANGED <<job, says>>
    /\ Forgotten
    /\ UNCHANGED <<agent, ready, aboutVars, call, met, heard, stored, exit, notes, slips>>

-----------------------------------------------------------------------------
(* The report's job *)

Note(c) == notes' = [notes EXCEPT ![c] = @ + 1]
Done(c) == job' = [job EXCEPT ![c] = "done"]

(* The adapter finds the contact and adds the note; no contact is no error. *)
Posts(c) ==
    /\ job[c] = "queued" /\ Done(c)
    /\ IF agent.kind = "http" \/ crm.who # "nobody" THEN Note(c) ELSE UNCHANGED notes
    /\ UNCHANGED <<agent, ready, aboutVars, call, place, fetch, knowVars, heard, stored, exit,
                   says, slips>>

(* The search fails, which the adapter takes for an unknown caller; or the note is
   refused, or taken and answered late, and the job is tried again. *)
PostFails(c) ==
    /\ job[c] = "queued" /\ Slip
    /\ \/ agent.kind = "ghl" /\ Done(c) /\ UNCHANGED notes
       \/ UNCHANGED <<job, notes>>
       \/ (agent.kind = "http" \/ crm.who # "nobody") /\ Note(c) /\ UNCHANGED job
    /\ UNCHANGED <<agent, ready, aboutVars, call, place, fetch, knowVars, heard, stored, exit,
                   says>>

-----------------------------------------------------------------------------
Session ==
    \/ BuildsContext \/ AsksForRetell \/ Attaches \/ AttachFails \/ Resolves \/ Overruns
    \/ Ends("complete") \/ Ends("transfer") \/ Moves \/ BackEnds("complete") \/ Reports
Worker == \E c \in Calls : Posts(c) \/ PostFails(c)
Others == Rings \/ Labels \/ (\E entry \in Entries : CrmChanges(entry)) \/ CrmAnswers \/ CrmFails \/ Hears

ContextNext == Session \/ Worker \/ Others

(* Each wait of the session has a limit, and the queue goes on.  Nothing is asked
   of the CRM: it need never answer. *)
ContextFairness == WF_contextVars(Session) /\ WF_contextVars(Worker)

-----------------------------------------------------------------------------
Telling == place \in {"talks", "moves", "back"}

(* An agent is told nothing of a person but what the agent's list and the CRM's
   word allow: a field only if it is listed and was in an answer; with the linked
   CRM, nothing at all unless the answer named the caller. *)
KnowsOnlyItsCaller ==
    Telling =>
        /\ prompt.facts \subseteq agent.allow /\ prompt.facts \subseteq fetch.facts
        /\ agent.kind = "crm_link" /\ prompt.summary => fetch.who = "named"
        /\ prompt.name = "crm" => fetch.who = "named"

(* The name a person gave the caller stands, whatever agents heard or the CRM has
   -- unless it was changed in this call or the database could not be read. *)
LabelStands ==
    Telling /\ agent.engine = "owen_voice" /\ met.label /\ edits = 0 /\ slips = 0
        => prompt.name = "label"

(* A caller whom the provider could have named all along is named, or the session
   is marked -- unless GoHighLevel's failure passed for an unknown caller, or the
   read of the last call's time failed, which leaves nobody asked. *)
SilenceIsMarked ==
    Telling /\ Asks # "none" /\ agent.engine = "owen_voice" /\ met.crm.who = "named" /\ edits = 0
        => prompt.name # "none" \/ degraded \/ marred

(* A note tells how the call ended, after any transfer, and of this call's capture
   only; a call is noted once unless an answer was lost. *)
NotesTheCall ==
    \A c \in Calls :
        /\ c = call /\ notes[c] > 0 => says[c] = [port |-> exit, heard |-> heard]
        /\ notes[c] <= 1 + slips

(* An agent knows no more of its caller than it may, a label stands, a lookup that
   came to nothing is marked, and the note tells the call. *)
ContextIsHonest == KnowsOnlyItsCaller /\ LabelStands /\ SilenceIsMarked /\ NotesTheCall

(* The caller is served and the report decided, should the CRM never answer. *)
ContextSettled ==
    /\ place \in {"idle", "parked"}
    /\ \A c \in Calls : job[c] # "queued"
=============================================================================
