------------------------------ MODULE Ingestion -----------------------------
(***************************************************************************)
(* Call ingestion (services/ingestion.py ingest_status_event and           *)
(* services/recordings.py _ensure_call): webhooks served by several app    *)
(* workers, the reconcilers and the Asterisk consumer all project provider *)
(* events onto one calls row.                                              *)
(*                                                                         *)
(* An ingestion is one READ COMMITTED transaction.  Its steps are the      *)
(* points where another transaction can be seen or waited for: the caller  *)
(* upsert (locks the callers row until commit), the prior-call lookup and  *)
(* the INSERT of the call, the UPDATEs with the insert of the event and    *)
(* the first-event count, and the commit.                                  *)
(*                                                                         *)
(* An event is a record: which call, its dedup key (event_type and         *)
(* provider_sequence), the rank of its status, and what it carries: the    *)
(* caller, the registered number it resolves to, and whether it has an     *)
(* answer time, a duration and the provider's start time.  Each dates a    *)
(* different thing, so a column is modelled by what filled it.             *)
(***************************************************************************)
EXTENDS Integers, FiniteSets

CONSTANTS
    Calls,          \* provider_call_sid values of one provider
    Callers,        \* external phone numbers
    Numbers,        \* registered tracking numbers
    Campaigns,
    CampaignOf,     \* numbers.campaign_id, Null when the number has none
    Null,           \* SQL NULL
    Events,         \* what the providers report (see EventShape)
    Workers,        \* transactions that can be open at once
    MaxRedeliveries,\* bound: deliveries beyond the first (retry, re-poll)
    MaxAborts       \* bound: transactions cut short by a dead process

EventShape ==
    [call : Calls, key : STRING, rank : 0..4, caller : Callers \union {Null},
     number : Numbers \union {Null}, answered : BOOLEAN, duration : BOOLEAN,
     started : BOOLEAN]

ASSUME IngestionAssumption ==
    /\ Events \subseteq EventShape
    /\ CampaignOf \in [Numbers -> Campaigns \union {Null}]
    /\ Null \notin Callers \union Numbers \union Campaigns \union Calls
    /\ MaxRedeliveries \in Nat /\ MaxAborts \in Nat
    \* the key contains the status, so one key of a call has one rank
    /\ \A e, f \in Events : e.call = f.call /\ e.key = f.key => e.rank = f.rank

VARIABLES
    calls,      \* the calls table, committed
    log,        \* the call_events table, committed
    total,      \* callers.total_calls, committed
    tx,         \* the open transactions
    delivered,  \* events delivered at least once
    again,      \* redeliveries so far (bounded by MaxRedeliveries)
    aborts,     \* transactions lost so far (bounded by MaxAborts)
    counted,    \* history: increments of total_calls caused by each call
    ingested    \* history: events whose transaction has committed

ingestVars == <<calls, log, total, tx, delivered, again, aborts, counted, ingested>>

NoRow == [exists |-> FALSE, rank |-> 0, number |-> Null, caller |-> Null,
          campaign |-> Null, isNew |-> Null, started |-> Null,
          answered |-> FALSE, duration |-> FALSE]

Rows == [exists : BOOLEAN, rank : 0..4, number : Numbers \union {Null},
         caller : Callers \union {Null}, campaign : Campaigns \union {Null},
         isNew : {TRUE, FALSE, Null}, started : {Null, "seen", "provider"},
         answered : BOOLEAN, duration : BOOLEAN]

LogRows == [call : Calls, key : STRING, rank : 0..4]

Campaign(e) == IF e.number = Null THEN Null ELSE CampaignOf[e.number]
LogRow(e)   == [call |-> e.call, key |-> e.key, rank |-> e.rank]

IngestInit ==
    /\ calls     = [c \in Calls |-> NoRow]
    /\ log       = {}
    /\ total     = [k \in Callers |-> 0]
    /\ tx        = [w \in Workers |-> [at |-> "idle"]]
    /\ delivered = {}
    /\ again     = 0
    /\ aborts    = 0
    /\ counted   = [c \in Calls |-> 0]
    /\ ingested  = {}

-----------------------------------------------------------------------------
(* Locks held until commit. *)

Open(w) == tx[w].at # "idle"
HoldsCaller(w, k) == Open(w) /\ tx[w].evt.caller = k
SharedCall(w, c) ==                                \* mutant of HoldsCall: share lock
    tx[w].at \in {"inserted", "projected"} /\ tx[w].evt.call = c

HoldsCall(w, c) ==
    /\ tx[w].at \in {"inserted", "projected"}
    /\ tx[w].evt.call = c
    /\ tx[w].wrote
HoldsKey(w, e) ==
    tx[w].at = "projected" /\ tx[w].fresh /\ LogRow(tx[w].evt) = LogRow(e)

(* _get_or_create_caller: the upsert blocks while another open transaction has
   upserted the same caller. *)
CallerFree(k) == k # Null => \A w \in Workers : ~HoldsCaller(w, k)

Begin(w, e) ==
    /\ ~Open(w)
    /\ CallerFree(e.caller)
    /\ delivered' = delivered \union {e}
    /\ again' = IF e \in delivered THEN again + 1 ELSE again
    /\ again' =< MaxRedeliveries
    /\ tx' = [tx EXCEPT ![w] = [at |-> "locked", evt |-> e]]
    /\ UNCHANGED <<calls, log, total, aborts, counted, ingested>>

(* is_new_for_campaign: no committed call of this caller in this campaign.  A
   later event of the same call finds the call itself. *)
IsNew(e) ==
    IF e.caller = Null \/ Campaign(e) = Null THEN Null
    ELSE ~\E c \in Calls : /\ calls[c].exists
                           /\ calls[c].caller = e.caller
                           /\ calls[c].campaign = Campaign(e)

(* INSERT ... ON CONFLICT DO NOTHING waits for an uncommitted insert of the
   same sid, then either inserts or does nothing. *)
FirstRow(e, isNew) ==
    [exists |-> TRUE, rank |-> e.rank, number |-> e.number, caller |-> e.caller,
     campaign |-> Campaign(e), isNew |-> isNew,
     started |-> IF e.started THEN "provider" ELSE "seen",
     answered |-> e.answered, duration |-> e.duration]

Insert(w) ==
    /\ tx[w].at = "locked"
    /\ LET e == tx[w].evt IN
        /\ \A v \in Workers : ~HoldsCall(v, e.call) \/ calls[e.call].exists
        /\ tx' = [tx EXCEPT ![w] =
                    [at |-> "inserted", evt |-> e, isNew |-> IsNew(e),
                     wrote |-> ~calls[e.call].exists,
                     row |-> IF calls[e.call].exists THEN calls[e.call]
                             ELSE FirstRow(e, IsNew(e))]]
    /\ UNCHANGED <<calls, log, total, delivered, again, aborts, counted, ingested>>

(* The three UPDATEs, in the order of the code. *)

Or(x, y) == IF x # Null THEN x ELSE y

AdvanceAlways(row, e) ==                           \* mutant of Advance: no rank guard
    [row EXCEPT !.rank     = e.rank,
                !.answered = e.answered,
                !.duration = e.duration,
                !.number   = Or(e.number, @),
                !.caller   = Or(e.caller, @),
                !.campaign = Or(Campaign(e), @)]

Advance(row, e) ==
    IF row.rank < e.rank
    THEN [row EXCEPT !.rank     = e.rank,
                     !.answered = e.answered,
                     !.duration = e.duration,
                     !.number   = Or(e.number, @),
                     !.caller   = Or(e.caller, @),
                     !.campaign = Or(Campaign(e), @)]
    ELSE row

NoBackfill(row, e) == row                          \* mutant of BackfillAnswer

BackfillAnswer(row, e) ==
    [row EXCEPT !.answered = @ \/ e.answered, !.duration = @ \/ e.duration]

NoHeal(row, e, isNew) == row                       \* mutant of BackfillAttribution

BackfillAttribution(row, e, isNew) ==
    IF e.number # Null /\ row.number = Null
    THEN [row EXCEPT !.number   = e.number,
                     !.campaign = Or(Campaign(e), @),
                     !.isNew    = Or(isNew, @)]
    ELSE row

Projection(row, e, isNew) ==
    BackfillAttribution(BackfillAnswer(Advance(row, e), e), e, isNew)

(* The event row is new when neither the table nor this key's other writer has
   it; total_calls counts a call whose first event row is this one. *)
NewEvent(e) == LogRow(e) \notin log                 \* mutant of FirstEvent

FirstEvent(e) == \A r \in log : r.call # e.call

Counts(e) ==
    /\ LogRow(e) \notin log
    /\ e.caller # Null
    /\ e.rank >= 1
    /\ FirstEvent(e)

Project(w) ==
    /\ tx[w].at = "inserted"
    /\ LET e   == tx[w].evt
           own == tx[w].wrote
           old == IF own THEN tx[w].row ELSE calls[e.call]
           new == Projection(old, e, tx[w].isNew)
       IN
        /\ \A v \in Workers \ {w} : /\ new # old => ~HoldsCall(v, e.call)
                                    /\ ~HoldsKey(v, e)
        /\ tx' = [tx EXCEPT ![w] =
                    [at |-> "projected", evt |-> e, row |-> new,
                     wrote |-> own \/ new # old,
                     fresh |-> LogRow(e) \notin log, counts |-> Counts(e)]]
    /\ UNCHANGED <<calls, log, total, delivered, again, aborts, counted, ingested>>

Commit(w) ==
    /\ tx[w].at = "projected"
    /\ LET t == tx[w]
           e == t.evt IN
        /\ calls' = IF t.wrote THEN [calls EXCEPT ![e.call] = t.row] ELSE calls
        /\ log'   = IF t.fresh THEN log \union {LogRow(e)} ELSE log
        /\ IF t.counts
           THEN /\ total'   = [total EXCEPT ![e.caller] = @ + 1]
                /\ counted' = [counted EXCEPT ![e.call] = @ + 1]
           ELSE UNCHANGED <<total, counted>>
        /\ ingested' = ingested \union {e}
    /\ tx' = [tx EXCEPT ![w] = [at |-> "idle"]]
    /\ UNCHANGED <<delivered, again, aborts>>

(* The process serving the transaction dies: it is rolled back, and the
   delivery is lost unless the provider or a reconciler reports it again. *)
Abort(w) ==
    /\ Open(w)
    /\ aborts < MaxAborts
    /\ aborts' = aborts + 1
    /\ tx' = [tx EXCEPT ![w] = [at |-> "idle"]]
    /\ UNCHANGED <<calls, log, total, delivered, again, counted, ingested>>

(* services/recordings.py _ensure_call: a recording event arrives first and
   leaves a bare row. *)
EnsureCall(c) ==
    /\ ~calls[c].exists
    /\ \A w \in Workers : ~HoldsCall(w, c)
    /\ calls' = [calls EXCEPT ![c] = [NoRow EXCEPT !.exists = TRUE]]
    /\ UNCHANGED <<log, total, tx, delivered, again, aborts, counted, ingested>>

IngestNext ==
    \/ \E w \in Workers :
        \/ \E e \in Events : Begin(w, e)
        \/ Insert(w) \/ Project(w) \/ Commit(w) \/ Abort(w)
    \/ \E c \in Calls : EnsureCall(c)

IngestSpec == IngestInit /\ [][IngestNext]_ingestVars

(* A database transaction ends, and what a reconciler polls is delivered. *)
Fairness ==
    \A w \in Workers : /\ WF_ingestVars(Insert(w)) /\ WF_ingestVars(Project(w)) /\ WF_ingestVars(Commit(w))

IngestFairSpec == IngestSpec /\ Fairness

-----------------------------------------------------------------------------
IngestTypeOK ==
    /\ calls \in [Calls -> Rows]
    /\ log \subseteq LogRows
    /\ total \in [Callers -> Nat]
    /\ \A w \in Workers :
        /\ tx[w].at \in {"idle", "locked", "inserted", "projected"}
        /\ Open(w) => tx[w].evt \in Events
        /\ tx[w].at \in {"inserted", "projected"} =>
               tx[w].row \in Rows /\ tx[w].wrote \in BOOLEAN
    /\ counted \in [Calls -> Nat]
    /\ ingested \subseteq delivered /\ delivered \subseteq Events
    /\ again \in 0..MaxRedeliveries /\ aborts \in 0..MaxAborts

(* "calls is derived from call_events" (models.py:204): whatever the order,
   the retries and the overlap of transactions, the committed status of a call
   is the highest one among its committed events. *)
StatusIsHighestEvent ==
    /\ IngestTypeOK
    /\ \A c \in Calls :
        /\ \A r \in log : r.call = c => r.rank =< calls[c].rank
        /\ calls[c].rank > 0 => \E r \in log : r.call = c /\ r.rank = calls[c].rank

(* Attribution is healed and never lost: a call one of whose ingested events
   resolved a registered number is attributed to a number, in whatever order a
   recording stub, a forward leg and the inbound leg arrived. *)
AttributionHeals ==
    \A e \in ingested : e.number # Null => calls[e.call].number # Null

(* total_calls counts a call at most once (CODE_MAP.md:161), even when two
   workers ingest its first events at the same moment. *)
CountedAtMostOnce == \A c \in Calls : counted[c] =< 1

(* A caller is new to a campaign in at most one call: two simultaneous first
   calls of one caller are not both flagged. *)
NewAtMostOnce ==
    \A c, d \in Calls :
        /\ c # d
        /\ calls[c].isNew = TRUE /\ calls[d].isNew = TRUE
        /\ calls[c].caller = calls[d].caller
        => calls[c].campaign # calls[d].campaign

(* The counters the dashboard shows: neither is raised twice by one caller's
   simultaneous first calls. *)
CountedOnce == CountedAtMostOnce /\ NewAtMostOnce

(* A reconciler report of the ended call (terminal status and duration)
   completes the row for good, whatever arrived before or arrives after. *)
ReconciledIsComplete ==
    \A e \in ingested :
        e.rank = 4 /\ e.duration => /\ calls[e.call].rank = 4
                                    /\ calls[e.call].duration
                                    /\ e.answered => calls[e.call].answered

(* Late facts mend a call, whichever of its events brought them first. *)
FactsHeal == AttributionHeals /\ ReconciledIsComplete

(* A call's row is what its events say, in whatever order they came. *)
RowTellsEvents == StatusIsHighestEvent /\ FactsHeal

(* Waiting for the caller's and the call's row locks is never circular. *)
IngestionsFinish == \A w \in Workers : Open(w) ~> ~Open(w)
=============================================================================
