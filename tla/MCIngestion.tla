----------------------------- MODULE MCIngestion ----------------------------
(* Instances of Ingestion: one Asterisk call and one SignalWire call of the
   same caller, with the events their adapters produce; and, beside it, of
   NumberAgents.  `part` says which of the two a behaviour follows. *)
EXTENDS Ingestion, NumberAgents

CONSTANTS a, s, k, n, m, w1, w2

VARIABLE part

Ev(call, key, rank, caller, number, answered, duration, started) ==
    [call |-> call, key |-> key, rank |-> rank, caller |-> caller, number |-> number,
     answered |-> answered, duration |-> duration, started |-> started]

\* providers/asterisk.py: the WS events carry no duration, the CDR row all.
\* providers/signalwire.py: a forward leg knows no tracking number, a withheld
\* caller no number; signalwire_client.py: the polled log entry knows both.
\* Enough of both calls to race their first events and to meet on a caller's
\* row, on a call's row, or on both.
FiveEvents ==
    { Ev(a, "ChannelStateChange:in-progress", 3, k, n, TRUE, FALSE, FALSE),
      Ev(a, "cdr:completed", 4, k, n, TRUE, TRUE, TRUE),
      Ev(s, "answered:in-progress", 3, Null, n, TRUE, FALSE, TRUE),
      Ev(s, "ended:ended", 4, k, Null, FALSE, FALSE, TRUE),
      Ev(s, "log:completed", 4, k, n, FALSE, TRUE, TRUE) }

TwoCalls   == {a, s}
OneCaller  == {k}
OneNumber  == {n}
OneCampaign == {m}
TwoWorkers == {w1, w2}
ToCampaign == [x \in {n} |-> m]

-----------------------------------------------------------------------------
all == <<part, ingestVars, numberVars>>

Ingests == part = "calls"

BothInit ==
    /\ IngestInit
    /\ \/ part = "calls" /\ Parked
       \/ part = "numbers" /\ NumbersInit

BothNext ==
    \/ Ingests /\ IngestNext /\ UNCHANGED <<part, numberVars>>
    \/ ~Ingests /\ NumbersNext /\ UNCHANGED <<part, ingestVars>>

BothFair ==
    /\ BothInit /\ [][BothNext]_all
    /\ \A w \in Workers : WF_ingestVars(Ingests /\ (Insert(w) \/ Project(w) \/ Commit(w)))
    /\ NumbersFairness

(* Transactions end, and so do requests; the numbers are the carrier's:
   IngestionsFinish and InventorySettles. *)
AllFinish == <>[](IF Ingests THEN \A w \in Workers : ~Open(w) ELSE Settled)
=============================================================================
