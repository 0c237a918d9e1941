--------------------------- MODULE MCVoiceSession ---------------------------
(* A conversation of a few turns, with a fault and a take-over; and, beside it,
   CallerContext: what such a conversation, or Retell's, is told of its caller.
   `part` says which of the two a behaviour follows. *)
EXTENDS VoiceSession, CallerContext

CONSTANTS address, balance

VARIABLE part

A(engine, kind, allow) == [engine |-> engine, kind |-> kind, allow |-> allow]
FiveAgents ==
    { A("owen_voice", "ghl", {address}), A("owen_voice", "ghl", {}),
      A("owen_voice", "crm_link", {}), A("owen_voice", "http", {address}),
      A("retell", "crm_link", {}) }

TwoFacts == {address, balance}

Talks == part = "session"

BothInit ==
    \/ part = "session" /\ SessionInit /\ NoCaller
    \/ part = "context" /\ Starts("answered") /\ ContextInit

BothNext ==
    \/ Talks /\ SessionNext /\ UNCHANGED <<part, contextVars>>
    \/ ~Talks /\ ContextNext /\ UNCHANGED <<part, sessionVars>>

Both == BothInit /\ [][BothNext]_<<part, sessionVars, contextVars>> /\ SessionFairness
        /\ ContextFairness

(* Sessions end and give back what they hold, and a caller is greeted and the call
   reported though the CRM never answers: SessionsEnd and ContextSettled. *)
AllSettle == <>[](IF Talks THEN Settled ELSE ContextSettled)
=============================================================================
