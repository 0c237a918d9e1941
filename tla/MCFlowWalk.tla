----------------------------- MODULE MCFlowWalk -----------------------------
(* Instances of FlowWalk for TLC: small graphs that loop, forward, ask an
   agent, fall back, and one that validation refuses; and, beside it, of
   RetellSession.  `part` says which of the two a behaviour follows. *)
EXTENDS FlowWalk, RetellSession, TLC

CONSTANTS f1, f2, f3, main, office, e, a, b, c, d, p

VARIABLE part

N(type, next) == [type |-> type, next |-> next, bad |-> FALSE]
Broken(node) == [node EXCEPT !.bad = TRUE]
G(nodes, fallback) == [nodes |-> nodes, fallback |-> fallback]
Entry == N("entry", "default" :> a)

Loop    == G(e :> Entry @@ a :> N("menu", ("1" :> b) @@ ("timeout" :> a)) @@
             b :> N("hours", ("open" :> a)), Nowhere)
Forward == G(e :> Entry @@ a :> N("dial", "noanswer" :> b) @@ b :> N("voicemail", <<>>), Nowhere)
Ask     == G(e :> Entry @@ a :> N("ai_agent", "complete" :> b) @@ b :> N("hangup", <<>>), Nowhere)
Catch   == G(e :> Entry @@ a :> N("ai_agent", "transfer" :> b) @@
             b :> N("voicemail", <<>>), a)
Failing == G(e :> Entry @@ a :> Broken(N("dial", <<>>)) @@
             b :> Broken(N("menu", "invalid" :> e)) @@
             c :> Broken(N("voicemail", <<>>)), c)
Plain   == G(e :> Entry @@ a :> N("conditions", ("row" :> b) @@ ("else" :> c)) @@
             b :> N("send_sms", "default" :> p) @@ c :> N("request", "failure" :> d) @@
             d :> N("set_vars", <<>>) @@ p :> N("play", <<>>), Nowhere)
Ghost   == G(e :> Entry, Nowhere)

Library(g, h) == f1 :> g @@ f2 :> h
Ordinary == {Library(Loop, Forward), Library(Ask, Plain), Library(Catch, Failing)}
AllLines == {main :> f1 @@ office :> f2, main :> f1 @@ office :> NoFlow}
AllGraphs == {Catch, Ghost}
Legs == {<<"number", "number">>, <<"flow">>}

all == <<part, vars, retellVars>>

Walks == part = "walk"

BothInit ==
    \/ part = "walk" /\ Init /\ StartsAt("done")
    \/ /\ part = "retell" /\ RetellInit /\ Init
       /\ row = [f \in Flows |-> IF f = f3 THEN "none" ELSE "kept"]
       /\ versions[f1] = <<Loop>> /\ line[office] = NoFlow /\ dialed = main /\ net

BothNext ==
    \/ Walks /\ Next /\ UNCHANGED <<part, retellVars>>
    \/ ~Walks /\ RetellNext /\ UNCHANGED <<part, vars>>

BothFair ==
    /\ BothInit /\ [][BothNext]_all
    /\ WF_vars(Walks /\ (Resolve \/ Pin \/ Interpreter \/ Agent \/ Hangs))
    /\ RetellFairness

-----------------------------------------------------------------------------
(* A walk comes to its end and a Retell call to rest: WalkEnds and CallsSettle. *)
CallsEnd == <>[](IF Walks THEN at = "done" ELSE Settled)
=============================================================================
