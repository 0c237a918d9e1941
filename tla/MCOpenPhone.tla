----------------------------- MODULE MCOpenPhone ----------------------------
(* Instances of OpenPhone for TLC. *)
EXTENDS OpenPhone

AllJobs == Deliveries \union Hooks
ALine(on, ticked, with) == [on |-> on, ticked |-> ticked, with |-> with]
SomeLines == {ALine({"text"}, {"text"}, {"twice", "keyless"}),
             ALine({"call"}, {"call"}, {"twice"}),
             ALine({"call", "recording"}, {"recording"}, {"repair"}),
             ALine({"call", "transcript"}, {"transcript"}, {"crowd"})}
TextOfAStranger == {"text"}
TwoPosts == {1, 2}
=============================================================================
