----------------------------- MODULE MCMessaging ----------------------------
(* Instances of Messaging for TLC. *)
EXTENDS Messaging

CONSTANTS m1, m2, h1

OneMsg == {m1}
TwoMsgs == {m1, m2}
SendAndRelay == {"send", "relay"} \X Msgs
OneRequest == {h1}
OwnBodies == [m \in Msgs |-> m]
=============================================================================
