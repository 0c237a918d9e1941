----------------------------- MODULE LinkProofs -----------------------------
(***************************************************************************)
(* What is proved of a call on a DID and of what the CRM is told of it:    *)
(* the ring group the caller hears (RingGroup), the reports and the texts  *)
(* of the link (CrmLink), its pictures (Pictures), and, at the end, of the *)
(* removal of an import from the CRM beside it (WorkizDelete).             *)
(*                                                                         *)
(* The ring group, for any number of phones, of failed requests and of     *)
(* losses of the events websocket.  The invariant says, for each place the *)
(* handler can be at, which phones may still be live (RungDown) and what   *)
(* has become of the caller (TalkInv).  Neither mentions the events: what  *)
(* is on the wire or was never seen decides when the handler moves on, not *)
(* what it leaves behind.                                                  *)
(*                                                                         *)
(* The link, for any deliveries of a text, any switching of the DID, any   *)
(* number of lost answers and of worker deaths.  A worker that dies leaves *)
(* its request to the adapter under way, and that is what is counted:      *)
(*   RequestsInv  each life of the worker has one request at most;         *)
(*   FiledInv     rows in the CRM and requests of dead workers that may    *)
(*                still add one are paid for by lapses, by deaths and by   *)
(*                the one settled attempt (Settled);                       *)
(*   LeftInv      so are the texts that looked the binding up in time;     *)
(*   AgentInv, AcceptedInv, MarkInv   what an attempt ends with, and what  *)
(*                the CRM's own text bears, hold whatever is repeated.     *)
(*                                                                         *)
(* The two models are proved about apart: no proof of one cites the        *)
(* other's assumptions or definitions.                                     *)
(***************************************************************************)
EXTENDS RingGroup, CrmLink, Pictures, WorkizDelete, QueueWorkerProofs, SequenceTheorems, FiniteSetTheorems

(***************************************************************************)
(* The ring group                                                          *)
(***************************************************************************)

Silent(l) == Down(l) \/ l \in kept

(* The phone that won is one of those that were rung. *)
WinnerWasRung ==
    /\ stage \in {"begin", "plan", "originate", "await"} => winner = NoLeg
    /\ stage \in {"losers", "bridge", "talk"} => winner \in plan
    /\ stage \in {"finally", "drop"} => winner \in plan \union {NoLeg}
    /\ stage \in {"begin", "plan"} => pending = {}

TypeInv == TypeOK /\ WinnerWasRung

(* Which phones can still be live at each place. *)
RungDown ==
    \A l \in Legs :
        /\ stage \in {"begin", "plan"} => Down(l)
        /\ stage = "originate" /\ (l \notin plan \/ l \in todo) => Down(l)
        /\ stage = "await" /\ l \notin plan => Down(l)
        /\ stage = "losers" /\ l \notin todo /\ l # winner => Silent(l)
        /\ stage \in {"bridge", "talk"} /\ l # winner => Silent(l)
        /\ stage \in {"finally", "drop"} /\ l \notin todo => Silent(l)
        /\ Over /\ stage # "drop" => Silent(l)

(* The caller talks to nobody before the bridge, then to the winner; and what the
   ring group and the call came to is what happened. *)
TalkInv ==
    /\ talking \subseteq {Caller, winner}
    /\ stage \in {"begin", "plan", "originate", "await", "losers", "bridge"} =>
           talking = {} /\ ~met /\ result # "answered" /\ outcome # "answered"
    /\ stage = "talk" => met
    /\ result = "answered" \/ outcome = "answered" => met
    /\ met /\ faults = 0 =>
           \/ stage = "talk"
           \/ stage \in {"finally", "drop"} /\ result = "answered"
           \/ stage \in {"hangup", "report", "done"} /\ outcome = "answered"

IInv == TypeInv /\ RungDown /\ TalkInv

-----------------------------------------------------------------------------
(* What the operations on Asterisk leave behind *)

(* An event is put on the wire, or is lost. *)
LEMMA RaisesTyped ==
    ASSUME TypeOK, NEW p \in Parties, NEW what \in {"up", "stasis", "gone"}, Raises(p, what)
    PROVE  wire' \in Seq(Events)
<1>1. wire \in Seq(Events) /\ Event(p, what) \in Events
    BY DEF TypeOK, Event, Events
<1>2. Append(wire, Event(p, what)) \in Seq(Events)
    BY <1>1, AppendProperties
<1> QED  BY <1>1, <1>2 DEF Raises

(* A party who leaves is down, and nobody else changes. *)
LEMMA LeavesEffect ==
    ASSUME TypeOK, NEW p \in Parties, Leaves(p)
    PROVE  /\ line' \in [Parties -> {"none", "gone"} \union Live]
           /\ talking' \subseteq talking /\ wire' \in Seq(Events) /\ UNCHANGED online
           /\ Down(p)' /\ \A q \in Parties : Down(q) => Down(q)'
<1>1. wire' \in Seq(Events)
    BY RaisesTyped DEF Leaves
<1> QED  BY <1>1 DEF Leaves, TypeOK, Down, Live

(* A hangup request takes the channel down, or fails and is remembered. *)
LEMMA DeleteEffect ==
    ASSUME TypeOK, NEW p \in Parties, Delete(p)
    PROVE  /\ line' \in [Parties -> {"none", "gone"} \union Live]
           /\ talking' \subseteq talking /\ wire' \in Seq(Events) /\ UNCHANGED online
           /\ kept \subseteq kept' /\ kept' \subseteq Parties
           /\ \A q \in Parties : Down(q) => Down(q)'
           /\ Down(p)' \/ p \in kept'
           /\ faults' \in 0..MaxFaults
           /\ faults' = 0 => faults = 0
<1>1. faults \in 0..MaxFaults /\ MaxFaults \in Nat
    BY RingGroupAssumption DEF TypeOK
<1>2. /\ line \in [Parties -> {"none", "gone"} \union Live] /\ wire \in Seq(Events)
      /\ kept \subseteq Parties
    BY DEF TypeOK
<1>3. CASE ~Down(p) /\ Leaves(p) /\ NoFault /\ UNCHANGED kept
    BY <1>1, <1>2, <1>3, LeavesEffect DEF NoFault
<1>4. CASE Down(p) /\ NoFault /\ UNCHANGED <<asterisk, kept>>
    BY <1>1, <1>2, <1>4 DEF NoFault, asterisk, Down
<1>5. CASE ~Down(p) /\ Fault /\ kept' = kept \union {p} /\ UNCHANGED asterisk
  <2>1. faults' \in 0..MaxFaults /\ (faults' = 0 => faults = 0)
      BY <1>1, <1>5 DEF Fault
  <2> QED  BY <1>2, <1>5, <2>1 DEF asterisk, Down
<1> QED  BY <1>3, <1>4, <1>5 DEF Delete

(* The number of failed requests is bounded, and never forgotten. *)
LEMMA FaultsTyped ==
    ASSUME TypeOK, Fault \/ NoFault
    PROVE  /\ faults' \in 0..MaxFaults
           /\ faults' = 0 => faults = 0
           /\ Fault => faults' # 0
<1>1. faults \in 0..MaxFaults /\ MaxFaults \in Nat
    BY RingGroupAssumption DEF TypeOK
<1> QED  BY <1>1 DEF Fault, NoFault

(* The head of the handler's queue is an event, and the rest is a queue. *)
LEMMA HeardTyped ==
    ASSUME TypeOK, heard # <<>>
    PROVE  Head(heard) \in Events /\ Tail(heard) \in Seq(Events)
BY HeadTailProperties DEF TypeOK

(* A place the ring group ends in hangs up only what it rang. *)
LEMMA RingEndsEffect ==
    ASSUME TypeInv, NEW r \in {"answered", "noanswer", "failed"}, RingEnds(r),
           stage \in {"originate", "await", "bridge", "talk"}
    PROVE  /\ stage' = "finally" /\ result' = r /\ todo' = LegsToDrop
           /\ LegsToDrop \subseteq plan
           /\ \A l \in Legs \ LegsToDrop :
                  IF stage \in {"bridge", "talk"} THEN l # winner ELSE l \notin plan
<1>1. IF stage \in {"bridge", "talk"} THEN winner \in plan ELSE winner = NoLeg
    BY DEF TypeInv, WinnerWasRung
<1> QED  BY <1>1 DEF RingEnds, LegsToDrop

-----------------------------------------------------------------------------
(* The handler *)

(* The handler keeps the types, and hangs up and bridges only phones it rang. *)
LEMMA HandlerTyped ==
    ASSUME TypeInv, HandlerStep
    PROVE  TypeInv'
<1> USE RingGroupAssumption DEF TypeInv, TypeOK, WinnerWasRung, asterisk, queue, ring, handling
<1>1. CASE Begins
    BY <1>1 DEF Begins
<1>2. CASE Plans
  <2>1. heard' \in Seq(Events) /\ watched' \subseteq Parties
    <3>1. CASE UNCHANGED <<watched, heard>>
        BY <3>1
    <3>2. CASE watched' = plan' \union {Caller} /\ heard' = <<>>
        BY <1>2, <3>2, EmptySeq DEF Plans, Parties
    <3> QED  BY <1>2, <3>1, <3>2 DEF Plans
  <2>2. /\ plan' \subseteq Legs /\ todo' = plan' /\ stage' \in {"unanswered", "originate"}
        /\ stage = "plan"
      BY <1>2 DEF Plans
  <2>3. result' \in {"none", "answered", "noanswer", "failed"}
      BY <1>2 DEF Plans
  <2>4. UNCHANGED <<asterisk, pending, winner, handling, faults, drops, kept, met>>
      BY <1>2 DEF Plans
  <2> QED  BY <2>1, <2>2, <2>3, <2>4
<1>3. CASE AllOriginated
    BY <1>3, RingEndsEffect, ZenonT(30) DEF AllOriginated, RingEnds
<1>4. CASE HearsRinging
  <2>1. /\ heard' \in Seq(Events)
        /\ UNCHANGED <<asterisk, watched, plan, handling, faults, drops, kept, met>>
      BY <1>4, HeardTyped DEF HearsRinging
  <2>2. /\ stage = "await" /\ winner = NoLeg /\ pending \subseteq plan /\ todo \subseteq plan
        /\ plan \subseteq Legs
      BY <1>4 DEF HearsRinging
  <2>3. /\ pending' \subseteq plan /\ todo' \subseteq plan
        /\ winner' \in plan \union {NoLeg}
        /\ result' \in {"none", "answered", "noanswer", "failed"}
        /\ \/ stage' = "await" /\ winner' = NoLeg
           \/ stage' = "finally"
           \/ stage' = "losers" /\ winner' \in plan
    <3> DEFINE e == Head(heard)
    <3>1. CASE CallerGone(e) /\ RingEnds("noanswer") /\ UNCHANGED <<pending, winner>>
        BY <2>2, <3>1, RingEndsEffect
    <3>2. CASE e.who \in pending /\ pending' = pending \ {e.who} /\ UNCHANGED winner
               /\ IF pending' = {} THEN RingEnds("noanswer") ELSE UNCHANGED <<stage, todo,
                                                                              result>>
      <4>1. CASE RingEnds("noanswer")
          BY <2>2, <3>2, <4>1, RingEndsEffect
      <4>2. CASE UNCHANGED <<stage, todo, result>>
          BY <2>2, <3>2, <4>2
      <4> QED  BY <3>2, <4>1, <4>2
    <3>3. CASE e.who \in pending /\ winner' = e.who /\ todo' = plan \ {e.who} /\ stage' = "losers"
               /\ UNCHANGED <<pending, result>>
        BY <2>2, <3>3
    <3>4. CASE UNCHANGED <<stage, todo, pending, winner, result>>
        BY <2>2, <3>4
    <3> QED  BY <1>4, <3>1, <3>2, <3>3, <3>4 DEF HearsRinging
  <2>4. WinnerWasRung'
      BY <2>1, <2>2, <2>3
  <2>5. TypeOK'
      BY <2>1, <2>2, <2>3
  <2> QED  BY <2>4, <2>5
<1>5. CASE RingTimesOut
    BY <1>5, RingEndsEffect DEF RingTimesOut, RingDeadline, RingEnds
<1>6. CASE LosersDown
    BY <1>6, ZenonT(30) DEF LosersDown
<1>7. CASE Bridges
  <2>1. /\ stage = "bridge"
        /\ UNCHANGED <<queue, plan, pending, winner, handling, drops, kept, line, online, wire>>
      BY <1>7 DEF Bridges, Joined, Joins, NotJoined
  <2>2. talking' \subseteq Parties /\ met' \in BOOLEAN
      BY <1>7 DEF Bridges, Joined, Joins, NotJoined, Parties
  <2>3. faults' \in 0..MaxFaults
      BY <1>7, FaultsTyped DEF Bridges, Joined
  <2>4. \/ stage' = "finally" /\ todo' \subseteq plan /\ result' = "failed"
        \/ stage' = "talk" /\ UNCHANGED <<todo, result>>
      BY <1>7, RingEndsEffect DEF Bridges, Joined, Talks
  <2> QED  BY <2>1, <2>2, <2>3, <2>4, ZenonT(30)
<1>8. CASE HearsTalk
  <2>1. /\ heard' \in Seq(Events)
        /\ UNCHANGED <<asterisk, watched, plan, pending, winner, handling, faults, drops, kept,
                       met>>
      BY <1>8, HeardTyped DEF HearsTalk
  <2>2. \/ stage' = "finally" /\ todo' \subseteq plan /\ result' = "answered"
        \/ UNCHANGED <<stage, todo, result>>
      BY <1>8, RingEndsEffect DEF HearsTalk
  <2> QED  BY <1>8, <2>1, <2>2, ZenonT(30) DEF HearsTalk
<1>9. CASE TalkTimesOut
    BY <1>9, RingEndsEffect DEF TalkTimesOut, RingEnds
<1>10. CASE DestroysBridge
  <2>1. wire' \in Seq(Events) /\ heard' \in Seq(Events) /\ watched' = {}
      BY <1>10, EmptySeq DEF DestroysBridge
  <2>2. talking' \subseteq Parties /\ stage = "finally" /\ stage' = "drop"
      BY <1>10 DEF DestroysBridge
  <2>3. faults' \in 0..MaxFaults
      BY <1>10, FaultsTyped DEF DestroysBridge
  <2>4. UNCHANGED <<line, online, ring, handling, drops, kept, met>>
      BY <1>10 DEF DestroysBridge
  <2> QED  BY <2>1, <2>2, <2>3, <2>4, ZenonT(30)
<1>11. CASE RingOver
    BY <1>11 DEF RingOver
<1>12. CASE ToVoicemail
    BY <1>12 DEF ToVoicemail
<1>13. CASE AgentTakesCall
    BY <1>13 DEF AgentTakesCall
<1>14. CASE Greets
    BY <1>14, ZenonT(30) DEF Greets
<1>15. CASE StartsMessage
  <2>1. faults' \in 0..MaxFaults
      BY <1>15, FaultsTyped DEF StartsMessage
  <2>2. /\ stage' \in {"message", "hangup"}
        /\ UNCHANGED <<asterisk, queue, ring, handling, drops, kept, met>>
      BY <1>15 DEF StartsMessage
  <2>3. WinnerWasRung'
      BY <2>2
  <2>4. TypeOK'
      BY <2>1, <2>2, ZenonT(30)
  <2> QED  BY <2>3, <2>4
<1>16. CASE MessageEnds
    BY <1>16, ZenonT(30) DEF MessageEnds
<1>17. CASE HangsUp
    BY <1>17, DeleteEffect, ZenonT(30) DEF HangsUp, Parties
<1>18. CASE Reports
    BY <1>18, ZenonT(30) DEF Reports
<1>19. ASSUME NEW l \in Legs, Originates(l)
       PROVE  TypeInv'
  <2>1. faults' \in 0..MaxFaults
      BY <1>19, FaultsTyped DEF Originates
  <2>2. /\ line' \in [Parties -> {"none", "gone"} \union Live]
        /\ UNCHANGED <<talking, online, wire>>
      BY <1>19 DEF Originates, StartsRinging, Live, Parties
  <2>3. pending' \subseteq plan /\ todo' \subseteq plan
      BY <1>19 DEF Originates, Counts
  <2>4. /\ stage = "originate"
        /\ UNCHANGED <<queue, stage, plan, winner, result, handling, drops, kept, met>>
      BY <1>19 DEF Originates
  <2> QED  BY <2>1, <2>2, <2>3, <2>4
<1>20. ASSUME NEW l \in Legs, DropsLoser(l)
       PROVE  TypeInv'
  <2>1. Delete(l) /\ l \in Parties
      BY <1>20 DEF DropsLoser, Parties
  <2>2. /\ line' \in [Parties -> {"none", "gone"} \union Live]
        /\ wire' \in Seq(Events) /\ UNCHANGED online /\ kept' \subseteq Parties
        /\ faults' \in 0..MaxFaults
      BY <2>1, DeleteEffect
  <2>3. todo' \subseteq plan
      BY <1>20 DEF DropsLoser
  <2>4. talking' \subseteq Parties
      BY <2>1, DeleteEffect
  <2>5. UNCHANGED <<queue, stage, plan, pending, winner, result, handling, drops, met>>
      BY <1>20 DEF DropsLoser
  <2>6. WinnerWasRung'
      BY <2>5
  <2>71. /\ line' \in [Parties -> {"none", "gone"} \union Live]
         /\ talking' \subseteq Parties /\ online' \in BOOLEAN
      BY <2>2, <2>4
  <2>72. wire' \in Seq(Events) /\ watched' \subseteq Parties /\ heard' \in Seq(Events)
      BY <2>2, <2>5
  <2>73. /\ handler' \in {"default", "crm"} /\ noticed' \in BOOLEAN /\ plan' \subseteq Legs
         /\ todo' \subseteq plan' /\ pending' \subseteq plan'
      BY <2>3, <2>5
  <2>74. /\ faults' \in 0..MaxFaults /\ drops' \in 0..MaxDrops /\ kept' \subseteq Parties
         /\ met' \in BOOLEAN
      BY <2>2, <2>5
  <2>7. TypeOK'
      BY <2>71, <2>72, <2>73, <2>74, <2>5
  <2> QED  BY <2>6, <2>7
<1>21. ASSUME NEW l \in Legs, DropsLeg(l)
       PROVE  TypeInv'
  <2>1. Delete(l) /\ l \in Parties
      BY <1>21 DEF DropsLeg, Parties
  <2>2. /\ line' \in [Parties -> {"none", "gone"} \union Live]
        /\ wire' \in Seq(Events) /\ UNCHANGED online /\ kept' \subseteq Parties
        /\ faults' \in 0..MaxFaults
      BY <2>1, DeleteEffect
  <2>3. todo' \subseteq plan
      BY <1>21 DEF DropsLeg
  <2>4. talking' \subseteq Parties
      BY <2>1, DeleteEffect
  <2>5. UNCHANGED <<queue, stage, plan, pending, winner, result, handling, drops, met>>
      BY <1>21 DEF DropsLeg
  <2>6. WinnerWasRung'
      BY <2>5
  <2>71. /\ line' \in [Parties -> {"none", "gone"} \union Live]
         /\ talking' \subseteq Parties /\ online' \in BOOLEAN
      BY <2>2, <2>4
  <2>72. wire' \in Seq(Events) /\ watched' \subseteq Parties /\ heard' \in Seq(Events)
      BY <2>2, <2>5
  <2>73. /\ handler' \in {"default", "crm"} /\ noticed' \in BOOLEAN /\ plan' \subseteq Legs
         /\ todo' \subseteq plan' /\ pending' \subseteq plan'
      BY <2>3, <2>5
  <2>74. /\ faults' \in 0..MaxFaults /\ drops' \in 0..MaxDrops /\ kept' \subseteq Parties
         /\ met' \in BOOLEAN
      BY <2>2, <2>5
  <2>7. TypeOK'
      BY <2>71, <2>72, <2>73, <2>74, <2>5
  <2> QED  BY <2>6, <2>7
<1> QED
    BY <1>1, <1>2, <1>3, <1>4, <1>5, <1>6, <1>7, <1>8, <1>9, <1>10, <1>11, <1>12, <1>13,
        <1>14, <1>15, <1>16, <1>17, <1>18, <1>19, <1>20, <1>21 DEF HandlerStep

(* The handler leaves no phone behind that it rang. *)
LEMMA HandlerKeepsRungDown ==
    ASSUME TypeInv, RungDown, HandlerStep
    PROVE  RungDown'
<1> USE DEF RungDown, Silent, Down, Over, asterisk, queue, ring, handling
<1>1. CASE Begins
    BY <1>1 DEF Begins
<1>2. CASE Plans
    BY <1>2 DEF Plans
<1>3. CASE AllOriginated
  <2>1. UNCHANGED <<line, kept, plan, winner>>
      BY <1>3 DEF AllOriginated
  <2>2. \/ \E r \in {"answered", "noanswer", "failed"} : RingEnds(r)
        \/ stage' \in {"await", "talk"} /\ UNCHANGED todo
      BY <1>3 DEF AllOriginated
  <2> QED  BY <1>3, <2>1, <2>2, RingEndsEffect DEF AllOriginated, RingDeadline
<1>4. CASE HearsRinging
  <2>1. UNCHANGED <<line, kept, plan>> /\ stage = "await"
      BY <1>4 DEF HearsRinging
  <2>2. \/ RingEnds("noanswer")
        \/ stage' = "losers" /\ todo' = plan \ {winner'}
        \/ UNCHANGED <<stage, todo>>
      BY <1>4 DEF HearsRinging
  <2> QED  BY <2>1, <2>2, RingEndsEffect
<1>5. CASE RingTimesOut
  <2>1. UNCHANGED <<line, kept, plan, winner>>
      BY <1>5 DEF RingTimesOut
  <2>2. \/ \E r \in {"answered", "noanswer", "failed"} : RingEnds(r)
        \/ stage' \in {"await", "talk"} /\ UNCHANGED todo
      BY <1>5 DEF RingTimesOut
  <2> QED  BY <1>5, <2>1, <2>2, RingEndsEffect DEF RingTimesOut, RingDeadline
<1>6. CASE LosersDown
    BY <1>6 DEF LosersDown
<1>7. CASE Bridges
  <2>1. UNCHANGED <<line, kept, plan, winner>> /\ stage = "bridge"
      BY <1>7 DEF Bridges, Joined, Joins, NotJoined
  <2>2. RingEnds("failed") \/ stage' = "talk"
      BY <1>7 DEF Bridges, Joined, Talks
  <2> QED  BY <2>1, <2>2, RingEndsEffect
<1>8. CASE HearsTalk
  <2>1. UNCHANGED <<line, kept, plan, winner>>
      BY <1>8 DEF HearsTalk
  <2>2. \/ \E r \in {"answered", "noanswer", "failed"} : RingEnds(r)
        \/ stage' \in {"await", "talk"} /\ UNCHANGED todo
      BY <1>8 DEF HearsTalk
  <2> QED  BY <1>8, <2>1, <2>2, RingEndsEffect DEF HearsTalk, RingDeadline
<1>9. CASE TalkTimesOut
  <2>1. UNCHANGED <<line, kept, plan, winner>>
      BY <1>9 DEF TalkTimesOut
  <2>2. \/ \E r \in {"answered", "noanswer", "failed"} : RingEnds(r)
        \/ stage' \in {"await", "talk"} /\ UNCHANGED todo
      BY <1>9 DEF TalkTimesOut
  <2> QED  BY <1>9, <2>1, <2>2, RingEndsEffect DEF TalkTimesOut, RingDeadline
<1>10. CASE DestroysBridge
  <2>1. UNCHANGED <<line, kept, todo>> /\ stage = "finally" /\ stage' = "drop"
      BY <1>10 DEF DestroysBridge
  <2> QED  BY <2>1
<1>11. CASE RingOver
    BY <1>11 DEF RingOver
<1>12. CASE ToVoicemail
    BY <1>12 DEF ToVoicemail
<1>13. CASE AgentTakesCall
    BY <1>13 DEF AgentTakesCall
<1>14. CASE Greets
    BY <1>14 DEF Greets
<1>15. CASE StartsMessage
  <2>1. UNCHANGED <<line, kept>> /\ stage = "record" /\ stage' \in {"message", "hangup"}
      BY <1>15 DEF StartsMessage
  <2> QED  BY <2>1
<1>16. CASE MessageEnds
    BY <1>16 DEF MessageEnds
<1>17. CASE HangsUp
  <2>1. Delete(Caller) /\ stage = "hangup" /\ stage' = "report"
      BY <1>17 DEF HangsUp
  <2>2. kept \subseteq kept' /\ \A q \in Legs : Down(q) => Down(q)'
      BY <2>1, DeleteEffect DEF TypeInv, Parties
  <2> QED  BY <2>1, <2>2
<1>18. CASE Reports
    BY <1>18 DEF Reports
<1>19. ASSUME NEW l \in Legs, Originates(l)
       PROVE  RungDown'
  <2>1. \A q \in Legs \ {l} : line'[q] = line[q]
      BY <1>19, RingGroupAssumption DEF Originates, StartsRinging, TypeInv, TypeOK, Parties
  <2>2. /\ stage = "originate" /\ l \in todo /\ todo' = todo \ {l} /\ l \in plan
        /\ UNCHANGED <<stage, plan, kept>>
      BY <1>19 DEF Originates, TypeInv, TypeOK
  <2> QED  BY <2>1, <2>2
<1>20. ASSUME NEW l \in Legs, DropsLoser(l)
       PROVE  RungDown'
  <2>1. Delete(l) /\ todo' = todo \ {l} /\ UNCHANGED <<stage, plan, winner>>
      BY <1>20 DEF DropsLoser
  <2>2. /\ kept \subseteq kept' /\ (Down(l)' \/ l \in kept')
        /\ \A q \in Legs : Down(q) => Down(q)'
      BY <2>1, DeleteEffect DEF TypeInv, Parties
  <2>3. stage = "losers"
      BY <1>20 DEF DropsLoser
  <2> QED  BY <2>1, <2>2, <2>3
<1>21. ASSUME NEW l \in Legs, DropsLeg(l)
       PROVE  RungDown'
  <2>1. Delete(l) /\ todo' = todo \ {l} /\ UNCHANGED <<stage, plan, winner>>
      BY <1>21 DEF DropsLeg
  <2>2. /\ kept \subseteq kept' /\ (Down(l)' \/ l \in kept')
        /\ \A q \in Legs : Down(q) => Down(q)'
      BY <2>1, DeleteEffect DEF TypeInv, Parties
  <2>3. stage = "drop"
      BY <1>21 DEF DropsLeg
  <2> QED  BY <2>1, <2>2, <2>3
<1> QED
    BY <1>1, <1>2, <1>3, <1>4, <1>5, <1>6, <1>7, <1>8, <1>9, <1>10, <1>11, <1>12, <1>13,
        <1>14, <1>15, <1>16, <1>17, <1>18, <1>19, <1>20, <1>21 DEF HandlerStep

(* The handler talks for the caller as it says. *)
LEMMA HandlerKeepsTalk ==
    ASSUME TypeInv, TalkInv, HandlerStep
    PROVE  TalkInv'
<1> USE DEF TalkInv, asterisk, queue, ring, handling
<1>1. CASE Begins
    BY <1>1 DEF Begins
<1>2. CASE Plans
    BY <1>2 DEF Plans
<1>3. CASE AllOriginated
  <2>1. /\ stage' \in {"await", "finally"} /\ result' # "answered"
        /\ UNCHANGED <<talking, met, outcome>>
      BY <1>3 DEF AllOriginated, RingEnds
  <2>2. stage = "originate" /\ UNCHANGED winner
      BY <1>3 DEF AllOriginated
  <2> QED  BY <2>1, <2>2
<1>4. CASE HearsRinging
  <2>1. /\ stage' \in {"await", "losers", "finally"} /\ result' # "answered"
        /\ UNCHANGED <<talking, met, outcome>>
      BY <1>4 DEF HearsRinging, RingEnds
  <2>2. stage = "await"
      BY <1>4 DEF HearsRinging
  <2> QED  BY <2>1, <2>2
<1>5. CASE RingTimesOut
  <2>1. stage' = "finally" /\ result' # "answered" /\ UNCHANGED <<talking, met, outcome>>
      BY <1>5 DEF RingTimesOut, RingEnds
  <2>2. stage = "await" /\ UNCHANGED winner
      BY <1>5 DEF RingTimesOut, RingDeadline
  <2> QED  BY <2>1, <2>2
<1>6. CASE LosersDown
    BY <1>6 DEF LosersDown
<1>7. CASE Bridges
  <2>1. stage = "bridge" /\ UNCHANGED <<winner, outcome>>
      BY <1>7 DEF Bridges
  <2>2. \/ stage' = "talk" /\ met' = TRUE /\ talking' \subseteq {Caller, winner} /\ UNCHANGED result
        \/ /\ stage' = "finally" /\ result' = "failed" /\ met' = TRUE /\ Fault
           /\ talking' \subseteq {Caller, winner}
        \/ stage' = "finally" /\ result' = "failed" /\ UNCHANGED <<met, talking>>
      BY <1>7 DEF Bridges, Joined, Joins, NotJoined, Talks, RingEnds
  <2>3. Fault => faults' # 0
      BY FaultsTyped DEF TypeInv
  <2> QED  BY <2>1, <2>2, <2>3
<1>8. CASE HearsTalk
  <2>1. \/ stage' = "finally" /\ result' = "answered"
        \/ UNCHANGED <<stage, result>>
      BY <1>8 DEF HearsTalk, RingEnds
  <2>2. stage = "talk" /\ UNCHANGED <<talking, met, outcome, winner, faults>>
      BY <1>8 DEF HearsTalk
  <2> QED  BY <2>1, <2>2
<1>9. CASE TalkTimesOut
  <2>1. \/ stage' = "finally" /\ result' = "answered"
        \/ UNCHANGED <<stage, result>>
      BY <1>9 DEF TalkTimesOut, RingEnds
  <2>2. stage = "talk" /\ UNCHANGED <<talking, met, outcome, winner, faults>>
      BY <1>9 DEF TalkTimesOut
  <2> QED  BY <2>1, <2>2
<1>10. CASE DestroysBridge
  <2>1. /\ stage = "finally" /\ stage' = "drop" /\ UNCHANGED <<winner, result, outcome, met>>
        /\ talking' \subseteq talking
      BY <1>10 DEF DestroysBridge
  <2>2. faults' = 0 => faults = 0
      BY <1>10, FaultsTyped DEF DestroysBridge, TypeInv
  <2> QED  BY <2>1, <2>2
<1>11. CASE RingOver
    BY <1>11 DEF RingOver
<1>12. CASE ToVoicemail
    BY <1>12 DEF ToVoicemail
<1>13. CASE AgentTakesCall
    BY <1>13 DEF AgentTakesCall
<1>14. CASE Greets
    BY <1>14 DEF Greets
<1>15. CASE StartsMessage
  <2>1. /\ stage = "record" /\ stage' \in {"message", "hangup"}
        /\ UNCHANGED <<talking, winner, result, outcome, met>>
      BY <1>15 DEF StartsMessage
  <2>2. faults' = 0 => faults = 0
      BY <1>15, FaultsTyped DEF StartsMessage, TypeInv
  <2> QED  BY <2>1, <2>2
<1>16. CASE MessageEnds
    BY <1>16 DEF MessageEnds
<1>17. CASE HangsUp
  <2>1. /\ Delete(Caller) /\ stage = "hangup" /\ stage' = "report"
        /\ UNCHANGED <<winner, result, outcome, met>>
      BY <1>17 DEF HangsUp
  <2>2. talking' \subseteq talking /\ (faults' = 0 => faults = 0)
      BY <2>1, DeleteEffect DEF TypeInv, Parties
  <2> QED  BY <2>1, <2>2
<1>18. CASE Reports
    BY <1>18 DEF Reports
<1>19. ASSUME NEW l \in Legs, Originates(l)
       PROVE  TalkInv'
  <2>1. stage = "originate" /\ UNCHANGED <<stage, talking, winner, result, outcome, met>>
      BY <1>19 DEF Originates, StartsRinging
  <2> QED  BY <2>1
<1>20. ASSUME NEW l \in Legs, DropsLoser(l)
       PROVE  TalkInv'
  <2>1. Delete(l) /\ UNCHANGED <<stage, winner, result, outcome, met>>
      BY <1>20 DEF DropsLoser
  <2>2. talking' \subseteq talking /\ (faults' = 0 => faults = 0)
      BY <2>1, DeleteEffect DEF TypeInv, Parties
  <2> QED  BY <2>1, <2>2
<1>21. ASSUME NEW l \in Legs, DropsLeg(l)
       PROVE  TalkInv'
  <2>1. Delete(l) /\ UNCHANGED <<stage, winner, result, outcome, met>>
      BY <1>21 DEF DropsLeg
  <2>2. talking' \subseteq talking /\ (faults' = 0 => faults = 0)
      BY <2>1, DeleteEffect DEF TypeInv, Parties
  <2> QED  BY <2>1, <2>2
<1> QED
    BY <1>1, <1>2, <1>3, <1>4, <1>5, <1>6, <1>7, <1>8, <1>9, <1>10, <1>11, <1>12, <1>13,
        <1>14, <1>15, <1>16, <1>17, <1>18, <1>19, <1>20, <1>21 DEF HandlerStep

-----------------------------------------------------------------------------
(* The world: parties and the websocket *)

(* Parties and the websocket take phones down, never up, and leave the handler alone. *)
LEMMA WorldEffect ==
    ASSUME TypeInv, World
    PROVE  /\ UNCHANGED <<watched, stage, ring, handling, faults, kept, met>>
           /\ line' \in [Parties -> {"none", "gone"} \union Live]
           /\ talking' \subseteq talking /\ online' \in BOOLEAN
           /\ wire' \in Seq(Events) /\ heard' \in Seq(Events) /\ drops' \in 0..MaxDrops
           /\ \A q \in Parties : Down(q) => Down(q)'
<1> USE DEF asterisk, queue
<1>0. /\ line \in [Parties -> {"none", "gone"} \union Live] /\ online \in BOOLEAN
      /\ wire \in Seq(Events) /\ heard \in Seq(Events) /\ drops \in 0..MaxDrops
    BY DEF TypeInv, TypeOK
<1>1. ASSUME NEW p \in Parties, PartyLeaves(p)
      PROVE  /\ UNCHANGED <<watched, stage, ring, handling, faults, kept, met, heard, drops>>
             /\ line' \in [Parties -> {"none", "gone"} \union Live]
             /\ talking' \subseteq talking /\ UNCHANGED online /\ wire' \in Seq(Events)
             /\ \A q \in Parties : Down(q) => Down(q)'
    BY <1>1, LeavesEffect DEF PartyLeaves, TypeInv
<1>2. ASSUME NEW l \in Legs, PhoneAnswers(l) \/ PhoneEnters(l)
      PROVE  /\ UNCHANGED <<watched, stage, ring, handling, faults, kept, met, heard, drops,
                            talking, online>>
             /\ line' \in [Parties -> {"none", "gone"} \union Live] /\ wire' \in Seq(Events)
             /\ \A q \in Parties : Down(q) => Down(q)'
  <2>1. l \in Parties
      BY DEF Parties
  <2>2. Raises(l, "up") \/ Raises(l, "stasis")
      BY <1>2 DEF PhoneAnswers, PhoneEnters
  <2>3. wire' \in Seq(Events)
      BY <2>1, <2>2, RaisesTyped DEF TypeInv
  <2>4. /\ line' \in [Parties -> {"none", "gone"} \union Live]
        /\ \A q \in Parties : Down(q) => Down(q)'
      BY <1>0, <1>2, <2>1 DEF PhoneAnswers, PhoneEnters, Down, Live
  <2> QED  BY <1>2, <2>3, <2>4 DEF PhoneAnswers, PhoneEnters
<1>3. CASE Deliver
  <2>1. wire' \in Seq(Events) /\ Head(wire) \in Events
      BY <1>0, <1>3, HeadTailProperties DEF Deliver
  <2>2. Append(heard, Head(wire)) \in Seq(Events)
      BY <1>0, <2>1, AppendProperties
  <2> QED  BY <1>0, <1>3, <2>1, <2>2 DEF Deliver, Down
<1>4. CASE SocketDrops
  <2>1. wire' \in Seq(Events)
      BY <1>4, EmptySeq DEF SocketDrops
  <2>2. drops' \in 0..MaxDrops
      BY <1>0, <1>4, RingGroupAssumption DEF SocketDrops
  <2> QED  BY <1>0, <1>4, <2>1, <2>2 DEF SocketDrops, Down
<1>5. CASE SocketReconnects
    BY <1>0, <1>5 DEF SocketReconnects, Down
<1> QED  BY <1>0, <1>1, <1>2, <1>3, <1>4, <1>5 DEF World

(* So they keep the invariant, *)
LEMMA WorldKeepsIInv ==
    ASSUME IInv, World
    PROVE  IInv'
<1>1. /\ UNCHANGED <<watched, stage, plan, todo, pending, winner, result, handler, noticed,
                     outcome,
                     reported, faults, kept, met>>
      /\ talking' \subseteq talking
      /\ \A l \in Legs : Down(l) => Down(l)'
    BY WorldEffect DEF IInv, ring, handling, Parties
<1>2. TypeOK'
  <2>1. talking' \subseteq Parties
      BY <1>1 DEF IInv, TypeInv, TypeOK
  <2>2. /\ todo' \subseteq plan' /\ pending' \subseteq plan' /\ plan' \subseteq Legs
        /\ watched' \subseteq Parties
      BY <1>1 DEF IInv, TypeInv, TypeOK
  <2>3. faults' \in 0..MaxFaults /\ kept' \subseteq Parties /\ met' \in BOOLEAN
      BY <1>1 DEF IInv, TypeInv, TypeOK
  <2>4. /\ line' \in [Parties -> {"none", "gone"} \union Live] /\ online' \in BOOLEAN
        /\ wire' \in Seq(Events) /\ heard' \in Seq(Events) /\ drops' \in 0..MaxDrops
      BY WorldEffect DEF IInv
  <2> QED  BY <1>1, <2>1, <2>2, <2>3, <2>4, ZenonT(30) DEF IInv, TypeInv, TypeOK
<1>3. WinnerWasRung'
    BY <1>1 DEF IInv, TypeInv, WinnerWasRung
<1>4. RungDown'
    BY <1>1 DEF IInv, RungDown, Silent, Over
<1>5. TalkInv'
    BY <1>1 DEF IInv, TalkInv
<1> QED  BY <1>2, <1>3, <1>4, <1>5 DEF IInv, TypeInv

(* as does a step that changes nothing. *)
LEMMA StutteringKeepsIInv ==
    ASSUME IInv, UNCHANGED vars
    PROVE  IInv'
<1>1. UNCHANGED <<line, talking, online, wire, watched, heard, stage, plan, todo, pending,
                  winner,
                  result, handler, noticed, outcome, reported, faults, drops, kept, met>>
    BY DEF vars, asterisk, queue, ring, handling
<1>2. TypeOK'
  <2>1. /\ line' \in [Parties -> {"none", "gone"} \union Live] /\ talking' \subseteq Parties
        /\ wire' \in Seq(Events) /\ heard' \in Seq(Events) /\ watched' \subseteq Parties
      BY <1>1 DEF IInv, TypeInv, TypeOK
  <2>2. todo' \subseteq plan' /\ pending' \subseteq plan' /\ plan' \subseteq Legs
      BY <1>1 DEF IInv, TypeInv, TypeOK
  <2>3. faults' \in 0..MaxFaults /\ drops' \in 0..MaxDrops /\ kept' \subseteq Parties
      BY <1>1 DEF IInv, TypeInv, TypeOK
  <2>4. /\ line' \in [Parties -> {"none", "gone"} \union Live] /\ online' \in BOOLEAN
        /\ handler' \in {"default", "crm"} /\ noticed' \in BOOLEAN /\ met' \in BOOLEAN
      BY <1>1 DEF IInv, TypeInv, TypeOK
  <2> QED  BY <1>1, <2>1, <2>2, <2>3, <2>4 DEF IInv, TypeInv, TypeOK
<1> QED
    BY <1>1, <1>2 DEF IInv, TypeInv, WinnerWasRung, RungDown, Silent, Down, Over, TalkInv

(* At first no phone has been rung. *)
LEMMA StartsWell ==
    Init => IInv
<1> SUFFICES ASSUME Init PROVE IInv
    OBVIOUS
<1>1. TypeOK
  <2>1. faults \in 0..MaxFaults /\ drops \in 0..MaxDrops
      BY RingGroupAssumption DEF Init
  <2>2. line \in [Parties -> {"none", "gone"} \union Live]
      BY DEF Init, Live
  <2>3. wire \in Seq(Events) /\ heard \in Seq(Events)
      BY EmptySeq DEF Init
  <2> QED  BY <2>1, <2>2, <2>3 DEF Init, TypeOK
<1>2. \A l \in Legs : Down(l)
    BY RingGroupAssumption DEF Init, Down, Live, Parties
<1> QED
    BY <1>1, <1>2 DEF Init, IInv, TypeInv, WinnerWasRung, RungDown, TalkInv, Over

-----------------------------------------------------------------------------
(* The invariant holds in every state. *)
THEOREM Invariant == Spec => []IInv
<1>1. Init => IInv
    BY StartsWell
<1>2. IInv /\ [Next]_vars => IInv'
  <2> SUFFICES ASSUME IInv, [Next]_vars
               PROVE  IInv'
      OBVIOUS
  <2>1. CASE HandlerStep
      BY <2>1, HandlerTyped, HandlerKeepsRungDown, HandlerKeepsTalk DEF IInv
  <2>2. CASE World
      BY <2>2, WorldKeepsIInv
  <2>3. CASE UNCHANGED vars
      BY <2>3, StutteringKeepsIInv
  <2> QED  BY <2>1, <2>2, <2>3 DEF Next
<1> QED  BY <1>1, <1>2, PTL DEF Spec

(* The caller is only ever bridged to the first phone heard, and while they talk no
   other phone is left ringing (_await_first_answer, hybrid_ring_and_bridge), for
   any number of phones, of failed requests and of events never seen. *)
THEOREM TheWinnerTalks == Spec => []OnlyTheWinnerTalks
<1>1. IInv => OnlyTheWinnerTalks
    BY DEF IInv, TypeInv, TalkInv, RungDown, Silent, OnlyTheWinnerTalks
<1> QED  BY <1>1, Invariant, PTL

(* However the ring group ends, its finally has hung up every phone it rang, and
   the call is filed as answered exactly when somebody was. *)
THEOREM TheEndIsHonest == Spec => []EndIsHonest
<1>1. IInv => EndIsHonest
    BY DEF IInv, TalkInv, RungDown, Silent, EndIsHonest, NobodyLeftRinging, OutcomeIsTrue
<1> QED  BY <1>1, Invariant, PTL

(***************************************************************************)
(* The link                                                                *)
(***************************************************************************)

Lives == 0..MaxCrashes

LinkShape ==
    /\ bound \in BOOLEAN /\ mix \in Mixes /\ toggles \in 0..MaxToggles
    /\ call \in {"away", "default", "ringing", "answered", "unanswered", "over", "lost"}
    /\ web \in [Webhooks -> {"away", "first", "seen", "report", "answered", "dead"}]
    /\ out \in {"none", "row", "marked", "queued", "answered", "dropped"}
    /\ word \in Words \union {"none"}
    /\ hop \in [Lives -> [at : {"idle", "asked", "bound", "taken", "refused", "failed"},
                          job : Jobs \union {NoJob}]]
    /\ got \in [Jobs -> Nat] /\ refused \subseteq Jobs
    /\ late \in Nat /\ lapses \in Nat /\ crashes + lapses =< MaxLapses

(* A request is one of the worker's lives'; the one of the present life is about
   the job in hand. *)
RequestsInv ==
    /\ at \in {"send", "report", "posted", "raise", "finish", "idle", "down"}
    /\ at = "send" => cur = Send
    /\ at \in {"report", "posted"} => cur # Send
    /\ hop[crashes].at # "idle" => at = "posted" /\ hop[crashes].job = cur
    /\ \A g \in Lives : 
          /\ (hop[g].at = "idle") = (hop[g].job = NoJob)
          /\ hop[g].at # "idle" => g =< crashes /\ hop[g].job # Send
                                   /\ phase[hop[g].job] # "absent"
    /\ \A j \in Jobs : got[j] > 0 => phase[j] # "absent"

(* Requests of dead workers that may still file the report; and whether the row
   filed last is the one its attempt will be settled with. *)
Stale(j) == {g \in Lives : /\ g < crashes /\ hop[g].job = j
                           /\ hop[g].at \in {"asked", "bound"}}

Settled(j) ==
    \/ phase[j] = "done"
    \/ cur = j /\ at = "finish"
    \/ cur = j /\ at = "posted" /\ hop[crashes].at = "taken"

FiledInv ==
    \A j \in Jobs :
        got[j] + Cardinality(Stale(j)) =< crashes + lapses + IF Settled(j) THEN 1 ELSE 0

(* An agent's call is over before its end is reported. *)
AgentInv ==
    /\ phase[<<"call", "ended">>] # "absent" => call = "over"
    /\ agent => got[<<"call", "ended">>] =< 1

AcceptedInv ==
    /\ DoneIsTaken
    /\ at = "finish" /\ cur # Send => got[cur] > 0 \/ cur \in refused
    /\ \A g \in Lives : hop[g].at = "taken" => got[hop[g].job] > 0

(* What looked the binding up while it stood. *)
Bearing == {g \in Lives : hop[g].at = "bound" /\ hop[g].job \notin Calls}

LeftInv == ~bound => late + Cardinality(Bearing) =< crashes + 1

MarkInv == SentIsMarked /\ (phase[Send] # "absent" => marked)

LinkInv ==
    /\ WorkerInv /\ LinkShape /\ RequestsInv
    /\ FiledInv /\ AgentInv /\ AcceptedInv /\ LeftInv /\ MarkInv

-----------------------------------------------------------------------------
(* What the steps touch *)

(* The reports are what the assumptions say. *)
LEMMA LinkJobs ==
    /\ Send \in Jobs /\ Send \notin Calls /\ Calls \subseteq Jobs
    /\ \A p \in CallPhases : <<"call", p>> \in Calls
    /\ \A w \in Webhooks : <<"text", w>> \in Jobs
    /\ \A r \in Words : <<"receipt", r>> \in Jobs
    /\ \A j \in Jobs \ {Send} : j[1] # "send"
    /\ NoJob \notin Jobs /\ MaxLapses \in Nat /\ MaxCrashes \in Nat
<1> QED  BY CrmLinkAssumption, WorkerAssumption
         DEF Send, Calls, Texts, Receipts, CallPhases

(* The owner, the callers and the texts: at most one new row, at most one lapse. *)
Outside == Toggle \/ Calling \/ Texting \/ Sending

(* An enqueue adds its row, or is the lapse. *)
LEMMA EnqueuesOne ==
    ASSUME WorkerInv, LinkShape, NEW j \in Jobs, Enqueues(j)
    PROVE  /\ WorkerInv' /\ UNCHANGED <<tries, at, cur, crashes>>
           /\ \/ UNCHANGED phase
              \/ phase[j] = "absent" /\ phase' = [phase EXCEPT ![j] = "pending"]
           /\ lapses' \in {lapses, lapses + 1} /\ crashes + lapses' =< MaxLapses
<1>1. CASE Submit(j) /\ UNCHANGED lapses
    BY <1>1, Submits DEF LinkShape
<1>2. CASE Unheard
    <2>1. UNCHANGED workerVars /\ crashes + lapses < MaxLapses /\ lapses' = lapses + 1
        BY <1>2 DEF Unheard, Lapse
    <2> QED  BY <2>1, LinkJobs DEF WorkerInv, LinkShape, workerVars
<1> QED  BY <1>1, <1>2 DEF Enqueues

(* Nobody but the worker and the adapter touches the requests. *)
LEMMA OutsideRests ==
    ASSUME WorkerInv, LinkShape, Outside
    PROVE  /\ WorkerInv' /\ UNCHANGED <<tries, at, cur, crashes, hop, got, refused>>
           /\ \/ UNCHANGED phase
              \/ \E j \in Jobs : phase[j] = "absent" /\ phase' = [phase EXCEPT ![j] = "pending"]
           /\ lapses' \in {lapses, lapses + 1} /\ crashes + lapses' =< MaxLapses
<1>1. CASE /\ UNCHANGED <<workerVars, hop, got, refused>>
           /\ UNCHANGED lapses \/ Lapse
    <2>1. lapses' = lapses \/ (crashes + lapses < MaxLapses /\ lapses' = lapses + 1)
        BY <1>1 DEF Lapse
    <2> QED  BY <1>1, <2>1, LinkJobs DEF WorkerInv, LinkShape, workerVars
<1>2. ASSUME NEW j \in Jobs, Enqueues(j), UNCHANGED crmVars
      PROVE  /\ WorkerInv' /\ UNCHANGED <<tries, at, cur, crashes, hop, got, refused>>
             /\ \/ UNCHANGED phase
                \/ \E k \in Jobs : phase[k] = "absent" /\ phase' = [phase EXCEPT ![k] = "pending"]
             /\ lapses' \in {lapses, lapses + 1} /\ crashes + lapses' =< MaxLapses
    BY <1>2, EnqueuesOne DEF crmVars
<1>3. CASE Toggle
    BY <1>1, <1>3 DEF Toggle
<1>4. CASE Calling
    <2>1. ASSUME NEW p \in CallPhases, ReportsCall(p), UNCHANGED crmVars
          PROVE  \E j \in Jobs : Enqueues(j)
        BY <2>1, LinkJobs DEF ReportsCall
    <2>2. CASE CallArrives
        BY <1>1, <1>2, <2>1, <2>2 DEF CallArrives, crmVars, CallPhases
    <2>3. CASE CallAnswered \/ CallEnds
        BY <1>2, <2>1, <2>3 DEF CallAnswered, CallEnds, CallPhases
    <2>4. CASE CallUnanswered \/ CallLost
        BY <1>1, <2>4 DEF CallUnanswered, CallLost, crmVars
    <2> QED  BY <1>4, <2>2, <2>3, <2>4 DEF Calling
<1>5. ASSUME NEW w \in Webhooks, MessagePosted(w) \/ MessageIngested(w) \/ MessageDropped(w)
      PROVE  UNCHANGED <<workerVars, hop, got, refused>> /\ (UNCHANGED lapses \/ Lapse)
    BY <1>5 DEF MessagePosted, MessageIngested, MessageDropped, crmVars
<1>6. ASSUME NEW w \in Webhooks, MessageReported(w)
      PROVE  \/ \E j \in Jobs : Enqueues(j) /\ UNCHANGED crmVars
             \/ UNCHANGED <<workerVars, hop, got, refused>> /\ UNCHANGED lapses
    BY <1>6, LinkJobs DEF MessageReported, ReportsText, crmVars
<1>7. CASE Texting
    BY <1>1, <1>2, <1>5, <1>6, <1>7 DEF Texting
<1>8. CASE SendAccepted \/ SendMarked \/ SendAnswered \/ SendDropped
    BY <1>1, <1>8 DEF SendAccepted, SendMarked, SendAnswered, SendDropped, crmVars
<1>9. CASE SendQueued
    BY <1>2, <1>9, LinkJobs DEF SendQueued, Enqueues
<1>10. ASSUME NEW r \in Words, ReceiptPosted(r)
       PROVE  \/ \E j \in Jobs : Enqueues(j) /\ UNCHANGED crmVars
              \/ UNCHANGED <<workerVars, hop, got, refused>> /\ UNCHANGED lapses
    BY <1>10, LinkJobs DEF ReceiptPosted, crmVars
<1>11. CASE Sending
    BY <1>1, <1>2, <1>8, <1>9, <1>10, <1>11 DEF Sending
<1> QED  BY <1>3, <1>4, <1>7, <1>11 DEF Outside

(* What belongs to the owner, to the callers and to the texts, for the steps that
   leave it alone. *)
ours == <<linkVars, callVars, textVars, out, marked, word, known>>

(* The worker claims a job for its handler. *)
LEMMA Claimed ==
    ASSUME WorkerInv, ClaimSend \/ \E j \in Jobs : ClaimReport(j)
    PROVE  /\ WorkerInv' /\ at = "idle" /\ cur = NoJob /\ cur' \in Jobs
           /\ (at' = "send" /\ cur' = Send) \/ (at' = "report" /\ cur' # Send)
           /\ UNCHANGED <<phase, tries, crashes, ours, ref, crmVars, lapses>>
<1>1. CASE ClaimSend
    BY <1>1, ClaimsJob, LinkJobs DEF ClaimSend, ours, sendVars
<1>2. ASSUME NEW j \in Jobs, ClaimReport(j)
      PROVE  /\ WorkerInv' /\ at = "idle" /\ cur = NoJob /\ cur' = j /\ j # Send
             /\ at' = "report" /\ UNCHANGED <<phase, tries, crashes>>
             /\ UNCHANGED <<ours, ref, crmVars, lapses>>
    BY <1>2, ClaimsJob DEF ClaimReport, ours, sendVars
<1> QED  BY <1>1, <1>2

(* The carrier has the text. *)
LEMMA SentOn ==
    ASSUME WorkerInv, TextSent
    PROVE  /\ WorkerInv' /\ at = "send" /\ at' = "finish" /\ UNCHANGED <<cur, crashes>>
           /\ cur \in Jobs /\ phase[cur] \in Undecided /\ phase'[cur] = "running"
           /\ \A k \in Jobs : k # cur => phase'[k] = phase[k]
           /\ UNCHANGED <<ours, crmVars, lapses>>
<1>1. at = "send" /\ CommitWith({}) /\ Advance("finish") /\ UNCHANGED <<ours, crmVars, lapses>>
    BY DEF TextSent, ours
<1>2. Busy /\ cur \in Jobs
    BY <1>1 DEF WorkerInv, Busy
<1>3. WorkerInv' /\ at' = "finish" /\ UNCHANGED <<cur, crashes>>
    BY <1>1, <1>2, CommitsOn
<1>4. /\ phase[cur] \in Undecided /\ phase'[cur] = "running"
      /\ \A k \in Jobs \ {cur} : phase'[k] = phase[k]
    BY <1>1, <1>2, CommitsWith
<1> QED  BY <1>1, <1>2, <1>3, <1>4

(* The verdict on the job: done only at the end of a handler that did not raise. *)
LEMMA Judged ==
    ASSUME WorkerInv, Raise \/ Finish
    PROVE  /\ WorkerInv' /\ at \in {"raise", "finish"} /\ at' = "idle" /\ cur' = NoJob
           /\ cur \in Jobs /\ crashes' = crashes
           /\ phase[cur] \in Undecided /\ phase'[cur] \in {"pending", "done", "failed"}
           /\ (phase'[cur] = "done") = (at = "finish")
           /\ \A k \in Jobs : k # cur => phase'[k] = phase[k]
           /\ UNCHANGED <<ours, ref, crmVars, lapses>>
<1>1. /\ (at = "raise" /\ Failed) \/ (at = "finish" /\ Completed)
      /\ UNCHANGED <<ours, ref, crmVars, lapses>>
    BY DEF Raise, Finish, ours, sendVars
<1>2. Busy /\ cur \in Jobs /\ phase \in [Jobs -> Phases]
    BY <1>1 DEF WorkerInv, Busy
<1>3. /\ WorkerInv' /\ at' = "idle" /\ cur' = NoJob /\ crashes' = crashes
      /\ phase[cur] \in Undecided /\ \A k \in Jobs \ {cur} : phase'[k] = phase[k]
    BY <1>1, <1>2, Concludes
<1>4. CASE at = "raise"
    <2>1. phase' = [phase EXCEPT ![cur] = "pending"] \/ phase' = [phase EXCEPT ![cur] = "failed"]
        BY <1>1, <1>4 DEF Failed, Q!Verdict
    <2> QED  BY <1>1, <1>2, <1>3, <1>4, <2>1
<1>5. CASE at = "finish"
    <2>1. phase' = [phase EXCEPT ![cur] = "done"]
        BY <1>1, <1>5 DEF Completed, Q!Verdict
    <2> QED  BY <1>1, <1>2, <1>3, <1>5, <2>1
<1> QED  BY <1>1, <1>4, <1>5

(* The worker's request. *)
LEMMA Asked ==
    ASSUME WorkerInv, LinkShape, Posts
    PROVE  /\ WorkerInv' /\ at = "report" /\ at' = "posted" /\ cur \in Jobs
           /\ UNCHANGED <<phase, tries, cur, crashes>>
           /\ hop' = [hop EXCEPT ![crashes] = [at |-> "asked", job |-> cur]]
           /\ hop'[crashes] = [at |-> "asked", job |-> cur]
           /\ \A g \in Lives : g # crashes => hop'[g] = hop[g]
           /\ UNCHANGED <<ours, ref, got, refused, late, lapses>>
<1>1. /\ at = "report" /\ Advance("posted") /\ UNCHANGED tableVars
      /\ hop' = [hop EXCEPT ![crashes] = [at |-> "asked", job |-> cur]]
      /\ UNCHANGED <<ours, ref, got, refused, late, lapses>>
    BY DEF Posts, ours, sendVars
<1>2. Busy /\ cur \in Jobs /\ crashes \in Lives
    BY <1>1 DEF WorkerInv, Busy, Lives
<1>3. WorkerInv' /\ at' = "posted" /\ UNCHANGED <<phase, tries, cur, crashes>>
    BY <1>1, <1>2, Advances
<1> QED  BY <1>1, <1>2, <1>3 DEF LinkShape

(* The worker dies, with its request under way. *)
LEMMA DiedAsking ==
    ASSUME WorkerInv, LinkShape, Crash
    PROVE  /\ WorkerInv' /\ at' = "down" /\ cur' = NoJob /\ crashes' = crashes + 1
           /\ crashes + lapses < MaxLapses /\ crashes' \in Lives
           /\ UNCHANGED <<phase, tries, ours, ref, crmVars, lapses>>
<1>1. Died /\ crashes + lapses < MaxLapses /\ UNCHANGED <<ours, ref, crmVars, lapses>>
    BY DEF Crash, ours, sendVars
<1>2. WorkerInv' /\ at' = "down" /\ cur' = NoJob /\ crashes' = crashes + 1 /\ UNCHANGED <<phase, tries>>
    BY <1>1, Dies
<1>3. crashes' \in Lives
    BY <1>2 DEF WorkerInv, Lives
<1> QED  BY <1>1, <1>2, <1>3

(* It starts again. *)
LEMMA Revived ==
    ASSUME WorkerInv, Restart
    PROVE  /\ WorkerInv' /\ at' = "idle" /\ cur' = NoJob /\ cur = NoJob
           /\ UNCHANGED <<phase, tries, crashes, ours, ref, crmVars, lapses>>
<1>1. Restarted /\ UNCHANGED <<ours, ref, crmVars, lapses>>
    BY DEF Restart, ours, sendVars
<1> QED  BY <1>1, Restarts

(* The adapter looks the binding up. *)
LEMMA LookedUp ==
    ASSUME LinkShape, NEW g \in Lives, ReadsCall(g) \/ ReadsText(g) \/ ReadsReceipt(g)
    PROVE  /\ hop[g].at = "asked"
           /\ \E v \in {"refused", "bound"} :
                 /\ hop' = [hop EXCEPT ![g].at = v]
                 /\ hop'[g].at = v /\ hop'[g].job = hop[g].job
                 /\ v = "bound" => bound \/ hop[g].job \in Calls
           /\ \A h \in Lives : h # g => hop'[h] = hop[h]
           /\ UNCHANGED <<workerVars, ours, ref, got, refused, late, lapses>>
<1>1. PICK kind \in {Calls, Texts, Receipts} : Reads(g, kind)
    BY DEF ReadsCall, ReadsText, ReadsReceipt
<1>2. PICK v \in {"refused", "bound"} :
          /\ hop' = [hop EXCEPT ![g].at = v]
          /\ v = "bound" => ~Unbound(hop[g].job)
    BY <1>1 DEF Reads
<1>3. hop[g].at = "asked" /\ UNCHANGED <<workerVars, ours, ref, got, refused, late, lapses>>
    BY <1>1 DEF Reads, ours, sendVars
<1> QED  BY <1>2, <1>3 DEF LinkShape, Unbound

(* The CRM takes the report it is sent, or does not. *)
Takings(g) ==
    /\ got' \in [Jobs -> Nat] /\ got'[hop[g].job] > 0
    /\ got'[hop[g].job] =< got[hop[g].job] + 1
    /\ Dedupes(hop[g].job) => got'[hop[g].job] = 1
    /\ \A k \in Jobs : k # hop[g].job => got'[k] = got[k]
    /\ late' = IF bound \/ hop[g].job \in Calls THEN late ELSE late + 1
    /\ \/ hop'[g].at = "taken" /\ lapses' = lapses
       \/ hop'[g].at = "failed" /\ lapses' = lapses + 1 /\ crashes + lapses < MaxLapses

(* The request's outcome is all that changes. *)
LEMMA Filed ==
    ASSUME LinkShape, NEW g \in Lives, hop[g].job # NoJob, PostsEvent(g) \/ PostsReceipt(g)
    PROVE  /\ hop[g].at = "bound" /\ hop[g].job \in Jobs
           /\ \E v \in {"taken", "refused", "failed"} :
                 /\ hop' = [hop EXCEPT ![g].at = v]
                 /\ hop'[g].at = v /\ hop'[g].job = hop[g].job
           /\ \A h \in Lives : h # g => hop'[h] = hop[h]
           /\ \/ Takings(g)
              \/ hop'[g].at \in {"refused", "failed"} /\ UNCHANGED <<got, late, lapses>>
           /\ UNCHANGED <<workerVars, ours, ref, refused>>
<1>1. hop[g].at = "bound" /\ \E takes \in BOOLEAN : Request(g, takes)
    <2>1. CASE PostsEvent(g)
        BY <2>1 DEF PostsEvent
    <2>2. CASE PostsReceipt(g)
        <3>1. hop[g].at = "bound" /\ Request(g, known)
            BY <2>2 DEF PostsReceipt
        <3>2. CASE known
            <4>1. Request(g, TRUE)
                BY <3>1, <3>2 DEF Request
            <4> QED  BY <3>1, <4>1
        <3>3. CASE ~known
            <4>1. Request(g, FALSE)
                BY <3>1, <3>3 DEF Request
            <4> QED  BY <3>1, <4>1
        <3> QED  BY <3>2, <3>3
    <2> QED  BY <2>1, <2>2
<1>2. PICK takes \in BOOLEAN : Request(g, takes)
    BY <1>1
<1>3. hop[g].job \in Jobs /\ got \in [Jobs -> Nat]
    BY DEF LinkShape
<1>4. UNCHANGED <<workerVars, ours, ref, refused>>
    BY <1>2 DEF Request, ours, sendVars
<1>5. ASSUME NEW v \in {"taken", "refused", "failed"}, hop' = [hop EXCEPT ![g].at = v]
      PROVE  /\ hop'[g].at = v /\ hop'[g].job = hop[g].job
             /\ \A h \in Lives : h # g => hop'[h] = hop[h]
    BY <1>5 DEF LinkShape
<1>6. ASSUME Takes(hop[g].job)
      PROVE  /\ got' \in [Jobs -> Nat] /\ got'[hop[g].job] > 0
             /\ got'[hop[g].job] =< got[hop[g].job] + 1
             /\ Dedupes(hop[g].job) => got'[hop[g].job] = 1
             /\ \A k \in Jobs : k # hop[g].job => got'[k] = got[k]
             /\ late' = IF bound \/ hop[g].job \in Calls THEN late ELSE late + 1
    BY <1>3, <1>6 DEF Takes
<1>7. CASE takes /\ Takes(hop[g].job) /\ hop' = [hop EXCEPT ![g].at = "taken"] /\ UNCHANGED lapses
    BY <1>1, <1>3, <1>4, <1>5, <1>6, <1>7 DEF Takings
<1>8. CASE \E answer \in {"refused", "failed"} :
              hop' = [hop EXCEPT ![g].at = answer] /\ UNCHANGED <<got, late, lapses>>
    BY <1>1, <1>3, <1>4, <1>5, <1>8
<1>9. CASE takes /\ Takes(hop[g].job) /\ Lapse /\ hop' = [hop EXCEPT ![g].at = "failed"]
    BY <1>1, <1>3, <1>4, <1>5, <1>6, <1>9 DEF Takings, Lapse
<1> QED  BY <1>2, <1>7, <1>8, <1>9 DEF Request

(* The worker hears how it went, if it lives and the answer is not lost. *)
Hears(g) ==
    /\ g = crashes /\ at = "posted" /\ UNCHANGED <<phase, tries, cur, crashes>>
    /\ \/ at' = (IF hop[g].at = "failed" THEN "raise" ELSE "finish") /\ lapses' = lapses
       \/ at' = "raise" /\ lapses' = lapses + 1 /\ crashes + lapses < MaxLapses

(* The request is over, whoever hears of it. *)
LEMMA Told ==
    ASSUME WorkerInv, LinkShape, NEW g \in Lives, AdapterAnswers(g)
    PROVE  /\ WorkerInv' /\ hop[g].at \in {"taken", "refused", "failed"}
           /\ hop' = [hop EXCEPT ![g] = NoHop] /\ hop'[g] = NoHop
           /\ \A h \in Lives : h # g => hop'[h] = hop[h]
           /\ refused' = IF hop[g].at = "refused" THEN refused \union {hop[g].job} ELSE refused
           /\ Hears(g) \/ ((g # crashes \/ at # "posted") /\ UNCHANGED <<workerVars, lapses>>)
           /\ UNCHANGED <<ours, ref, got, late>>
<1>1. /\ hop[g].at \in {"taken", "refused", "failed"} /\ hop' = [hop EXCEPT ![g] = NoHop]
      /\ refused' = IF hop[g].at = "refused" THEN refused \union {hop[g].job} ELSE refused
      /\ UNCHANGED <<ours, ref, got, late>>
    BY DEF AdapterAnswers, ours, sendVars
<1>2. hop'[g] = NoHop /\ \A h \in Lives : h # g => hop'[h] = hop[h]
    BY <1>1 DEF LinkShape
<1>3. CASE g = crashes /\ at = "posted"
    <2>1. Busy
        BY <1>3 DEF WorkerInv, Busy
    <2>2. \/ /\ Advance(IF hop[g].at = "failed" THEN "raise" ELSE "finish")
             /\ UNCHANGED <<tableVars, lapses>>
          \/ Advance("raise") /\ Lapse /\ UNCHANGED tableVars
        BY <1>3 DEF AdapterAnswers
    <2>3. WorkerInv' /\ Hears(g)
        BY <1>3, <2>1, <2>2, Advances DEF Hears, Lapse
    <2> QED  BY <1>1, <1>2, <2>3
<1>4. CASE ~(g = crashes /\ at = "posted")
    <2>1. UNCHANGED <<workerVars, lapses>>
        BY <1>4 DEF AdapterAnswers
    <2> QED  BY <1>1, <1>2, <1>4, <2>1 DEF WorkerInv, workerVars
<1> QED  BY <1>3, <1>4

(* These are the steps. *)
LEMMA LinkSteps ==
    ASSUME [LinkNext]_reportVars
    PROVE  \/ Outside \/ ClaimSend \/ (\E j \in Jobs : ClaimReport(j)) \/ TextSent \/ Posts
           \/ Raise \/ Finish
           \/ (\E g \in Lives : ReadsCall(g) \/ ReadsText(g) \/ ReadsReceipt(g))
           \/ (\E g \in Lives : PostsEvent(g) \/ PostsReceipt(g))
           \/ (\E g \in Lives : AdapterAnswers(g))
           \/ Crash \/ Restart \/ UNCHANGED reportVars
<1> QED  BY DEF LinkNext, Outside, Working, Adapter, Lives

-----------------------------------------------------------------------------
(* The types and the requests *)

(* The worker's lives are finitely many, and so are its requests. *)
LEMMA Requests ==
    ASSUME LinkShape
    PROVE  /\ IsFiniteSet(Lives)
           /\ \A j : IsFiniteSet(Stale(j)) /\ Cardinality(Stale(j)) \in Nat
           /\ IsFiniteSet(Bearing) /\ Cardinality(Bearing) \in Nat
<1>1. IsFiniteSet(Lives)
    BY FS_Interval, LinkJobs DEF Lives
<1>2. ASSUME NEW S \in SUBSET Lives
      PROVE  IsFiniteSet(S) /\ Cardinality(S) \in Nat
    BY <1>1, <1>2, FS_Subset, FS_CardinalityType
<1>3. (\A j : Stale(j) \in SUBSET Lives) /\ Bearing \in SUBSET Lives
    BY DEF Stale, Bearing
<1> QED  BY <1>1, <1>2, <1>3

(* Rows stay in the table. *)
LEMMA RowsStay ==
    ASSUME WorkerInv, LinkShape, RequestsInv, [LinkNext]_reportVars
    PROVE  WorkerInv' /\ \A j \in Jobs : phase[j] # "absent" => phase'[j] # "absent"
<1>1. CASE Outside
    BY <1>1, OutsideRests DEF WorkerInv
<1>2. CASE ClaimSend \/ (\E j \in Jobs : ClaimReport(j))
    BY <1>2, Claimed
<1>3. CASE TextSent
    BY <1>3, SentOn
<1>4. CASE Raise \/ Finish
    BY <1>4, Judged
<1>5. CASE Posts \/ Crash \/ Restart
    BY <1>5, Asked, DiedAsking, Revived
<1>6. ASSUME NEW g \in Lives, ReadsCall(g) \/ ReadsText(g) \/ ReadsReceipt(g)
      PROVE  UNCHANGED workerVars
    BY <1>6, LookedUp
<1>7. ASSUME NEW g \in Lives, PostsEvent(g) \/ PostsReceipt(g)
      PROVE  UNCHANGED workerVars
    <2>1. hop[g].at = "bound"
        BY <1>7 DEF PostsEvent, PostsReceipt
    <2> QED  BY <1>7, <2>1, Filed DEF RequestsInv
<1>8. ASSUME NEW g \in Lives, AdapterAnswers(g)
      PROVE  WorkerInv' /\ UNCHANGED phase
    BY <1>8, Told DEF Hears, workerVars
<1>9. CASE UNCHANGED workerVars
    BY <1>9 DEF WorkerInv, workerVars
<1> QED  BY <1>1, <1>2, <1>3, <1>4, <1>5, <1>6, <1>7, <1>8, <1>9, LinkSteps DEF reportVars

(* A request that is sent on is about a job. *)
LEMMA Forwarded ==
    ASSUME RequestsInv, NEW g \in Lives, PostsEvent(g) \/ PostsReceipt(g)
    PROVE  hop[g].job # NoJob
<1> QED  BY DEF RequestsInv, PostsEvent, PostsReceipt

(* What the owner, the callers and the texts do keeps its shape. *)
LEMMA OutsideTyped ==
    ASSUME WorkerInv, LinkShape, Outside
    PROVE  LinkShape'
<1> DEFINE Ours ==
        /\ bound \in BOOLEAN /\ mix \in Mixes /\ toggles \in 0..MaxToggles
        /\ call \in {"away", "default", "ringing", "answered", "unanswered", "over", "lost"}
        /\ web \in [Webhooks -> {"away", "first", "seen", "report", "answered", "dead"}]
        /\ out \in {"none", "row", "marked", "queued", "answered", "dropped"}
        /\ word \in Words \union {"none"} /\ late \in Nat
<1>1. Ours /\ MaxToggles \in Nat
    BY CrmLinkAssumption DEF LinkShape
<1>2. ASSUME Toggle
      PROVE  Ours'
    BY <1>1, <1>2 DEF Toggle, callVars, textVars, sendVars
<1>3. ASSUME Calling
      PROVE  Ours'
    BY <1>1, <1>3 DEF Calling, CallArrives, CallAnswered, CallUnanswered, CallEnds, CallLost,
                      linkVars, textVars, sendVars, crmVars
<1>4. ASSUME NEW w \in Webhooks, \/ MessagePosted(w) \/ MessageIngested(w)
                                 \/ MessageReported(w) \/ MessageDropped(w)
      PROVE  Ours'
    <2>1. UNCHANGED <<linkVars, call, out, word, late>>
        BY <1>4 DEF MessagePosted, MessageIngested, MessageReported, MessageDropped,
                    callVars, sendVars, crmVars
    <2>2. \E v \in {"seen", "first", "report", "answered", "dead"} : web' = [web EXCEPT ![w] = v]
        BY <1>1, <1>4 DEF MessagePosted, MessageIngested, MessageReported, MessageDropped
    <2> QED  BY <1>1, <2>1, <2>2 DEF linkVars
<1>5. ASSUME NEW r \in Words, ReceiptPosted(r)
      PROVE  Ours'
    BY <1>1, <1>5 DEF ReceiptPosted, linkVars, callVars, textVars, crmVars
<1>6. ASSUME SendAccepted \/ SendMarked \/ SendQueued \/ SendAnswered \/ SendDropped
      PROVE  Ours'
    BY <1>1, <1>6 DEF SendAccepted, SendMarked, SendQueued, SendAnswered, SendDropped,
                      linkVars, callVars, textVars, crmVars
<1>7. Ours'
    BY <1>2, <1>3, <1>4, <1>5, <1>6 DEF Outside, Texting, Sending
<1>8. /\ UNCHANGED <<crashes, hop, got, refused>>
      /\ lapses' \in Nat /\ crashes + lapses' =< MaxLapses
    BY OutsideRests DEF LinkShape
<1> QED  BY <1>7, <1>8 DEF LinkShape

(* Everything keeps its shape. *)
LEMMA LinkShapeKept ==
    ASSUME WorkerInv, LinkShape, RequestsInv, [LinkNext]_reportVars
    PROVE  LinkShape'
<1> DEFINE Hops == [Lives -> [at : {"idle", "asked", "bound", "taken", "refused", "failed"},
                              job : Jobs \union {NoJob}]]
<1>1. ASSUME UNCHANGED ours, hop' \in Hops, got' \in [Jobs -> Nat], refused' \subseteq Jobs,
             late' \in Nat, lapses' \in Nat, crashes' + lapses' =< MaxLapses
      PROVE  LinkShape'
    BY <1>1 DEF LinkShape, ours, linkVars, callVars, textVars
<1>2. /\ hop \in Hops /\ got \in [Jobs -> Nat] /\ refused \subseteq Jobs
      /\ late \in Nat /\ lapses \in Nat /\ crashes \in Nat /\ crashes + lapses =< MaxLapses
    BY LinkJobs DEF LinkShape, WorkerInv
<1>3. CASE ClaimSend \/ (\E j \in Jobs : ClaimReport(j))
    BY <1>1, <1>2, <1>3, Claimed DEF crmVars
<1>4. CASE TextSent \/ Raise \/ Finish \/ Restart
    BY <1>1, <1>2, <1>4, SentOn, Judged, Revived DEF crmVars
<1>5. CASE Posts
    <2>1. hop' \in Hops
        BY <1>2, <1>5, Asked
    <2> QED  BY <1>1, <1>2, <1>5, <2>1, Asked
<1>6. CASE Crash
    <2>1. crashes' + lapses' =< MaxLapses
        BY <1>2, <1>6, DiedAsking, LinkJobs
    <2> QED  BY <1>1, <1>2, <1>6, <2>1, DiedAsking DEF crmVars
<1>7. ASSUME NEW g \in Lives, ReadsCall(g) \/ ReadsText(g) \/ ReadsReceipt(g)
      PROVE  LinkShape'
    <2>1. hop' \in Hops
        BY <1>2, <1>7, LookedUp
    <2> QED  BY <1>1, <1>2, <1>7, <2>1, LookedUp DEF workerVars
<1>8. ASSUME NEW g \in Lives, PostsEvent(g) \/ PostsReceipt(g)
      PROVE  LinkShape'
    <2>1. hop' \in Hops
        BY <1>2, <1>8, Filed, Forwarded
    <2>2. /\ got' \in [Jobs -> Nat] /\ late' \in Nat /\ lapses' \in Nat
          /\ crashes + lapses' =< MaxLapses
        BY <1>2, <1>8, Filed, Forwarded, LinkJobs DEF Takings
    <2> QED  BY <1>1, <1>2, <1>8, <2>1, <2>2, Filed, Forwarded DEF workerVars
<1>9. ASSUME NEW g \in Lives, AdapterAnswers(g)
      PROVE  LinkShape'
    <2>1. hop' \in Hops
        BY <1>2, <1>9, Told DEF NoHop
    <2>2. refused' \subseteq Jobs
        <3>1. CASE hop[g].job \in Jobs
            BY <1>2, <1>9, <3>1, Told
        <3>2. CASE hop[g].job \notin Jobs
            BY <1>2, <1>9, <3>2, Told DEF RequestsInv
        <3> QED  BY <3>1, <3>2
    <2>3. lapses' \in Nat /\ crashes' + lapses' =< MaxLapses
        BY <1>2, <1>9, Told, LinkJobs DEF Hears, workerVars
    <2> QED  BY <1>1, <1>2, <1>9, <2>1, <2>2, <2>3, Told
<1>10. CASE UNCHANGED reportVars
    BY <1>1, <1>2, <1>10 DEF reportVars, ours, linkVars, sendVars, crmVars, workerVars
<1> QED  BY <1>3, <1>4, <1>5, <1>6, <1>7, <1>8, <1>9, <1>10, OutsideTyped, LinkSteps

(* A request stays its worker's, and about a job that is in the table. *)
LEMMA RequestsKept ==
    ASSUME WorkerInv, LinkShape, RequestsInv, [LinkNext]_reportVars
    PROVE  RequestsInv'
<1>1. WorkerInv' /\ \A j \in Jobs : phase[j] # "absent" => phase'[j] # "absent"
    BY RowsStay
<1>2. \A g \in Lives : hop[g].at # "idle" => hop[g].job \in Jobs
    BY DEF RequestsInv, LinkShape
<1>3. crashes \in Lives /\ crashes' \in Lives
    BY <1>1 DEF WorkerInv, Lives
<1>4. ASSUME UNCHANGED <<at, cur, crashes, hop, got>>
      PROVE  RequestsInv'
    BY <1>1, <1>2, <1>4 DEF RequestsInv
<1>5. CASE Outside \/ UNCHANGED reportVars
    BY <1>4, <1>5, OutsideRests DEF reportVars, workerVars, crmVars
<1>6. ASSUME UNCHANGED <<crashes, hop, got>>, at # "posted",
             \/ at' = "send" /\ cur' = Send
             \/ at' = "report" /\ cur' # Send
             \/ at' \in {"finish", "idle"}
      PROVE  RequestsInv'
    BY <1>1, <1>2, <1>6 DEF RequestsInv
<1>7. CASE ClaimSend \/ (\E j \in Jobs : ClaimReport(j))
    BY <1>6, <1>7, Claimed DEF crmVars
<1>8. CASE TextSent \/ Raise \/ Finish
    BY <1>6, <1>8, SentOn, Judged DEF crmVars
<1>9. CASE Posts
    <2>1. /\ at = "report" /\ at' = "posted" /\ cur \in Jobs /\ cur # Send
          /\ UNCHANGED <<phase, cur, crashes, got>>
          /\ hop'[crashes] = [at |-> "asked", job |-> cur]
          /\ \A g \in Lives : g # crashes => hop'[g] = hop[g]
        BY <1>9, Asked DEF RequestsInv
    <2>2. phase[cur] # "absent" /\ cur # NoJob
        BY <2>1, LinkJobs DEF WorkerInv, Undecided
    <2>3. crashes =< crashes
        BY <1>3 DEF Lives
    <2> QED  BY <1>3, <2>1, <2>2, <2>3 DEF RequestsInv
<1>10. CASE Crash
    <2>1. /\ at' = "down" /\ cur' = NoJob /\ crashes' = crashes + 1 /\ UNCHANGED <<phase, hop, got>>
        BY <1>10, DiedAsking DEF crmVars
    <2>2. hop[crashes'].at = "idle"
        BY <1>3, <2>1 DEF RequestsInv, Lives
    <2>3. \A g \in Lives : g =< crashes => g =< crashes'
        BY <1>3, <2>1 DEF Lives
    <2> QED  BY <2>1, <2>2, <2>3 DEF RequestsInv
<1>11. CASE Restart
    <2>1. at' = "idle" /\ cur' = NoJob /\ UNCHANGED <<phase, crashes, hop, got>> /\ at = "down"
        BY <1>11, Revived DEF crmVars, Restart, Restarted
    <2> QED  BY <1>6, <2>1
<1>12. ASSUME NEW g \in Lives, ReadsCall(g) \/ ReadsText(g) \/ ReadsReceipt(g)
       PROVE  RequestsInv'
    <2>1. /\ UNCHANGED <<phase, at, cur, crashes, got>>
          /\ hop[g].at # "idle" /\ hop'[g].at # "idle" /\ hop'[g].job = hop[g].job
          /\ \A h \in Lives : h # g => hop'[h] = hop[h]
        BY <1>12, LookedUp DEF workerVars
    <2> QED  BY <1>3, <2>1 DEF RequestsInv
<1>13. ASSUME NEW g \in Lives, PostsEvent(g) \/ PostsReceipt(g)
       PROVE  RequestsInv'
    <2>1. /\ UNCHANGED <<phase, at, cur, crashes>>
          /\ hop[g].at # "idle" /\ hop'[g].at # "idle" /\ hop'[g].job = hop[g].job
          /\ \A h \in Lives : h # g => hop'[h] = hop[h]
          /\ \A k \in Jobs : k # hop[g].job => got'[k] = got[k]
        BY <1>13, Filed, Forwarded DEF workerVars, Takings
    <2>2. phase[hop[g].job] # "absent"
        BY <2>1 DEF RequestsInv
    <2> QED  BY <1>3, <2>1, <2>2 DEF RequestsInv
<1>14. ASSUME NEW g \in Lives, AdapterAnswers(g)
       PROVE  RequestsInv'
    <2>1. /\ hop[g].at # "idle" /\ hop'[g].at = "idle" /\ hop'[g].job = NoJob
          /\ \A h \in Lives : h # g => hop'[h] = hop[h]
          /\ UNCHANGED <<phase, cur, crashes, got>>
          /\ \/ g = crashes /\ at' \in {"raise", "finish"}
             \/ g # crashes /\ at' = at
             \/ at # "posted" /\ at' = at
        BY <1>14, Told DEF Hears, NoHop, workerVars
    <2>2. g = crashes => at = "posted"
        BY <2>1 DEF RequestsInv
    <2> QED  BY <1>3, <2>1, <2>2 DEF RequestsInv
<1> QED  BY <1>5, <1>7, <1>8, <1>9, <1>10, <1>11, <1>12, <1>13, <1>14, LinkSteps

-----------------------------------------------------------------------------
(* What is filed *)

(* The worker's death leaves at most its own request behind. *)
LEMMA LeftBehind ==
    ASSUME WorkerInv, LinkShape, RequestsInv, Crash, NEW j \in Jobs
    PROVE  \/ Stale(j)' = Stale(j)
           \/ /\ Cardinality(Stale(j)') =< Cardinality(Stale(j)) + 1
              /\ ~Settled(j)
<1>1. crashes' = crashes + 1 /\ crashes \in Lives /\ UNCHANGED hop
    BY DiedAsking DEF WorkerInv, Lives, crmVars
<1>2. \A g \in Lives : g < crashes' <=> g < crashes \/ g = crashes
    BY <1>1 DEF Lives
<1>3. CASE hop[crashes].job = j /\ hop[crashes].at \in {"asked", "bound"}
    <2>1. Stale(j)' = Stale(j) \union {crashes}
        BY <1>1, <1>2, <1>3 DEF Stale
    <2>2. IsFiniteSet(Stale(j)) /\ Cardinality(Stale(j)) \in Nat
        BY Requests
    <2>4. Cardinality(Stale(j) \union {crashes}) =< Cardinality(Stale(j)) + 1
        BY <2>2, FS_AddElement
    <2>3. ~Settled(j)
        BY <1>3 DEF Settled, RequestsInv, WorkerInv, Undecided
    <2> QED  BY <2>1, <2>3, <2>4
<1>4. CASE ~(hop[crashes].job = j /\ hop[crashes].at \in {"asked", "bound"})
    BY <1>1, <1>2, <1>4 DEF Stale
<1> QED  BY <1>3, <1>4

(* Each row but one of a report answers for a lost answer or a death. *)
LEMMA FiledKept ==
    ASSUME WorkerInv, LinkShape, RequestsInv, FiledInv, [LinkNext]_reportVars
    PROVE  FiledInv'
<1> SUFFICES ASSUME NEW j \in Jobs
             PROVE  (got[j] + Cardinality(Stale(j)) =<
                        crashes + lapses + IF Settled(j) THEN 1 ELSE 0)'
    BY DEF FiledInv
<1>1. /\ got[j] \in Nat /\ Cardinality(Stale(j)) \in Nat /\ crashes \in Nat /\ lapses \in Nat
      /\ crashes \in Lives
    BY Requests, LinkJobs DEF LinkShape, WorkerInv, Lives
<1>2. got[j] + Cardinality(Stale(j)) =< crashes + lapses + IF Settled(j) THEN 1 ELSE 0
    BY DEF FiledInv
<1>3. ASSUME UNCHANGED <<crashes, hop, got>>, lapses' \in {lapses, lapses + 1},
             Settled(j) => Settled(j)'
      PROVE  (got[j] + Cardinality(Stale(j)) =<
                        crashes + lapses + IF Settled(j) THEN 1 ELSE 0)'
    <2>1. Stale(j)' = Stale(j)
        BY <1>3 DEF Stale
    <2> QED  BY <1>1, <1>2, <1>3, <2>1
<1>4. CASE Outside \/ UNCHANGED reportVars
    <2>1. /\ UNCHANGED <<at, cur, crashes, hop, got>> /\ lapses' \in {lapses, lapses + 1}
          /\ \/ UNCHANGED phase
             \/ \E k \in Jobs : phase[k] = "absent" /\ phase' = [phase EXCEPT ![k] = "pending"]
        BY <1>4, OutsideRests DEF reportVars, workerVars, crmVars
    <2>2. phase[j] = "done" => phase'[j] = "done"
        BY <2>1 DEF WorkerInv
    <2> QED  BY <1>3, <2>1, <2>2 DEF Settled
<1>5. CASE ClaimSend \/ (\E k \in Jobs : ClaimReport(k))
    BY <1>3, <1>5, Claimed, LinkJobs DEF Settled, crmVars
<1>6. CASE TextSent
    BY <1>3, <1>6, SentOn DEF Settled, crmVars, Undecided
<1>7. CASE Raise \/ Finish
    BY <1>3, <1>7, Judged DEF Settled, crmVars, Undecided
<1>8. CASE Restart
    BY <1>3, <1>8, Revived, LinkJobs DEF Settled, crmVars
<1>9. CASE Posts
    <2>1. /\ at = "report" /\ UNCHANGED <<phase, crashes, got, lapses>>
          /\ \A g \in Lives : g # crashes => hop'[g] = hop[g]
        BY <1>9, Asked
    <2>2. Stale(j)' = Stale(j)
        BY <1>1, <2>1 DEF Stale, Lives
    <2>3. Settled(j) => Settled(j)'
        BY <2>1 DEF Settled
    <2> QED  BY <1>1, <1>2, <2>1, <2>2, <2>3
<1>10. CASE Crash
    <2>1. crashes' = crashes + 1 /\ UNCHANGED <<phase, got, lapses>>
        BY <1>10, DiedAsking DEF crmVars
    <2>2. Stale(j)' \subseteq Lives
        BY DEF Stale, Lives
    <2>3. Cardinality(Stale(j)') \in Nat
        BY <2>2, Requests, FS_Subset, FS_CardinalityType
    <2> QED  BY <1>1, <1>2, <1>10, <2>1, <2>3, LeftBehind DEF Settled
<1>11. ASSUME NEW g \in Lives, ReadsCall(g) \/ ReadsText(g) \/ ReadsReceipt(g)
       PROVE  (got[j] + Cardinality(Stale(j)) =<
                        crashes + lapses + IF Settled(j) THEN 1 ELSE 0)'
    <2>1. /\ UNCHANGED <<phase, at, cur, crashes, got, lapses>>
          /\ hop[g].at = "asked" /\ hop'[g].job = hop[g].job
          /\ \A h \in Lives : h # g => hop'[h] = hop[h]
        BY <1>11, LookedUp DEF workerVars
    <2>2. Stale(j)' \subseteq Stale(j)
        BY <2>1 DEF Stale
    <2>3. Settled(j) => Settled(j)'
        BY <1>1, <2>1 DEF Settled
    <2>4. Cardinality(Stale(j)') \in Nat /\ Cardinality(Stale(j)') =< Cardinality(Stale(j))
        BY <2>2, FS_Subset, Requests, FS_CardinalityType
    <2> QED  BY <1>1, <1>2, <2>1, <2>3, <2>4
<1>12. ASSUME NEW g \in Lives, PostsEvent(g) \/ PostsReceipt(g)
       PROVE  (got[j] + Cardinality(Stale(j)) =<
                        crashes + lapses + IF Settled(j) THEN 1 ELSE 0)'
    <2>1. /\ UNCHANGED <<phase, at, cur, crashes>>
          /\ hop[g].at = "bound" /\ hop'[g].job = hop[g].job
          /\ hop'[g].at \in {"taken", "refused", "failed"}
          /\ \A h \in Lives : h # g => hop'[h] = hop[h]
          /\ \/ Takings(g)
             \/ hop'[g].at \in {"refused", "failed"} /\ UNCHANGED <<got, lapses>>
        BY <1>12, Filed, Forwarded DEF workerVars
    <2>2. Stale(j)' = Stale(j) \ {g}
        BY <2>1 DEF Stale
    <2>3. /\ Cardinality(Stale(j)') \in Nat
          /\ Cardinality(Stale(j)') = IF g \in Stale(j) THEN Cardinality(Stale(j)) - 1
                                                        ELSE Cardinality(Stale(j))
        BY <2>2, FS_RemoveElement, Requests, FS_CardinalityType
    <2>4. Settled(j) => Settled(j)'
        BY <1>1, <2>1 DEF Settled
    <2>5. CASE UNCHANGED <<got, lapses>>
        BY <1>1, <1>2, <2>1, <2>3, <2>4, <2>5
    <2>6. CASE Takings(g) /\ hop[g].job # j
        <3>1. got'[j] = got[j] /\ lapses' \in {lapses, lapses + 1}
            BY <2>6 DEF Takings
        <3> QED  BY <1>1, <1>2, <2>1, <2>3, <2>4, <3>1
    <2>7. CASE Takings(g) /\ hop[g].job = j /\ g # crashes
        <3>1. g \in Stale(j)
            BY <1>1, <2>1, <2>7 DEF Stale, RequestsInv, Lives
        <3>2. got'[j] \in Nat /\ got'[j] =< got[j] + 1 /\ lapses' \in {lapses, lapses + 1}
            BY <2>7 DEF Takings
        <3> QED  BY <1>1, <1>2, <2>1, <2>3, <2>4, <3>1, <3>2
    <2>8. CASE Takings(g) /\ hop[g].job = j /\ g = crashes
        <3>1. cur = j /\ at = "posted" /\ ~Settled(j)
            BY <2>1, <2>8 DEF RequestsInv, Settled, WorkerInv, Undecided
        <3>2. /\ got'[j] \in Nat /\ got'[j] =< got[j] + 1
              /\ (lapses' = lapses /\ hop'[g].at = "taken") \/ lapses' = lapses + 1
            BY <2>8 DEF Takings
        <3>3. lapses' = lapses => Settled(j)'
            BY <1>1, <2>1, <2>8, <3>1, <3>2 DEF Settled
        <3> QED  BY <1>1, <1>2, <2>1, <2>3, <3>1, <3>2, <3>3
    <2> QED  BY <2>1, <2>5, <2>6, <2>7, <2>8
<1>13. ASSUME NEW g \in Lives, AdapterAnswers(g)
       PROVE  (got[j] + Cardinality(Stale(j)) =<
                        crashes + lapses + IF Settled(j) THEN 1 ELSE 0)'
    <2>1. /\ UNCHANGED <<phase, cur, crashes, got>>
          /\ hop[g].at \in {"taken", "refused", "failed"} /\ hop'[g].at = "idle"
          /\ \A h \in Lives : h # g => hop'[h] = hop[h]
          /\ Hears(g) \/ ((g # crashes \/ at # "posted") /\ UNCHANGED <<at, lapses>>)
        BY <1>13, Told DEF workerVars, NoHop, Hears
    <2>2. Stale(j)' = Stale(j)
        BY <2>1 DEF Stale
    <2>3. lapses' = lapses /\ Settled(j) => Settled(j)'
        BY <1>1, <2>1 DEF Settled, Hears, RequestsInv
    <2>4. lapses' \in {lapses, lapses + 1}
        BY <2>1 DEF Hears
    <2> QED  BY <1>1, <1>2, <2>1, <2>2, <2>3, <2>4
<1> QED  BY <1>4, <1>5, <1>6, <1>7, <1>8, <1>9, <1>10, <1>11, <1>12, <1>13, LinkSteps

(* A call's end is reported once it is over, and what the call was stands then. *)
LEMMA AgentKept ==
    ASSUME WorkerInv, LinkShape, RequestsInv, AgentInv, [LinkNext]_reportVars
    PROVE  AgentInv'
<1> DEFINE end == <<"call", "ended">>
<1>1. end \in Jobs /\ end \in Calls /\ end # Send /\ got[end] \in Nat
    BY LinkJobs DEF CallPhases, LinkShape
<1>2. got[end] > 0 => call = "over"
    BY <1>1 DEF AgentInv, RequestsInv
<1>3. ASSUME UNCHANGED <<call, agent, got>>, phase'[end] # "absent" => phase[end] # "absent"
      PROVE  AgentInv'
    BY <1>3 DEF AgentInv
<1>4. ASSUME NEW j \in Jobs \ {end}, Enqueues(j) \/ UNCHANGED workerVars \/ Submit(j)
      PROVE  phase'[end] # "absent" => phase[end] # "absent"
    <2>1. phase' = phase \/ phase' = [phase EXCEPT ![j] = "pending"]
        BY <1>4 DEF Enqueues, Submit, Q!Submit, Unheard, workerVars
    <2> QED  BY <2>1, <1>1 DEF WorkerInv
<1>5. \A j \in Jobs : j[1] # "call" => j # end
    OBVIOUS
<1>6. CASE Calling
    <2>1. UNCHANGED got
        BY <1>6 DEF Calling, CallArrives, CallAnswered, CallUnanswered, CallEnds, CallLost,
                    crmVars
    <2>2. CASE CallEnds
        BY <1>2, <2>1, <2>2 DEF CallEnds, AgentInv
    <2>3. CASE CallUnanswered \/ CallLost
        <3>1. call # "over" /\ UNCHANGED phase
            BY <2>3 DEF CallUnanswered, CallLost, workerVars, Lapse
        <3> QED  BY <1>1, <1>2, <2>1, <3>1 DEF AgentInv
    <2>4. CASE CallArrives \/ CallAnswered
        <3>1. call # "over"
            BY <2>4 DEF CallArrives, CallAnswered
        <3>2. \A p \in CallPhases \ {"ended"} : <<"call", p>> \in Jobs \ {end}
            BY LinkJobs
        <3>3. phase'[end] # "absent" => phase[end] # "absent"
            BY <1>1, <1>4, <2>4, <3>2
               DEF CallArrives, CallAnswered, ReportsCall, CallPhases
        <3> QED  BY <1>1, <1>2, <2>1, <3>1, <3>3 DEF AgentInv
    <2> QED  BY <1>6, <2>2, <2>3, <2>4 DEF Calling
<1>7. CASE Toggle
    BY <1>3, <1>7 DEF Toggle, callVars, workerVars
<1>8. ASSUME NEW w \in Webhooks, \/ MessagePosted(w) \/ MessageIngested(w)
                                 \/ MessageReported(w) \/ MessageDropped(w)
      PROVE  AgentInv'
    <2>1. UNCHANGED <<call, agent, got>>
        BY <1>8 DEF MessagePosted, MessageIngested, MessageReported, MessageDropped, callVars,
                    crmVars
    <2>2. <<"text", w>> \in Jobs \ {end}
        BY LinkJobs, <1>5
    <2>3. Enqueues(<<"text", w>>) \/ UNCHANGED workerVars
        BY <1>8 DEF MessagePosted, MessageIngested, MessageReported, MessageDropped, ReportsText
    <2> QED  BY <1>3, <1>4, <2>1, <2>2, <2>3
<1>9. ASSUME NEW r \in Words, ReceiptPosted(r)
      PROVE  AgentInv'
    <2>1. UNCHANGED <<call, agent, got>>
        BY <1>9 DEF ReceiptPosted, callVars, crmVars
    <2>2. <<"receipt", r>> \in Jobs \ {end}
        BY LinkJobs, <1>5
    <2>3. Enqueues(<<"receipt", r>>) \/ UNCHANGED workerVars
        BY <1>9 DEF ReceiptPosted
    <2> QED  BY <1>3, <1>4, <2>1, <2>2, <2>3
<1>10. CASE SendAccepted \/ SendMarked \/ SendQueued \/ SendAnswered \/ SendDropped
    <2>1. UNCHANGED <<call, agent, got>> /\ (UNCHANGED workerVars \/ Submit(Send))
        BY <1>10 DEF SendAccepted, SendMarked, SendQueued, SendAnswered, SendDropped, callVars,
                     crmVars
    <2> QED  BY <1>1, <1>3, <1>4, <2>1, LinkJobs
<1>11. CASE Outside
    BY <1>6, <1>7, <1>8, <1>9, <1>10, <1>11 DEF Outside, Texting, Sending
<1>12. CASE \/ ClaimSend \/ (\E j \in Jobs : ClaimReport(j)) \/ Posts \/ Crash \/ Restart
            \/ TextSent \/ Raise \/ Finish
    <2>1. UNCHANGED <<call, agent, got>>
        BY <1>12, Claimed, Asked, DiedAsking, Revived, SentOn, Judged DEF ours, callVars, crmVars
    <2>2. phase'[end] # "absent" => phase[end] # "absent"
        BY <1>1, <1>12, Claimed, Asked, DiedAsking, Revived, SentOn, Judged DEF Undecided
    <2> QED  BY <1>3, <2>1, <2>2
<1>13. ASSUME NEW g \in Lives, \/ ReadsCall(g) \/ ReadsText(g) \/ ReadsReceipt(g)
                               \/ AdapterAnswers(g)
       PROVE  AgentInv'
    BY <1>3, <1>13, LookedUp, Told DEF ours, callVars, workerVars, Hears
<1>14. ASSUME NEW g \in Lives, PostsEvent(g) \/ PostsReceipt(g)
       PROVE  AgentInv'
    <2>1. UNCHANGED <<phase, call, agent>> /\ (Takings(g) \/ UNCHANGED got)
        BY <1>14, Filed, Forwarded DEF ours, callVars, workerVars
    <2>2. CASE Takings(g) /\ hop[g].job = end
        BY <2>1, <2>2, <1>1 DEF Takings, Dedupes, AgentInv
    <2>3. CASE Takings(g) /\ hop[g].job # end
        <3>1. got'[end] = got[end]
            BY <2>3, <1>1 DEF Takings
        <3> QED  BY <2>1, <3>1 DEF AgentInv
    <2> QED  BY <1>3, <2>1, <2>2, <2>3
<1>15. CASE UNCHANGED reportVars
    BY <1>3, <1>15 DEF reportVars, callVars, crmVars, workerVars
<1> QED  BY <1>11, <1>12, <1>13, <1>14, <1>15, LinkSteps

(* A handler that returns was told that the report is filed, or cannot be. *)
LEMMA AcceptedKept ==
    ASSUME WorkerInv, LinkShape, RequestsInv, AcceptedInv, [LinkNext]_reportVars
    PROVE  AcceptedInv'
<1>1. /\ got \in [Jobs -> Nat] /\ cur \in Jobs \union {NoJob} /\ phase \in [Jobs -> Phases]
      /\ \A g \in Lives : hop[g].at # "idle" => hop[g].job \in Jobs
      /\ crashes \in Lives
    BY LinkJobs DEF LinkShape, WorkerInv, RequestsInv, Lives
<1>2. ASSUME UNCHANGED <<hop, got, refused>>,
             \A j \in Jobs \ {Send} : phase'[j] = "done" =>
                                         phase[j] = "done" \/ (at = "finish" /\ cur = j),
             at' = "finish" => cur' = Send \/ (at = "finish" /\ cur' = cur)
      PROVE  AcceptedInv'
    BY <1>2 DEF AcceptedInv, DoneIsTaken
<1>3. CASE Outside
    <2>1. /\ UNCHANGED <<at, cur, hop, got, refused>>
          /\ \/ UNCHANGED phase
             \/ \E k \in Jobs : phase[k] = "absent" /\ phase' = [phase EXCEPT ![k] = "pending"]
        BY <1>3, OutsideRests
    <2> QED  BY <1>1, <1>2, <2>1
<1>4. CASE ClaimSend \/ (\E j \in Jobs : ClaimReport(j)) \/ Crash \/ Restart
    BY <1>2, <1>4, Claimed, DiedAsking, Revived DEF crmVars
<1>5. CASE TextSent
    BY <1>2, <1>5, SentOn DEF crmVars, RequestsInv
<1>6. CASE Raise \/ Finish
    BY <1>2, <1>6, Judged DEF crmVars
<1>7. CASE Posts
    <2>1. /\ UNCHANGED <<phase, got, refused>> /\ at' = "posted" /\ hop'[crashes].at = "asked"
          /\ \A g \in Lives : g # crashes => hop'[g] = hop[g]
        BY <1>7, Asked
    <2> QED  BY <2>1 DEF AcceptedInv, DoneIsTaken
<1>8. ASSUME NEW g \in Lives, ReadsCall(g) \/ ReadsText(g) \/ ReadsReceipt(g)
      PROVE  AcceptedInv'
    <2>1. /\ UNCHANGED <<phase, at, cur, got, refused>> /\ hop'[g].at # "taken"
          /\ \A h \in Lives : h # g => hop'[h] = hop[h]
        BY <1>8, LookedUp DEF workerVars
    <2> QED  BY <2>1 DEF AcceptedInv, DoneIsTaken
<1>9. ASSUME NEW g \in Lives, PostsEvent(g) \/ PostsReceipt(g)
      PROVE  AcceptedInv'
    <2>1. /\ UNCHANGED <<phase, at, cur, refused>> /\ hop'[g].job = hop[g].job
          /\ hop[g].job \in Jobs /\ \A h \in Lives : h # g => hop'[h] = hop[h]
          /\ Takings(g) \/ (hop'[g].at # "taken" /\ UNCHANGED got)
        BY <1>9, Filed, Forwarded DEF workerVars
    <2>2. \A j \in Jobs : got[j] > 0 => got'[j] > 0
        BY <2>1 DEF Takings
    <2>3. hop'[g].at = "taken" => got'[hop'[g].job] > 0
        BY <2>1 DEF Takings
    <2>4. DoneIsTaken'
        BY <2>1, <2>2 DEF AcceptedInv, DoneIsTaken
    <2>5. (at = "finish" /\ cur # Send => got[cur] > 0 \/ cur \in refused)'
        BY <1>1, <2>1, <2>2, LinkJobs DEF AcceptedInv, WorkerInv
    <2>6. \A h \in Lives : hop'[h].at = "taken" => got'[hop'[h].job] > 0
        BY <1>1, <2>1, <2>2, <2>3 DEF AcceptedInv
    <2> QED  BY <2>4, <2>5, <2>6 DEF AcceptedInv
<1>10. ASSUME NEW g \in Lives, AdapterAnswers(g)
       PROVE  AcceptedInv'
    <2>1. /\ UNCHANGED <<phase, cur, got>> /\ hop'[g].at = "idle"
          /\ \A h \in Lives : h # g => hop'[h] = hop[h]
          /\ hop[g].at \in {"taken", "refused", "failed"} /\ refused \subseteq refused'
          /\ hop[g].at = "refused" => hop[g].job \in refused'
          /\ \/ at' = at
             \/ at' = "raise"
             \/ g = crashes /\ at' = "finish" /\ hop[g].at # "failed"
        BY <1>10, Told DEF Hears, workerVars, NoHop
    <2>2. g = crashes => hop[g].job = cur
        BY <2>1 DEF RequestsInv
    <2>3. hop[g].at # "failed" => got[hop[g].job] > 0 \/ hop[g].job \in refused'
        BY <2>1 DEF AcceptedInv
    <2>4. DoneIsTaken' /\ \A h \in Lives : hop'[h].at = "taken" => got'[hop'[h].job] > 0
        BY <2>1 DEF AcceptedInv, DoneIsTaken
    <2>5. at' = "finish" /\ cur' # Send => got'[cur'] > 0 \/ cur' \in refused'
        BY <2>1, <2>2, <2>3 DEF AcceptedInv
    <2> QED  BY <2>4, <2>5 DEF AcceptedInv
<1>11. CASE UNCHANGED reportVars
    BY <1>2, <1>11 DEF reportVars, workerVars, crmVars
<1> QED  BY <1>3, <1>4, <1>5, <1>6, <1>7, <1>8, <1>9, <1>10, <1>11, LinkSteps

-----------------------------------------------------------------------------
(* Whose texts they are *)

(* Nothing but the owner's switch and the texts' own steps concerns either. *)
LEMMA OutsideLeaves ==
    ASSUME Outside
    PROVE  Toggle \/ UNCHANGED <<bound, late>>
<1>1. CASE Calling
    BY <1>1 DEF Calling, CallArrives, CallAnswered, CallUnanswered, CallEnds, CallLost, linkVars,
                crmVars
<1>2. ASSUME NEW w \in Webhooks, \/ MessagePosted(w) \/ MessageIngested(w)
                                 \/ MessageReported(w) \/ MessageDropped(w)
      PROVE  UNCHANGED <<bound, late>>
    BY <1>2 DEF MessagePosted, MessageIngested, MessageReported, MessageDropped, linkVars, crmVars
<1>3. ASSUME NEW r \in Words, ReceiptPosted(r)
      PROVE  UNCHANGED <<bound, late>>
    BY <1>3 DEF ReceiptPosted, linkVars, crmVars
<1>4. CASE SendAccepted \/ SendMarked \/ SendQueued \/ SendAnswered \/ SendDropped
    BY <1>4 DEF SendAccepted, SendMarked, SendQueued, SendAnswered, SendDropped, linkVars, crmVars
<1> QED  BY <1>1, <1>2, <1>3, <1>4 DEF Outside, Texting, Sending

(* Each life of the worker has one request that may have found the DID bound. *)
LEMMA LeftKept ==
    ASSUME WorkerInv, LinkShape, RequestsInv, LeftInv, [LinkNext]_reportVars
    PROVE  LeftInv'
<1>1. /\ late \in Nat /\ crashes \in Nat /\ crashes \in Lives
      /\ IsFiniteSet(Bearing) /\ Cardinality(Bearing) \in Nat
    BY Requests, LinkJobs DEF LinkShape, WorkerInv, Lives
<1>2. ASSUME Bearing' \subseteq Bearing, UNCHANGED <<bound, late>>, crashes' \in {crashes, crashes + 1}
      PROVE  LeftInv'
    <2>1. Cardinality(Bearing') \in Nat /\ Cardinality(Bearing') =< Cardinality(Bearing)
        BY <1>1, <1>2, FS_Subset, FS_CardinalityType
    <2> QED  BY <1>1, <1>2, <2>1 DEF LeftInv
<1>3. UNCHANGED hop => Bearing' = Bearing
    BY DEF Bearing
<1>4. CASE Toggle
    <2>1. late' = 0 /\ crashes' = crashes /\ Bearing' = Bearing
        BY <1>3, <1>4 DEF Toggle, workerVars
    <2>2. Bearing \in SUBSET (0..crashes)
        BY <1>1 DEF Bearing, RequestsInv, Lives
    <2>3. IsFiniteSet(0..crashes) /\ Cardinality(0..crashes) = crashes + 1
        BY <1>1, FS_Interval
    <2>4. Cardinality(Bearing) =< crashes + 1
        BY <2>2, <2>3, FS_Subset
    <2> QED  BY <1>1, <2>1, <2>4 DEF LeftInv
<1>5. CASE Outside /\ ~Toggle
    BY <1>2, <1>3, <1>5, OutsideLeaves, OutsideRests
<1>6. CASE \/ ClaimSend \/ (\E j \in Jobs : ClaimReport(j)) \/ Crash \/ Restart \/ TextSent
           \/ Raise \/ Finish
    BY <1>2, <1>3, <1>6, Claimed, DiedAsking, Revived, SentOn, Judged DEF ours, linkVars, crmVars
<1>7. CASE Posts
    <2>1. /\ UNCHANGED <<bound, late, crashes>> /\ hop'[crashes].at = "asked"
          /\ \A g \in Lives : g # crashes => hop'[g] = hop[g]
        BY <1>7, Asked DEF ours, linkVars
    <2>2. Bearing' \subseteq Bearing
        BY <2>1 DEF Bearing
    <2> QED  BY <1>2, <2>1, <2>2
<1>8. ASSUME NEW g \in Lives, ReadsCall(g) \/ ReadsText(g) \/ ReadsReceipt(g)
      PROVE  LeftInv'
    <2>1. /\ UNCHANGED <<bound, late, crashes>> /\ hop'[g].job = hop[g].job
          /\ hop'[g].at = "bound" => bound \/ hop[g].job \in Calls
          /\ \A h \in Lives : h # g => hop'[h] = hop[h]
        BY <1>8, LookedUp DEF ours, linkVars, workerVars
    <2>2. ~bound => Bearing' \subseteq Bearing
        BY <2>1 DEF Bearing
    <2> QED  BY <1>2, <2>1, <2>2 DEF LeftInv
<1>9. ASSUME NEW g \in Lives, PostsEvent(g) \/ PostsReceipt(g)
      PROVE  LeftInv'
    <2>1. /\ UNCHANGED <<bound, crashes>> /\ hop'[g].at # "bound" /\ hop[g].at = "bound"
          /\ \A h \in Lives : h # g => hop'[h] = hop[h]
          /\ \/ late' = IF bound \/ hop[g].job \in Calls THEN late ELSE late + 1
             \/ late' = late
        BY <1>9, Filed, Forwarded DEF ours, linkVars, workerVars, Takings
    <2>2. Bearing' = Bearing \ {g}
        BY <2>1 DEF Bearing
    <2>3. CASE late' = late
        BY <1>2, <2>1, <2>2, <2>3
    <2>4. CASE late' = late + 1 /\ hop[g].job \notin Calls
        <3>1. g \in Bearing
            BY <2>1, <2>4 DEF Bearing
        <3>2. Cardinality(Bearing') = Cardinality(Bearing) - 1
            BY <1>1, <2>2, <3>1, FS_RemoveElement
        <3> QED  BY <1>1, <2>1, <2>4, <3>2 DEF LeftInv
    <2> QED  BY <2>1, <2>3, <2>4
<1>10. ASSUME NEW g \in Lives, AdapterAnswers(g)
       PROVE  LeftInv'
    <2>1. /\ UNCHANGED <<bound, late, crashes>> /\ hop'[g].at # "bound"
          /\ \A h \in Lives : h # g => hop'[h] = hop[h]
        BY <1>10, Told DEF ours, linkVars, workerVars, NoHop, Hears
    <2>2. Bearing' \subseteq Bearing
        BY <2>1 DEF Bearing
    <2> QED  BY <1>2, <2>1, <2>2
<1>11. CASE UNCHANGED reportVars
    BY <1>2, <1>3, <1>11 DEF reportVars, linkVars, crmVars, workerVars
<1> QED  BY <1>4, <1>5, <1>6, <1>7, <1>8, <1>9, <1>10, <1>11, LinkSteps

(* The CRM's text is queued once it bears the marker, and keeps it. *)
LEMMA MarkKept ==
    ASSUME WorkerInv, LinkShape, RequestsInv, MarkInv, [LinkNext]_reportVars
    PROVE  MarkInv'
<1>1. Send \in Jobs /\ phase \in [Jobs -> Phases]
    BY LinkJobs DEF WorkerInv
<1>2. ASSUME UNCHANGED <<ref, marked>>, phase'[Send] # "absent" => phase[Send] # "absent"
      PROVE  MarkInv'
    BY <1>2 DEF MarkInv, SentIsMarked
<1>3. ASSUME NEW j \in Jobs \ {Send}, Enqueues(j) \/ UNCHANGED workerVars
      PROVE  phase'[Send] # "absent" => phase[Send] # "absent"
    <2>1. phase' = phase \/ phase' = [phase EXCEPT ![j] = "pending"]
        BY <1>3 DEF Enqueues, Submit, Q!Submit, Unheard, workerVars
    <2> QED  BY <2>1, <1>1
<1>4. /\ \A p \in CallPhases : <<"call", p>> \in Jobs \ {Send}
      /\ \A w \in Webhooks : <<"text", w>> \in Jobs \ {Send}
      /\ \A r \in Words : <<"receipt", r>> \in Jobs \ {Send}
    BY LinkJobs DEF Send
<1>5. CASE Calling
    <2>1. UNCHANGED <<ref, marked>>
        BY <1>5 DEF Calling, CallArrives, CallAnswered, CallUnanswered, CallEnds, CallLost, sendVars
    <2>2. UNCHANGED workerVars \/ \E p \in CallPhases : Enqueues(<<"call", p>>)
        BY <1>5 DEF Calling, CallArrives, CallAnswered, CallUnanswered, CallEnds, CallLost,
                    ReportsCall, CallPhases
    <2>3. phase'[Send] # "absent" => phase[Send] # "absent"
        BY <1>3, <1>4, <2>2 DEF workerVars
    <2> QED  BY <1>2, <2>1, <2>3
<1>6. CASE Toggle
    BY <1>2, <1>6 DEF Toggle, sendVars, workerVars
<1>7. ASSUME NEW w \in Webhooks, \/ MessagePosted(w) \/ MessageIngested(w)
                                 \/ MessageReported(w) \/ MessageDropped(w)
      PROVE  MarkInv'
    <2>1. UNCHANGED <<ref, marked>> /\ (Enqueues(<<"text", w>>) \/ UNCHANGED workerVars)
        BY <1>7 DEF MessagePosted, MessageIngested, MessageReported, MessageDropped, ReportsText,
                    sendVars
    <2> QED  BY <1>2, <1>3, <1>4, <2>1
<1>8. ASSUME NEW r \in Words, ReceiptPosted(r)
      PROVE  MarkInv'
    <2>1. UNCHANGED <<ref, marked>> /\ (Enqueues(<<"receipt", r>>) \/ UNCHANGED workerVars)
        BY <1>8 DEF ReceiptPosted
    <2> QED  BY <1>2, <1>3, <1>4, <2>1
<1>9. CASE SendMarked
    BY <1>9 DEF SendMarked, MarkInv, SentIsMarked
<1>10. CASE SendQueued
    <2>1. marked /\ UNCHANGED <<ref, marked>>
        BY <1>10 DEF SendQueued
    <2> QED  BY <2>1 DEF MarkInv, SentIsMarked
<1>11. CASE SendAccepted \/ SendAnswered \/ SendDropped
    BY <1>2, <1>11 DEF SendAccepted, SendAnswered, SendDropped, workerVars
<1>12. CASE Outside
    BY <1>5, <1>6, <1>7, <1>8, <1>9, <1>10, <1>11, <1>12 DEF Outside, Texting, Sending
<1>13. CASE TextSent
    <2>1. /\ at = "send" /\ cur \in Jobs /\ phase[cur] \in Undecided /\ UNCHANGED marked
        BY <1>13, SentOn DEF ours
    <2>2. marked
        BY <2>1 DEF RequestsInv, MarkInv, Undecided
    <2> QED  BY <2>1, <2>2 DEF MarkInv, SentIsMarked
<1>14. CASE \/ ClaimSend \/ (\E j \in Jobs : ClaimReport(j)) \/ Posts \/ Crash \/ Restart
            \/ Raise \/ Finish
    <2>1. UNCHANGED <<ref, marked>>
        BY <1>14, Claimed, Asked, DiedAsking, Revived, Judged DEF ours
    <2>2. phase'[Send] # "absent" => phase[Send] # "absent"
        BY <1>1, <1>14, Claimed, Asked, DiedAsking, Revived, Judged DEF Undecided
    <2> QED  BY <1>2, <2>1, <2>2
<1>15. ASSUME NEW g \in Lives, \/ ReadsCall(g) \/ ReadsText(g) \/ ReadsReceipt(g)
                               \/ AdapterAnswers(g)
       PROVE  MarkInv'
    BY <1>2, <1>15, LookedUp, Told DEF ours, workerVars, Hears
<1>16. ASSUME NEW g \in Lives, PostsEvent(g) \/ PostsReceipt(g)
       PROVE  MarkInv'
    BY <1>2, <1>16, Filed, Forwarded DEF ours, workerVars
<1>17. CASE UNCHANGED reportVars
    BY <1>2, <1>17 DEF reportVars, sendVars, workerVars
<1> QED  BY <1>12, <1>13, <1>14, <1>15, <1>16, <1>17, LinkSteps

-----------------------------------------------------------------------------
(* What the CRM is told is right *)

(* Nothing is asked, told or queued at the start. *)
LEMMA LinkBegins == LinkInit => LinkInv
<1> SUFFICES ASSUME LinkInit PROVE LinkInv
    OBVIOUS
<1> USE DEF LinkInit
<1>1. WorkerInv /\ phase = [j \in Jobs |-> "absent"] /\ at = "idle" /\ cur = NoJob /\ crashes = 0
    BY WorkerStarts DEF WorkerInit, Q!Init
<1>2. hop = [g \in Lives |-> NoHop] /\ 0 \in Lives
    BY LinkJobs DEF Lives
<1>3. \A g \in Lives : hop[g].at = "idle" /\ hop[g].job = NoJob
    <2>1. \A g \in Lives : hop[g] = NoHop
        BY <1>2
    <2>2. NoHop.at = "idle" /\ NoHop.job = NoJob
        BY DEF NoHop
    <2> QED  BY <2>1, <2>2
<1>4. LinkShape
    BY <1>1, <1>2, LinkJobs, CrmLinkAssumption DEF LinkShape, NoHop
<1>5. RequestsInv
    <2>1. \A j \in Jobs : got[j] = 0
        OBVIOUS
    <2>2. at = "idle" /\ hop[crashes].at = "idle"
        BY <1>1, <1>2, <1>3
    <2> HIDE DEF LinkInit
    <2> QED  BY <1>3, <2>1, <2>2 DEF RequestsInv
<1>6. (\A j \in Jobs : Stale(j) = {}) /\ Bearing = {} /\ Cardinality({}) = 0
    BY <1>3, FS_EmptySet DEF Stale, Bearing
<1>7. FiledInv
    <2> SUFFICES ASSUME NEW j \in Jobs
                 PROVE  got[j] + Cardinality(Stale(j)) =<
                            crashes + lapses + IF Settled(j) THEN 1 ELSE 0
        BY DEF FiledInv
    <2>1. got[j] = 0 /\ Cardinality(Stale(j)) = 0 /\ crashes = 0 /\ lapses = 0
        BY <1>1, <1>6
    <2> QED  BY <2>1
<1>8. LeftInv
    BY <1>1, <1>6 DEF LeftInv
<1>9. AgentInv /\ AcceptedInv /\ MarkInv
    BY <1>1, <1>2, LinkJobs DEF AgentInv, AcceptedInv, DoneIsTaken, MarkInv, SentIsMarked, NoHop,
                                CallPhases
<1> QED  BY <1>1, <1>4, <1>5, <1>7, <1>8, <1>9 DEF LinkInv

(* The invariant of the link, for any texts, switches, lapses and deaths. *)
THEOREM LinkInvariant == LinkSpec => []LinkInv
<1>1. LinkInv /\ [LinkNext]_reportVars => LinkInv'
    BY RowsStay, LinkShapeKept, RequestsKept, FiledKept, AgentKept, AcceptedKept, LeftKept,
       MarkKept DEF LinkInv
<1> QED  BY <1>1, LinkBegins, PTL DEF LinkSpec

(* ReportsAreRight: however requests are lost and workers die, each row in the CRM
   beyond a report's first answers for one of those, none is dropped in silence, a
   DID that is unbound brings no more than the looked-up texts of each worker to
   the CRM, and what the CRM sent is known as its own (hook.py, push.py, api.py). *)
THEOREM TheCrmIsToldRight == LinkSpec => []ReportsAreRight
<1>1. ASSUME LinkInv
      PROVE  ReportsAreRight
    <2>1. /\ WorkerInv /\ LinkShape /\ RequestsInv /\ FiledInv /\ AgentInv /\ AcceptedInv
          /\ LeftInv /\ MarkInv
        BY <1>1 DEF LinkInv
    <2>2. /\ crashes \in Nat /\ lapses \in Nat /\ late \in Nat /\ MaxLapses \in Nat
          /\ MaxAttempts \in Nat \ {0} /\ crashes + lapses =< MaxLapses
        BY <2>1, LinkJobs, WorkerAssumption DEF LinkShape, WorkerInv
    <2>3. ASSUME NEW j \in Jobs
          PROVE  /\ got[j] \in Nat /\ got[j] =< crashes + lapses + 1
                 /\ got[j] \in 0..MaxLapses + MaxAttempts /\ Extra(j) =< crashes + lapses
        <3>1. got[j] \in Nat /\ Cardinality(Stale(j)) \in Nat
            BY <2>1, Requests DEF LinkShape
        <3>2. got[j] + Cardinality(Stale(j)) =< crashes + lapses + IF Settled(j) THEN 1 ELSE 0
            BY <2>1 DEF FiledInv
        <3> QED  BY <2>2, <3>1, <3>2 DEF Extra
    <2>4. LinkTypeOK
        <3>1. WorkerTypeOK({"send", "report", "posted", "raise", "finish"})
            BY <2>1, WorkerTyped DEF RequestsInv
        <3>2. \A g \in DOMAIN hop : (hop[g].at = "idle") = (hop[g].job = NoJob)
            BY <2>1 DEF LinkShape, RequestsInv
        <3>3. got \in [Jobs -> 0..MaxLapses + MaxAttempts]
            BY <2>1, <2>3 DEF LinkShape
        <3> QED  BY <2>1, <3>1, <3>2, <3>3 DEF LinkTypeOK, LinkShape
    <2>5. RepeatsAreFaults /\ DoneIsTaken
        BY <2>1, <2>3, <2>4 DEF RepeatsAreFaults, AgentInv, AcceptedInv
    <2>6. UnboundIsQuiet
        <3>1. Cardinality(Bearing) \in Nat
            BY <2>1, Requests
        <3> QED  BY <2>1, <2>2, <3>1 DEF UnboundIsQuiet, LeftInv
    <2> QED  BY <2>1, <2>5, <2>6 DEF ReportsAreRight, FiledOnce, TextsAreTheOwners, MarkInv
<1> QED  BY <1>1, LinkInvariant, PTL

(* The link keeps to the queue's terms: whatever is lost or dies, the jobs table
   behaves as WorkQueue allows (hook.py, push.py enqueue; handlers.py
   handle_crm_report). *)
THEOREM LinkKeepsToTheQueue == LinkSpec => Q!Spec
<1>1. LinkInit => Q!Init
    BY DEF LinkInit, WorkerInit
<1>2. LinkInv /\ [LinkNext]_reportVars => [Q!Next]_(Q!wqVars)
    <2> SUFFICES ASSUME LinkInv, [LinkNext]_reportVars PROVE Promised
        BY DEF Promised
    <2>1. WorkerInv /\ LinkShape /\ RequestsInv
        BY DEF LinkInv
    <2>2. CASE UNCHANGED <<phase, tries>>
        BY <2>2, TableKept
    <2>3. CASE Outside
        <3>1. UNCHANGED tries
            BY <2>1, <2>3, OutsideRests
        <3>2. ASSUME NEW j \in Jobs, phase[j] = "absent", phase' = [phase EXCEPT ![j] = "pending"]
              PROVE  Promised
            BY <3>1, <3>2 DEF Promised, Q!Next, Q!Submit
        <3> QED  BY <2>1, <2>2, <2>3, <3>1, <3>2, OutsideRests
    <2>4. CASE TextSent
        <3>1. at = "send" /\ CommitWith({}) /\ Busy
            BY <2>1, <2>4 DEF TextSent, WorkerInv, Busy
        <3> QED  BY <2>1, <3>1, CommitPromised
    <2>5. CASE Raise \/ Finish
        <3>1. Busy /\ (Completed \/ Failed)
            BY <2>1, <2>5 DEF Raise, Finish, WorkerInv, Busy
        <3> QED  BY <2>1, <3>1, VerdictPromised
    <2>6. CASE ClaimSend \/ (\E j \in Jobs : ClaimReport(j)) \/ Posts \/ Crash \/ Restart
        BY <2>1, <2>2, <2>6, Claimed, Asked, DiedAsking, Revived
    <2>7. ASSUME NEW g \in Lives, \/ ReadsCall(g) \/ ReadsText(g) \/ ReadsReceipt(g)
                                  \/ AdapterAnswers(g)
          PROVE  Promised
        BY <2>1, <2>2, <2>7, LookedUp, Told DEF workerVars, Hears
    <2>8. ASSUME NEW g \in Lives, PostsEvent(g) \/ PostsReceipt(g)
          PROVE  Promised
        BY <2>1, <2>2, <2>8, Filed, Forwarded DEF workerVars
    <2>9. CASE UNCHANGED reportVars
        BY <2>2, <2>9 DEF reportVars, workerVars
    <2> QED  BY <2>3, <2>4, <2>5, <2>6, <2>7, <2>8, <2>9, LinkSteps
<1> QED  BY <1>1, <1>2, LinkInvariant, PTL DEF LinkSpec, Q!Spec

-----------------------------------------------------------------------------
(***************************************************************************)
(* Pictures, for any life of a link and any gap between two sweeps.  The   *)
(* sweep spares a picture for twice a link's life: a link is minted while  *)
(* the picture is stored, so what one finds gone was minted after a first  *)
(* life had passed.                                                        *)
(***************************************************************************)
Coming == {"asked", "written", "renamed"}

(* What the variables of the pictures hold. *)
PicturesTypeOK ==
    /\ clock \in Nat /\ swept \in Nat /\ misses \in Nat
    /\ upload \in Coming \cup {"none", "refused", "stored", "dead"}
    /\ blob \in BOOLEAN /\ meta \in BOOLEAN
    /\ text \in [Mms -> {"none", "queued", "refused", "sent", "failed"}]
    /\ minted \in [Mms -> Nat]
    /\ fetch \in [Mms -> {"none", "late", "gone", "got"}]
    /\ sweep \in {"idle", "removing"}
    /\ carrier \in [host : {"bulkvs", "other"}, guarded : BOOLEAN, alive : BOOLEAN]
    /\ own \in BOOLEAN
    /\ copy \in {"none", "asked", "again", "kept", "unavailable"}

(* No tick passes while the picture comes, and no link is made before it came. *)
ComesAtOnce == upload \in Coming => clock = 0

LinksAreOfIt ==
    \A t \in Mms :
        /\ minted[t] =< clock
        /\ text[t] \in {"queued", "sent"} => upload = "stored"
        /\ fetch[t] = "gone" => minted[t] > Ttl

(* The bytes and the sidecar are there until the sweep's grace is over. *)
KeptForGrace ==
    /\ upload \in {"renamed", "stored"} /\ clock =< 2 * Ttl => blob
    /\ upload = "stored" /\ clock =< 2 * Ttl => meta
    /\ sweep = "removing" => clock > 2 * Ttl

(* The sweeps are in time, and one that ran in full left nothing too old. *)
SweptInTime ==
    /\ swept =< clock /\ clock =< swept + Gap
    /\ blob /\ misses = 0 => swept =< 2 * Ttl

PicturesInv ==
    PicturesTypeOK /\ ComesAtOnce /\ LinksAreOfIt /\ KeptForGrace /\ SweptInTime /\ CopyIsKept

(* Before the first step nothing is sent, swept or fetched. *)
LEMMA PicturesBegin == PicturesInit => PicturesInv
<1> DEFINE Links == [host : {"bulkvs", "other"}, guarded : BOOLEAN, alive : BOOLEAN]
<1>1. ASSUME NEW step \in {"asked", "none"}, NEW hosts, hosts \subseteq Links,
             NEW mine \in BOOLEAN, Empty(step, hosts, mine)
      PROVE  PicturesInv
  <2> USE <1>1, TicksAreCounted DEF Empty, Coming
  <2>1. PicturesTypeOK
    <3>1. carrier \in Links OBVIOUS
    <3> QED BY <3>1 DEF PicturesTypeOK
  <2>2. ComesAtOnce BY DEF ComesAtOnce
  <2>3. LinksAreOfIt
    <3> SUFFICES ASSUME NEW t \in Mms
                 PROVE  /\ minted[t] =< clock
                        /\ text[t] \in {"queued", "sent"} => upload = "stored"
                        /\ fetch[t] = "gone" => minted[t] > Ttl
      BY DEF LinksAreOfIt
    <3>1. text[t] = "none" /\ fetch[t] = "none" OBVIOUS
    <3>2. minted[t] = 0 /\ clock = 0 OBVIOUS
    <3>3. minted[t] =< clock BY ONLY <3>2
    <3> QED BY ONLY <3>1, <3>3
  <2>4. KeptForGrace BY DEF KeptForGrace
  <2>5. SweptInTime BY DEF SweptInTime
  <2>6. CopyIsKept BY DEF CopyIsKept
  <2> QED BY <2>1, <2>2, <2>3, <2>4, <2>5, <2>6 DEF PicturesInv
<1>2. Hosts \subseteq Links BY DEF Hosts
<1>3. {[host |-> "bulkvs", guarded |-> FALSE, alive |-> FALSE]} \subseteq Links OBVIOUS
<1> HIDE DEF Links
<1> QED BY <1>1, <1>2, <1>3 DEF PicturesInit

(* What a step leaves alone stays as it was promised. *)
LEMMA FilesSame ==
    ASSUME PicturesInv, UNCHANGED <<clock, upload, blob, meta, sweep, swept>>,
           misses' = misses \/ misses' = misses + 1
    PROVE  ComesAtOnce' /\ KeptForGrace' /\ SweptInTime'
<1> USE DEF PicturesInv, PicturesTypeOK
<1>1. ComesAtOnce' BY DEF ComesAtOnce
<1>2. KeptForGrace' BY DEF KeptForGrace
<1>3. misses' = 0 => misses = 0 OBVIOUS
<1>4. SweptInTime' BY <1>3 DEF SweptInTime
<1> QED BY <1>1, <1>2, <1>4

(* A link stays what it is while its texts are left alone. *)
LEMMA LinksSame ==
    ASSUME PicturesInv, UNCHANGED mmsVars, clock' \in Nat, clock' >= clock,
           upload = "stored" => upload' = "stored"
    PROVE  LinksAreOfIt'
BY DEF PicturesInv, PicturesTypeOK, LinksAreOfIt, mmsVars

(* So does the copy. *)
LEMMA CopySame ==
    ASSUME PicturesInv, UNCHANGED inboundVars, misses' = misses \/ misses' = misses + 1
    PROVE  CopyIsKept'
<1>1. misses > 0 => misses' > 0 BY DEF PicturesInv, PicturesTypeOK
<1> QED BY <1>1 DEF PicturesInv, CopyIsKept, inboundVars

(* The picture comes: aside, by its name, described; or its process dies. *)
LEMMA UploadingKeeps ==
    ASSUME PicturesInv, Uploading \/ UploadDies
    PROVE  PicturesInv'
<1> USE DEF PicturesInv
<1>1. UNCHANGED <<clock, mmsVars, sweepVars, inboundVars>>
      /\ (misses' = misses \/ misses' = misses + 1)
  BY DEF Uploading, Refuses, WritesAside, Renames, Describes, UploadDies, Miss
<1>2. upload \in Coming BY DEF Uploading, Refuses, WritesAside, Renames, Describes, UploadDies, Coming
<1>3. clock = 0 /\ swept = 0
  <2>1. clock = 0 BY <1>2 DEF ComesAtOnce
  <2> QED BY <2>1 DEF SweptInTime, PicturesTypeOK
<1>4. upload' \in {"refused", "written", "renamed", "stored", "dead"}
      /\ blob' \in BOOLEAN /\ meta' \in BOOLEAN
  BY DEF Uploading, Refuses, WritesAside, Renames, Describes, UploadDies, fileVars, PicturesTypeOK
<1>5. PicturesTypeOK'
  BY <1>1, <1>4 DEF PicturesTypeOK, mmsVars, sweepVars, inboundVars, Coming
<1>6. ComesAtOnce' BY <1>1, <1>3 DEF ComesAtOnce
<1>7. LinksAreOfIt'
  <2>1. upload # "stored" /\ clock' \in Nat /\ clock' >= clock
    BY <1>1, <1>2 DEF Coming, PicturesTypeOK
  <2> QED BY <1>1, <2>1, LinksSame
<1>8. KeptForGrace'
  <2>1. sweep = "idle" BY <1>3, TicksAreCounted DEF KeptForGrace, PicturesTypeOK
  <2>2. upload' = "renamed" => blob' BY <1>2 DEF Uploading, Refuses, WritesAside, Renames, Describes, UploadDies
  <2>3. upload' = "stored" => upload = "renamed" /\ blob' = blob /\ meta'
    BY DEF Uploading, Refuses, WritesAside, Renames, Describes, UploadDies
  <2>4. upload = "renamed" => blob BY <1>3, TicksAreCounted DEF KeptForGrace, PicturesTypeOK
  <2> QED BY <1>1, <2>1, <2>2, <2>3, <2>4 DEF KeptForGrace, sweepVars
<1>9. SweptInTime'
  <2>1. 0 =< 2 * Ttl BY TicksAreCounted
  <2>2. clock' = 0 /\ swept' = 0 BY <1>1, <1>3 DEF sweepVars
  <2>3. 0 =< 0 /\ 0 =< 0 + Gap BY TicksAreCounted
  <2> QED BY <2>1, <2>2, <2>3 DEF SweptInTime
<1> QED BY <1>1, <1>5, <1>6, <1>7, <1>8, <1>9, CopySame

(* A link is minted when its text is queued, and is good for Ttl from then on:
   the sweep waits that long again. *)
LEMMA TextsKeep ==
    ASSUME PicturesInv, NEW t \in Mms, Sends(t) \/ Hands(t) \/ HandsNot(t) \/ Fetches(t)
    PROVE  PicturesInv'
<1> USE DEF PicturesInv
<1>1. UNCHANGED <<clock, upload, fileVars, sweepVars, inboundVars, misses>>
  BY DEF Sends, Hands, HandsNot, Fetches
<1>2. ComesAtOnce' /\ KeptForGrace' /\ SweptInTime' /\ CopyIsKept'
  BY <1>1, FilesSame, CopySame DEF fileVars, sweepVars
<1>3. /\ text' \in [Mms -> {"none", "queued", "refused", "sent", "failed"}]
      /\ minted' \in [Mms -> Nat]
      /\ fetch' \in [Mms -> {"none", "late", "gone", "got"}]
  BY DEF Sends, Hands, HandsNot, Fetches, PicturesTypeOK
<1>4. PicturesTypeOK' BY <1>1, <1>3 DEF PicturesTypeOK, fileVars, sweepVars, inboundVars
<1>5. CASE Sends(t)
  <2>1. minted' = [minted EXCEPT ![t] = clock] /\ fetch' = fetch BY <1>5 DEF Sends
  <2>2. upload = "stored" /\ \A s \in Mms : s # t => minted'[s] = minted[s] /\ text'[s] = text[s]
    BY <1>5 DEF Sends, PicturesTypeOK
  <2>3. fetch[t] # "gone" \/ clock > Ttl
    <3>1. minted[t] =< clock /\ (fetch[t] = "gone" => minted[t] > Ttl) BY DEF LinksAreOfIt
    <3>2. minted[t] \in Nat /\ clock \in Nat BY DEF PicturesTypeOK
    <3> QED BY <3>1, <3>2, TicksAreCounted
  <2>4. minted'[t] = clock /\ clock \in Nat BY <2>1 DEF PicturesTypeOK
  <2>5. LinksAreOfIt' BY <1>1, <2>1, <2>2, <2>3, <2>4 DEF LinksAreOfIt
  <2> QED BY <1>2, <1>4, <2>5
<1>6. CASE Hands(t) \/ HandsNot(t)
  <2>1. \A s \in Mms : text'[s] \in {text[s], "failed"} \/ (text[s] = "queued" /\ text'[s] = "sent")
    BY <1>6 DEF Hands, HandsNot, PicturesTypeOK
  <2>2. UNCHANGED <<minted, fetch>> BY <1>6 DEF Hands, HandsNot
  <2>3. LinksAreOfIt' BY <1>1, <2>1, <2>2 DEF LinksAreOfIt
  <2> QED BY <1>2, <1>4, <2>3
<1>7. CASE Fetches(t)
  <2> USE <1>7 DEF Fetches
  <2>1. fetch'[t] = "gone" => minted[t] > Ttl
    <3>1. SUFFICES ASSUME fetch'[t] = "gone" PROVE minted[t] > Ttl OBVIOUS
    <3>2. Verified(t) /\ ~Served BY <3>1 DEF PicturesTypeOK
    <3>3. upload = "stored" BY DEF LinksAreOfIt
    <3>4. clock > 2 * Ttl
      BY <3>2, <3>3, TicksAreCounted DEF KeptForGrace, Served, PicturesTypeOK
    <3> QED BY <3>2, <3>4, TicksAreCounted DEF Verified, PicturesTypeOK
  <2>2. \A s \in Mms : s # t => fetch'[s] = fetch[s] BY DEF PicturesTypeOK
  <2>3. LinksAreOfIt' BY <2>1, <2>2 DEF LinksAreOfIt
  <2> QED BY <1>2, <1>4, <2>3
<1> QED BY <1>5, <1>6, <1>7

(* A sweep, whole or dead half-way, and the tick between two of them. *)
LEMMA SweepsKeep ==
    ASSUME PicturesInv, Sweeping \/ SweepDies \/ Ticks
    PROVE  PicturesInv'
<1> USE DEF PicturesInv
<1>1. UNCHANGED <<upload, mmsVars, inboundVars>> /\ (misses' = misses \/ misses' = misses + 1)
  BY DEF Sweeping, SweepRuns, Forgets, SweepDies, Ticks, Miss
<1>2. clock' \in Nat /\ swept' \in Nat /\ clock' >= clock
  BY DEF Sweeping, SweepRuns, Forgets, SweepDies, Ticks, sweepVars, PicturesTypeOK
<1>3. blob' \in BOOLEAN /\ meta' \in BOOLEAN /\ sweep' \in {"idle", "removing"}
  BY DEF Sweeping, SweepRuns, Forgets, SweepDies, Ticks, fileVars, sweepVars, PicturesTypeOK
<1>4. PicturesTypeOK' BY <1>1, <1>2, <1>3 DEF PicturesTypeOK, mmsVars, inboundVars
<1>5. LinksAreOfIt' /\ CopyIsKept' BY <1>1, <1>2, LinksSame, CopySame
<1>6. CASE SweepRuns
  <2> USE <1>6 DEF SweepRuns
  <2>1. ComesAtOnce' BY DEF ComesAtOnce
  <2>2. blob' => ~TooOld OBVIOUS
  <2>3. blob /\ ~TooOld => blob' OBVIOUS
  <2>4. ~TooOld <=> clock =< 2 * Ttl BY TicksAreCounted DEF TooOld, PicturesTypeOK
  <2>5. sweep' = "removing" => TooOld OBVIOUS
  <2>6. swept' = clock /\ UNCHANGED <<clock, upload, meta>> OBVIOUS
  <2>7. KeptForGrace'
    <3>1. upload \in {"renamed", "stored"} /\ clock =< 2 * Ttl => blob' BY <2>3, <2>4 DEF KeptForGrace
    <3>2. sweep' = "removing" => clock > 2 * Ttl BY <2>5 DEF TooOld
    <3> QED BY <2>6, <3>1, <3>2 DEF KeptForGrace
  <2>8. SweptInTime'
    <3>1. clock =< clock /\ clock =< clock + Gap BY TicksAreCounted DEF PicturesTypeOK
    <3>2. blob' => clock =< 2 * Ttl BY <2>2, <2>4
    <3> QED BY <2>6, <3>1, <3>2 DEF SweptInTime
  <2> QED BY <1>4, <1>5, <2>1, <2>7, <2>8
<1>7. CASE Forgets
  <2> USE <1>7 DEF Forgets
  <2>1. UNCHANGED <<clock, upload, blob, swept, misses>> /\ sweep' = "idle" OBVIOUS
  <2>2. clock > 2 * Ttl BY DEF KeptForGrace
  <2>3. ~(clock =< 2 * Ttl) BY <2>2, TicksAreCounted DEF PicturesTypeOK
  <2>4. KeptForGrace' BY <2>1, <2>3 DEF KeptForGrace
  <2>5. ComesAtOnce' /\ SweptInTime' BY <2>1 DEF ComesAtOnce, SweptInTime
  <2> QED BY <1>4, <1>5, <2>4, <2>5
<1>8. CASE SweepDies
  <2> USE <1>8 DEF SweepDies, Miss, fileVars
  <2>1. UNCHANGED <<clock, upload, blob, meta>> /\ sweep' = "idle" /\ swept' = clock OBVIOUS
  <2>2. misses' # 0 BY DEF PicturesTypeOK
  <2>3. clock =< clock /\ clock =< clock + Gap BY TicksAreCounted DEF PicturesTypeOK
  <2>4. SweptInTime' BY <2>1, <2>2, <2>3 DEF SweptInTime
  <2>5. ComesAtOnce' /\ KeptForGrace' BY <2>1 DEF ComesAtOnce, KeptForGrace
  <2> QED BY <1>4, <1>5, <2>4, <2>5
<1>9. CASE Ticks
  <2> USE <1>9 DEF Ticks, fileVars, sweepVars
  <2>1. clock' = clock + 1 /\ UNCHANGED <<upload, blob, meta, sweep, swept, misses>> OBVIOUS
  <2>2. upload \notin Coming /\ sweep = "idle" BY DEF Coming
  <2>3. clock' =< 2 * Ttl => clock =< 2 * Ttl BY <2>1, TicksAreCounted DEF PicturesTypeOK
  <2>4. KeptForGrace' BY <2>1, <2>2, <2>3 DEF KeptForGrace
  <2>5. swept =< clock' /\ clock' =< swept + Gap
    BY <2>1, TicksAreCounted DEF SweptInTime, PicturesTypeOK
  <2>6. SweptInTime' BY <2>1, <2>5 DEF SweptInTime
  <2>7. ComesAtOnce' BY <2>1, <2>2 DEF ComesAtOnce
  <2> QED BY <1>4, <1>5, <2>4, <2>6, <2>7
<1> QED BY <1>6, <1>7, <1>8, <1>9 DEF Sweeping

(* The copy of an inbound picture, plain first and with the credentials only where
   they may be sent. *)
LEMMA InboundKeeps ==
    ASSUME PicturesInv, Asks \/ Relaying \/ Expires \/ Unbinds
    PROVE  PicturesInv'
<1> USE DEF PicturesInv
<1>1. UNCHANGED <<clock, upload, fileVars, sweepVars, mmsVars>>
      /\ (misses' = misses \/ misses' = misses + 1)
  BY DEF Relaying, Asks, TriesPlain, TriesAgain, FetchFails, Miss, Expires, Unbinds
<1>2. ComesAtOnce' /\ KeptForGrace' /\ SweptInTime' BY <1>1, FilesSame DEF fileVars, sweepVars
<1>3. LinksAreOfIt'
  <2>1. clock' \in Nat /\ clock' >= clock BY <1>1 DEF PicturesTypeOK
  <2> QED BY <1>1, <2>1, LinksSame
<1>4. /\ carrier' = carrier \/ carrier' = [carrier EXCEPT !.alive = FALSE]
      /\ own' = own \/ own' = FALSE
      /\ copy' \in {copy, "asked", "again", "kept", "unavailable"}
  BY DEF Relaying, Asks, TriesPlain, TriesAgain, FetchFails, Expires, Unbinds
<1>5. carrier' \in [host : {"bulkvs", "other"}, guarded : BOOLEAN, alive : BOOLEAN]
      /\ own' \in BOOLEAN
  BY <1>4 DEF PicturesTypeOK
<1>6. PicturesTypeOK'
  BY <1>1, <1>4, <1>5 DEF PicturesTypeOK, fileVars, mmsVars, sweepVars
<1>7. CopyIsKept'
  <2>1. CASE Asks BY <2>1 DEF Asks, CopyIsKept
  <2>2. CASE TriesPlain BY <2>2 DEF TriesPlain, MayAuthenticate, CopyIsKept, PicturesTypeOK
  <2>3. CASE TriesAgain BY <2>3 DEF TriesAgain, CopyIsKept
  <2>4. CASE FetchFails
    <3>1. misses' > 0 BY <2>4 DEF FetchFails, Miss, PicturesTypeOK
    <3> QED BY <3>1 DEF CopyIsKept
  <2>5. CASE Expires
    <3>1. carrier'.alive = FALSE BY <2>5 DEF Expires, PicturesTypeOK
    <3> QED BY <3>1 DEF CopyIsKept
  <2>6. CASE Unbinds
    <3>1. own' = FALSE BY <2>6 DEF Unbinds
    <3> QED BY <3>1 DEF CopyIsKept
  <2> QED BY <2>1, <2>2, <2>3, <2>4, <2>5, <2>6 DEF Relaying
<1> QED BY <1>2, <1>3, <1>6, <1>7

(* Every step keeps the invariant. *)
LEMMA PicturesGoOn ==
    ASSUME PicturesInv, [PicturesNext]_pictureVars
    PROVE  PicturesInv'
<1>1. CASE UNCHANGED pictureVars
  BY <1>1
  DEF pictureVars, fileVars, mmsVars, sweepVars, inboundVars, PicturesInv, PicturesTypeOK,
      ComesAtOnce, LinksAreOfIt, KeptForGrace, SweptInTime, CopyIsKept
<1> QED BY <1>1, UploadingKeeps, TextsKeep, SweepsKeep, InboundKeeps DEF PicturesNext

(* Whatever dies or is missed, the bytes of a stored picture and its sidecar are
   there until twice the life of a link (store, sweep), a link is of a picture
   that came, and a copy is refused only where the carrier gives none. *)
THEOREM PicturesInvariant == PicturesInit /\ [][PicturesNext]_pictureVars => []PicturesInv
BY PicturesBegin, PicturesGoOn, PTL

(* A link minted in the picture's first life is never answered with nothing, no
   picture lies about for longer than twice that life and the gap of a sweep
   unless a process died, and the CRM is told that an inbound one is not there
   only where the carrier gives none: PicturesHold. *)
THEOREM PicturesAreServed == PicturesInit /\ [][PicturesNext]_pictureVars => []PicturesHold
<1>1. PicturesInv => PicturesHold
  <2> SUFFICES ASSUME PicturesInv PROVE PicturesHold OBVIOUS
  <2>1. LinksHold BY DEF PicturesInv, LinksAreOfIt, LinksHold
  <2>2. NothingLingers
    BY TicksAreCounted DEF PicturesInv, SweptInTime, PicturesTypeOK, NothingLingers
  <2> QED BY <2>1, <2>2 DEF PicturesInv, PicturesHold
<1> QED BY <1>1, PicturesInvariant, PTL

-----------------------------------------------------------------------------
(* The removal of a Workiz import, for any contacts and cards, any failing pages and
   any e-mails relayed meanwhile. *)

(* What the script listed last shows every card that may be the import's but those
   it missed; and it judges at the end of a run, with no later look to come. *)
CleanInv ==
    /\ DeleteTypes
    /\ del.at = "contacts again" => Dated \ missed \subseteq del.cards
    /\ del.at # "off" => verdict = "none"
    /\ verdict = "clean" /\ ~warned =>
          \A q \in People : source[q] # "import" /\ (Left(q) => q \in missed)

(* A step makes no card one of the import's, no contact its own, and takes none
   from the relay but with its card. *)
LEMMA NothingComesBack ==
    ASSUME CleanInv, DeleteNext
    PROVE  \A q \in People :
              /\ card'[q] \in {"listed", "unlisted"} => card'[q] = card[q]
              /\ source'[q] = "import" => source[q] = "import"
              /\ source[q] = "relay" => source'[q] = "relay" \/ card'[q] = "none"
<1> USE DEF CleanInv, DeleteTypes, ghl
<1>1. CASE Starts \/ ListsCards \/ ListsContacts \/ DryRun \/ Executes \/ LooksAgain \/ Says
    BY <1>1 DEF Starts, ListsCards, ListsContacts, DryRun, Executes, LooksAgain, Says
<1>2. ASSUME NEW p \in People, DropsCard(p) \/ DropsContact(p) \/ Relays(p) \/ Restores(p),
             NEW q \in People
      PROVE  /\ card'[q] \in {"listed", "unlisted"} => card'[q] = card[q]
             /\ source'[q] = "import" => source[q] = "import"
             /\ source[q] = "relay" => source'[q] = "relay" \/ card'[q] = "none"
  <2>1. CASE DropsCard(p) BY <2>1 DEF DropsCard
  <2>2. CASE DropsContact(p) BY <2>2 DEF DropsContact
  <2>3. CASE Relays(p) \/ Restores(p) BY <2>3 DEF Relays, Restores
  <2> QED BY <1>2, <2>1, <2>2, <2>3
<1> QED BY <1>1, <1>2 DEF DeleteNext

(* What a listing makes of the script's record. *)
LEMMA Relisted ==
    ASSUME NEW d \in [at : Places, cards : SUBSET People, contacts : SUBSET People],
           NEW found \in SUBSET People, NEW chosen \in SUBSET People
    PROVE  /\ [d EXCEPT !.at = IF @ = "cards" THEN "contacts" ELSE "contacts again",
                        !.cards = found]
                  \in [at : Places, cards : SUBSET People, contacts : SUBSET People]
           /\ [d EXCEPT !.at = "planned", !.contacts = found, !.cards = chosen]
                  \in [at : Places, cards : SUBSET People, contacts : SUBSET People]
BY DEF Places

(* The script's own places and lists, and a card belongs to a contact. *)
LEMMA DeleteTypesStay == ASSUME DeleteTypes, DeleteNext PROVE DeleteTypes'
<1> USE DEF DeleteTypes, ghl, Places, Sources, Titles
<1>1. CASE Starts
    BY <1>1 DEF Starts, Off
<1>2. CASE ListsCards
  <2>1. PICK seen \in SUBSET HasCard :
           /\ PagedCards(seen)
           /\ del' = [del EXCEPT !.at = IF @ = "cards" THEN "contacts" ELSE "contacts again",
                                 !.cards = seen \intersect Dated]
      BY <1>2 DEF ListsCards
  <2>2. seen \intersect Dated \subseteq People BY DEF Dated
  <2>3. warned' \in BOOLEAN /\ missed' \subseteq People BY <2>1 DEF PagedCards, HasCard
  <2> QED BY <1>2, <2>1, <2>2, <2>3, Relisted DEF ListsCards
<1>3. CASE ListsContacts
  <2>1. PICK seen \in SUBSET Exists :
           /\ PagedContacts(seen)
           /\ del' = [del EXCEPT !.at = "planned", !.contacts = Theirs(seen),
                                 !.cards = Confident(@, seen)]
      BY <1>3 DEF ListsContacts
  <2>2. Theirs(seen) \subseteq People /\ Confident(del.cards, seen) \subseteq People
      BY DEF Theirs, Exists, Confident
  <2>3. warned' \in BOOLEAN BY <2>1 DEF PagedContacts
  <2>4. del' = [del EXCEPT !.at = "planned", !.contacts = Theirs(seen),
                           !.cards = Confident(del.cards, seen)]
      BY <2>1
  <2> QED BY <1>3, <2>2, <2>3, <2>4, Relisted DEF ListsContacts, saysVars
<1>4. CASE DryRun
    BY <1>4 DEF DryRun, Off, saysVars
<1>5. CASE Executes
    BY <1>5 DEF Executes, saysVars
<1>6. CASE LooksAgain
    BY <1>6 DEF LooksAgain
<1>7. CASE Says
    BY <1>7 DEF Says, PagedContacts, Cut, Off
<1>8. ASSUME NEW p \in People, DropsCard(p) PROVE DeleteTypes'
    BY <1>8 DEF DropsCard, Cut, saysVars
<1>9. ASSUME NEW p \in People, DropsContact(p) PROVE DeleteTypes'
    BY <1>9 DEF DropsContact, Cut, saysVars
<1>10. ASSUME NEW p \in People, Relays(p) PROVE DeleteTypes'
    BY <1>10 DEF Relays, saysVars
<1>11. ASSUME NEW p \in People, Restores(p) PROVE DeleteTypes'
    BY <1>11 DEF Restores, saysVars
<1> QED BY <1>1, <1>2, <1>3, <1>4, <1>5, <1>6, <1>7, <1>8, <1>9, <1>10, <1>11 DEF DeleteNext

(* What the script says is what it listed. *)
LEMMA VerdictsStay == ASSUME CleanInv, DeleteNext PROVE CleanInv'
<1>1. DeleteTypes' BY DeleteTypesStay DEF CleanInv
<1>2. Dated' \subseteq Dated /\ \A q \in People : csv' = csv /\ Left(q)' => Left(q)
  <2>1. /\ \A q \in People : card'[q] \in {"listed", "unlisted"} => card'[q] = card[q]
        /\ \A q \in People : source[q] = "relay" => source'[q] = "relay" \/ card'[q] = "none"
      BY NothingComesBack
  <2>2. Dated' \subseteq Dated BY <2>1 DEF Dated
  <2>3. ASSUME NEW q \in People, csv' = csv, Left(q)' PROVE Left(q)
      BY <2>1, <2>3 DEF Dated, Left
  <2> QED BY <2>2, <2>3
<1> USE DEF CleanInv
<1>3. CASE Starts
    BY <1>1, <1>3 DEF Starts, Off
<1>4. CASE DryRun \/ Executes \/ LooksAgain
  <2>1. del'.at # "contacts again" /\ del.at # "off"
    <3>1. CASE DryRun BY <3>1 DEF DryRun, Off
    <3>2. CASE Executes BY <3>2 DEF Executes, DeleteTypes
    <3>3. CASE LooksAgain BY <3>3 DEF LooksAgain, DeleteTypes
    <3> QED BY <1>4, <3>1, <3>2, <3>3
  <2>2. UNCHANGED verdict BY <1>4 DEF DryRun, Executes, LooksAgain, saysVars
  <2> QED BY <1>1, <2>1, <2>2
<1>5. CASE ListsCards
  <2>1. PICK seen \in SUBSET HasCard :
           /\ PagedCards(seen)
           /\ del' = [del EXCEPT !.at = IF @ = "cards" THEN "contacts" ELSE "contacts again",
                                 !.cards = seen \intersect Dated]
      BY <1>5 DEF ListsCards
  <2>2. UNCHANGED <<ghl, csv, verdict>> /\ del.at # "off" BY <1>5 DEF ListsCards
  <2>3. missed' = HasCard \ seen BY <2>1 DEF PagedCards
  <2>4. del'.cards = seen \intersect Dated BY <2>1 DEF DeleteTypes
  <2>5. Dated' \ missed' \subseteq del'.cards
      BY <1>2, <2>3, <2>4 DEF HasCard, Dated
  <2> QED BY <1>1, <2>2, <2>5
<1>6. CASE ListsContacts
  <2>1. del'.at = "planned" /\ verdict' = verdict /\ del.at # "off"
      BY <1>6 DEF ListsContacts, DeleteTypes
  <2> QED BY <1>1, <2>1
<1>7. CASE Says
  <2>1. PICK seen \in SUBSET Exists :
           /\ PagedContacts(seen)
           /\ verdict' = IF Confident(del.cards, seen) = {} /\ Theirs(seen) = {} THEN "clean"
                         ELSE "left"
      BY <1>7 DEF Says
  <2>2. del' = Off /\ UNCHANGED <<source, card, csv, missed>> BY <1>7 DEF Says, ghl
  <2>3. ASSUME verdict' = "clean", ~warned', NEW q \in People
        PROVE  source[q] # "import" /\ (Left(q) => q \in missed)
    <3>1. seen = Exists BY <2>1, <2>3 DEF PagedContacts
    <3>2. Confident(del.cards, seen) = {} /\ Theirs(seen) = {} BY <2>1, <2>3
    <3>3. source[q] # "import" BY <3>1, <3>2 DEF Theirs, Exists
    <3>4. ASSUME Left(q), q \notin missed PROVE FALSE
      <4>1. q \in Dated BY <3>4 DEF Left, Dated
      <4>2. q \in del.cards BY <1>7, <3>4, <4>1 DEF Says
      <4>3. q \in Confident(del.cards, seen) BY <3>4, <4>2 DEF Confident, Left
      <4> QED BY <3>2, <4>3
    <3> QED BY <3>3, <3>4
  <2>4. \A q \in People : Left(q)' = Left(q) BY <2>2 DEF Left, Dated
  <2> QED BY <1>1, <2>2, <2>3, <2>4 DEF Off
<1>8. ASSUME NEW p \in People, DropsCard(p) \/ DropsContact(p) \/ Relays(p) \/ Restores(p)
      PROVE  CleanInv'
  <2>1. UNCHANGED saysVars BY <1>8 DEF DropsCard, DropsContact, Relays, Restores
  <2>2. \/ del'.at = "drop cards" /\ del.at = "drop cards"
        \/ del' = del
      BY <1>8 DEF DropsCard, DropsContact, Relays, Restores, DeleteTypes
  <2>3. del'.at = "contacts again" => Dated' \ missed' \subseteq del'.cards
      BY <1>2, <2>1, <2>2 DEF saysVars
  <2>4. \A q \in People : source'[q] = "import" => source[q] = "import"
      BY NothingComesBack
  <2> QED BY <1>1, <1>2, <2>1, <2>2, <2>3, <2>4 DEF saysVars
<1> QED BY <1>3, <1>4, <1>5, <1>6, <1>7, <1>8 DEF DeleteNext

(* For any contacts and cards, listings that end early, refused deletions, e-mails
   relayed meanwhile and runs with or without the export: "clean" is worth what
   CleanIsClean says. *)
THEOREM CleanMeansClean == DeleteSpec => []CleanIsClean
<1>1. DeleteInit => CleanInv
  <2> SUFFICES ASSUME DeleteInit PROVE CleanInv OBVIOUS
  <2>1. Off \in [at : Places, cards : SUBSET People, contacts : SUBSET People]
      BY DEF Off, Places
  <2>2. source \in [People -> Sources \cup {"none"}] /\ \A p \in People : source[p] # "none"
      BY DEF DeleteInit, Sources
  <2>3. DeleteTypes BY <2>1, <2>2 DEF DeleteInit, DeleteTypes
  <2> QED BY <2>3 DEF DeleteInit, CleanInv, Off
<1>2. CleanInv /\ [DeleteNext]_deleteVars => CleanInv'
  <2>1. ASSUME CleanInv, UNCHANGED deleteVars PROVE CleanInv'
    <3>1. UNCHANGED <<source, card, del, csv, verdict, warned, missed, lost>>
        BY <2>1 DEF deleteVars, ghl, saysVars
    <3>2. DeleteTypes' BY <2>1, <3>1 DEF CleanInv, DeleteTypes
    <3>3. Dated' = Dated /\ \A q \in People : Left(q)' = Left(q) BY <3>1 DEF Dated, Left
    <3> QED BY <2>1, <3>1, <3>2, <3>3 DEF CleanInv
  <2> QED BY <2>1, VerdictsStay
<1>3. CleanInv => CleanIsClean
    BY DEF CleanInv, CleanIsClean
<1> QED BY <1>1, <1>2, <1>3, PTL DEF DeleteSpec
=============================================================================
