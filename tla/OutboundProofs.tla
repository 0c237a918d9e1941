--------------------------- MODULE OutboundProofs ---------------------------
(***************************************************************************)
(* What is proved of what goes out: the calls placed (OutboundCall) and    *)
(* the e-mails relayed onward (MailIntake).                                *)
(*                                                                         *)
(* Placed calls, for any number of agent requests, of worker deaths and of *)
(* failures.  Four parts: the log of attempts while requests race          *)
(* (DoorInv); how often a leg is rung (CallsInv, RingInv); that a call     *)
(* that is over leaves nobody on the line (EndInv); and what the router    *)
(* makes of the events (RouteInv).                                         *)
(*                                                                         *)
(* The log of the lead e-mails, for any mailbox, any number of polls and   *)
(* relays, of deaths and of failed statements.  Layer on layer:            *)
(*   RowsInv   whoever works on a message works on a stored one;           *)
(*   LossInv   each death or failed statement strands one order at most;   *)
(*   StampInv  an e-mail's stamp, its job in the queue and the answer of   *)
(*             the CRM agree;                                              *)
(*   WayInv    what the worker has found on its way to a relayed e-mail is *)
(*             still so when it says so (RelayedIsReal), because nothing   *)
(*             is taken back (MailGrows).                                  *)
(*                                                                         *)
(* The two models share QueueWorker and are proved about apart: no proof of*)
(* one cites the other's assumptions or definitions.                       *)
(***************************************************************************)
EXTENDS OutboundCall, MailIntake, QueueWorkerProofs, SequenceTheorems,
        FiniteSetTheorems

(***************************************************************************)
(* Placed calls                                                            *)
(***************************************************************************)

Waiting == {"absent", "pending"}

DoorTyped ==
    /\ kind \in {"door", "agent", "manual", "inbound"}
    /\ door \in [Agents -> {"none", "asked", "read", "placed", "refused"}]
    /\ sameNumber \in BOOLEAN /\ logged \in BOOLEAN /\ earlier \in 0..DailyMax
    /\ log \subseteq Agents /\ lock \subseteq Agents
    /\ entries \in [Agents -> SUBSET Agents]

Events == [who : Legs, what : {"up", "stasis", "gone"}]

TaskTyped ==
    /\ at \in {"spawn", "complete", "idle", "down"}
    /\ run \in [Jobs -> Running \union {"none", "lost", "over"}]
    /\ heard \in [Jobs -> Seq(Events)]
    /\ up \in {Op, Callee} /\ talking \subseteq {Op, Callee}
    /\ told \subseteq Agents /\ owned \subseteq Agents /\ kept \subseteq Legs
    /\ rings \in [Legs -> Nat]

(* Once the row is there, one request at a time is between its read and its
   commit, and what it read is what the row says. *)
DoorInv ==
    logged =>
        /\ Placed = log
        /\ earlier + Cardinality(log) <= DailyMax
        /\ sameNumber => Cardinality(log) <= 1
        /\ \A j \in Agents : door[j] = "read" => j \in lock
        /\ \A j \in lock : lock = {j} /\ entries[j] = log

(* Which calls there can be, and that a handler commits nothing before the end. *)
CallsInv ==
    /\ phase[Manual] # "absent" => kind = "manual"
    /\ \A j \in Agents : phase[j] # "absent" \/ door[j] # "none" => kind \in {"door", "agent"}
    /\ \A j \in Jobs : run[j] # "none" => phase[j] # "absent"
    /\ cur # NoJob => phase[cur] = "pending"

(* No task has been started for the job by the worker that lives. *)
Unstarted(j) == phase[j] \in Waiting /\ ~(cur = j /\ at = "complete")

(* The legs a task has yet to ring. *)
ToRing(j) ==
    IF j # Manual THEN {p \in {j} : run[j] = "begin"}
    ELSE {p \in {Op, Callee} : \/ run[j] = "begin" /\ (p = Op => up = Op)
                               \/ run[j] = "ring" /\ p = Callee /\ up = Op}

(* Every ring of a leg but one was followed by a death. *)
RingInv ==
    \A j \in Jobs :
        /\ Unstarted(j) => run[j] \notin Running
        /\ \A p \in LegsOf(j) :
              /\ rings[p] <= crashes + 1
              /\ Unstarted(j) \/ p \in ToRing(j) => rings[p] <= crashes

Quiet(p) == Down(p) \/ p \in kept

EndInv ==
    /\ \A j \in Jobs : run[j] = "over" => \A p \in LegsOf(j) : Quiet(p)
    /\ run[Manual] = "drop" /\ up = Op => Quiet(Callee)

(* An event that was taken in was one of a channel there is; of a leg that left
   it was filed. *)
RouteInv ==
    /\ FlowsAreCallers /\ FiledAsOne
    /\ \A p \in Legs, what \in {"stasis", "up", "gone"} :
          <<p, what>> \in seen => line[p] # "none" /\ is_entry_channel(p) /\ p # Dialled
    /\ \A p \in Legs : <<p, "gone">> \in seen => row[p] = 4 \/ p \in missed

BaseInv == WorkerInv /\ RouterTypeOK /\ DoorTyped /\ TaskTyped

IInv == BaseInv /\ DoorInv /\ CallsInv /\ RingInv /\ EndInv /\ RouteInv

-----------------------------------------------------------------------------
(* Legs *)

(* A leg is of one call. *)
LEMMA LegNames ==
    /\ \A j \in Agents : j \in Jobs /\ j # Manual /\ LegsOf(j) = {j} /\ Task(j) = j
                         /\ j \in Legs
    /\ Manual \in Jobs /\ LegsOf(Manual) = {Op, Callee} /\ Task(Op) = Manual
    /\ Task(Callee) = Manual /\ Op \in Legs /\ Callee \in Legs /\ Op # Callee
    /\ Caller \in Legs /\ Dialled \in Legs /\ Caller # Dialled
    /\ Jobs = Agents \union {Manual}
    /\ \A j \in Jobs : \A p \in LegsOf(j) : /\ p \in Legs /\ Task(p) = j
                                            /\ p # Caller /\ p # Dialled
<1>1. \A j \in Agents : j # Manual /\ j \notin {Op, Callee, Caller, Dialled}
    BY LegsAssumption, OutboundAssumption
<1>2. /\ Op # Callee /\ Caller # Dialled /\ Caller \notin {Op, Callee}
      /\ Dialled \notin {Op, Callee}
    BY LegsAssumption
<1>3. Jobs = Agents \union {Manual}
    BY OutboundAssumption
<1> QED  BY <1>1, <1>2, <1>3 DEF LegsOf, Task, Legs

(* The number of failures stays within its bound. *)
LEMMA FaultsTyped ==
    ASSUME RouterTypeOK, Fault \/ NoFault
    PROVE  faults' \in 0..MaxFaults
<1>1. faults \in 0..MaxFaults /\ MaxFaults \in Nat
    BY OutboundAssumption DEF RouterTypeOK
<1> QED  BY <1>1 DEF Fault, NoFault

(* One event changes the row of its own leg, forward, and is remembered. *)
LEMMA Routes ==
    ASSUME RouterTypeOK, NEW p \in Legs, NEW what \in {"stasis", "up", "gone"},
           Route(p, what)
    PROVE  /\ seen' \in SUBSET (Legs \X {"stasis", "up", "gone"})
           /\ row' \in [Legs -> 0..4] /\ flows' \in SUBSET Legs /\ missed' \in SUBSET Legs
           /\ faults' \in 0..MaxFaults
<1>1. /\ seen \subseteq Legs \X {"stasis", "up", "gone"} /\ row \in [Legs -> 0..4]
      /\ flows \subseteq Legs /\ missed \subseteq Legs
    BY DEF RouterTypeOK
<1>2. linkedid(p) \in Legs
    BY LegNames DEF linkedid
<1>3. CASE UNCHANGED router /\ NoFault
    BY <1>1, <1>3, FaultsTyped DEF router
<1>4. CASE seen' = seen \union {<<linkedid(p), what>>} /\ Files(p, what)
  <2>1. Rank(what) \in 0..4
      BY DEF Rank
  <2>2. row' \in [Legs -> 0..4]
      BY <1>1, <1>4, <2>1 DEF Files
  <2>3. flows' \in SUBSET Legs /\ missed' = missed /\ NoFault
      BY <1>1, <1>4 DEF Files
  <2>4. seen' \in SUBSET (Legs \X {"stasis", "up", "gone"})
      BY <1>1, <1>2, <1>4
  <2> QED  BY <1>1, <2>2, <2>3, <2>4, FaultsTyped
<1>5. CASE seen' = seen \union {<<linkedid(p), what>>} /\ FailsToFile(p)
  <2>1. seen' \in SUBSET (Legs \X {"stasis", "up", "gone"})
      BY <1>1, <1>2, <1>5
  <2>2. Fault /\ missed' = missed \union {p} /\ row' = row /\ flows' = flows
      BY <1>5 DEF FailsToFile
  <2> QED  BY <1>1, <2>1, <2>2, FaultsTyped
<1> QED  BY <1>3, <1>4, <1>5 DEF Route

(* So is what the worker never hears. *)
LEMMA RaisesTyped ==
    ASSUME RouterTypeOK, TaskTyped, NEW p \in Legs, NEW what \in {"stasis", "up", "gone"},
           Raises(p, what)
    PROVE  /\ seen' \in SUBSET (Legs \X {"stasis", "up", "gone"})
           /\ row' \in [Legs -> 0..4] /\ flows' \in SUBSET Legs /\ missed' \in SUBSET Legs
           /\ faults' \in 0..MaxFaults
           /\ heard' \in [Jobs -> Seq(Events)]
<1>1. /\ seen \subseteq Legs \X {"stasis", "up", "gone"} /\ row \in [Legs -> 0..4]
      /\ flows \subseteq Legs /\ missed \subseteq Legs
    BY DEF RouterTypeOK
<1>2. heard \in [Jobs -> Seq(Events)]
    BY DEF TaskTyped
<1>3. Watched(p, what) => Task(p) \in Jobs
    BY LegNames DEF Watched
<1>4. Event(p, what) \in Events
    BY DEF Event, Events
<1>5. CASE Route(p, what) /\ heard' = IF Watched(p, what)
             THEN [heard EXCEPT ![Task(p)] = Append(@, Event(p, what))] ELSE heard
  <2>1. CASE Watched(p, what)
    <3>1. heard[Task(p)] \in Seq(Events)
        BY <1>2, <1>3, <2>1
    <3>2. Append(heard[Task(p)], Event(p, what)) \in Seq(Events)
        BY <1>4, <3>1, AppendProperties
    <3>3. heard' = [heard EXCEPT ![Task(p)] = Append(heard[Task(p)], Event(p, what))]
        BY <1>5, <2>1
    <3>4. heard' \in [Jobs -> Seq(Events)]
        BY <1>2, <3>2, <3>3
    <3> QED  BY <1>5, <3>4, Routes
  <2>2. CASE ~Watched(p, what)
      BY <1>2, <1>5, <2>2, Routes
  <2> QED  BY <2>1, <2>2
<1>6. CASE Unheard(p) /\ NoFault /\ UNCHANGED heard
    BY <1>1, <1>2, <1>6, FaultsTyped DEF Unheard
<1>7. CASE Unheard(p) /\ Fault /\ UNCHANGED heard
    BY <1>1, <1>2, <1>7, FaultsTyped DEF Unheard
<1> QED  BY <1>5, <1>6, <1>7 DEF Raises

-----------------------------------------------------------------------------
(* What a step does to the lines *)

(* A channel of Asterisk's moves, and an event tells of it. *)
Moves(p, what, state) ==
    /\ what \in {"stasis", "up", "gone"} /\ state \in {"gone"} \union Live
    /\ line' = [line EXCEPT ![p] = state]
    /\ Raises(p, what)
    /\ state = "gone" \/ ~Down(p) \/ p = Caller
    /\ state = "gone" => what = "gone"
    /\ p = Caller /\ line[p] = "none" => what = "stasis"

(* A leg is rung: by its call's task, or by a caller's flow. *)
Dials(p) ==
    /\ p # Caller /\ line' = [line EXCEPT ![p] = "ringing"] /\ UNCHANGED router
    /\ p = Dialled \/ (p \in Agents \union {Op, Callee} /\ run[Task(p)] = "begin")

LineMoves ==
    \/ UNCHANGED <<line, router>>
    \/ UNCHANGED line /\ RouterForgets
    \/ \E p \in Legs, what \in {"stasis", "up", "gone"}, state \in {"gone"} \union Live :
          Moves(p, what, state)
    \/ \E p \in Legs : Dials(p)

(* A hangup moves the leg, or changes nothing but what is kept. *)
LEMMA Deletes ==
    ASSUME BaseInv, NEW p \in Legs, Delete(p)
    PROVE  /\ LineMoves
           /\ heard' \in [Jobs -> Seq(Events)] /\ talking' \in SUBSET {Op, Callee}
           /\ kept' \in SUBSET Legs /\ kept \subseteq kept'
           /\ faults' \in 0..MaxFaults
           /\ Quiet(p)'
<1>1. /\ line \in [Legs -> {"none", "gone"} \union Live] /\ heard \in [Jobs -> Seq(Events)]
      /\ talking \subseteq {Op, Callee} /\ kept \subseteq Legs /\ faults \in 0..MaxFaults
    BY DEF BaseInv, RouterTypeOK, TaskTyped
<1>2. CASE ~Down(p) /\ Leaves(p) /\ UNCHANGED kept
  <2>1. line' = [line EXCEPT ![p] = "gone"] /\ talking' = talking \ {p} /\ Raises(p, "gone")
      BY <1>2 DEF Leaves
  <2>2. /\ heard' \in [Jobs -> Seq(Events)] /\ faults' \in 0..MaxFaults
      BY <2>1, RaisesTyped DEF BaseInv
  <2>3. Moves(p, "gone", "gone")
      BY <1>2, <2>1 DEF Moves, Down, Live
  <2>4. Down(p)'
      BY <1>1, <2>1 DEF Down, Live
  <2> QED  BY <1>1, <1>2, <2>1, <2>2, <2>3, <2>4 DEF LineMoves, Quiet
<1>3. CASE Down(p) /\ UNCHANGED <<line, talking, heard, router, faults, kept>>
    BY <1>1, <1>3 DEF LineMoves, Quiet, Down
<1>4. CASE ~Down(p) /\ Fault /\ kept' = kept \union {p}
           /\ UNCHANGED <<line, talking, heard, router>>
  <2>1. faults' \in 0..MaxFaults
      BY <1>4, FaultsTyped DEF BaseInv
  <2> QED  BY <1>1, <1>4, <2>1 DEF LineMoves, Quiet
<1> QED  BY <1>2, <1>3, <1>4 DEF Delete

(* A request to ring a leg rings it, counted, or does nothing. *)
LEMMA Originated ==
    ASSUME BaseInv, NEW p \in Agents \union {Op, Callee}, NEW ok, Originates(p, ok),
           UNCHANGED router, run[Task(p)] = "begin"
    PROVE  /\ LineMoves
           /\ rings' \in [Legs -> Nat]
           /\ \A q \in Legs : rings'[q] = rings[q] \/ (q = p /\ rings'[q] = rings[q] + 1)
           /\ faults' \in 0..MaxFaults
<1>1. p \in Legs /\ p # Caller
    BY LegNames, LegsAssumption
<1>2. rings \in [Legs -> Nat]
    BY DEF BaseInv, TaskTyped
<1>3. faults' \in 0..MaxFaults
    BY FaultsTyped DEF Originates, BaseInv
<1>4. CASE line' = [line EXCEPT ![p] = "ringing"] /\ rings' = [rings EXCEPT ![p] = @ + 1]
  <2>1. Dials(p)
      BY <1>1, <1>4 DEF Dials
  <2>2. rings' \in [Legs -> Nat] /\ \A q \in Legs : rings'[q] = IF q = p THEN rings[q] + 1
                                                                ELSE rings[q]
      BY <1>1, <1>2, <1>4
  <2> QED  BY <1>1, <1>3, <2>1, <2>2 DEF LineMoves
<1>5. CASE UNCHANGED <<line, rings>>
    BY <1>2, <1>3, <1>5 DEF LineMoves
<1> QED  BY <1>4, <1>5 DEF Originates

(* A task goes on, with what is left in its queue. *)
LEMMA Turned ==
    ASSUME TaskTyped, NEW j \in Jobs, NEW step \in Running, NEW left \in Seq(Events),
           Turns(j, step, left)
    PROVE  /\ run' \in [Jobs -> Running \union {"none", "lost", "over"}]
           /\ heard' \in [Jobs -> Seq(Events)]
           /\ run' = [run EXCEPT ![j] = step]
<1>1. <<>> \in Seq(Events)
    BY EmptySeq
<1>2. /\ run \in [Jobs -> Running \union {"none", "lost", "over"}]
      /\ heard \in [Jobs -> Seq(Events)]
    BY DEF TaskTyped
<1>3. run' = [run EXCEPT ![j] = step]
      /\ heard' = [heard EXCEPT ![j] = IF step \in Listening THEN left ELSE <<>>]
    BY DEF Turns, Goes
<1>4. (IF step \in Listening THEN left ELSE <<>>) \in Seq(Events)
    BY <1>1
<1>5. heard' \in [Jobs -> Seq(Events)]
    BY <1>2, <1>3, <1>4
<1>6. run' \in [Jobs -> Running \union {"none", "lost", "over"}]
    BY <1>2, <1>3
<1> QED  BY <1>3, <1>5, <1>6

(* The head of a queue is an event, and the rest a queue. *)
LEMMA QueueTyped ==
    ASSUME TaskTyped, NEW j \in Jobs
    PROVE  /\ heard[j] \in Seq(Events) /\ <<>> \in Seq(Events)
           /\ Hears(j) => Rest(j) \in Seq(Events)
<1>1. heard[j] \in Seq(Events)
    BY DEF TaskTyped
<1>2. heard[j] # <<>> => Tail(heard[j]) \in Seq(Events)
    BY <1>1, HeadTailProperties
<1> QED  BY <1>1, <1>2, EmptySeq DEF Hears, Rest

-----------------------------------------------------------------------------
(* Types and lines, step by step *)

Effect ==
    /\ TaskTyped' /\ LineMoves /\ faults' \in 0..MaxFaults
    /\ channelvars' = channelvars /\ kept \subseteq kept'

(* A step that leaves tasks and lines alone. *)
LEMMA Apart ==
    ASSUME BaseInv, UNCHANGED <<channelvars, task, asterisk, kept, rings>>,
           at' \in {"spawn", "complete", "idle", "down"}
    PROVE  Effect
<1>1. UNCHANGED <<channelvars, run, heard, up, talking, told, owned, line, router, faults,
                  kept, rings>>
    BY DEF task, asterisk
<1>2. TaskTyped'
    BY <1>1 DEF BaseInv, TaskTyped
<1>3. LineMoves /\ faults' \in 0..MaxFaults
    BY <1>1 DEF LineMoves, BaseInv, RouterTypeOK
<1> QED  BY <1>1, <1>2, <1>3 DEF Effect

(* A step of a task that asks nothing of Asterisk. *)
LEMMA Aside ==
    ASSUME BaseInv, Elsewhere, UNCHANGED <<line, router>>, faults' \in 0..MaxFaults,
           run' \in [Jobs -> Running \union {"none", "lost", "over"}],
           heard' \in [Jobs -> Seq(Events)], UNCHANGED rings,
           up' \in {Op, Callee}, talking' \in SUBSET {Op, Callee},
           told' \in SUBSET Agents, owned' \in SUBSET Agents, kept' \in SUBSET Legs,
           kept \subseteq kept'
    PROVE  Effect
<1>1. at' = at /\ channelvars' = channelvars
    BY DEF Elsewhere, workerVars, setup
<1>2. TaskTyped'
    BY <1>1 DEF BaseInv, TaskTyped
<1> QED  BY <1>1, <1>2 DEF Effect, LineMoves

(* The handler and the door leave tasks and lines alone, but to start a task. *)
LEMMA WorkerEffect ==
    ASSUME BaseInv,
           \/ DoorStep \/ WorkerStep \/ PlacesCall \/ WorkerDies
           \/ \E j \in Agents : Asks(j)
    PROVE  Effect
<1> USE DEF workerVars, setup
<1>1. at \in {"spawn", "complete", "idle", "down"}
    BY DEF BaseInv, TaskTyped
<1>2. ASSUME NEW j \in Agents, ReadsLog(j) \/ Records(j) \/ Refuses(j) \/ Asks(j)
      PROVE  Effect
    BY <1>1, <1>2, Apart DEF ReadsLog, Records, Refuses, Asks, Submit
<1>3. CASE PlacesCall
    BY <1>1, <1>3, Apart DEF PlacesCall, Submit
<1>4. ASSUME NEW j \in Jobs, Claims(j)
      PROVE  Effect
    BY <1>4, Apart DEF Claims, ClaimFor
<1>5. CASE StartsTask
  <2>1. cur \in Jobs
      BY <1>5 DEF StartsTask, BaseInv, WorkerInv
  <2>2. /\ run' = [run EXCEPT ![cur] = "begin"] /\ heard' = [heard EXCEPT ![cur] = <<>>]
        /\ up' = Op /\ at' = "complete"
        /\ UNCHANGED <<talking, told, owned, line, router, faults, kept, rings, channelvars>>
      BY <1>5 DEF StartsTask, Advance, asterisk
  <2>3. heard' \in [Jobs -> Seq(Events)]
      BY <2>1, <2>2, EmptySeq DEF BaseInv, TaskTyped
  <2>4. run' \in [Jobs -> Running \union {"none", "lost", "over"}]
      BY <2>1, <2>2 DEF BaseInv, TaskTyped, Running
  <2>5. TaskTyped'
      BY <2>2, <2>3, <2>4 DEF BaseInv, TaskTyped
  <2> QED  BY <2>2, <2>5 DEF Effect, LineMoves, BaseInv, RouterTypeOK
<1>6. CASE Completes
    BY <1>6, Apart DEF Completes, Completed, Idle
<1>7. CASE WorkerReturns
    BY <1>7, Apart DEF WorkerReturns, Restarted
<1>8. CASE WorkerDies
  <2>1. /\ at' = "down"
        /\ run' = [j \in Jobs |-> IF run[j] \in Running THEN "lost" ELSE run[j]]
        /\ heard' = [j \in Jobs |-> <<>>] /\ owned' = {} /\ RouterForgets
        /\ UNCHANGED <<channelvars, up, talking, told, line, faults, kept, rings>>
      BY <1>8 DEF WorkerDies, Died
  <2>2. heard' \in [Jobs -> Seq(Events)]
      BY <2>1, EmptySeq
  <2>3. run' \in [Jobs -> Running \union {"none", "lost", "over"}]
      BY <2>1 DEF BaseInv, TaskTyped
  <2>4. TaskTyped'
      BY <2>1, <2>2, <2>3 DEF BaseInv, TaskTyped
  <2> QED  BY <2>1, <2>4 DEF Effect, LineMoves, BaseInv, RouterTypeOK
<1> QED  BY <1>2, <1>3, <1>4, <1>5, <1>6, <1>7, <1>8 DEF DoorStep, WorkerStep

(* What the people on the phones and a caller's flow do moves one line. *)
LEMMA PeopleEffect ==
    ASSUME BaseInv,
           \/ CallerRings \/ FlowAnswers \/ FlowDials
           \/ \E p \in Legs : Picks(p) \/ Enters(p) \/ PartyLeaves(p)
    PROVE  Effect /\ UNCHANGED <<run, up, rings, kept>>
<1>1. ASSUME NEW p \in Legs, NEW what \in {"stasis", "up", "gone"},
             NEW state \in {"gone"} \union Live, Moves(p, what, state), Others,
             talking' \in SUBSET talking, UNCHANGED rings
      PROVE  Effect /\ UNCHANGED <<run, up, rings, kept>>
  <2>1. /\ UNCHANGED <<run, up, told, owned, kept>> /\ at' = at
        /\ channelvars' = channelvars
      BY <1>1 DEF Others, workerVars, setup
  <2>2. heard' \in [Jobs -> Seq(Events)] /\ faults' \in 0..MaxFaults
      BY <1>1, RaisesTyped DEF Moves, BaseInv
  <2>3. TaskTyped'
      BY <1>1, <2>1, <2>2 DEF BaseInv, TaskTyped
  <2> QED  BY <1>1, <2>1, <2>2, <2>3 DEF Effect, LineMoves
<1>2. ASSUME NEW p \in Legs, Picks(p) \/ Enters(p)
      PROVE  Effect /\ UNCHANGED <<run, up, rings, kept>>
  <2>1. CASE Picks(p)
    <3>1. Moves(p, "up", "up") /\ Others /\ UNCHANGED <<talking, rings>>
        BY <2>1 DEF Picks, Moves, Down, Live
    <3> QED  BY <1>1, <3>1 DEF Live
  <2>2. CASE Enters(p)
    <3>1. Moves(p, "stasis", "stasis") /\ Others /\ UNCHANGED <<talking, rings>>
        BY <2>2 DEF Enters, Moves, Down, Live
    <3> QED  BY <1>1, <3>1 DEF Live
  <2> QED  BY <1>2, <2>1, <2>2
<1>3. ASSUME NEW p \in Legs, PartyLeaves(p)
      PROVE  Effect /\ UNCHANGED <<run, up, rings, kept>>
  <2>1. Moves(p, "gone", "gone") /\ Others /\ talking' \in SUBSET talking /\ UNCHANGED rings
      BY <1>3 DEF PartyLeaves, Leaves, Moves, Down, Live
  <2> QED  BY <1>1, <2>1
<1>4. CASE CallerRings
  <2>1. Moves(Caller, "stasis", "ringing") /\ Others /\ UNCHANGED <<talking, rings>>
      BY <1>4 DEF CallerRings, Moves, Live
  <2> QED  BY <1>1, <2>1, LegNames DEF Live
<1>5. CASE FlowAnswers
  <2>1. Moves(Caller, "up", "up") /\ Others /\ UNCHANGED <<talking, rings>>
      BY <1>5 DEF FlowAnswers, Moves, Live
  <2> QED  BY <1>1, <2>1, LegNames DEF Live
<1>6. CASE FlowDials
  <2>1. /\ Dials(Dialled) /\ Dialled \in Legs
        /\ UNCHANGED <<router, faults, heard, talking, rings, run, up, told, owned, kept, at,
                       channelvars>>
      BY <1>6, LegNames, LegsAssumption DEF FlowDials, Dials, Others, workerVars, setup
  <2>2. TaskTyped'
      BY <2>1 DEF BaseInv, TaskTyped
  <2> QED  BY <2>1, <2>2 DEF Effect, LineMoves, BaseInv, RouterTypeOK
<1> QED  BY <1>2, <1>3, <1>4, <1>5, <1>6

(* An agent's call. *)
LEMMA AgentEffect ==
    ASSUME BaseInv, NEW j \in Agents, AgentStep(j) \/ SupervisorTakes(j)
    PROVE  Effect
<1>1. j \in Jobs /\ j \in Legs /\ Task(j) = j /\ j # Manual
    BY LegNames
<1>2. /\ run \in [Jobs -> Running \union {"none", "lost", "over"}]
      /\ heard \in [Jobs -> Seq(Events)] /\ up \in {Op, Callee}
      /\ talking \in SUBSET {Op, Callee} /\ told \in SUBSET Agents /\ owned \in SUBSET Agents
      /\ kept \in SUBSET Legs /\ rings \in [Legs -> Nat] /\ faults \in 0..MaxFaults
      /\ at \in {"spawn", "complete", "idle", "down"}
    BY DEF BaseInv, TaskTyped, RouterTypeOK
<1>3. heard[j] \in Seq(Events) /\ <<>> \in Seq(Events) /\ (Hears(j) => Rest(j) \in Seq(Events))
    BY <1>1, QueueTyped DEF BaseInv
<1>4. {"ring", "unanswered", "agent", "hangup"} \subseteq Running
    BY DEF Running
<1>5. CASE AgentRings(j)
  <2>1. /\ run[Task(j)] = "begin" /\ Elsewhere
        /\ UNCHANGED <<up, talking, told, owned, router, kept>>
      BY <1>1, <1>5 DEF AgentRings, At
  <2>2. PICK ok \in BOOLEAN : Originates(j, ok)
      BY <1>5 DEF AgentRings
  <2>3. LineMoves /\ rings' \in [Legs -> Nat] /\ faults' \in 0..MaxFaults
      BY <2>1, <2>2, Originated
  <2>4. \/ Turns(j, "ring", heard[j])
        \/ Turns(j, "unanswered", <<>>)
      BY <1>5 DEF AgentRings
  <2>5. /\ run' \in [Jobs -> Running \union {"none", "lost", "over"}]
        /\ heard' \in [Jobs -> Seq(Events)]
    <3>1. CASE Turns(j, "ring", heard[j])
        BY <1>1, <1>3, <1>4, <3>1, Turned DEF BaseInv
    <3>2. CASE Turns(j, "unanswered", <<>>)
        BY <1>1, <1>3, <1>4, <3>2, Turned DEF BaseInv
    <3> QED  BY <2>4, <3>1, <3>2
  <2>6. at' = at /\ channelvars' = channelvars
      BY <2>1 DEF Elsewhere, workerVars, setup
  <2>7. TaskTyped'
      BY <1>2, <2>1, <2>3, <2>5, <2>6 DEF TaskTyped
  <2> QED  BY <2>1, <2>3, <2>6, <2>7 DEF Effect
<1>6. CASE AgentHears(j) \/ AgentGivesUp(j)
  <2>1. /\ Elsewhere /\ faults' = faults
        /\ UNCHANGED <<up, talking, told, owned, line, router, kept, rings>>
      BY <1>6 DEF AgentHears, AgentGivesUp, asterisk
  <2>2. \/ Turns(j, "agent", <<>>)
        \/ Turns(j, "unanswered", <<>>)
        \/ Turns(j, "ring", Rest(j)) /\ Hears(j)
      BY <1>6 DEF AgentHears, AgentGivesUp
  <2>3. /\ run' \in [Jobs -> Running \union {"none", "lost", "over"}]
        /\ heard' \in [Jobs -> Seq(Events)]
    <3>1. CASE Turns(j, "agent", <<>>)
        BY <1>1, <1>3, <1>4, <3>1, Turned DEF BaseInv
    <3>2. CASE Turns(j, "unanswered", <<>>)
        BY <1>1, <1>3, <1>4, <3>2, Turned DEF BaseInv
    <3>3. CASE Turns(j, "ring", Rest(j)) /\ Hears(j)
        BY <1>1, <1>3, <1>4, <3>3, Turned DEF BaseInv
    <3> QED  BY <2>2, <3>1, <3>2, <3>3
  <2> QED  BY <1>2, <2>1, <2>3, Aside
<1>7. CASE ReportsUnanswered(j) \/ AgentFinishes(j)
  <2>1. /\ Elsewhere /\ run' = [run EXCEPT ![j] = "hangup"] /\ Tells(j)
        /\ UNCHANGED <<heard, up, talking, owned, line, router, kept, rings>>
      BY <1>7 DEF ReportsUnanswered, AgentFinishes, Goes
  <2>2. told' \in SUBSET Agents
      BY <1>2, <2>1 DEF Tells
  <2>3. faults' \in 0..MaxFaults
      BY <2>1, FaultsTyped DEF Tells, BaseInv
  <2>4. run' \in [Jobs -> Running \union {"none", "lost", "over"}]
      BY <1>2, <1>4, <2>1
  <2> QED  BY <1>2, <2>1, <2>2, <2>3, <2>4, Aside
<1>8. CASE SupervisorTakes(j)
  <2>1. /\ Elsewhere /\ owned' \in SUBSET Agents
        /\ UNCHANGED <<run, heard, up, talking, told, line, router, faults, kept, rings>>
      BY <1>2, <1>8 DEF SupervisorTakes, asterisk
  <2> QED  BY <1>2, <2>1, Aside
<1>9. CASE AgentHangsUp(j)
  <2>1. /\ run' = [run EXCEPT ![j] = "over"] /\ Elsewhere
        /\ UNCHANGED <<up, told, owned, rings>>
      BY <1>9 DEF AgentHangsUp, Goes
  <2>2. run' \in [Jobs -> Running \union {"none", "lost", "over"}]
      BY <1>2, <2>1
  <2>3. CASE Delete(j)
    <3>1. /\ LineMoves /\ heard' \in [Jobs -> Seq(Events)] /\ talking' \in SUBSET {Op, Callee}
          /\ kept' \in SUBSET Legs /\ kept \subseteq kept' /\ faults' \in 0..MaxFaults
        BY <1>1, <2>3, Deletes
    <3>2. at' = at /\ channelvars' = channelvars
        BY <2>1 DEF Elsewhere, workerVars, setup
    <3>3. TaskTyped'
        BY <1>2, <2>1, <2>2, <3>1, <3>2 DEF TaskTyped
    <3> QED  BY <3>1, <3>2, <3>3 DEF Effect
  <2>4. CASE kept' = kept \union {j} /\ UNCHANGED <<line, talking, heard, router, faults>>
      BY <1>1, <1>2, <2>1, <2>2, <2>4, Aside
  <2> QED  BY <1>9, <2>3, <2>4 DEF AgentHangsUp
<1> QED  BY <1>5, <1>6, <1>7, <1>8, <1>9 DEF AgentStep

(* The softphone call goes on to ring, to the notice, to the bridge, to talk. *)
LEMMA ManualTurns ==
    ASSUME BaseInv, NEW step \in Running, NEW left \in Seq(Events), up' \in {Op, Callee},
           Turns(Manual, step, left), Elsewhere, UNCHANGED <<line, router>>,
           faults' \in 0..MaxFaults, talking' \in SUBSET {Op, Callee},
           UNCHANGED <<told, owned, kept, rings>>
    PROVE  Effect
<1>1. /\ told \in SUBSET Agents /\ owned \in SUBSET Agents /\ kept \in SUBSET Legs
    BY DEF BaseInv, TaskTyped
<1>2. /\ run' \in [Jobs -> Running \union {"none", "lost", "over"}]
      /\ heard' \in [Jobs -> Seq(Events)]
    BY LegNames, Turned DEF BaseInv
<1> QED  BY <1>1, <1>2, Aside

(* The softphone call. *)
LEMMA ManualEffect ==
    ASSUME BaseInv, ManualStep
    PROVE  Effect
<1>1. Manual \in Jobs /\ Op \in Legs /\ Callee \in Legs /\ Task(Op) = Manual
      /\ Task(Callee) = Manual
    BY LegNames
<1>2. /\ run \in [Jobs -> Running \union {"none", "lost", "over"}]
      /\ heard \in [Jobs -> Seq(Events)] /\ up \in {Op, Callee}
      /\ talking \in SUBSET {Op, Callee} /\ told \in SUBSET Agents /\ owned \in SUBSET Agents
      /\ kept \in SUBSET Legs /\ rings \in [Legs -> Nat] /\ faults \in 0..MaxFaults
      /\ at \in {"spawn", "complete", "idle", "down"}
    BY DEF BaseInv, TaskTyped, RouterTypeOK
<1>3. /\ heard[Manual] \in Seq(Events) /\ <<>> \in Seq(Events)
      /\ Hears(Manual) => Rest(Manual) \in Seq(Events)
    BY <1>1, QueueTyped DEF BaseInv
<1>4. {"begin", "ring", "consent", "bridge", "talk", "drop"} \subseteq Running
    BY DEF Running
<1>5. CASE Rings
  <2>1. /\ run[Task(up)] = "begin" /\ Elsewhere
        /\ UNCHANGED <<talking, told, owned, router, kept>>
      BY <1>1, <1>2, <1>5 DEF Rings, At
  <2>2. PICK ok \in BOOLEAN : Originates(up, ok)
      BY <1>5 DEF Rings
  <2>3. LineMoves /\ rings' \in [Legs -> Nat] /\ faults' \in 0..MaxFaults
      BY <1>2, <2>1, <2>2, Originated
  <2>4. \/ Turns(Manual, "ring", heard[Manual]) /\ up' = up
        \/ Turns(Manual, "drop", <<>>) /\ up' = Callee
      BY <1>5 DEF Rings, ToDrop
  <2>5. /\ run' \in [Jobs -> Running \union {"none", "lost", "over"}]
        /\ heard' \in [Jobs -> Seq(Events)]
    <3>1. CASE Turns(Manual, "ring", heard[Manual])
        BY <1>1, <1>3, <1>4, <3>1, Turned DEF BaseInv
    <3>2. CASE Turns(Manual, "drop", <<>>)
        BY <1>1, <1>3, <1>4, <3>2, Turned DEF BaseInv
    <3> QED  BY <2>4, <3>1, <3>2
  <2>6. at' = at /\ channelvars' = channelvars
      BY <2>1 DEF Elsewhere, workerVars, setup
  <2>7. TaskTyped'
      BY <1>2, <2>1, <2>3, <2>4, <2>5, <2>6 DEF TaskTyped
  <2> QED  BY <2>1, <2>3, <2>6, <2>7 DEF Effect
<1>6. CASE HearsRinging \/ HearsDuringNotice \/ HearsTalk
  <2>1. /\ Elsewhere /\ Hears(Manual)
        /\ UNCHANGED <<talking, told, owned, line, router, faults, kept, rings>>
      BY <1>6 DEF HearsRinging, HearsDuringNotice, HearsTalk, HearsUntilGone, asterisk
  <2>2. \/ Turns(Manual, "drop", <<>>) /\ up' = Callee
        \/ Turns(Manual, "begin", Rest(Manual)) /\ up' = Callee
        \/ \E step \in {"ring", "consent", "talk"} :
              Turns(Manual, step, Rest(Manual)) /\ up' = up
      BY <1>6 DEF HearsRinging, HearsDuringNotice, HearsTalk, HearsUntilGone, ToDrop, Keeps
  <2>3. CASE Turns(Manual, "drop", <<>>) /\ up' = Callee
      BY <1>2, <1>3, <1>4, <2>1, <2>3, ManualTurns
  <2>4. CASE Turns(Manual, "begin", Rest(Manual)) /\ up' = Callee
      BY <1>2, <1>3, <1>4, <2>1, <2>4, ManualTurns
  <2>5. ASSUME NEW step \in {"ring", "consent", "talk"},
               Turns(Manual, step, Rest(Manual)) /\ up' = up
        PROVE  Effect
      BY <1>2, <1>3, <1>4, <2>1, <2>5, ManualTurns
  <2> QED  BY <2>2, <2>3, <2>4, <2>5
<1>7. CASE RingTimesOut \/ TalkTimesOut
  <2>1. /\ Elsewhere /\ Turns(Manual, "drop", <<>>) /\ up' = Callee
        /\ UNCHANGED <<talking, told, owned, line, router, faults, kept, rings>>
      BY <1>7 DEF RingTimesOut, TalkTimesOut, ToDrop, asterisk
  <2> QED  BY <1>2, <1>3, <1>4, <2>1, ManualTurns
<1>8. CASE NoticeEnds
  <2>1. /\ Elsewhere /\ up' = up
        /\ UNCHANGED <<talking, told, owned, line, router, faults, kept, rings>>
      BY <1>8 DEF NoticeEnds, Keeps, asterisk
  <2>2. PICK left \in {heard[Manual], Rest(Manual)} :
            Turns(Manual, "bridge", left) /\ left \in Seq(Events)
      BY <1>3, <1>8 DEF NoticeEnds, Keeps
  <2> QED  BY <1>2, <1>4, <2>1, <2>2, ManualTurns
<1>9. CASE Bridges
  <2>1. /\ Elsewhere /\ UNCHANGED <<told, owned, line, router, kept, rings>>
        /\ Fault \/ NoFault
      BY <1>9 DEF Bridges
  <2>2. talking' \in SUBSET {Op, Callee} /\ faults' \in 0..MaxFaults
      BY <1>2, <1>9, <2>1, FaultsTyped DEF Bridges, BaseInv
  <2>3. CASE Turns(Manual, "talk", heard[Manual]) /\ up' = up
      BY <1>2, <1>3, <1>4, <2>1, <2>2, <2>3, ManualTurns
  <2>4. CASE Turns(Manual, "drop", <<>>) /\ up' = Callee
      BY <1>3, <1>4, <2>1, <2>2, <2>4, ManualTurns
  <2> QED  BY <1>9, <2>3, <2>4 DEF Bridges, ToDrop
<1>10. CASE Drops
  <2>1. /\ Delete(up) /\ Elsewhere /\ UNCHANGED <<told, owned, rings>>
        /\ up' \in {Op, Callee} /\ (run' = run \/ run' = [run EXCEPT ![Manual] = "over"])
      BY <1>2, <1>10 DEF Drops, Goes
  <2>2. /\ LineMoves /\ heard' \in [Jobs -> Seq(Events)] /\ talking' \in SUBSET {Op, Callee}
        /\ kept' \in SUBSET Legs /\ kept \subseteq kept' /\ faults' \in 0..MaxFaults
      BY <1>1, <1>2, <2>1, Deletes
  <2>3. at' = at /\ channelvars' = channelvars
      BY <2>1 DEF Elsewhere, workerVars, setup
  <2>4. run' \in [Jobs -> Running \union {"none", "lost", "over"}]
      BY <1>1, <1>2, <2>1
  <2>5. TaskTyped'
      BY <1>2, <2>1, <2>2, <2>3, <2>4 DEF TaskTyped
  <2> QED  BY <2>2, <2>3, <2>5 DEF Effect
<1> QED  BY <1>5, <1>6, <1>7, <1>8, <1>9, <1>10 DEF ManualStep

(* Every step moves at most one line. *)
LEMMA StepEffect == BaseInv /\ [Next]_vars => Effect
<1> SUFFICES ASSUME BaseInv, [Next]_vars PROVE Effect
    OBVIOUS
<1>1. CASE UNCHANGED vars
  <2>1. at' = at /\ UNCHANGED <<channelvars, task, asterisk, kept, rings>>
      BY <1>1 DEF vars, workerVars, setup
  <2> QED  BY <2>1, Apart DEF BaseInv, TaskTyped
<1> QED  BY <1>1, WorkerEffect, PeopleEffect, AgentEffect, ManualEffect DEF Next, World

(* So the router's types hold. *)
LEMMA RouterKept == BaseInv /\ Effect => RouterTypeOK'
<1> SUFFICES ASSUME BaseInv, Effect PROVE RouterTypeOK'
    OBVIOUS
<1>1. /\ channelvars \in BOOLEAN /\ line \in [Legs -> {"none", "gone"} \union Live]
      /\ seen \in SUBSET (Legs \X {"stasis", "up", "gone"}) /\ row \in [Legs -> 0..4]
      /\ flows \in SUBSET Legs /\ missed \in SUBSET Legs
    BY DEF BaseInv, RouterTypeOK
<1>2. channelvars' = channelvars /\ faults' \in 0..MaxFaults /\ LineMoves
    BY DEF Effect
<1>3. CASE UNCHANGED <<line, router>>
    BY <1>1, <1>2, <1>3 DEF RouterTypeOK, router
<1>4. CASE UNCHANGED line /\ RouterForgets
    BY <1>1, <1>2, <1>4 DEF RouterTypeOK, RouterForgets
<1>5. ASSUME NEW p \in Legs, NEW what \in {"stasis", "up", "gone"},
             NEW state \in {"gone"} \union Live, Moves(p, what, state)
      PROVE  RouterTypeOK'
  <2>1. line' \in [Legs -> {"none", "gone"} \union Live]
      BY <1>1, <1>5 DEF Moves
  <2>2. Raises(p, what)
      BY <1>5 DEF Moves
  <2> QED  BY <1>1, <1>2, <2>1, <2>2, RaisesTyped DEF RouterTypeOK, BaseInv
<1>6. ASSUME NEW p \in Legs, Dials(p)
      PROVE  RouterTypeOK'
  <2>1. line' \in [Legs -> {"none", "gone"} \union Live] /\ UNCHANGED router
      BY <1>1, <1>6 DEF Dials, Live
  <2> QED  BY <1>1, <1>2, <2>1 DEF RouterTypeOK, router
<1> QED  BY <1>2, <1>3, <1>4, <1>5, <1>6 DEF LineMoves

-----------------------------------------------------------------------------
(* The worker and the door *)

(* The worker's part. *)
LEMMA WorkerKept == BaseInv /\ [Next]_vars => WorkerInv'
<1> SUFFICES ASSUME BaseInv, [Next]_vars PROVE WorkerInv'
    OBVIOUS
<1>1. WorkerInv
    BY DEF BaseInv
<1>2. CASE UNCHANGED workerVars
    BY <1>1, <1>2 DEF workerVars, WorkerInv, Undecided
<1>3. ASSUME NEW j \in Agents, Records(j)
      PROVE  WorkerInv'
    BY <1>1, <1>3, LegNames, Submits DEF Records
<1>4. CASE PlacesCall
    BY <1>1, <1>4, LegNames, Submits DEF PlacesCall
<1>5. ASSUME NEW j \in Jobs, Claims(j)
      PROVE  WorkerInv'
    BY <1>1, <1>5, ClaimsJob DEF Claims
<1>6. CASE StartsTask
  <2>1. Busy
      BY <1>1, <1>6 DEF StartsTask, WorkerInv, Busy
  <2> QED  BY <1>1, <1>6, <2>1, Advances DEF StartsTask
<1>7. CASE Completes
  <2>1. Busy
      BY <1>1, <1>7 DEF Completes, WorkerInv, Busy
  <2> QED  BY <1>1, <1>7, <2>1, Concludes DEF Completes
<1>8. CASE WorkerDies
    BY <1>1, <1>8, Dies DEF WorkerDies
<1>9. CASE WorkerReturns
    BY <1>1, <1>9, Restarts DEF WorkerReturns
<1>10. ASSUME NEW j \in Agents, Asks(j) \/ ReadsLog(j) \/ Refuses(j)
       PROVE  UNCHANGED workerVars
    BY <1>10 DEF Asks, ReadsLog, Refuses
<1>11. ASSUME \/ CallerRings \/ FlowAnswers \/ FlowDials
              \/ \E p \in Legs : Picks(p) \/ Enters(p) \/ PartyLeaves(p)
       PROVE  UNCHANGED workerVars
    BY <1>11 DEF CallerRings, FlowAnswers, FlowDials, Picks, Enters, PartyLeaves, Others
<1>12. ASSUME NEW j \in Agents, AgentStep(j) \/ SupervisorTakes(j)
       PROVE  UNCHANGED workerVars
    BY <1>12 DEF AgentStep, AgentRings, AgentHears, AgentGivesUp, ReportsUnanswered,
        AgentFinishes, AgentHangsUp, SupervisorTakes, Elsewhere
<1>13. CASE ManualStep
    BY <1>2, <1>13 DEF ManualStep, Rings, HearsRinging, RingTimesOut, NoticeEnds,
        HearsDuringNotice, HearsUntilGone, Bridges, HearsTalk, TalkTimesOut, Drops, Elsewhere
<1>14. CASE UNCHANGED vars
    BY <1>2, <1>14 DEF vars
<1> QED  BY <1>2, <1>3, <1>4, <1>5, <1>6, <1>7, <1>8, <1>9, <1>10, <1>11, <1>12, <1>13, <1>14
         DEF Next, World, DoorStep, WorkerStep

(* Requests at the door: one at a time once the row is there, so each counts the
   attempts of all. *)
LEMMA DoorKept == BaseInv /\ DoorInv /\ [Next]_vars => DoorTyped' /\ DoorInv'
<1> SUFFICES ASSUME BaseInv, DoorInv, [Next]_vars PROVE DoorTyped' /\ DoorInv'
    OBVIOUS
<1>1. /\ kind \in {"door", "agent", "manual", "inbound"} /\ sameNumber \in BOOLEAN
      /\ door \in [Agents -> {"none", "asked", "read", "placed", "refused"}]
      /\ logged \in BOOLEAN /\ earlier \in 0..DailyMax
      /\ log \in SUBSET Agents /\ lock \in SUBSET Agents
      /\ entries \in [Agents -> SUBSET Agents]
    BY DEF BaseInv, DoorTyped
<1>2. CASE UNCHANGED <<doorVars, setup>>
  <2>1. UNCHANGED <<kind, sameNumber, logged, earlier, door, log, lock, entries>>
      BY <1>2 DEF doorVars, setup
  <2>2. DoorTyped'
      BY <1>1, <2>1 DEF DoorTyped
  <2>3. DoorInv'
      BY <2>1 DEF DoorInv, Placed
  <2> QED  BY <2>2, <2>3
<1>3. ASSUME NEW j \in Agents, Asks(j)
      PROVE  DoorTyped' /\ DoorInv'
  <2>1. /\ UNCHANGED <<kind, sameNumber, logged, earlier, log, lock, entries>>
        /\ door' = [door EXCEPT ![j] = "asked"] /\ door[j] = "none"
      BY <1>3 DEF Asks, setup
  <2>2. DoorTyped'
      BY <1>1, <2>1 DEF DoorTyped
  <2>3. Placed' = Placed
      BY <1>1, <2>1 DEF Placed
  <2>4. DoorInv'
      BY <1>1, <2>1, <2>3 DEF DoorInv
  <2> QED  BY <2>2, <2>4
<1>4. ASSUME NEW j \in Agents, ReadsLog(j)
      PROVE  DoorTyped' /\ DoorInv'
  <2>1. /\ UNCHANGED <<kind, sameNumber, logged, earlier, log>>
        /\ door' = [door EXCEPT ![j] = "read"] /\ door[j] = "asked"
        /\ entries' = [entries EXCEPT ![j] = log]
        /\ lock' = IF RowThere THEN {j} ELSE lock
        /\ RowThere => lock = {}
      BY <1>4 DEF ReadsLog, setup
  <2>2. DoorTyped'
      BY <1>1, <2>1 DEF DoorTyped
  <2>3. Placed' = Placed
      BY <1>1, <2>1 DEF Placed
  <2>4. CASE logged
    <3>1. lock = {} /\ lock' = {j} /\ entries'[j] = log
        BY <1>1, <2>1, <2>4 DEF RowThere
    <3>2. \A k \in Agents : door'[k] = "read" => k = j
        BY <1>1, <2>1, <2>4, <3>1 DEF DoorInv
    <3> QED  BY <2>1, <2>2, <2>3, <2>4, <3>1, <3>2 DEF DoorInv
  <2>5. CASE ~logged
      BY <2>1, <2>2, <2>5 DEF DoorInv
  <2> QED  BY <2>4, <2>5
<1>5. ASSUME NEW j \in Agents, Refuses(j)
      PROVE  DoorTyped' /\ DoorInv'
  <2>1. /\ UNCHANGED <<kind, sameNumber, logged, earlier, log, entries>>
        /\ door' = [door EXCEPT ![j] = "refused"] /\ door[j] = "read"
        /\ lock' = lock \ {j}
      BY <1>5 DEF Refuses, Decides, setup
  <2>2. DoorTyped'
      BY <1>1, <2>1 DEF DoorTyped
  <2>3. Placed' = Placed
      BY <1>1, <2>1 DEF Placed
  <2>4. DoorInv'
      BY <1>1, <2>1, <2>3 DEF DoorInv
  <2> QED  BY <2>2, <2>4
<1>6. ASSUME NEW j \in Agents, Records(j)
      PROVE  DoorTyped' /\ DoorInv'
  <2>1. /\ UNCHANGED <<kind, sameNumber, logged, earlier, entries>>
        /\ door' = [door EXCEPT ![j] = "placed"] /\ door[j] = "read"
        /\ lock' = lock \ {j} /\ log' = entries[j] \union {j}
        /\ earlier + Cardinality(entries[j]) < DailyMax
        /\ ~(sameNumber /\ entries[j] # {})
      BY <1>6 DEF Records, Decides, setup, used_today, called_recently
  <2>2. DoorTyped'
      BY <1>1, <2>1 DEF DoorTyped
  <2>3. CASE logged
    <3>1. lock = {j} /\ entries[j] = log /\ Placed = log
        BY <1>1, <2>1, <2>3 DEF DoorInv
    <3>2. Placed' = log'
        BY <1>1, <2>1, <3>1 DEF Placed
    <3>3. IsFiniteSet(log) /\ Cardinality(log) \in Nat
        BY <1>1, OutboundAssumption, FS_Subset, FS_CardinalityType
    <3>4. Cardinality(log') <= Cardinality(log) + 1 /\ Cardinality(log') \in Nat
      <4>1. log' = log \union {j}
          BY <2>1, <3>1
      <4>2. /\ IsFiniteSet(log \union {j})
            /\ Cardinality(log \union {j}) = Cardinality(log)
               \/ Cardinality(log \union {j}) = Cardinality(log) + 1
          BY <3>3, FS_AddElement
      <4> QED  BY <3>3, <4>1, <4>2
    <3>5. earlier' + Cardinality(log') <= DailyMax
      <4>1. earlier \in Nat /\ DailyMax \in Nat
          BY <1>1, OutboundAssumption
      <4>2. earlier + Cardinality(log) < DailyMax /\ earlier' = earlier
          BY <2>1, <3>1
      <4> QED  BY <3>3, <3>4, <4>1, <4>2
    <3>6. sameNumber' => Cardinality(log') <= 1
      <4>1. sameNumber => log' = {j}
          BY <2>1, <3>1
      <4>2. Cardinality({j}) = 1
          BY FS_Singleton
      <4> QED  BY <2>1, <4>1, <4>2
    <3>7. lock' = {} /\ \A k \in Agents : door'[k] # "read"
        BY <1>1, <2>1, <2>3, <3>1 DEF DoorInv
    <3> QED  BY <2>2, <3>2, <3>5, <3>6, <3>7 DEF DoorInv
  <2>4. CASE ~logged
      BY <2>1, <2>2, <2>4 DEF DoorInv
  <2> QED  BY <2>3, <2>4
<1>7. ASSUME WorkerStep \/ PlacesCall \/ WorkerDies
      PROVE  UNCHANGED <<doorVars, setup>>
    BY <1>7 DEF WorkerStep, StartsTask, Completes, WorkerReturns, Claims, PlacesCall, WorkerDies
<1>8. ASSUME \/ CallerRings \/ FlowAnswers \/ FlowDials
             \/ \E p \in Legs : Picks(p) \/ Enters(p) \/ PartyLeaves(p)
      PROVE  UNCHANGED <<doorVars, setup>>
    BY <1>8 DEF CallerRings, FlowAnswers, FlowDials, Picks, Enters, PartyLeaves, Others
<1>9. ASSUME NEW j \in Agents, AgentStep(j) \/ SupervisorTakes(j)
      PROVE  UNCHANGED <<doorVars, setup>>
    BY <1>9 DEF AgentStep, AgentRings, AgentHears, AgentGivesUp, ReportsUnanswered,
        AgentFinishes, AgentHangsUp, SupervisorTakes, Elsewhere
<1>10. ASSUME ManualStep
       PROVE  UNCHANGED <<doorVars, setup>>
    BY <1>10 DEF ManualStep, Rings, HearsRinging, RingTimesOut, NoticeEnds, HearsDuringNotice,
        HearsUntilGone, Bridges, HearsTalk, TalkTimesOut, Drops, Elsewhere
<1>11. ASSUME UNCHANGED vars
       PROVE  UNCHANGED <<doorVars, setup>>
    BY <1>11 DEF vars
<1> QED  BY <1>2, <1>3, <1>4, <1>5, <1>6, <1>7, <1>8, <1>9, <1>10, <1>11
         DEF Next, World, DoorStep

-----------------------------------------------------------------------------
(* The steps of a task *)

(* A task's step is of a task that runs; it moves that task on, and rings at most
   one leg, one it had yet to ring. *)
TaskMoves(j) ==
    /\ Elsewhere
    /\ run[j] \in Running /\ run'[j] \in Running \union {"over"}
    /\ \A k \in Jobs \ {j} : run'[k] = run[k]
    /\ ToRing(j)' \subseteq ToRing(j)
    /\ j = Manual \/ up' = up
    /\ \A q \in Legs : \/ rings'[q] = rings[q]
                       \/ q \in ToRing(j) \ ToRing(j)' /\ rings'[q] = rings[q] + 1
    /\ run'[j] = "over" => \A p \in LegsOf(j) : Quiet(p)'
    /\ run'[Manual] = "drop" /\ up' = Op => run[Manual] = "drop" /\ Quiet(Callee)'

(* Who is quiet stays so, unless the call's task rings him. *)
LEMMA QuietStays ==
    ASSUME BaseInv, Effect, NEW j \in Jobs, NEW p \in LegsOf(j), Quiet(p),
           run[j] # "begin"
    PROVE  Quiet(p)'
<1>1. /\ line \in [Legs -> {"none", "gone"} \union Live] /\ kept \subseteq kept' /\ LineMoves
      /\ p \in Legs /\ p # Caller /\ p # Dialled /\ Task(p) = j
    BY LegNames DEF BaseInv, RouterTypeOK, Effect
<1>2. CASE UNCHANGED line
    BY <1>1, <1>2 DEF Quiet, Down
<1>3. ASSUME NEW q \in Legs, NEW what \in {"stasis", "up", "gone"},
             NEW state \in {"gone"} \union Live, Moves(q, what, state)
      PROVE  Quiet(p)'
  <2>1. line' = [line EXCEPT ![q] = state] /\ (state = "gone" \/ ~Down(q) \/ q = Caller)
      BY <1>3 DEF Moves
  <2>2. Down(p) => Down(p)'
      BY <1>1, <2>1 DEF Down, Live
  <2> QED  BY <1>1, <2>2 DEF Quiet
<1>4. ASSUME NEW q \in Legs, Dials(q)
      PROVE  Quiet(p)'
  <2>1. line' = [line EXCEPT ![q] = "ringing"] /\ q # p
      BY <1>1, <1>4 DEF Dials
  <2>2. Down(p) => Down(p)'
      BY <1>1, <2>1 DEF Down
  <2> QED  BY <1>1, <2>2 DEF Quiet
<1> QED  BY <1>1, <1>2, <1>3, <1>4 DEF LineMoves

(* An agent's call. *)
LEMMA AgentMoves ==
    ASSUME BaseInv, EndInv, NEW j \in Agents, AgentStep(j) \/ SupervisorTakes(j)
    PROVE  TaskMoves(j)
<1>1. j \in Jobs /\ j \in Legs /\ Task(j) = j /\ j # Manual /\ LegsOf(j) = {j} /\ Manual \in Jobs
      /\ Callee \in LegsOf(Manual)
    BY LegNames
<1>2. run \in [Jobs -> Running \union {"none", "lost", "over"}]
    BY DEF BaseInv, TaskTyped
<1>3. Effect
    BY AgentEffect
<1>4. Elsewhere /\ UNCHANGED up
    BY DEF AgentStep, AgentRings, AgentHears, AgentGivesUp, ReportsUnanswered, AgentFinishes,
       AgentHangsUp, SupervisorTakes
<1>5. ASSUME run[j] \in Running, run'[j] \in Running \union {"over"},
             \A k \in Jobs \ {j} : run'[k] = run[k], run'[j] # "begin",
             run'[j] = "over" => Quiet(j)',
             \A q \in Legs : \/ rings'[q] = rings[q]
                             \/ q = j /\ run[j] = "begin" /\ rings'[q] = rings[q] + 1
      PROVE  TaskMoves(j)
  <2>1. ToRing(j)' = {} /\ (run[j] = "begin" => j \in ToRing(j))
      BY <1>1, <1>5 DEF ToRing
  <2>2. run'[Manual] = "drop" /\ up' = Op => run[Manual] = "drop" /\ Quiet(Callee)'
      BY <1>1, <1>3, <1>4, <1>5, QuietStays DEF EndInv
  <2> QED  BY <1>1, <1>4, <1>5, <2>1, <2>2 DEF TaskMoves
<1>6. CASE AgentRings(j)
  <2>1. run[j] = "begin" /\ UNCHANGED router
      BY <1>6 DEF AgentRings, At
  <2>2. PICK ok \in BOOLEAN : Originates(j, ok)
      BY <1>6 DEF AgentRings
  <2>3. \A q \in Legs : rings'[q] = rings[q] \/ (q = j /\ rings'[q] = rings[q] + 1)
      BY <1>1, <2>1, <2>2, Originated
  <2>4. \/ run' = [run EXCEPT ![j] = "ring"]
        \/ run' = [run EXCEPT ![j] = "unanswered"]
      BY <1>6 DEF AgentRings, Turns, Goes
  <2>5. /\ run'[j] \in {"ring", "unanswered"} /\ run'[j] # "begin" /\ run'[j] # "over"
        /\ \A k \in Jobs \ {j} : run'[k] = run[k]
      BY <1>1, <1>2, <2>4
  <2>6. run[j] \in Running /\ run'[j] \in Running
      BY <2>1, <2>5 DEF Running
  <2> QED  BY <1>5, <2>1, <2>3, <2>5, <2>6
<1>7. CASE AgentHears(j) \/ AgentGivesUp(j) \/ ReportsUnanswered(j) \/ AgentFinishes(j)
  <2>1. PICK step \in {"agent", "unanswered", "ring", "hangup"} :
            run' = [run EXCEPT ![j] = step]
      BY <1>7 DEF AgentHears, AgentGivesUp, ReportsUnanswered, AgentFinishes, Turns, Goes
  <2>2. run[j] \in {"ring", "unanswered", "agent"} /\ UNCHANGED rings
      BY <1>7 DEF AgentHears, AgentGivesUp, ReportsUnanswered, AgentFinishes, At
  <2>3. run'[j] = step /\ \A k \in Jobs \ {j} : run'[k] = run[k]
      BY <1>1, <1>2, <2>1
  <2>4. run[j] \in Running /\ step \in Running /\ step # "over" /\ step # "begin"
      BY <2>2 DEF Running
  <2> QED  BY <1>5, <2>2, <2>3, <2>4
<1>8. CASE SupervisorTakes(j)
  <2>1. run[j] = "agent" /\ UNCHANGED <<run, rings>>
      BY <1>8 DEF SupervisorTakes, At
  <2>2. run[j] \in Running /\ run[j] # "over" /\ run[j] # "begin"
      BY <2>1 DEF Running
  <2> QED  BY <1>5, <2>1, <2>2
<1>9. CASE AgentHangsUp(j)
  <2>1. run[j] = "hangup" /\ run' = [run EXCEPT ![j] = "over"] /\ UNCHANGED rings
      BY <1>9 DEF AgentHangsUp, At, Goes
  <2>2. run'[j] = "over" /\ \A k \in Jobs \ {j} : run'[k] = run[k]
      BY <1>1, <1>2, <2>1
  <2>3. Quiet(j)'
    <3>1. CASE Delete(j)
        BY <1>1, <3>1, Deletes
    <3>2. CASE kept' = kept \union {j}
        BY <3>2 DEF Quiet
    <3> QED  BY <1>9, <3>1, <3>2 DEF AgentHangsUp
  <2>4. run[j] \in Running
      BY <2>1 DEF Running
  <2> QED  BY <1>5, <2>1, <2>2, <2>3, <2>4
<1> QED  BY <1>6, <1>7, <1>8, <1>9 DEF AgentStep

(* The softphone call. *)
LEMMA ManualMoves ==
    ASSUME BaseInv, EndInv, ManualStep
    PROVE  TaskMoves(Manual)
<1>1. /\ Manual \in Jobs /\ Op \in Legs /\ Callee \in Legs /\ Op # Callee
      /\ LegsOf(Manual) = {Op, Callee} /\ Task(Op) = Manual /\ Task(Callee) = Manual
    BY LegNames
<1>2. run \in [Jobs -> Running \union {"none", "lost", "over"}] /\ up \in {Op, Callee}
    BY DEF BaseInv, TaskTyped
<1>3. Effect
    BY ManualEffect
<1>4. Elsewhere
    BY DEF ManualStep, Rings, HearsRinging, RingTimesOut, NoticeEnds, HearsDuringNotice,
       HearsUntilGone, Bridges, HearsTalk, TalkTimesOut, Drops
<1>5. ASSUME NEW step \in Running \ {"begin", "drop"}, run' = [run EXCEPT ![Manual] = step],
             run[Manual] \in Running, run[Manual] # "begin", step # "ring" \/ run[Manual] = "ring",
             UNCHANGED <<up, rings>>
      PROVE  TaskMoves(Manual)
  <2>1. run'[Manual] = step /\ \A k \in Jobs \ {Manual} : run'[k] = run[k]
      BY <1>1, <1>2, <1>5
  <2>2. ToRing(Manual)' \subseteq ToRing(Manual)
      BY <1>1, <1>5, <2>1 DEF ToRing
  <2>3. step # "over"
      BY <1>5 DEF Running
  <2> QED  BY <1>4, <1>5, <2>1, <2>2, <2>3 DEF TaskMoves
<1>6. ASSUME run' = [run EXCEPT ![Manual] = "drop"], up' = Callee, run[Manual] \in Running,
             \A q \in Legs : \/ rings'[q] = rings[q]
                             \/ q \in ToRing(Manual) /\ rings'[q] = rings[q] + 1
      PROVE  TaskMoves(Manual)
  <2>1. run'[Manual] = "drop" /\ \A k \in Jobs \ {Manual} : run'[k] = run[k]
      BY <1>1, <1>2, <1>6
  <2>2. ToRing(Manual)' = {}
      BY <2>1 DEF ToRing
  <2>3. "drop" \in Running
      BY DEF Running
  <2> QED  BY <1>1, <1>4, <1>6, <2>1, <2>2, <2>3 DEF TaskMoves
<1>7. CASE Rings
  <2>1. run[Manual] = "begin" /\ UNCHANGED router /\ run[Task(up)] = "begin"
      BY <1>1, <1>2, <1>7 DEF Rings, At
  <2>2. PICK ok \in BOOLEAN : Originates(up, ok)
      BY <1>7 DEF Rings
  <2>3. \A q \in Legs : rings'[q] = rings[q] \/ (q = up /\ rings'[q] = rings[q] + 1)
      BY <1>2, <2>1, <2>2, Originated
  <2>4. up \in ToRing(Manual) /\ Callee \in ToRing(Manual)
      BY <1>1, <1>2, <2>1 DEF ToRing
  <2>5. CASE run' = [run EXCEPT ![Manual] = "ring"] /\ up' = up
    <3>1. run'[Manual] = "ring" /\ \A k \in Jobs \ {Manual} : run'[k] = run[k]
        BY <1>1, <1>2, <2>5
    <3>2. ToRing(Manual)' \subseteq ToRing(Manual) /\ up \notin ToRing(Manual)'
        BY <1>1, <2>4, <2>5, <3>1 DEF ToRing
    <3>3. "begin" \in Running /\ "ring" \in Running
        BY DEF Running
    <3> QED  BY <1>4, <2>1, <2>3, <2>4, <3>1, <3>2, <3>3 DEF TaskMoves
  <2>6. CASE run' = [run EXCEPT ![Manual] = "drop"] /\ up' = Callee
    <3>1. run[Manual] \in Running
        BY <2>1 DEF Running
    <3> QED  BY <1>6, <2>3, <2>4, <2>6, <3>1
  <2> QED  BY <1>7, <2>5, <2>6 DEF Rings, ToDrop, Turns, Goes
<1>8. CASE RingTimesOut \/ TalkTimesOut
  <2>1. /\ run' = [run EXCEPT ![Manual] = "drop"] /\ up' = Callee /\ UNCHANGED rings
        /\ run[Manual] \in {"ring", "talk"}
      BY <1>8 DEF RingTimesOut, TalkTimesOut, ToDrop, Turns, Goes, At
  <2>2. run[Manual] \in Running
      BY <2>1 DEF Running
  <2> QED  BY <1>6, <2>1, <2>2
<1>9. CASE HearsRinging
  <2>1. run[Manual] = "ring" /\ UNCHANGED rings
      BY <1>9 DEF HearsRinging, At
  <2>2. {"ring", "consent"} \subseteq Running \ {"begin", "drop"}
      BY DEF Running
  <2>3. \/ run' = [run EXCEPT ![Manual] = "drop"] /\ up' = Callee
        \/ run' = [run EXCEPT ![Manual] = "begin"] /\ up = Op /\ up' = Callee
        \/ (\E step \in {"ring", "consent"} : run' = [run EXCEPT ![Manual] = step] /\ up' = up)
      BY <1>9 DEF HearsRinging, ToDrop, Keeps, Turns, Goes
  <2>4. CASE run' = [run EXCEPT ![Manual] = "drop"] /\ up' = Callee
      BY <1>6, <2>1, <2>2, <2>4
  <2>5. CASE run' = [run EXCEPT ![Manual] = "begin"] /\ up = Op /\ up' = Callee
    <3>1. run'[Manual] = "begin" /\ \A k \in Jobs \ {Manual} : run'[k] = run[k]
        BY <1>1, <1>2, <2>5
    <3>2. ToRing(Manual)' \subseteq ToRing(Manual)
        BY <1>1, <2>1, <2>5, <3>1 DEF ToRing
    <3>3. "begin" \in Running /\ "ring" \in Running
        BY DEF Running
    <3> QED  BY <1>4, <2>1, <3>1, <3>2, <3>3 DEF TaskMoves
  <2>6. ASSUME NEW step \in {"ring", "consent"}, run' = [run EXCEPT ![Manual] = step],
               up' = up
        PROVE  TaskMoves(Manual)
      BY <1>5, <2>1, <2>2, <2>6
  <2> QED  BY <2>3, <2>4, <2>5, <2>6
<1>10. CASE HearsDuringNotice \/ HearsTalk \/ NoticeEnds \/ Bridges
  <2>1. run[Manual] \in {"consent", "talk", "bridge"} /\ UNCHANGED rings
      BY <1>10 DEF HearsDuringNotice, HearsTalk, HearsUntilGone, NoticeEnds, Bridges, At
  <2>2. {"consent", "talk", "bridge"} \subseteq Running \ {"begin", "drop"}
      BY DEF Running
  <2>3. \/ run' = [run EXCEPT ![Manual] = "drop"] /\ up' = Callee
        \/ (\E step \in {"consent", "talk", "bridge"} :
                run' = [run EXCEPT ![Manual] = step] /\ up' = up)
      BY <1>10 DEF HearsDuringNotice, HearsTalk, HearsUntilGone, NoticeEnds, Bridges, ToDrop,
          Keeps, Turns, Goes
  <2>4. CASE run' = [run EXCEPT ![Manual] = "drop"] /\ up' = Callee
      BY <1>6, <2>1, <2>2, <2>4
  <2>5. ASSUME NEW step \in {"consent", "talk", "bridge"}, run' = [run EXCEPT ![Manual] = step],
               up' = up
        PROVE  TaskMoves(Manual)
      BY <1>5, <2>1, <2>2, <2>5
  <2> QED  BY <2>3, <2>4, <2>5
<1>11. CASE Drops
  <2>1. run[Manual] = "drop" /\ UNCHANGED rings /\ Delete(up)
      BY <1>11 DEF Drops, At
  <2>2. PICK p \in {Op, Callee} : p = up /\ p \in Legs
      BY <1>1, <1>2
  <2>3. Quiet(p)'
      BY <2>1, <2>2, Deletes
  <2>4. "drop" \in Running
      BY DEF Running
  <2>5. CASE up = Callee
    <3>1. up' = Op /\ run' = run
        BY <1>11, <2>5 DEF Drops
    <3>2. ToRing(Manual)' \subseteq ToRing(Manual)
        BY <2>1, <3>1 DEF ToRing
    <3>3. "drop" # "over" /\ Quiet(Callee)'
        BY <2>2, <2>5, <2>3
    <3> QED  BY <1>4, <2>1, <2>4, <3>1, <3>2, <3>3 DEF TaskMoves
  <2>6. CASE up = Op
    <3>1. up' = Op /\ run' = [run EXCEPT ![Manual] = "over"]
        BY <1>1, <1>11, <2>6 DEF Drops, Goes
    <3>2. run'[Manual] = "over" /\ \A k \in Jobs \ {Manual} : run'[k] = run[k]
        BY <1>1, <1>2, <3>1
    <3>3. ToRing(Manual)' = {}
        BY <3>2 DEF ToRing
    <3>4. Quiet(Callee)'
        BY <1>1, <1>3, <2>1, <2>6, QuietStays DEF EndInv
    <3> QED  BY <1>1, <1>4, <2>1, <2>2, <2>4, <2>6, <2>3, <3>1, <3>2, <3>3, <3>4 DEF TaskMoves
  <2> QED  BY <1>2, <2>5, <2>6
<1> QED  BY <1>7, <1>8, <1>9, <1>10, <1>11 DEF ManualStep

-----------------------------------------------------------------------------
(* Rings and ends *)

Calm == UNCHANGED <<workerVars, kind, door, run, up, rings>>

(* A step is one of a task, of the door, of the worker, or none of theirs. *)
LEMMA Sorted ==
    ASSUME BaseInv, EndInv, [Next]_vars
    PROVE  \/ \E j \in Jobs : TaskMoves(j)
           \/ \E j \in Agents : Asks(j) \/ ReadsLog(j) \/ Refuses(j) \/ Records(j)
           \/ PlacesCall \/ WorkerStep \/ WorkerDies
           \/ Calm
<1>1. ASSUME NEW j \in Agents, AgentStep(j) \/ SupervisorTakes(j)
      PROVE  \E k \in Jobs : TaskMoves(k)
    BY <1>1, AgentMoves, LegNames
<1>2. ASSUME ManualStep
      PROVE  \E k \in Jobs : TaskMoves(k)
    BY <1>2, ManualMoves, LegNames
<1>3. ASSUME \/ CallerRings \/ FlowAnswers \/ FlowDials
             \/ \E p \in Legs : Picks(p) \/ Enters(p) \/ PartyLeaves(p)
      PROVE  Calm
  <2>1. UNCHANGED <<run, up, rings>>
      BY <1>3, PeopleEffect
  <2>2. UNCHANGED <<workerVars, doorVars, setup>>
      BY <1>3 DEF CallerRings, FlowAnswers, FlowDials, Picks, Enters, PartyLeaves, Others
  <2> QED  BY <2>1, <2>2 DEF Calm, doorVars, setup
<1>4. ASSUME UNCHANGED vars
      PROVE  Calm
    BY <1>4 DEF vars, Calm, doorVars, setup, task
<1> QED  BY <1>1, <1>2, <1>3, <1>4 DEF Next, World, DoorStep

(* Which calls there are. *)
LEMMA CallsKept == BaseInv /\ CallsInv /\ EndInv /\ [Next]_vars => CallsInv'
<1> SUFFICES ASSUME BaseInv, CallsInv, EndInv, [Next]_vars PROVE CallsInv'
    OBVIOUS
<1>1. /\ phase \in [Jobs -> Phases] /\ cur \in Jobs \union {NoJob} /\ WorkerInv
      /\ run \in [Jobs -> Running \union {"none", "lost", "over"}]
      /\ door \in [Agents -> {"none", "asked", "read", "placed", "refused"}]
    BY DEF BaseInv, WorkerInv, TaskTyped, DoorTyped
<1>2. Manual \in Jobs /\ Manual \notin Agents /\ Agents \subseteq Jobs
    BY LegNames
<1>3. ASSUME NEW j \in Jobs, TaskMoves(j)
      PROVE  CallsInv'
  <2>1. UNCHANGED <<phase, cur, kind, door>>
      BY <1>3 DEF TaskMoves, Elsewhere, workerVars, doorVars, setup
  <2>2. \A k \in Jobs : run'[k] # "none" => run[k] # "none"
      BY <1>3 DEF TaskMoves, Running
  <2> QED  BY <2>1, <2>2 DEF CallsInv
<1>4. ASSUME NEW j \in Agents, Asks(j) \/ ReadsLog(j) \/ Refuses(j)
      PROVE  CallsInv'
  <2>1. UNCHANGED <<phase, cur, kind, run>>
      BY <1>4 DEF Asks, ReadsLog, Refuses, workerVars, setup, task
  <2>2. \A k \in Agents : door'[k] # "none" => door[k] # "none" \/ kind \in {"door", "agent"}
      BY <1>1, <1>4 DEF Asks, ReadsLog, Refuses, Decides
  <2> QED  BY <2>1, <2>2 DEF CallsInv
<1>5. ASSUME NEW j \in Agents, Records(j)
      PROVE  CallsInv'
  <2>1. phase[j] = "absent" /\ phase' = [phase EXCEPT ![j] = "pending"] /\ UNCHANGED cur
      BY <1>1, <1>2, <1>5, Submits DEF Records
  <2>2. UNCHANGED <<kind, run>> /\ door[j] = "read" /\ door' = [door EXCEPT ![j] = "placed"]
      BY <1>5 DEF Records, Decides, setup, task
  <2>3. /\ phase'[j] = "pending" /\ \A k \in Jobs \ {j} : phase'[k] = phase[k]
        /\ \A k \in Agents \ {j} : door'[k] = door[k]
      BY <1>1, <1>2, <2>1, <2>2
  <2>4. kind \in {"door", "agent"} /\ phase'[Manual] = phase[Manual]
      BY <1>2, <2>2, <2>3 DEF CallsInv
  <2> QED  BY <1>1, <1>2, <2>1, <2>2, <2>3, <2>4 DEF CallsInv
<1>6. CASE PlacesCall
  <2>1. /\ phase[Manual] = "absent" /\ phase' = [phase EXCEPT ![Manual] = "pending"]
        /\ UNCHANGED cur
      BY <1>1, <1>2, <1>6, Submits DEF PlacesCall
  <2>2. UNCHANGED <<kind, run, door>> /\ kind = "manual"
      BY <1>6 DEF PlacesCall, setup, task, doorVars
  <2>3. /\ phase'[Manual] = "pending" /\ \A k \in Jobs \ {Manual} : phase'[k] = phase[k]
      BY <1>1, <1>2, <2>1
  <2> QED  BY <1>1, <1>2, <2>1, <2>2, <2>3 DEF CallsInv
<1>7. ASSUME NEW j \in Jobs, Claims(j)
      PROVE  CallsInv'
    BY <1>7 DEF Claims, ClaimFor, tableVars, setup, task, doorVars, CallsInv
<1>8. CASE StartsTask
  <2>1. cur \in Jobs /\ cur # NoJob
      BY <1>8 DEF StartsTask, BaseInv, WorkerInv
  <2>2. run' = [run EXCEPT ![cur] = "begin"] /\ UNCHANGED <<phase, cur, kind, door>>
      BY <1>8 DEF StartsTask, Advance, tableVars, doorVars, setup
  <2>3. phase[cur] = "pending" /\ \A k \in Jobs \ {cur} : run'[k] = run[k]
      BY <1>1, <2>1, <2>2 DEF CallsInv
  <2> QED  BY <2>2, <2>3 DEF CallsInv
<1>9. CASE Completes
  <2>1. Busy
      BY <1>1, <1>9 DEF Completes, WorkerInv, Busy
  <2>2. /\ cur' = NoJob /\ phase[cur] # "absent"
        /\ \A k \in Jobs \ {cur} : phase'[k] = phase[k]
      BY <1>1, <1>9, <2>1, Concludes DEF Completes, Undecided
  <2>3. phase'[cur] # "absent"
      BY <1>1, <1>9, <2>1, Concludes DEF Completes
  <2>4. \A k \in Jobs : (phase'[k] # "absent") = (phase[k] # "absent")
      BY <2>2, <2>3
  <2>5. UNCHANGED <<kind, run, door>>
      BY <1>9 DEF Completes, setup, task, doorVars
  <2> QED  BY <1>2, <2>2, <2>4, <2>5 DEF CallsInv
<1>10. CASE WorkerDies
  <2>1. cur' = NoJob /\ UNCHANGED <<phase, kind, door>>
      BY <1>10 DEF WorkerDies, Died, tableVars, doorVars, setup
  <2>2. \A k \in Jobs : run'[k] # "none" => run[k] # "none"
      BY <1>10 DEF WorkerDies, Running
  <2> QED  BY <2>1, <2>2 DEF CallsInv
<1>11. CASE WorkerReturns
    BY <1>11 DEF WorkerReturns, Restarted, tableVars, doorVars, setup, task, CallsInv
<1>12. CASE Calm
    BY <1>12 DEF Calm, workerVars, CallsInv
<1> QED  BY <1>3, <1>4, <1>5, <1>6, <1>7, <1>8, <1>9, <1>10, <1>11, <1>12, Sorted DEF WorkerStep

(* A leg is rung once for each start of its call's task, and a second start takes
   a death. *)
LEMMA RingKept == BaseInv /\ CallsInv /\ RingInv /\ EndInv /\ [Next]_vars => RingInv'
<1> SUFFICES ASSUME BaseInv, CallsInv, RingInv, EndInv, [Next]_vars PROVE RingInv'
    OBVIOUS
<1>1. /\ phase \in [Jobs -> Phases] /\ cur \in Jobs \union {NoJob} /\ WorkerInv
      /\ (cur = NoJob) = (at \in {"idle", "down"})
      /\ run \in [Jobs -> Running \union {"none", "lost", "over"}]
      /\ rings \in [Legs -> Nat] /\ crashes \in Nat
    BY WorkerAssumption DEF BaseInv, WorkerInv, TaskTyped
<1>2. /\ Manual \in Jobs /\ Manual \notin Agents /\ Agents \subseteq Jobs
      /\ NoJob \notin Jobs
      /\ \A j \in Jobs : /\ LegsOf(j) \subseteq Legs /\ ToRing(j) \subseteq LegsOf(j)
                         /\ \A k \in Jobs \ {j} : LegsOf(k) \intersect ToRing(j) = {}
  <2>1. /\ Manual \in Jobs /\ Manual \notin Agents /\ Agents \subseteq Jobs
        /\ NoJob \notin Jobs
      BY LegNames, WorkerAssumption
  <2>2. ASSUME NEW j \in Jobs
        PROVE  LegsOf(j) \subseteq Legs /\ ToRing(j) \subseteq LegsOf(j)
      BY LegNames DEF ToRing
  <2>3. ASSUME NEW j \in Jobs, NEW k \in Jobs \ {j}
        PROVE  LegsOf(k) \intersect ToRing(j) = {}
      BY <2>2, LegNames
  <2> QED  BY <2>1, <2>2, <2>3
<1>3. ASSUME UNCHANGED <<run, up, rings, crashes>>,
             \A j \in Jobs : Unstarted(j)' => Unstarted(j)
      PROVE  RingInv'
    BY <1>3 DEF RingInv, ToRing, LegsOf
<1>4. ASSUME NEW j \in Jobs, TaskMoves(j)
      PROVE  RingInv'
  <2>1. UNCHANGED <<phase, cur, at, crashes>>
      BY <1>4 DEF TaskMoves, Elsewhere, workerVars
  <2>2. \A k \in Jobs : Unstarted(k)' = Unstarted(k)
      BY <2>1 DEF Unstarted
  <2>3. ~Unstarted(j)
      BY <1>4 DEF TaskMoves, RingInv
  <2>4. ASSUME NEW k \in Jobs
        PROVE  /\ Unstarted(k)' => run'[k] \notin Running
               /\ \A p \in LegsOf(k) :
                     /\ rings'[p] <= crashes' + 1
                     /\ Unstarted(k)' \/ p \in ToRing(k)' => rings'[p] <= crashes'
    <3>1. CASE k = j
      <4>1. ASSUME NEW p \in LegsOf(j)
            PROVE  /\ rings'[p] <= crashes + 1
                   /\ p \in ToRing(j)' => rings'[p] <= crashes
        <5>1. rings[p] \in Nat /\ rings[p] <= crashes + 1 /\ ToRing(j)' \subseteq ToRing(j)
              /\ (p \in ToRing(j) => rings[p] <= crashes)
            BY <1>1, <1>2, <1>4 DEF RingInv, TaskMoves
        <5>2. CASE rings'[p] = rings[p]
            BY <5>1, <5>2
        <5>3. CASE p \in ToRing(j) \ ToRing(j)' /\ rings'[p] = rings[p] + 1
            BY <1>1, <5>1, <5>3
        <5> QED  BY <1>2, <1>4, <5>2, <5>3 DEF TaskMoves
      <4> QED  BY <2>1, <2>2, <2>3, <3>1, <4>1
    <3>2. CASE k # j
      <4>1. run'[k] = run[k] /\ \A p \in LegsOf(k) : rings'[p] = rings[p]
          BY <1>2, <1>4, <3>2 DEF TaskMoves
      <4>2. ToRing(k)' \subseteq ToRing(k)
        <5>1. CASE k # Manual
            BY <4>1, <5>1 DEF ToRing
        <5>2. CASE k = Manual
            BY <1>4, <3>2, <4>1, <5>2 DEF ToRing, TaskMoves
        <5> QED  BY <5>1, <5>2
      <4> QED  BY <2>1, <2>2, <4>1, <4>2 DEF RingInv
    <3> QED  BY <3>1, <3>2
  <2>5. \A k \in Jobs : LegsOf(k)' = LegsOf(k)
      BY DEF LegsOf
  <2> QED  BY <2>4, <2>5 DEF RingInv
<1>5. ASSUME NEW j \in Agents, Asks(j) \/ ReadsLog(j) \/ Refuses(j)
      PROVE  RingInv'
    BY <1>3, <1>5 DEF Asks, ReadsLog, Refuses, workerVars, task, Unstarted
<1>6. ASSUME NEW j \in Jobs, Submit(j), UNCHANGED <<run, up, rings>>
      PROVE  RingInv'
  <2>1. /\ phase[j] = "absent" /\ phase' = [phase EXCEPT ![j] = "pending"]
        /\ UNCHANGED <<cur, at, crashes>>
      BY <1>1, <1>6, Submits
  <2>2. \A k \in Jobs : Unstarted(k)' => Unstarted(k)
      BY <1>1, <2>1 DEF Unstarted, Waiting, CallsInv
  <2> QED  BY <1>3, <1>6, <2>1, <2>2
<1>7. ASSUME NEW j \in Jobs, Claims(j)
      PROVE  RingInv'
    BY <1>1, <1>3, <1>7 DEF Claims, ClaimFor, tableVars, task, Unstarted
<1>8. CASE StartsTask
  <2>1. cur \in Jobs /\ cur # NoJob /\ at = "spawn" /\ phase[cur] = "pending"
      BY <1>1, <1>8 DEF StartsTask, CallsInv
  <2>2. /\ run' = [run EXCEPT ![cur] = "begin"] /\ up' = Op /\ at' = "complete"
        /\ UNCHANGED <<phase, cur, crashes, rings>>
      BY <1>8 DEF StartsTask, Advance, tableVars
  <2>3. ~Unstarted(cur)' /\ Unstarted(cur)
      BY <2>1, <2>2 DEF Unstarted, Waiting
  <2>4. run'[cur] = "begin" /\ \A k \in Jobs \ {cur} : run'[k] = run[k]
      BY <1>1, <2>1, <2>2
  <2>5. \A p \in LegsOf(cur) : rings[p] <= crashes
      BY <2>1, <2>3 DEF RingInv
  <2>6. ASSUME NEW k \in Jobs \ {cur}
        PROVE  (Unstarted(k)' => Unstarted(k)) /\ ToRing(k)' \subseteq ToRing(k)
    <3>1. Unstarted(k)' => Unstarted(k)
        BY <2>1, <2>2 DEF Unstarted
    <3>2. CASE k # Manual
        BY <2>4, <3>1, <3>2 DEF ToRing
    <3>3. CASE k = Manual
      <4>1. phase[Manual] = "absent"
          BY <1>2, <2>1, <3>3, LegNames DEF CallsInv
      <4>2. run'[Manual] = "none"
          BY <1>2, <2>4, <3>3, <4>1 DEF CallsInv
      <4> QED  BY <3>1, <3>3, <4>2 DEF ToRing
    <3> QED  BY <3>2, <3>3
  <2>7. ASSUME NEW k \in Jobs
        PROVE  /\ Unstarted(k)' => run'[k] \notin Running
               /\ \A p \in LegsOf(k) :
                     /\ rings'[p] <= crashes' + 1
                     /\ Unstarted(k)' \/ p \in ToRing(k)' => rings'[p] <= crashes'
    <3>1. CASE k = cur
        BY <2>2, <2>3, <2>5, <3>1 DEF RingInv
    <3>2. CASE k # cur
        BY <2>2, <2>4, <2>6, <3>2 DEF RingInv
    <3> QED  BY <3>1, <3>2
  <2>8. \A k \in Jobs : LegsOf(k)' = LegsOf(k)
      BY DEF LegsOf
  <2> QED  BY <2>7, <2>8 DEF RingInv
<1>9. CASE Completes
  <2>1. Busy /\ cur \in Jobs
      BY <1>1, <1>9 DEF Completes, Busy
  <2>2. phase' = [phase EXCEPT ![cur] = "done"] /\ crashes' = crashes /\ at = "complete"
        /\ at' = "idle"
      BY <1>9 DEF Completes, Completed, Q!Verdict, Idle
  <2>3. \A k \in Jobs : Unstarted(k)' => Unstarted(k)
      BY <1>1, <2>1, <2>2 DEF Unstarted, Waiting
  <2> QED  BY <1>3, <1>9, <2>2, <2>3 DEF Completes, task
<1>10. CASE WorkerDies
  <2>1. crashes' = crashes + 1 /\ UNCHANGED rings
      BY <1>10 DEF WorkerDies, Died
  <2>2. \A k \in Jobs : run'[k] \notin Running
      BY <1>10 DEF WorkerDies, Running
  <2>3. \A k \in Jobs : \A p \in LegsOf(k) : rings'[p] <= crashes' /\ rings'[p] <= crashes' + 1
      BY <1>1, <1>2, <2>1 DEF RingInv
  <2>4. \A k \in Jobs : LegsOf(k)' = LegsOf(k)
      BY DEF LegsOf
  <2> QED  BY <2>2, <2>3, <2>4 DEF RingInv
<1>11. CASE WorkerReturns
    BY <1>1, <1>3, <1>11 DEF WorkerReturns, Restarted, tableVars, task, Unstarted
<1>12. CASE Calm
    BY <1>3, <1>12 DEF Calm, workerVars, Unstarted
<1>13. ASSUME NEW j \in Agents, Records(j)
       PROVE  RingInv'
    BY <1>2, <1>6, <1>13 DEF Records, task
<1>14. CASE PlacesCall
    BY <1>2, <1>6, <1>14 DEF PlacesCall, task
<1> QED  BY <1>4, <1>5, <1>7, <1>8, <1>9, <1>10, <1>11, <1>12, <1>13, <1>14, Sorted
         DEF WorkerStep

(* A call that is over leaves nobody on the line. *)
LEMMA EndKept == BaseInv /\ CallsInv /\ EndInv /\ [Next]_vars => EndInv'
<1> SUFFICES ASSUME BaseInv, CallsInv, EndInv, [Next]_vars PROVE EndInv'
    OBVIOUS
<1>1. /\ run \in [Jobs -> Running \union {"none", "lost", "over"}]
      /\ Manual \in Jobs /\ Callee \in LegsOf(Manual)
      /\ \A k \in Jobs : LegsOf(k)' = LegsOf(k)
    BY LegNames DEF BaseInv, TaskTyped, LegsOf
<1>2. ASSUME NEW j \in Jobs, NEW p \in LegsOf(j), Quiet(p), run[j] # "begin"
      PROVE  Quiet(p)'
    BY <1>2, QuietStays, StepEffect
<1>3. ASSUME \A j \in Jobs : run'[j] = "over" => run[j] = "over",
             run'[Manual] = "drop" /\ up' = Op => run[Manual] = "drop" /\ up = Op
      PROVE  EndInv'
  <2>1. \A j \in Jobs : run'[j] = "over" => \A p \in LegsOf(j) : Quiet(p)'
      BY <1>2, <1>3 DEF EndInv
  <2>2. run'[Manual] = "drop" /\ up' = Op => Quiet(Callee)'
      BY <1>1, <1>2, <1>3 DEF EndInv
  <2> QED  BY <1>1, <2>1, <2>2 DEF EndInv
<1>4. ASSUME NEW j \in Jobs, TaskMoves(j)
      PROVE  EndInv'
  <2>1. ASSUME NEW k \in Jobs, run'[k] = "over"
        PROVE  \A p \in LegsOf(k) : Quiet(p)'
    <3>1. CASE k = j
        BY <1>4, <2>1, <3>1 DEF TaskMoves
    <3>2. CASE k # j
      <4>1. run[k] = "over"
          BY <1>4, <2>1, <3>2 DEF TaskMoves
      <4> QED  BY <1>2, <4>1 DEF EndInv
    <3> QED  BY <3>1, <3>2
  <2>2. run'[Manual] = "drop" /\ up' = Op => Quiet(Callee)'
      BY <1>4 DEF TaskMoves
  <2> QED  BY <1>1, <2>1, <2>2 DEF EndInv
<1>5. CASE Calm
    BY <1>3, <1>5 DEF Calm
<1>6. ASSUME NEW j \in Agents, Asks(j) \/ ReadsLog(j) \/ Refuses(j) \/ Records(j)
      PROVE  EndInv'
    BY <1>3, <1>6 DEF Asks, ReadsLog, Refuses, Records, task
<1>7. CASE PlacesCall
    BY <1>3, <1>7 DEF PlacesCall, task
<1>8. ASSUME (\E j \in Jobs : Claims(j)) \/ Completes \/ WorkerReturns
      PROVE  EndInv'
    BY <1>3, <1>8 DEF Claims, Completes, WorkerReturns, task
<1>9. CASE StartsTask
  <2>1. cur \in Jobs /\ cur # NoJob /\ phase[cur] = "pending"
      BY <1>9 DEF StartsTask, BaseInv, WorkerInv, CallsInv
  <2>2. run' = [run EXCEPT ![cur] = "begin"]
      BY <1>9 DEF StartsTask
  <2>3. \A j \in Jobs : run'[j] = "over" => run[j] = "over"
      BY <1>1, <2>1, <2>2
  <2>4. run'[Manual] # "drop"
    <3>1. CASE cur = Manual
        BY <1>1, <2>1, <2>2, <3>1
    <3>2. CASE cur # Manual
      <4>1. phase[Manual] = "absent"
          BY <2>1, <3>2, LegNames DEF CallsInv
      <4> QED  BY <1>1, <2>2, <3>2, <4>1 DEF CallsInv
    <3> QED  BY <3>1, <3>2
  <2> QED  BY <1>3, <2>3, <2>4
<1>10. CASE WorkerDies
  <2>1. \A j \in Jobs : run'[j] \in {"lost", run[j]} /\ run'[j] \notin Running
      BY <1>10 DEF WorkerDies, Running
  <2>2. "drop" \in Running
      BY DEF Running
  <2> QED  BY <1>1, <1>3, <2>1, <2>2
<1> QED  BY <1>4, <1>5, <1>6, <1>7, <1>8, <1>9, <1>10, Sorted DEF WorkerStep

-----------------------------------------------------------------------------
(* The router *)

(* What a channel's event leaves in the router, whether it is heard or not. *)
LEMMA EventTaken ==
    ASSUME BaseInv, NEW p \in Legs, NEW what \in {"stasis", "up", "gone"}, Raises(p, what)
    PROVE  \/ /\ Routed(p, what) /\ seen' = seen \union {<<p, what>>} /\ missed' = missed
              /\ flows' = IF StartsFlow(p, what) THEN flows \union {p} ELSE flows
              /\ \A q \in Legs \ {p} : row'[q] = row[q]
              /\ row'[p] \in 0..4 /\ (row[p] = 4 \/ what = "gone" => row'[p] = 4)
           \/ /\ Routed(p, what) /\ seen' = seen \union {<<p, what>>}
              /\ missed' = missed \union {p} /\ UNCHANGED <<row, flows>>
           \/ ~Routed(p, what) /\ UNCHANGED <<seen, row, flows, missed>>
           \/ missed' = missed \union {p} /\ UNCHANGED <<seen, row, flows>>
<1>1. row \in [Legs -> 0..4]
    BY DEF BaseInv, RouterTypeOK
<1>2. Routed(p, what) => linkedid(p) = p
    BY DEF Routed, is_entry_channel
<1>3. CASE Unheard(p)
    BY <1>3 DEF Unheard
<1>4. CASE Route(p, what)
  <2>1. CASE ~Routed(p, what)
      BY <1>4, <2>1 DEF Route, router
  <2>2. CASE Routed(p, what) /\ Files(p, what)
    <3>1. /\ seen' = seen \union {<<p, what>>} /\ missed' = missed
          /\ row' = [row EXCEPT ![p] = IF row[p] < Rank(what) THEN Rank(what) ELSE row[p]]
          /\ flows' = IF StartsFlow(p, what) THEN flows \union {p} ELSE flows
        BY <1>2, <1>4, <2>2 DEF Route, Files
    <3>2. Rank(what) \in 0..4 /\ (what = "gone" => Rank(what) = 4)
        BY DEF Rank
    <3>3. row[p] \in 0..4
        BY <1>1
    <3>4. /\ \A q \in Legs \ {p} : row'[q] = row[q]
          /\ row'[p] = IF row[p] < Rank(what) THEN Rank(what) ELSE row[p]
        BY <1>1, <3>1
    <3>5. row'[p] \in 0..4 /\ (row[p] = 4 \/ what = "gone" => row'[p] = 4)
        BY <3>2, <3>3, <3>4
    <3> QED  BY <2>2, <3>1, <3>4, <3>5
  <2>3. CASE Routed(p, what) /\ FailsToFile(p)
      BY <1>2, <1>4, <2>3 DEF Route, FailsToFile
  <2> QED  BY <1>4, <2>1, <2>2, <2>3 DEF Route
<1> QED  BY <1>3, <1>4 DEF Raises

(* What each event says of itself does not change. *)
LEMMA NamesStay ==
    ASSUME channelvars' = channelvars
    PROVE  \A p \in Legs : is_entry_channel(p)' = is_entry_channel(p)
<1> QED  BY DEF is_entry_channel, linkedid

(* A channel moves: it keeps the router right. *)
LEMMA MoveKeepsRoutes ==
    ASSUME BaseInv, RouteInv, NEW p \in Legs, NEW what \in {"stasis", "up", "gone"},
           NEW state \in {"gone"} \union Live, Moves(p, what, state), channelvars' = channelvars
    PROVE  RouteInv'
<1>1. /\ line \in [Legs -> {"none", "gone"} \union Live] /\ row \in [Legs -> 0..4]
      /\ flows \in SUBSET {Caller, Op, Callee} /\ missed \in SUBSET Legs
      /\ channelvars \in BOOLEAN
    BY DEF BaseInv, RouterTypeOK, RouteInv, FlowsAreCallers
<1>2. /\ line' = [line EXCEPT ![p] = state] /\ Raises(p, what)
      /\ state = "gone" => what = "gone"
      /\ p = Caller /\ line[p] = "none" => what = "stasis"
    BY DEF Moves
<1>3. line'[p] = state /\ state # "none" /\ \A q \in Legs \ {p} : line'[q] = line[q]
    BY <1>1, <1>2 DEF Live
<1>4. /\ Caller \in Legs /\ Dialled \in Legs /\ Callee \in Legs /\ Op \in Legs
      /\ Caller # Dialled /\ Caller # Callee /\ Dialled # Callee
    BY LegNames, LegsAssumption
<1>5. is_entry_channel(Caller)
    BY <1>4 DEF is_entry_channel, linkedid
<1>6. channelvars => ~is_entry_channel(Callee)
    BY LegsAssumption DEF is_entry_channel, linkedid
<1>7. \A q \in Legs : is_entry_channel(q)' = is_entry_channel(q)
    BY NamesStay
<1>8. Routed(p, what) => is_entry_channel(p) /\ p # Dialled /\ <<p, what>> \notin seen
    BY DEF Routed, is_flow_dial_leg, is_entry_channel
<1>9. Routed(Caller, "stasis") <=> <<Caller, "stasis">> \notin seen
    BY <1>4, <1>5 DEF Routed, is_flow_dial_leg, is_entry_channel
<1>10. StartsFlow(p, what) =>
           /\ p \in {Caller, Op, Callee} /\ (channelvars => p = Caller)
    BY DEF StartsFlow, is_flow_dial_leg, is_agent_outbound_leg, is_outbound_leg, Legs
<1>11. StartsFlow(Caller, "stasis")
    BY <1>4, <1>5, LegsAssumption DEF StartsFlow, is_flow_dial_leg, is_agent_outbound_leg,
       is_outbound_leg
<1>12. line[Caller] = "none" => <<Caller, "stasis">> \notin seen
    BY <1>4 DEF RouteInv
<1>13. \/ /\ Routed(p, what) /\ seen' = seen \union {<<p, what>>} /\ missed' = missed
          /\ flows' = IF StartsFlow(p, what) THEN flows \union {p} ELSE flows
          /\ \A q \in Legs \ {p} : row'[q] = row[q]
          /\ row'[p] \in 0..4 /\ (row[p] = 4 \/ what = "gone" => row'[p] = 4)
       \/ /\ Routed(p, what) /\ seen' = seen \union {<<p, what>>}
          /\ missed' = missed \union {p} /\ UNCHANGED <<row, flows>>
       \/ ~Routed(p, what) /\ UNCHANGED <<seen, row, flows, missed>>
       \/ missed' = missed \union {p} /\ UNCHANGED <<seen, row, flows>>
    BY <1>2, EventTaken
<1>14. missed \subseteq missed' /\ flows \subseteq flows'
    BY <1>13
<1>15. \A q \in Legs : row[q] = 4 => row'[q] = 4
    BY <1>13
<1>16. \A q \in Legs, w \in {"stasis", "up", "gone"} :
           <<q, w>> \in seen' => line'[q] # "none" /\ is_entry_channel(q)' /\ q # Dialled
  <2>1. ASSUME NEW q \in Legs, NEW w \in {"stasis", "up", "gone"}, <<q, w>> \in seen'
        PROVE  line'[q] # "none" /\ is_entry_channel(q)' /\ q # Dialled
    <3>1. CASE <<q, w>> \in seen
        BY <1>3, <1>7, <3>1 DEF RouteInv
    <3>2. CASE <<q, w>> = <<p, what>> /\ Routed(p, what)
        BY <1>3, <1>7, <1>8, <3>2
    <3> QED  BY <1>13, <2>1, <3>1, <3>2
  <2> QED  BY <2>1
<1>17. \A q \in Legs : <<q, "gone">> \in seen' => row'[q] = 4 \/ q \in missed'
  <2>1. ASSUME NEW q \in Legs, <<q, "gone">> \in seen'
        PROVE  row'[q] = 4 \/ q \in missed'
    <3>1. CASE <<q, "gone">> \in seen
        BY <1>14, <1>15, <3>1 DEF RouteInv
    <3>2. CASE <<q, "gone">> = <<p, what>> /\ <<q, "gone">> \notin seen
      <4>1. q = p /\ what = "gone"
          BY <3>2
      <4> QED  BY <1>13, <2>1, <3>2, <4>1
    <3> QED  BY <1>13, <2>1, <3>1, <3>2
  <2> QED  BY <2>1
<1>18. FlowsAreCallers'
  <2>1. flows' \subseteq {Caller, Op, Callee} /\ (channelvars => flows' \subseteq {Caller})
    <3>1. channelvars => flows \subseteq {Caller}
        BY DEF RouteInv, FlowsAreCallers
    <3> QED  BY <1>1, <1>10, <1>13, <3>1
  <2>2. ASSUME line'[Caller] # "none", Caller \notin missed'
        PROVE  Caller \in flows'
    <3>1. CASE line[Caller] # "none"
        BY <1>14, <2>2, <3>1 DEF RouteInv, FlowsAreCallers
    <3>2. CASE line[Caller] = "none"
      <4>1. p = Caller /\ what = "stasis"
          BY <1>2, <1>3, <1>4, <2>2, <3>2
      <4>2. Routed(p, what) /\ StartsFlow(p, what)
          BY <1>9, <1>11, <1>12, <3>2, <4>1
      <4> QED  BY <1>13, <2>2, <4>1, <4>2
    <3> QED  BY <3>1, <3>2
  <2> QED  BY <2>1, <2>2 DEF FlowsAreCallers
<1>19. FiledAsOne'
  <2>1. row[Dialled] = 0 /\ (channelvars => row[Callee] = 0)
      BY DEF RouteInv, FiledAsOne
  <2>2. row'[Dialled] = 0
      BY <1>4, <1>8, <1>13, <2>1
  <2>3. channelvars => row'[Callee] = 0
      BY <1>4, <1>6, <1>8, <1>13, <2>1
  <2>4. ASSUME NEW q \in Legs, line'[q] = "gone", is_entry_channel(q), q # Dialled,
               q \notin missed'
        PROVE  row'[q] = 4
    <3>1. CASE q # p
      <4>1. line[q] = "gone" /\ q \notin missed
          BY <1>3, <1>14, <2>4, <3>1
      <4>2. row[q] = 4
          BY <2>4, <4>1 DEF RouteInv, FiledAsOne
      <4> QED  BY <1>15, <4>2
    <3>2. CASE q = p
      <4>1. what = "gone"
          BY <1>2, <1>3, <2>4, <3>2
      <4>2. CASE Routed(p, what)
          BY <1>13, <2>4, <3>2, <4>1, <4>2
      <4>3. CASE ~Routed(p, what)
        <5>1. <<p, "gone">> \in seen
            BY <2>4, <3>2, <4>1, <4>3 DEF Routed, is_entry_channel, is_flow_dial_leg
        <5> QED  BY <1>14, <1>15, <2>4, <3>2, <5>1 DEF RouteInv
      <4> QED  BY <4>2, <4>3
    <3> QED  BY <3>1, <3>2
  <2> QED  BY <1>7, <2>2, <2>3, <2>4 DEF FiledAsOne
<1> QED  BY <1>16, <1>17, <1>18, <1>19 DEF RouteInv

(* The router is right whatever happens. *)
LEMMA RouteKept == BaseInv /\ RouteInv /\ Effect => RouteInv'
<1> SUFFICES ASSUME BaseInv, RouteInv, Effect PROVE RouteInv'
    OBVIOUS
<1>1. channelvars' = channelvars /\ LineMoves
    BY DEF Effect
<1>2. \A q \in Legs : is_entry_channel(q)' = is_entry_channel(q)
    BY <1>1, NamesStay
<1>3. line \in [Legs -> {"none", "gone"} \union Live]
    BY DEF BaseInv, RouterTypeOK
<1>4. CASE UNCHANGED <<line, router>>
    BY <1>1, <1>2, <1>4 DEF RouteInv, FlowsAreCallers, FiledAsOne, router
<1>5. CASE UNCHANGED line /\ RouterForgets
    BY <1>1, <1>2, <1>5 DEF RouteInv, FlowsAreCallers, FiledAsOne, RouterForgets
<1>6. ASSUME NEW p \in Legs, Dials(p)
      PROVE  RouteInv'
  <2>1. /\ UNCHANGED <<seen, row, flows, missed>> /\ p # Caller
        /\ line'[p] = "ringing" /\ \A q \in Legs \ {p} : line'[q] = line[q]
      BY <1>3, <1>6 DEF Dials, router
  <2>2. FlowsAreCallers'
      BY <1>1, <2>1, LegNames DEF RouteInv, FlowsAreCallers
  <2>3. FiledAsOne'
      BY <1>1, <1>2, <2>1 DEF RouteInv, FiledAsOne
  <2>4. \A q \in Legs, w \in {"stasis", "up", "gone"} :
            <<q, w>> \in seen' => line'[q] # "none" /\ is_entry_channel(q)' /\ q # Dialled
      BY <1>2, <2>1 DEF RouteInv
  <2> QED  BY <2>1, <2>2, <2>3, <2>4 DEF RouteInv
<1>7. ASSUME NEW p \in Legs, NEW what \in {"stasis", "up", "gone"},
             NEW state \in {"gone"} \union Live, Moves(p, what, state)
      PROVE  RouteInv'
    BY <1>1, <1>7, MoveKeepsRoutes
<1> QED  BY <1>1, <1>4, <1>5, <1>6, <1>7 DEF LineMoves

-----------------------------------------------------------------------------
(* The theorems *)

(* It holds at the start. *)
LEMMA Starts == Init => IInv
<1> SUFFICES ASSUME Init PROVE IInv
    OBVIOUS
<1>1. WorkerInv
    BY WorkerStarts DEF Init
<1>2. RouterTypeOK
  <2>1. MaxFaults \in Nat
      BY OutboundAssumption
  <2>2. line \in [Legs -> {"none", "gone"} \union Live] /\ row \in [Legs -> 0..4]
      BY DEF Init, RouterInit
  <2> QED  BY <2>1, <2>2 DEF Init, RouterInit, RouterTypeOK
<1>3. DoorTyped
    BY OutboundAssumption DEF Init, DoorTyped
<1>4. phase = [j \in Jobs |-> "absent"] /\ at = "idle" /\ cur = NoJob /\ crashes = 0
    BY DEF Init, WorkerInit, Q!Init
<1>5. TaskTyped
  <2>1. heard \in [Jobs -> Seq(Events)]
      BY EmptySeq DEF Init
  <2> QED  BY <1>4, <2>1 DEF Init, TaskTyped
<1>6. DoorInv
  <2>1. Placed = {}
      BY DEF Init, Placed
  <2>2. Cardinality({}) = 0 /\ earlier \in 0..DailyMax /\ DailyMax \in Nat
      BY <1>3, FS_EmptySet, OutboundAssumption DEF DoorTyped
  <2> QED  BY <2>1, <2>2 DEF Init, DoorInv
<1>7. CallsInv
    BY <1>4, LegNames DEF Init, CallsInv
<1>8. RingInv
  <2>1. \A j \in Jobs : run[j] = "none" /\ LegsOf(j) \subseteq Legs
      BY LegNames DEF Init
  <2>2. \A p \in Legs : rings[p] = 0
      BY DEF Init
  <2>3. "none" \notin Running
      BY DEF Running
  <2> QED  BY <1>4, <2>1, <2>2, <2>3 DEF RingInv
<1>9. EndInv
    BY LegNames DEF Init, EndInv
<1>10. RouteInv
    BY LegNames DEF Init, RouterInit, RouteInv, FlowsAreCallers, FiledAsOne
<1> QED  BY <1>1, <1>2, <1>3, <1>5, <1>6, <1>7, <1>8, <1>9, <1>10 DEF IInv, BaseInv

(* The inductive invariant. *)
THEOREM Invariant == Spec => []IInv
<1>1. IInv /\ [Next]_vars => IInv'
    BY WorkerKept, StepEffect, RouterKept, DoorKept, CallsKept, RingKept, EndKept, RouteKept
       DEF IInv, BaseInv, Effect
<1> QED  BY <1>1, Starts, PTL DEF Spec

(* Whatever requests race at the door, an AI agent's calls stay within the day's
   cap, none goes twice to one number inside the repeat window and none is placed
   uncounted, once there is a settings row to lock (agents/outbound_call.py place). *)
THEOREM CapsAreKept == Spec => []CapsHold
<1>1. IInv => CapsHold
    <2> SUFFICES ASSUME IInv PROVE CapsHold
        OBVIOUS
    <2>1. WorkerTypeOK({"spawn", "complete"})
        <3> DEFINE steps == {"spawn", "complete"}
        <3>1. at \in steps \union {"idle", "down"}
            BY DEF IInv, BaseInv, TaskTyped
        <3> HIDE DEF steps
        <3>2. WorkerTypeOK(steps)
            BY <3>1, WorkerTyped DEF IInv, BaseInv
        <3> QED  BY <3>2 DEF steps
    <2>2. /\ kind \in {"door", "agent", "manual", "inbound"}
          /\ door \in [Agents -> {"none", "asked", "read", "placed", "refused"}]
          /\ sameNumber \in BOOLEAN /\ logged \in BOOLEAN /\ earlier \in 0..DailyMax
          /\ log \subseteq Agents /\ lock \subseteq Agents
          /\ entries \in [Agents -> SUBSET Agents]
        BY DEF IInv, BaseInv, DoorTyped
    <2>3. /\ run \in [Jobs -> Running \union {"none", "lost", "over"}]
          /\ heard \in [Jobs -> Seq([who : Legs, what : {"up", "stasis", "gone"}])]
          /\ up \in {Op, Callee} /\ talking \subseteq {Op, Callee}
          /\ told \subseteq Agents /\ owned \subseteq Agents /\ kept \subseteq Legs
          /\ rings \in [Legs -> Nat]
        BY DEF IInv, BaseInv, TaskTyped, Events
    <2>4. RouterTypeOK
        BY DEF IInv, BaseInv
    <2>5. TypeOK
        BY <2>1, <2>2, <2>3, <2>4 DEF TypeOK
    <2>6. logged => /\ earlier + Cardinality(Placed) <= DailyMax
                    /\ sameNumber => Cardinality(Placed) <= 1
                    /\ Placed = log
        BY DEF IInv, DoorInv
    <2> QED  BY <2>5, <2>6 DEF CapsHold
<1> QED  BY <1>1, Invariant, PTL

(* A call that is over leaves no leg up but one a hangup request failed for or a
   supervisor has; and no leg is rung more often than its worker started the call,
   once and once more per death (run_call, run_outbound_call). *)
THEOREM NobodyIsLeftUp == Spec => []CallsEndClean
<1>1. IInv => CallsEndClean
    <2> SUFFICES ASSUME IInv PROVE CallsEndClean
        OBVIOUS
    <2>1. ASSUME NEW j \in Jobs, NEW p \in LegsOf(j)
          PROVE  /\ run[j] = "over" => Down(p) \/ p \in kept
                 /\ rings[p] <= 1 + crashes
        <3>1. rings[p] \in Nat /\ crashes \in Nat /\ rings[p] <= crashes + 1
            BY LegNames, WorkerAssumption DEF IInv, BaseInv, TaskTyped, WorkerInv, RingInv
        <3>2. run[j] = "over" => Down(p) \/ p \in kept
            BY DEF IInv, EndInv, Quiet
        <3> QED  BY <3>1, <3>2
    <2> QED  BY <2>1 DEF CallsEndClean
<1> QED  BY <1>1, Invariant, PTL

(* However events are lost, repeated after a restart or fail to be stored, only a
   caller is put through a flow and one call is one record that ends with it
   (providers/asterisk.py AsteriskEventRouter, workers/asterisk_consumer.py). *)
THEOREM LegsAreToldApart == Spec => []RoutedRight
<1>1. IInv => RoutedRight
    BY DEF IInv, RouteInv, RoutedRight
<1> QED  BY <1>1, Invariant, PTL

-----------------------------------------------------------------------------
(* What a step does to the jobs table. *)
LEMMA StepPromised == BaseInv /\ [Next]_vars => Promised
<1> SUFFICES ASSUME BaseInv, [Next]_vars PROVE Promised
    OBVIOUS
<1> USE DEF workerVars
<1>0. WorkerInv
    BY DEF BaseInv
<1>1. CASE \/ (\E j \in Agents : Asks(j) \/ ReadsLog(j) \/ Refuses(j))
           \/ (\E j \in Jobs : Claims(j))
           \/ StartsTask \/ WorkerDies \/ WorkerReturns \/ UNCHANGED vars
    BY <1>1, TableKept DEF Asks, ReadsLog, Refuses, Claims, ClaimFor, StartsTask, WorkerDies,
        Died, WorkerReturns, Restarted, tableVars, vars
<1>2. CASE \/ CallerRings \/ FlowAnswers \/ FlowDials
           \/ \E p \in Legs : Picks(p) \/ Enters(p) \/ PartyLeaves(p)
    BY <1>2, TableKept DEF CallerRings, FlowAnswers, FlowDials, Picks, Enters, PartyLeaves,
        Others
<1>3. ASSUME NEW j \in Agents, AgentStep(j) \/ SupervisorTakes(j) PROVE Promised
    BY <1>3, TableKept DEF AgentStep, AgentRings, AgentHears, AgentGivesUp,
        ReportsUnanswered, AgentFinishes, AgentHangsUp, SupervisorTakes, Elsewhere
<1>4. CASE ManualStep
    BY <1>4, TableKept DEF ManualStep, Rings, HearsRinging, RingTimesOut, NoticeEnds,
        HearsDuringNotice, HearsUntilGone, Bridges, HearsTalk, TalkTimesOut, Drops, Elsewhere
<1>5. ASSUME NEW j \in Agents, Records(j) PROVE Promised
    BY <1>5, LegNames, SubmitPromised DEF Records
<1>6. CASE PlacesCall
    BY <1>6, LegNames, SubmitPromised DEF PlacesCall
<1>7. CASE Completes
    <2>1. Busy
        BY <1>0, <1>7 DEF Completes, WorkerInv, Busy
    <2> QED  BY <1>0, <1>7, <2>1, VerdictPromised DEF Completes
<1> QED  BY <1>1, <1>2, <1>3, <1>4, <1>5, <1>6, <1>7 DEF Next, World, DoorStep, WorkerStep

(* Placing calls keeps to the queue's terms: the jobs table behaves as WorkQueue
   allows, whoever dies between the claim and the commit (jobs/queue.py enqueue,
   complete). *)
THEOREM KeepsToTheQueue == Spec => Q!Spec
<1>1. Init => Q!Init
    BY DEF Init, WorkerInit
<1>2. IInv /\ [Next]_vars => [Q!Next]_(Q!wqVars)
    BY StepPromised DEF IInv, Promised
<1> QED  BY <1>1, <1>2, Invariant, PTL DEF Spec, Q!Spec

(***************************************************************************)
(* The lead e-mails                                                        *)
(***************************************************************************)

Relaying == {"ghl", "opened", "duplicate", "posted", "carded", "noted", "annotated"}
Telling == {"crm", "asked", "unheard", "unsent"}

MailShape ==
    /\ look \in Contents
    /\ box \in [Mails -> {"away", "unseen", "seen"}]
    /\ relay \in [Mails -> RelayStatuses] /\ relayed \subseteq Mails /\ contact \subseteq relayed
    /\ crm \in [Mails -> {"null", "queued", "failed", "sent", "refused"}]
    /\ poll \in [at : {"idle", "next", "created", "relaying"}, cur : Mails \union {Nobody},
                 todo : SUBSET Mails, done : SUBSET Mails, broken : BOOLEAN]
    /\ (poll.cur # Nobody) = (poll.at \in {"created", "relaying"})
    /\ mode \in Configs /\ card \in [Customers -> Mails \union {Nobody}] /\ notes \subseteq Mails
    /\ crmGot \subseteq Mails /\ hop \in [Mails -> {"none", "read", "sent", "refused", "failed"}]
    /\ click \in [at : {"none", "read", "pending"}, mail : Mails \union {Nobody}]
    /\ click.at # "none" => click.mail \in Mails /\ <<"again", click.mail>> \in Jobs
    /\ outages \in 0..MaxOutages

(* Each delivery has its steps. *)
StepsInv ==
    /\ at \in Relaying \union Telling \union {"raise", "finish", "idle", "down"}
    /\ at \in Relaying => cur[1] \in {"ghl", "again"}
    /\ at \in Telling => cur[1] = "crm"

(* Whatever anyone works on, or is done with, has its row -- or is another
   sender's. *)
Filed(m) == Stored(m) \/ m \in Foreign

PollInv ==
    /\ poll.cur # Nobody => Stored(poll.cur)
    /\ \A m \in Mails : m \in poll.done \/ box[m] = "seen" => Filed(m)

RowsInv ==
    /\ PollInv
    /\ click.at # "none" => Stored(click.mail)
    /\ \A j \in Jobs : phase[j] # "absent" => Stored(j[2])

(* Only the message the poller holds can be stored and its job still to come. *)
LossInv ==
    /\ poll.at = "relaying" /\ Relayable(poll.cur) => phase[<<"ghl", poll.cur>>] # "absent"
    /\ IsFiniteSet(Stranded) /\ Cardinality(Stranded) =< crashes + outages

(* The stamp and the job are one commit; the adapter is asked only about an
   e-mail that may be sent, and what it answers is what the worker finds. *)
Stamped(m) ==
    /\ (crm[m] = "null") = (phase[<<"crm", m>>] = "absent")
    /\ hop[m] # "none" => Actionable(m)
    /\ hop[m] = "sent" \/ crm[m] = "sent" => m \in crmGot
    /\ crm[m] = "queued" => phase[<<"crm", m>>] \in Undecided
    /\ phase[<<"crm", m>>] = "done" => crm[m] \in {"sent", "refused"}

ToldInv ==
    /\ at = "finish" /\ cur[1] = "crm" => crm[Msg] \in {"sent", "refused"}
    /\ at = "raise" /\ cur[1] = "crm" => crm[Msg] # "queued"

StampInv == ToldInv /\ \A m \in Mails : Stamped(m)

(* What the worker has brought about on its way to a relayed e-mail. *)
WayInv ==
    /\ at \in Relaying \ {"ghl"} => Msg \notin relayed
    /\ at \in {"opened", "carded"} => card[Customer] = Msg
    /\ at \in {"opened", "duplicate", "carded", "noted"} =>
          card[Customer] # Nobody /\ ParseStatus(Msg) = "parsed"
    /\ at = "annotated" =>
          /\ Msg \in notes /\ ParseStatus(Msg) = "cancellation"
          /\ look[Msg].original \in contact /\ ParseStatus(look[Msg].original) = "parsed"

(* Whatever was relayed with a contact is a work order's, or is noted on one's. *)
OrderInv == \A m \in contact : WorkOrder(m) \in contact

MailInv ==
    /\ WorkerInv /\ MailShape /\ StepsInv /\ RowsInv
    /\ LossInv /\ StampInv /\ WayInv /\ OrderInv /\ RelayedIsReal

-----------------------------------------------------------------------------
(* Each message has its two jobs. *)
LEMMA MailJobs ==
    /\ \A m \in Mails : <<"ghl", m>> \in Jobs /\ <<"crm", m>> \in Jobs
    /\ \A j \in Jobs : /\ j[1] \in {"ghl", "crm", "again"} /\ j[2] \in Mails
                       /\ j = <<j[1], j[2]>>
    /\ MaxOutages \in Nat
<1> QED  BY MailIntakeAssumption

(* While a handler runs it is about some message. *)
LEMMA AboutMail ==
    ASSUME WorkerInv
    PROVE  /\ at \notin {"idle", "down"} <=> Busy
           /\ Busy => /\ cur \in Jobs /\ Msg \in Mails /\ Customer \in Customers
                      /\ cur[1] \in {"ghl", "crm", "again"} /\ cur = <<cur[1], Msg>>
                      /\ phase[cur] \in Undecided
<1>1. at \notin {"idle", "down"} <=> Busy
    BY DEF WorkerInv, Busy
<1>2. ASSUME Busy
      PROVE  /\ cur \in Jobs /\ Msg \in Mails /\ Customer \in Customers
             /\ cur[1] \in {"ghl", "crm", "again"} /\ cur = <<cur[1], Msg>>
             /\ phase[cur] \in Undecided
    <2>1. cur \in Jobs /\ phase[cur] \in Undecided
        BY <1>2 DEF WorkerInv, Busy
    <2>2. /\ cur[1] \in {"ghl", "crm", "again"} /\ cur[2] \in Mails
          /\ cur = <<cur[1], cur[2]>>
        BY <2>1, MailJobs
    <2> QED  BY <2>1, <2>2 DEF Msg, Customer, Customers
<1> QED  BY <1>1, <1>2

(* The actions that leave the worker and its table alone, and those that do not. *)
MailQuiet ==
    \/ \E m \in Mails : Arrives(m) \/ StoreFails(m) \/ RelayNow(m)
    \/ \E m \in Mails : SkipNameless(m) \/ SkipForeign(m) \/ HandleStored(m) \/ Store(m)
                     \/ FailsToo(m)
    \/ Fetch \/ MarkSeen \/ EnqueueFails \/ MarkFails \/ MarkPending
    \/ \E m \in Mails : AdapterPosts(m)
Submitting == EnqueueRelay \/ EnqueueCrm \/ EnqueueAgain
Going == RelayPosts \/ RelayOpens \/ RelayNotes \/ RelayAnnotates \/ CrmAsks \/ CrmTimesOut
         \/ CrmRefreshes
Committing == RelayDeclines \/ RelayBreaks \/ RelayStores \/ CrmRecords
Ending == RelaySkips \/ CrmSkips \/ Raise \/ Finish

Onward == {"posted", "opened", "duplicate", "carded", "noted", "annotated", "asked",
           "unheard", "unsent", "raise", "finish"}

(* A step of the model is one of these, or of the queue's. *)
LEMMA MailSteps ==
    ASSUME [MailNext]_mailVars
    PROVE  \/ MailQuiet \/ Submitting \/ Going \/ Committing \/ Ending
           \/ (\E j \in Jobs : ClaimMail(j)) \/ (\E m \in Mails : AdapterCommits(m))
           \/ Crash \/ Restart \/ UNCHANGED mailVars
<1> QED  BY DEF MailNext, Polling, Working, Adapter, MailQuiet, Submitting, Going, Committing,
            Ending

(* The poller, the operator and the adapter's call do not touch the table. *)
LEMMA QuietTable == ASSUME MailQuiet PROVE UNCHANGED workerVars
<1> QED  BY DEF MailQuiet, Arrives, StoreFails, RelayNow, SkipNameless, SkipForeign,
                HandleStored, Store,
            FailsToo, Fetch, MarkSeen, EnqueueFails, MarkFails, MarkPending, AdapterPosts

(* An enqueue commits at most one new row. *)
LEMMA SubmittingTable ==
    ASSUME WorkerInv, MailShape, RowsInv, Submitting
    PROVE  \/ \E j \in Jobs : Submit(j) /\ Stored(j[2])
           \/ UNCHANGED workerVars
<1>1. CASE EnqueueRelay
    <2>1. poll.cur \in Mails /\ Stored(poll.cur)
        BY <1>1 DEF EnqueueRelay, MailShape, RowsInv, PollInv
    <2>2. <<"ghl", poll.cur>> \in Jobs /\ <<"ghl", poll.cur>>[2] = poll.cur
        BY <2>1, MailJobs
    <2> QED  BY <1>1, <2>1, <2>2 DEF EnqueueRelay
<1>2. CASE EnqueueCrm
    <2>1. poll.cur \in Mails /\ Stored(poll.cur)
        BY <1>2 DEF EnqueueCrm, MailShape, RowsInv, PollInv
    <2>2. <<"crm", poll.cur>> \in Jobs /\ <<"crm", poll.cur>>[2] = poll.cur
        BY <2>1, MailJobs
    <2> QED  BY <1>2, <2>1, <2>2 DEF EnqueueCrm, StampAndEnqueue
<1>3. CASE EnqueueAgain
    <2>1. /\ click.mail \in Mails /\ Stored(click.mail) /\ <<"again", click.mail>> \in Jobs
          /\ <<"again", click.mail>>[2] = click.mail
        BY <1>3 DEF EnqueueAgain, MailShape, RowsInv
    <2> QED  BY <1>3, <2>1 DEF EnqueueAgain
<1> QED  BY <1>1, <1>2, <1>3 DEF Submitting

(* The handler goes on, having committed or not, or has a verdict. *)
LEMMA GoingTable ==
    ASSUME WorkerInv, StepsInv, Going
    PROVE  /\ Busy /\ UNCHANGED tableVars
           /\ \E step \in Onward : Advance(step)
<1>1. Busy
    BY AboutMail DEF Going, RelayPosts, RelayOpens, RelayNotes, RelayAnnotates, CrmAsks,
       CrmTimesOut, CrmRefreshes
<1>2. UNCHANGED tableVars
    BY DEF Going, RelayPosts, RelayOpens, RelayNotes, RelayAnnotates, CrmAsks,
       CrmTimesOut, CrmRefreshes
<1>3. \E step \in Onward : Advance(step)
    <2>1. CASE RelayPosts \/ RelayAnnotates \/ CrmAsks \/ CrmTimesOut
        BY <2>1 DEF Onward, RelayPosts, RelayAnnotates, CrmAsks, CrmTimesOut
    <2>2. CASE RelayOpens
        <3>1. Advance("opened") \/ Advance("duplicate")
            BY <2>2 DEF RelayOpens
        <3> QED  BY <3>1 DEF Onward
    <2>3. CASE RelayNotes
        <3>1. Advance("carded") \/ Advance("noted")
            BY <2>3 DEF RelayNotes
        <3> QED  BY <3>1 DEF Onward
    <2>4. CASE CrmRefreshes
        <3>1. Advance("unsent") \/ Advance("raise")
            BY <2>4 DEF CrmRefreshes
        <3> QED  BY <3>1 DEF Onward
    <2> QED  BY <2>1, <2>2, <2>3, <2>4 DEF Going
<1> QED  BY <1>1, <1>2, <1>3

(* The relay's own commits enqueue nothing. *)
LEMMA CommittingTable ==
    ASSUME WorkerInv, StepsInv, Committing
    PROVE  Busy /\ CommitWith({}) /\ (Advance("finish") \/ Advance("raise"))
<1> QED  BY AboutMail DEF Committing, RelayDeclines, RelayBreaks, RelayStores, CrmRecords

(* A delivery ends in the verdict on its job. *)
LEMMA EndingTable ==
    ASSUME WorkerInv, StepsInv, Ending
    PROVE  Busy /\ (Completed \/ Failed)
<1> QED  BY AboutMail DEF Ending, RelaySkips, CrmSkips, Raise, Finish

(* The adapter's answer lets a handler that still waits for it go on. *)
LEMMA AnsweringTable ==
    ASSUME WorkerInv, NEW m \in Mails, AdapterCommits(m)
    PROVE  \/ UNCHANGED workerVars
           \/ Busy /\ UNCHANGED tableVars /\ (Advance("unheard") \/ Advance("finish"))
<1> QED  BY AboutMail DEF AdapterCommits

(* What a step does to the jobs table: the worker's own job moves, at most one
   row is new, and no row goes. *)
TableMoves ==
    /\ WorkerInv'
    /\ \A j \in Jobs : /\ phase[j] # "absent" => phase'[j] # "absent"
                       /\ phase[j] # "absent" /\ j # cur => phase'[j] = phase[j]
                       /\ phase[j] = "absent" /\ phase'[j] # "absent" =>
                             Submit(j) /\ Stored(j[2])
    /\ crashes' \in {crashes, crashes + 1}

(* Every step moves the table so. *)
LEMMA MailTable ==
    ASSUME WorkerInv, MailShape, StepsInv, RowsInv, [MailNext]_mailVars
    PROVE  TableMoves
<1> USE DEF TableMoves
<1>0. phase \in [Jobs -> Phases] /\ NoJob \notin Jobs /\ crashes \in Nat
    BY WorkerAssumption DEF WorkerInv
<1>1. CASE UNCHANGED workerVars
    BY <1>1 DEF workerVars, WorkerInv, Undecided
<1>2. ASSUME NEW j \in Jobs, Submit(j), Stored(j[2])
      PROVE  TableMoves
    <2>1. /\ WorkerInv' /\ phase[j] = "absent" /\ phase' = [phase EXCEPT ![j] = "pending"]
          /\ UNCHANGED <<tries, at, cur, crashes>>
        BY <1>2, Submits
    <2> QED  BY <1>0, <1>2, <2>1
<1>3. CASE Going \/ \E m \in Mails : AdapterCommits(m)
    <2>1. \/ UNCHANGED workerVars
          \/ /\ Busy /\ UNCHANGED tableVars
             /\ \E step \in Onward : Advance(step)
        BY <1>3, GoingTable, AnsweringTable DEF Onward
    <2>2. CASE /\ Busy /\ UNCHANGED tableVars
               /\ \E step \in Onward : Advance(step)
        BY <2>2, Advances DEF tableVars, Onward
    <2> QED  BY <1>1, <2>1, <2>2
<1>4. CASE Committing
    <2>1. Busy /\ CommitWith({}) /\ (Advance("finish") \/ Advance("raise"))
        BY <1>4, CommittingTable
    <2>2. WorkerInv' /\ crashes' = crashes
        BY <2>1, CommitsOn DEF Advance
    <2>3. /\ phase[cur] # "absent" /\ phase'[cur] # "absent"
          /\ \A k \in Jobs \ {cur} : phase'[k] = phase[k]
        BY <2>1, CommitsWith DEF Undecided
    <2> QED  BY <2>2, <2>3
<1>5. CASE Ending
    <2>1. /\ WorkerInv' /\ crashes' = crashes
          /\ phase[cur] # "absent" /\ phase'[cur] # "absent"
          /\ \A k \in Jobs \ {cur} : phase'[k] = phase[k]
        BY <1>5, EndingTable, Concludes DEF Undecided
    <2> QED  BY <2>1
<1>6. ASSUME NEW j \in Jobs, ClaimMail(j)
      PROVE  TableMoves
    <2>1. /\ WorkerInv' /\ UNCHANGED <<phase, tries, crashes>>
        BY <1>6, ClaimsJob DEF ClaimMail
    <2> QED  BY <2>1
<1>7. CASE Crash
    BY <1>7, Dies DEF Crash
<1>8. CASE Restart
    BY <1>8, Restarts DEF Restart
<1>9. CASE Submitting
    BY <1>1, <1>2, <1>9, SubmittingTable
<1>10. CASE MailQuiet \/ UNCHANGED mailVars
    BY <1>1, <1>10, QuietTable DEF mailVars
<1> QED  BY <1>3, <1>4, <1>5, <1>6, <1>7, <1>8, <1>9, <1>10, MailSteps

-----------------------------------------------------------------------------
(* The types and the steps *)

(* A failure is counted within its bound. *)
LEMMA OutageTyped ==
    ASSUME WorkerInv, MailShape, Outage
    PROVE  outages' = outages + 1 /\ outages' \in 0..MaxOutages
<1>1. crashes \in Nat /\ MaxCrashes \in Nat
    BY WorkerAssumption DEF WorkerInv
<1> QED  BY <1>1, MailJobs DEF Outage, MailShape

(* The poller goes on to its next message. *)
LEMMA HandledOn ==
    ASSUME MailShape, Handled, poll.at = "relaying"
    PROVE  /\ poll.cur \in Mails
           /\ poll' = [at |-> "next", cur |-> Nobody, todo |-> poll.todo,
                       done |-> poll.done \union {poll.cur}, broken |-> poll.broken]
<1>1. /\ poll.cur \in Mails
      /\ poll \in [at : {"idle", "next", "created", "relaying"}, cur : Mails \union {Nobody},
                   todo : SUBSET Mails, done : SUBSET Mails, broken : BOOLEAN]
    BY DEF MailShape
<1> QED  BY <1>1 DEF Handled

(* Everything keeps its shape. *)
LEMMA MailShapeKept ==
    ASSUME WorkerInv, MailShape, StepsInv, RowsInv, [MailNext]_mailVars
    PROVE  MailShape'
<1> USE MailJobs DEF MailShape, logVars, ghlVars, sideVars
<1>0. Nobody \notin Mails
    BY MailIntakeAssumption
<1>1. ASSUME NEW m \in Mails, Arrives(m)
      PROVE  MailShape'
    BY <1>0, <1>1 DEF Arrives
<1>2. ASSUME NEW m \in Mails, StoreFails(m)
      PROVE  MailShape'
    BY <1>0, <1>2, OutageTyped DEF StoreFails
<1>3. ASSUME NEW m \in Mails, RelayNow(m)
      PROVE  MailShape'
    BY <1>0, <1>3 DEF RelayNow, Stored, NoClick
<1>4. ASSUME NEW m \in Mails, SkipNameless(m) \/ SkipForeign(m)
      PROVE  MailShape'
    <2>1. CASE SkipNameless(m)
        BY <1>0, <2>1 DEF SkipNameless, NoId
    <2>2. CASE SkipForeign(m)
        BY <1>0, <2>2 DEF SkipForeign, NoId, Foreign
    <2> QED  BY <1>4, <2>1, <2>2
<1>5. ASSUME NEW m \in Mails, HandleStored(m)
      PROVE  MailShape'
    BY <1>0, <1>5 DEF HandleStored, Takes
<1>6. ASSUME NEW m \in Mails, Store(m)
      PROVE  MailShape'
    BY <1>0, <1>6 DEF Store, Takes, Stored, RelayStatuses
<1>7. ASSUME NEW m \in Mails, FailsToo(m)
      PROVE  MailShape'
    BY <1>0, <1>7 DEF FailsToo, NoId
<1>8. ASSUME NEW m \in Mails, AdapterPosts(m)
      PROVE  MailShape'
    BY <1>0, <1>8 DEF AdapterPosts
<1>9. ASSUME NEW m \in Mails, AdapterCommits(m)
      PROVE  MailShape'
    BY <1>0, <1>9 DEF AdapterCommits
<1>10. CASE Fetch
    <2>1. PICK batch \in SUBSET Mails : poll' = [IdlePoll EXCEPT !.at = "next", !.todo = batch]
        BY <1>10 DEF Fetch
    <2>2. /\ poll' \in [at : {"idle", "next", "created", "relaying"}, cur : Mails \union {Nobody},
                        todo : SUBSET Mails, done : SUBSET Mails, broken : BOOLEAN]
          /\ poll'.cur = Nobody /\ poll'.at = "next"
        BY <2>1 DEF IdlePoll
    <2> QED  BY <1>10, <2>2 DEF Fetch
<1>11. CASE MarkSeen
    BY <1>0, <1>11, AboutMail DEF MarkSeen, IdlePoll
<1>12. CASE EnqueueFails
    <2>1. /\ outages' \in 0..MaxOutages
          /\ UNCHANGED <<look, box, relay, relayed, contact, crm, mode, card, notes, crmGot,
                         hop, click>>
        BY <1>12, OutageTyped DEF EnqueueFails
    <2>2. CASE poll.at = "relaying"
        BY <1>0, <1>12, <2>1, <2>2, HandledOn DEF EnqueueFails
    <2>3. CASE poll.at # "relaying"
        <3>1. poll' = [poll EXCEPT !.at = "next", !.cur = Nobody, !.broken = TRUE]
            BY <1>12, <2>3 DEF EnqueueFails
        <3>2. /\ poll' \in [at : {"idle", "next", "created", "relaying"}, todo : SUBSET Mails,
                            cur : Mails \union {Nobody}, done : SUBSET Mails, broken : BOOLEAN]
              /\ poll'.cur = Nobody /\ poll'.at = "next"
            BY <3>1
        <3> QED  BY <2>1, <3>2
    <2> QED  BY <2>2, <2>3
<1>13. CASE MarkFails
    BY <1>0, <1>13, OutageTyped DEF MarkFails, IdlePoll
<1>14. CASE MarkPending
    BY <1>0, <1>14, AboutMail DEF MarkPending, RelayStatuses
<1>15. CASE EnqueueRelay
    BY <1>0, <1>15, AboutMail DEF EnqueueRelay
<1>16. CASE EnqueueCrm
    <2>1. crm' = crm \/ crm' = [crm EXCEPT ![poll.cur] = "queued"]
        BY <1>16 DEF EnqueueCrm, StampAndEnqueue
    <2>2. crm' \in [Mails -> {"null", "queued", "failed", "sent", "refused"}]
        BY <2>1
    <2> QED  BY <1>0, <1>16, <2>2, HandledOn DEF EnqueueCrm
<1>17. CASE EnqueueAgain
    BY <1>0, <1>17, AboutMail DEF EnqueueAgain, NoClick
<1>18. CASE Going
    BY <1>0, <1>18, AboutMail DEF Going, RelayPosts, RelayOpens, RelayNotes, RelayAnnotates,
                                  CrmAsks, CrmTimesOut, CrmRefreshes, OpenCard
<1>19. CASE Committing
    BY <1>0, <1>19, AboutMail DEF Committing, RelayDeclines, RelayBreaks, RelayStores,
                                  CrmRecords, RelayIs, OpenCard, RelayStatuses
<1>20. CASE Ending
    BY <1>0, <1>20, AboutMail DEF Ending, RelaySkips, CrmSkips, Raise, Finish
<1>21. ASSUME NEW j \in Jobs, ClaimMail(j)
      PROVE  MailShape'
    BY <1>0, <1>21 DEF ClaimMail
<1>22. CASE Crash
    BY <1>0, <1>22, AboutMail DEF Crash, IdlePoll
<1>23. CASE Restart
    BY <1>0, <1>23, AboutMail DEF Restart
<1>24. CASE UNCHANGED mailVars
    BY <1>0, <1>24, AboutMail DEF mailVars
<1> QED  BY <1>1, <1>2, <1>3, <1>4, <1>5, <1>6, <1>7, <1>8, <1>9, <1>10, <1>11, <1>12, <1>13, <1>14, <1>15, <1>16, <1>17, <1>18, <1>19, <1>20, <1>21, <1>22, <1>23, <1>24,
         MailSteps DEF MailQuiet, Submitting

(* Nothing is forgotten: rows, contacts, notes and cards stay. *)
MailGrows ==
    /\ look' = look
    /\ \A m \in Mails : Stored(m) => relay'[m] # "none"
    /\ contact \subseteq contact' /\ relayed \subseteq relayed'
    /\ notes \subseteq notes' /\ crmGot \subseteq crmGot'
    /\ \A c \in Customers : card[c] # Nobody => card'[c] = card[c]
    /\ outages' \in {outages, outages + 1}

(* No step takes anything back. *)
LEMMA MailOnlyGrows ==
    ASSUME WorkerInv, MailShape, StepsInv, RowsInv, [MailNext]_mailVars
    PROVE  MailGrows
<1> USE DEF MailGrows, logVars, ghlVars, sideVars
<1>1. CASE MailQuiet
    <2>1. CASE \E m \in Mails : Arrives(m) \/ StoreFails(m) \/ RelayNow(m) \/ SkipNameless(m)
                               \/ SkipForeign(m)
                               \/ HandleStored(m) \/ FailsToo(m)
        BY <2>1 DEF Arrives, StoreFails, RelayNow, SkipNameless, SkipForeign, HandleStored,
                    FailsToo,
           Outage, Stored
    <2>2. ASSUME NEW m \in Mails, Store(m)
          PROVE  MailGrows
        BY <2>2 DEF Store, Stored, MailShape
    <2>3. CASE Fetch \/ MarkSeen \/ EnqueueFails \/ MarkFails
        BY <2>3 DEF Fetch, MarkSeen, EnqueueFails, MarkFails, Outage, Stored
    <2>4. CASE MarkPending
        BY <2>4 DEF MarkPending, Stored, MailShape
    <2>5. ASSUME NEW m \in Mails, AdapterPosts(m)
          PROVE  MailGrows
        <3>1. PICK answer \in {"sent", "refused", "failed"} :
                  crmGot' \in CASE answer = "sent" -> {crmGot \union {m}}
                                [] answer = "refused" -> {crmGot}
                                [] answer = "failed" -> {crmGot, crmGot \union {m}}
            BY <2>5 DEF AdapterPosts
        <3>2. crmGot \subseteq crmGot'
            BY <3>1
        <3> QED  BY <2>5, <3>2 DEF AdapterPosts, Stored, workerVars
    <2> QED  BY <1>1, <2>1, <2>2, <2>3, <2>4, <2>5 DEF MailQuiet
<1>2. CASE Submitting
    BY <1>2 DEF Submitting, EnqueueRelay, EnqueueCrm, EnqueueAgain, Stored
<1>3. CASE Going
    <2>1. CASE RelayOpens
        <3>1. \A c \in Customers : card[c] # Nobody => card'[c] = card[c]
            BY <2>1 DEF RelayOpens, OpenCard, MailShape
        <3> QED  BY <2>1, <3>1 DEF RelayOpens, Stored
    <2>2. CASE RelayPosts \/ RelayNotes \/ RelayAnnotates \/ CrmAsks \/ CrmTimesOut
               \/ CrmRefreshes
        BY <2>2 DEF RelayPosts, RelayNotes, RelayAnnotates, CrmAsks, CrmTimesOut,
           CrmRefreshes, Stored
    <2> QED  BY <1>3, <2>1, <2>2 DEF Going
<1>4. CASE Committing
    <2>1. CASE RelayDeclines \/ RelayStores \/ CrmRecords
        BY <2>1 DEF RelayDeclines, RelayStores, CrmRecords, RelayIs, Stored, MailShape
    <2>2. CASE RelayBreaks
        <3>1. \A c \in Customers : card[c] # Nobody => card'[c] = card[c]
            BY <2>2 DEF RelayBreaks, OpenCard, MailShape
        <3>2. /\ notes \subseteq notes' /\ relay' = [relay EXCEPT ![Msg] = "failed"]
              /\ UNCHANGED <<look, relayed, contact, crmGot, outages>>
            BY <2>2 DEF RelayBreaks, RelayIs
        <3> QED  BY <3>1, <3>2 DEF Stored, MailShape
    <2> QED  BY <1>4, <2>1, <2>2 DEF Committing
<1>5. CASE Ending
    BY <1>5 DEF Ending, RelaySkips, CrmSkips, Raise, Finish, Stored
<1>6. CASE (\E j \in Jobs : ClaimMail(j)) \/ (\E m \in Mails : AdapterCommits(m))
           \/ Crash \/ Restart \/ UNCHANGED mailVars
    BY <1>6 DEF ClaimMail, AdapterCommits, Crash, Restart, mailVars, Stored
<1> QED  BY <1>1, <1>2, <1>3, <1>4, <1>5, <1>6, MailSteps

(* A claim begins with the step of its delivery. *)
LEMMA StepsKept ==
    ASSUME WorkerInv, MailShape, StepsInv, RowsInv, [MailNext]_mailVars
    PROVE  StepsInv'
<1> USE DEF StepsInv, Relaying, Telling
<1>1. CASE UNCHANGED workerVars
    BY <1>1 DEF workerVars
<1>2. CASE Submitting
    BY <1>1, <1>2, SubmittingTable, Submits
<1>3. CASE Going
    <2>1. cur' = cur
        BY <1>3, GoingTable DEF Advance
    <2>2. CASE RelayPosts \/ RelayAnnotates \/ CrmAsks \/ CrmTimesOut
        BY <2>1, <2>2 DEF RelayPosts, RelayAnnotates, CrmAsks, CrmTimesOut, Advance
    <2>3. CASE RelayOpens \/ RelayNotes
        <3>1. at \in Relaying /\ at' \in {"opened", "duplicate", "carded", "noted"}
            BY <2>3 DEF RelayOpens, RelayNotes, Advance
        <3> QED  BY <2>1, <3>1
    <2>4. CASE CrmRefreshes
        <3>1. at \in Telling /\ at' \in {"unsent", "raise"}
            BY <2>4 DEF CrmRefreshes, Advance
        <3> QED  BY <2>1, <3>1
    <2> QED  BY <1>3, <2>2, <2>3, <2>4 DEF Going
<1>4. CASE Committing
    BY <1>4, CommittingTable DEF Advance
<1>5. CASE Ending
    BY <1>5, EndingTable, Concludes
<1>6. ASSUME NEW j \in Jobs, ClaimMail(j)
      PROVE  StepsInv'
    <2>1. /\ j[1] \in {"ghl", "crm", "again"} /\ cur' = j
          /\ at' = IF j[1] = "crm" THEN "crm" ELSE "ghl"
        BY <1>6, MailJobs DEF ClaimMail, ClaimFor
    <2> QED  BY <2>1
<1>7. ASSUME NEW m \in Mails, AdapterCommits(m)
      PROVE  StepsInv'
    <2>1. CASE at = "asked" /\ Msg = m
        <3>1. cur' = cur /\ at' \in {"unheard", "finish"}
            BY <1>7, <2>1 DEF AdapterCommits, Advance
        <3> QED  BY <2>1, <3>1
    <2>2. CASE ~(at = "asked" /\ Msg = m)
        BY <1>1, <1>7, <2>2 DEF AdapterCommits
    <2> QED  BY <2>1, <2>2
<1>8. CASE Crash
    BY <1>8, Dies DEF Crash
<1>9. CASE Restart
    BY <1>9, Restarts DEF Restart
<1>10. CASE MailQuiet \/ UNCHANGED mailVars
    BY <1>1, <1>10, QuietTable DEF mailVars
<1> QED  BY <1>2, <1>3, <1>4, <1>5, <1>6, <1>7, <1>8, <1>9, <1>10, MailSteps

(* Rows are created by the poller, before anything refers to them. *)
LEMMA RowsKept ==
    ASSUME WorkerInv, MailShape, StepsInv, RowsInv, [MailNext]_mailVars
    PROVE  RowsInv'
<1> USE DEF logVars, ghlVars, sideVars
<1>0. PollInv
    BY DEF RowsInv
<1>1. \A m \in Mails : (Stored(m) => Stored(m)') /\ (Filed(m) => Filed(m)')
    BY MailOnlyGrows DEF MailGrows, Stored, Filed, Foreign
<1>2. \A j \in Jobs : (phase[j] # "absent")' => Stored(j[2])'
    <2> SUFFICES ASSUME NEW j \in Jobs, phase'[j] # "absent"
                 PROVE  Stored(j[2])'
        OBVIOUS
    <2>1. Stored(j[2])
        BY MailTable DEF TableMoves, RowsInv
    <2> QED  BY <1>1, <2>1, MailJobs
<1>3. PollInv'
    <2> USE MailJobs DEF PollInv
    <2>1. CASE UNCHANGED <<poll, box>>
        BY <1>0, <1>1, <2>1 DEF MailShape
    <2>2. ASSUME NEW m \in Mails, Arrives(m)
          PROVE  PollInv'
        BY <1>0, <1>1, <2>2 DEF Arrives, MailShape
    <2>14. ASSUME NEW m \in Mails, SkipNameless(m) \/ StoreFails(m) \/ FailsToo(m)
           PROVE  PollInv'
        <3>1. poll'.cur = poll.cur /\ poll'.done = poll.done /\ UNCHANGED <<box, relay>>
            BY <2>14 DEF SkipNameless, SkipForeign, StoreFails, FailsToo, MailShape
        <3> QED  BY <1>0, <1>1, <3>1 DEF MailShape
    <2>3. ASSUME NEW m \in Mails, HandleStored(m) \/ SkipForeign(m)
          PROVE  PollInv'
        <3>1. /\ UNCHANGED <<box, relay>> /\ Filed(m)
              /\ poll' = [poll EXCEPT !.todo = @ \ {m}, !.done = @ \union {m}]
            BY <2>3 DEF HandleStored, SkipForeign, Takes, Filed
        <3> QED  BY <1>0, <1>1, <3>1 DEF MailShape
    <2>4. ASSUME NEW m \in Mails, Store(m)
          PROVE  PollInv'
        <3>1. Stored(m)' /\ Filed(m)'
            BY <2>4 DEF Store, Stored, Filed, MailShape
        <3> QED  BY <1>0, <1>1, <2>4, <3>1 DEF Store, Takes, MailShape
    <2>5. CASE Fetch \/ Crash \/ MarkFails
        <3>1. poll'.cur = Nobody /\ poll'.done = {} /\ UNCHANGED <<box, relay>>
            <4>1. CASE Fetch
                <5>1. PICK batch \in SUBSET Mails :
                          poll' = [IdlePoll EXCEPT !.at = "next", !.todo = batch]
                    BY <4>1 DEF Fetch
                <5>2. poll'.cur = Nobody /\ poll'.done = {}
                    BY <5>1 DEF IdlePoll
                <5> QED  BY <4>1, <5>2 DEF Fetch
            <4>2. CASE Crash \/ MarkFails
                BY <4>2 DEF Crash, MarkFails, IdlePoll
            <4> QED  BY <2>5, <4>1, <4>2
        <3> QED  BY <1>0, <1>1, <3>1
    <2>6. CASE MarkSeen
        BY <1>0, <1>1, <2>6 DEF MarkSeen, IdlePoll, MailShape
    <2>7. CASE EnqueueRelay
        BY <1>0, <1>1, <2>7 DEF EnqueueRelay, MailShape
    <2>8. ASSUME Handled, poll.at = "relaying", box' = box
          PROVE  PollInv'
        <3>1. /\ poll.cur \in Mails /\ poll.cur # Nobody /\ poll'.cur = Nobody
              /\ poll'.done = poll.done \union {poll.cur}
            BY <2>8, HandledOn DEF MailShape
        <3>2. Stored(poll.cur)
            BY <1>0, <3>1
        <3>3. Filed(poll.cur)
            BY <3>2 DEF Filed
        <3> QED  BY <1>0, <1>1, <2>8, <3>1, <3>3
    <2>9. CASE EnqueueFails
        <3>1. CASE poll.at = "relaying"
            BY <2>8, <2>9, <3>1 DEF EnqueueFails
        <3>2. CASE poll.at # "relaying"
            <4>1. box' = box /\ poll' = [poll EXCEPT !.at = "next", !.cur = Nobody, !.broken = TRUE]
                BY <2>9, <3>2 DEF EnqueueFails
            <4>2. poll'.cur = Nobody /\ poll'.done = poll.done
                BY <4>1 DEF MailShape
            <4> QED  BY <1>0, <1>1, <4>1, <4>2
        <3> QED  BY <3>1, <3>2
    <2>10. CASE EnqueueCrm
        BY <2>8, <2>10 DEF EnqueueCrm
    <2>11. CASE \/ \E m \in Mails : RelayNow(m) \/ AdapterPosts(m) \/ AdapterCommits(m)
                \/ MarkPending \/ EnqueueAgain \/ (\E j \in Jobs : ClaimMail(j)) \/ Restart
                \/ UNCHANGED mailVars
        BY <2>1, <2>11 DEF RelayNow, AdapterPosts, AdapterCommits, MarkPending, EnqueueAgain,
           ClaimMail, Restart, mailVars
    <2>12. CASE Going
        BY <2>1, <2>12 DEF Going, RelayPosts, RelayOpens, RelayNotes, RelayAnnotates, CrmAsks,
           CrmTimesOut, CrmRefreshes
    <2>13. CASE Committing \/ Ending
        BY <2>1, <2>13 DEF Committing, RelayDeclines, RelayBreaks, RelayStores, CrmRecords,
           Ending, RelaySkips, CrmSkips, Raise, Finish
    <2> QED  BY <2>2, <2>3, <2>4, <2>5, <2>6, <2>7, <2>9, <2>10, <2>11, <2>12, <2>13,
                <2>14, MailSteps DEF MailQuiet, Submitting
<1>4. (click.at # "none")' => Stored(click.mail)'
    <2>1. CASE click' = click
        BY <1>1, <2>1 DEF RowsInv, MailShape
    <2>2. ASSUME NEW m \in Mails, RelayNow(m)
          PROVE  (click.at # "none")' => Stored(click.mail)'
        BY <1>1, <2>2 DEF RelayNow
    <2>3. CASE MarkPending
        BY <1>1, <2>3 DEF MarkPending, RowsInv, MailShape
    <2>4. CASE EnqueueAgain
        BY <2>4 DEF EnqueueAgain, NoClick
    <2>5. CASE MailQuiet /\ ~MarkPending /\ ~\E m \in Mails : RelayNow(m)
        BY <2>1, <2>5 DEF MailQuiet, Arrives, StoreFails, SkipNameless, SkipForeign,
                          HandleStored, Store,
           FailsToo, Fetch, MarkSeen, EnqueueFails, MarkFails, AdapterPosts
    <2>6. CASE Going
        BY <2>1, <2>6 DEF Going, RelayPosts, RelayOpens, RelayNotes, RelayAnnotates, CrmAsks,
           CrmTimesOut, CrmRefreshes
    <2>7. CASE Committing \/ Ending
        BY <2>1, <2>7 DEF Committing, RelayDeclines, RelayBreaks, RelayStores, CrmRecords,
           Ending, RelaySkips, CrmSkips, Raise, Finish
    <2>8. CASE \/ EnqueueRelay \/ EnqueueCrm \/ (\E j \in Jobs : ClaimMail(j)) \/ Crash
               \/ Restart \/ (\E m \in Mails : AdapterCommits(m)) \/ UNCHANGED mailVars
        BY <2>1, <2>8 DEF EnqueueRelay, EnqueueCrm, ClaimMail, Crash, Restart, AdapterCommits,
           mailVars
    <2> QED  BY <2>2, <2>3, <2>4, <2>5, <2>6, <2>7, <2>8, MailSteps DEF Submitting
<1> QED  BY <1>2, <1>3, <1>4 DEF RowsInv

-----------------------------------------------------------------------------
(* What is lost *)

(* The actions of the handlers and of the adapter leave the poller alone. *)
LEMMA PollerRests ==
    ASSUME Going \/ Committing \/ Ending \/ (\E m \in Mails : AdapterCommits(m) \/ AdapterPosts(m))
           \/ (\E j \in Jobs : ClaimMail(j)) \/ Restart \/ MarkPending \/ EnqueueAgain
           \/ (\E m \in Mails : Arrives(m) \/ RelayNow(m))
    PROVE  UNCHANGED <<poll, outages>>
<1>1. CASE Going
    BY <1>1 DEF Going, RelayPosts, RelayOpens, RelayNotes, RelayAnnotates, CrmAsks,
       CrmTimesOut, CrmRefreshes
<1>2. CASE Committing \/ Ending
    BY <1>2 DEF Committing, RelayDeclines, RelayBreaks, RelayStores, CrmRecords,
       Ending, RelaySkips, CrmSkips, Raise, Finish
<1>3. CASE \/ \E m \in Mails : AdapterCommits(m) \/ AdapterPosts(m) \/ Arrives(m) \/ RelayNow(m)
           \/ (\E j \in Jobs : ClaimMail(j)) \/ Restart \/ MarkPending \/ EnqueueAgain
    BY <1>3 DEF AdapterCommits, AdapterPosts, Arrives, RelayNow, ClaimMail, Restart,
       MarkPending, EnqueueAgain
<1> QED  BY <1>1, <1>2, <1>3

(* A message that is stored is the one the poller then holds. *)
LEMMA NewlyStored ==
    ASSUME WorkerInv, MailShape, StepsInv, RowsInv, [MailNext]_mailVars,
           NEW n \in Mails, relay[n] = "none", relay'[n] # "none"
    PROVE  poll'.cur = n
<1> USE DEF logVars
<1>1. CASE relay' = relay
    BY <1>1
<1>2. ASSUME NEW m \in Mails, Store(m)
      PROVE  poll'.cur = n
    BY <1>2 DEF Store, MailShape
<1>3. CASE MarkPending
    BY <1>3 DEF MarkPending, RowsInv, Stored, MailShape
<1>4. CASE MailQuiet /\ ~MarkPending /\ ~\E m \in Mails : Store(m)
    BY <1>1, <1>4 DEF MailQuiet, Arrives, StoreFails, RelayNow, SkipNameless, SkipForeign,
                      HandleStored,
       FailsToo, Fetch, MarkSeen, EnqueueFails, MarkFails, AdapterPosts
<1>5. CASE Committing
    <2>1. phase[cur] # "absent" /\ cur \in Jobs /\ Msg = cur[2] /\ Busy
        BY <1>5, CommittingTable, AboutMail DEF Undecided, Msg
    <2>2. Stored(Msg)
        BY <2>1 DEF RowsInv
    <2>3. \A m \in Mails : m # Msg => relay'[m] = relay[m]
        BY <1>5 DEF Committing, RelayDeclines, RelayBreaks, RelayStores, CrmRecords, RelayIs,
           MailShape
    <2> QED  BY <2>2, <2>3 DEF Stored
<1>6. CASE Submitting \/ Ending
    BY <1>1, <1>6 DEF Submitting, EnqueueRelay, EnqueueCrm, EnqueueAgain, Ending, RelaySkips,
       CrmSkips, Raise, Finish
<1>7. CASE Going
    BY <1>1, <1>7 DEF Going, RelayPosts, RelayOpens, RelayNotes, RelayAnnotates, CrmAsks,
       CrmTimesOut, CrmRefreshes
<1>8. CASE \/ (\E j \in Jobs : ClaimMail(j)) \/ Crash \/ Restart
           \/ (\E m \in Mails : AdapterCommits(m)) \/ UNCHANGED mailVars
    BY <1>1, <1>8 DEF ClaimMail, Crash, Restart, AdapterCommits, mailVars
<1> QED  BY <1>2, <1>3, <1>4, <1>5, <1>6, <1>7, <1>8, MailSteps

(* The poller lets go of a message once it has enqueued what it had to, or for a
   fault. *)
LetGo ==
    poll.cur # Nobody =>
        \/ poll'.cur = poll.cur
        \/ poll.at = "relaying"
        \/ crashes' = crashes /\ outages' = outages + 1
        \/ crashes' = crashes + 1 /\ outages' = outages

(* It is let go of in no other way. *)
LEMMA LetsGo ==
    ASSUME WorkerInv, MailShape, StepsInv, RowsInv, [MailNext]_mailVars
    PROVE  LetGo
<1> USE DEF LetGo
<1>0. poll.cur # Nobody => poll.at \in {"created", "relaying"}
    BY DEF MailShape
<1>1. CASE UNCHANGED poll
    BY <1>1
<1>2. CASE \/ \E m \in Mails : SkipNameless(m) \/ SkipForeign(m) \/ StoreFails(m)
                            \/ FailsToo(m) \/ HandleStored(m)
                               \/ Store(m)
           \/ Fetch \/ MarkSeen \/ MarkFails
    BY <1>0, <1>2 DEF SkipNameless, SkipForeign, StoreFails, FailsToo, HandleStored, Store,
                      Takes, Fetch,
       MarkSeen, MarkFails
<1>3. CASE EnqueueRelay
    BY <1>3 DEF EnqueueRelay, MailShape
<1>4. CASE EnqueueCrm
    BY <1>4 DEF EnqueueCrm
<1>5. CASE EnqueueFails
    BY <1>5 DEF EnqueueFails, Outage, workerVars
<1>6. CASE Crash
    BY <1>6, Dies DEF Crash
<1> QED  BY <1>1, <1>2, <1>3, <1>4, <1>5, <1>6, PollerRests, MailSteps
         DEF MailQuiet, Submitting, mailVars

(* After EnqueueRelay the job of what can be relayed is there. *)
LEMMA RelayEnqueued ==
    ASSUME WorkerInv, MailShape, StepsInv, RowsInv, LossInv, [MailNext]_mailVars,
           poll'.at = "relaying", Relayable(poll.cur)'
    PROVE  phase'[<<"ghl", poll'.cur>>] # "absent"
<1>0. /\ look' = look
      /\ \A j \in Jobs : phase[j] # "absent" => phase'[j] # "absent"
      /\ \A m \in Mails : Relayable(m)' = Relayable(m)
    BY MailOnlyGrows, MailTable DEF MailGrows, TableMoves, Relayable, ParseStatus
<1>1. CASE UNCHANGED poll
    <2>1. poll.cur \in Mails /\ poll.at = "relaying"
        BY <1>1 DEF MailShape
    <2>2. Relayable(poll.cur)
        BY <1>0, <1>1, <2>1 DEF Relayable, ParseStatus
    <2> QED  BY <1>0, <1>1, <2>1, <2>2, MailJobs DEF LossInv
<1>2. CASE EnqueueRelay
    <2>1. poll.cur \in Mails /\ poll'.cur = poll.cur
        BY <1>2 DEF EnqueueRelay, MailShape
    <2>2. Submit(<<"ghl", poll.cur>>)
        BY <1>0, <1>2, <2>1 DEF EnqueueRelay, Relayable, ParseStatus
    <2>3. phase' = [phase EXCEPT ![<<"ghl", poll.cur>>] = "pending"]
        BY <2>1, <2>2, MailJobs, Submits
    <2> QED  BY <2>1, <2>3, MailJobs DEF WorkerInv
<1>3. CASE \/ \E m \in Mails : SkipNameless(m) \/ SkipForeign(m) \/ StoreFails(m)
                            \/ FailsToo(m) \/ HandleStored(m)
                               \/ Store(m)
           \/ Fetch \/ MarkSeen \/ MarkFails \/ Crash
    <2>1. CASE Fetch
        <3>1. PICK batch \in SUBSET Mails :
                  poll' = [IdlePoll EXCEPT !.at = "next", !.todo = batch]
            BY <2>1 DEF Fetch
        <3>2. poll'.at = "next"
            BY <3>1 DEF IdlePoll
        <3> QED  BY <3>2
    <2>2. CASE \E m \in Mails : SkipNameless(m) \/ SkipForeign(m) \/ StoreFails(m)
                             \/ FailsToo(m) \/ HandleStored(m)
        <3>1. poll'.at = poll.at /\ poll.at = "next"
            BY <2>2 DEF SkipNameless, SkipForeign, StoreFails, FailsToo, HandleStored, Takes,
                        MailShape
        <3> QED  BY <3>1
    <2>3. CASE (\E m \in Mails : Store(m)) \/ MarkSeen \/ MarkFails \/ Crash
        <3>1. ASSUME NEW m \in Mails, Store(m)
              PROVE  poll'.at = "created"
            BY <3>1 DEF Store, MailShape
        <3>2. MarkSeen \/ MarkFails \/ Crash => poll'.at = "idle"
            BY DEF MarkSeen, MarkFails, Crash, IdlePoll
        <3> QED  BY <2>3, <3>1, <3>2
    <2> QED  BY <1>3, <2>1, <2>2, <2>3
<1>4. CASE EnqueueCrm
    BY <1>4, HandledOn DEF EnqueueCrm
<1>5. CASE EnqueueFails
    <2>1. poll'.at = "next"
        <3>1. CASE poll.at = "relaying"
            BY <1>5, <3>1, HandledOn DEF EnqueueFails
        <3>2. CASE poll.at # "relaying"
            <4>1. poll' = [poll EXCEPT !.at = "next", !.cur = Nobody, !.broken = TRUE]
                BY <1>5, <3>2 DEF EnqueueFails
            <4> QED  BY <4>1 DEF MailShape
        <3> QED  BY <3>1, <3>2
    <2> QED  BY <2>1
<1> QED  BY <1>1, <1>2, <1>3, <1>4, <1>5, PollerRests, MailSteps
         DEF MailQuiet, Submitting, mailVars

(* Each death or failed statement strands one message at most. *)
LEMMA LossKept ==
    ASSUME WorkerInv, MailShape, StepsInv, RowsInv, LossInv, [MailNext]_mailVars
    PROVE  LossInv'
<1>0. /\ look' = look
      /\ \A m \in Mails : Relayable(m)' = Relayable(m)
      /\ \A j \in Jobs : phase[j] # "absent" => phase'[j] # "absent"
      /\ crashes' \in {crashes, crashes + 1} /\ outages' \in {outages, outages + 1}
    BY MailOnlyGrows, MailTable DEF MailGrows, TableMoves, Relayable, ParseStatus
<1>1. crashes \in Nat /\ outages \in Nat
    BY WorkerAssumption DEF WorkerInv, MailShape
<1>2. Stranded' \subseteq Stranded \union {poll.cur}
    <2> SUFFICES ASSUME NEW m \in Mails, Stored(m)', Relayable(m)', m # poll'.cur,
                        phase'[<<"ghl", m>>] = "absent", m # poll.cur
                 PROVE  m \in Stranded
        BY DEF Stranded
    <2>1. Stored(m)
        BY NewlyStored DEF Stored
    <2> QED  BY <1>0, <2>1, MailJobs DEF Stranded
<1>3. ASSUME crashes' = crashes, outages' = outages
      PROVE  Stranded' \subseteq Stranded
    <2> SUFFICES ASSUME poll.cur \in Stranded'
                 PROVE  FALSE
        BY <1>2
    <2>1. /\ poll.cur \in Mails /\ Relayable(poll.cur) /\ poll.cur # poll'.cur
          /\ phase'[<<"ghl", poll.cur>>] = "absent"
        BY <1>0 DEF Stranded
    <2>2. poll.cur # Nobody
        BY <2>1, MailIntakeAssumption
    <2>3. poll.at = "relaying"
        BY <1>1, <1>3, <2>1, <2>2, LetsGo DEF LetGo
    <2> QED  BY <1>0, <2>1, <2>3, MailJobs DEF LossInv
<1>4. IsFiniteSet(Stranded) /\ Cardinality(Stranded) \in Nat
    BY FS_CardinalityType DEF LossInv
<1>5. /\ IsFiniteSet(Stranded \union {poll.cur})
      /\ Cardinality(Stranded \union {poll.cur}) =< Cardinality(Stranded) + 1
    BY <1>4, FS_AddElement
<1>6. IsFiniteSet(Stranded')
    BY <1>2, <1>5, FS_Subset
<1>7. Cardinality(Stranded') =< crashes' + outages'
    <2>1. PICK c \in {crashes, crashes + 1}, o \in {outages, outages + 1} :
              crashes' = c /\ outages' = o
        BY <1>0
    <2>2. c \in Nat /\ o \in Nat
        BY <1>1
    <2>3. Cardinality(Stranded) =< crashes + outages
        BY DEF LossInv
    <2>4. Cardinality(Stranded') \in Nat
        BY <1>6, FS_CardinalityType
    <2>5. CASE c = crashes /\ o = outages
        <3>1. Cardinality(Stranded') =< Cardinality(Stranded)
            BY <1>3, <1>4, <2>1, <2>5, FS_Subset
        <3>2. Cardinality(Stranded') =< c + o
            BY <1>1, <1>4, <2>3, <2>4, <2>5, <3>1
        <3> QED  BY <2>1, <3>2
    <2>6. CASE ~(c = crashes /\ o = outages)
        <3>1. Cardinality(Stranded') =< Cardinality(Stranded \union {poll.cur})
            BY <1>2, <1>5, FS_Subset
        <3>2. Cardinality(Stranded \union {poll.cur}) \in Nat
            BY <1>5, FS_CardinalityType
        <3>3. Cardinality(Stranded') =< Cardinality(Stranded) + 1
            BY <1>4, <1>5, <2>4, <3>1, <3>2
        <3>4. c + o >= crashes + outages + 1
            BY <1>1, <2>6
        <3>5. Cardinality(Stranded') =< c + o
            BY <1>1, <1>4, <2>2, <2>3, <2>4, <3>3, <3>4
        <3> QED  BY <2>1, <3>5
    <2> QED  BY <2>5, <2>6
<1> QED  BY <1>6, <1>7, RelayEnqueued DEF LossInv

-----------------------------------------------------------------------------
(* The stamp and its job *)

(* The steps that concern neither the stamps nor the adapter. *)
LEMMA StampRests ==
    ASSUME \/ (MailQuiet /\ ~\E n \in Mails : AdapterPosts(n)) \/ EnqueueRelay \/ EnqueueAgain
           \/ (Going /\ ~CrmAsks) \/ RelayDeclines \/ RelayBreaks \/ RelayStores \/ Ending
           \/ (\E j \in Jobs : ClaimMail(j)) \/ Crash \/ Restart \/ UNCHANGED mailVars
    PROVE  UNCHANGED <<crm, hop, crmGot>>
<1> USE DEF logVars, sideVars
<1>1. CASE MailQuiet /\ ~\E n \in Mails : AdapterPosts(n)
    BY <1>1 DEF MailQuiet, Arrives, StoreFails, RelayNow, SkipNameless, SkipForeign,
                HandleStored, Store,
       FailsToo, Fetch, MarkSeen, EnqueueFails, MarkFails, MarkPending
<1>2. CASE Going /\ ~CrmAsks
    BY <1>2 DEF Going, RelayPosts, RelayOpens, RelayNotes, RelayAnnotates, CrmTimesOut,
       CrmRefreshes
<1>3. CASE RelayDeclines \/ RelayBreaks \/ RelayStores \/ Ending
    BY <1>3 DEF RelayDeclines, RelayBreaks, RelayStores, Ending, RelaySkips, CrmSkips, Raise,
       Finish
<1>4. CASE \/ EnqueueRelay \/ EnqueueAgain \/ (\E j \in Jobs : ClaimMail(j)) \/ Crash
           \/ Restart \/ UNCHANGED mailVars
    BY <1>4 DEF EnqueueRelay, EnqueueAgain, ClaimMail, Crash, Restart, mailVars
<1> QED  BY <1>1, <1>2, <1>3, <1>4

(* Stamp, job and answer stay in agreement. *)
LEMMA StampedKept ==
    ASSUME WorkerInv, MailShape, StepsInv, RowsInv, StampInv, [MailNext]_mailVars,
           NEW m \in Mails
    PROVE  Stamped(m)'
<1> DEFINE j == <<"crm", m>>
<1> USE DEF Stamped, Actionable
<1>0. /\ j \in Jobs /\ phase \in [Jobs -> Phases] /\ Stamped(m)
      /\ crm[m] \in {"null", "queued", "failed", "sent", "refused"}
    BY MailJobs DEF StampInv, WorkerInv, MailShape
<1>1. ASSUME phase'[j] = phase[j], UNCHANGED <<crm, hop, crmGot>>
      PROVE  Stamped(m)'
    BY <1>0, <1>1
<1>2. CASE \/ (MailQuiet /\ ~\E n \in Mails : AdapterPosts(n)) \/ (Going /\ ~CrmAsks)
           \/ (\E k \in Jobs : ClaimMail(k)) \/ Crash \/ Restart \/ UNCHANGED mailVars
    <2>1. phase' = phase
        BY <1>2, QuietTable, GoingTable, Dies, Restarts
           DEF ClaimMail, ClaimFor, Crash, Restart, mailVars, workerVars, tableVars
    <2> QED  BY <1>1, <1>2, <2>1, StampRests
<1>3. CASE EnqueueRelay \/ EnqueueAgain
    <2>1. phase'[j] = phase[j]
        <3>1. \/ UNCHANGED workerVars
              \/ \E k \in Jobs : k # j /\ Submit(k)
            <4>1. CASE EnqueueRelay
                <5>1. poll.cur \in Mails
                    BY <4>1 DEF EnqueueRelay, MailShape
                <5> QED  BY <4>1, <5>1, MailJobs DEF EnqueueRelay
            <4>2. CASE EnqueueAgain
                <5>1. click.mail \in Mails /\ <<"again", click.mail>> \in Jobs
                    BY <4>2 DEF EnqueueAgain, MailShape
                <5> QED  BY <4>2, <5>1 DEF EnqueueAgain
            <4> QED  BY <1>3, <4>1, <4>2
        <3> QED  BY <1>0, <3>1, Submits DEF workerVars
    <2> QED  BY <1>1, <1>3, <2>1, StampRests
<1>4. CASE EnqueueCrm
    <2>1. poll.cur \in Mails /\ UNCHANGED <<hop, crmGot>>
        BY <1>4 DEF EnqueueCrm, MailShape, sideVars
    <2>2. CASE Delivered(poll.cur)
        <3>1. /\ crm' = [crm EXCEPT ![poll.cur] = "queued"] /\ Submit(<<"crm", poll.cur>>)
            BY <1>4, <2>2 DEF EnqueueCrm, StampAndEnqueue
        <3>2. /\ phase[<<"crm", poll.cur>>] = "absent"
              /\ phase' = [phase EXCEPT ![<<"crm", poll.cur>>] = "pending"]
            BY <2>1, <3>1, MailJobs, Submits
        <3>3. CASE m = poll.cur
            <4>1. crm'[m] = "queued" /\ phase'[j] = "pending" /\ crm[m] = "null"
                BY <1>0, <2>1, <3>1, <3>2, <3>3, MailJobs DEF MailShape
            <4> QED  BY <1>0, <2>1, <4>1 DEF Undecided
        <3>4. CASE m # poll.cur
            <4>1. crm'[m] = crm[m] /\ phase'[j] = phase[j]
                BY <1>0, <2>1, <3>1, <3>2, <3>4, MailJobs DEF MailShape
            <4> QED  BY <1>0, <2>1, <4>1
        <3> QED  BY <3>3, <3>4
    <2>3. CASE ~Delivered(poll.cur)
        BY <1>1, <1>4, <2>1, <2>3 DEF EnqueueCrm, workerVars
    <2> QED  BY <2>2, <2>3
<1>5. CASE RelayDeclines \/ RelayBreaks \/ RelayStores
    <2>1. cur # j
        BY <1>5, AboutMail DEF RelayDeclines, RelayBreaks, RelayStores, StepsInv, Relaying
    <2>2. phase'[j] = phase[j]
        BY <1>0, <1>5, <2>1, CommittingTable, CommitsWith DEF Committing
    <2> QED  BY <1>1, <1>5, <2>2, StampRests
<1>6. CASE CrmRecords
    <2>1. /\ cur = <<"crm", Msg>> /\ Msg \in Mails /\ crm' = [crm EXCEPT ![Msg] = "failed"]
          /\ UNCHANGED <<hop, crmGot>> /\ Busy
        BY <1>6, AboutMail DEF CrmRecords, StepsInv, Telling, sideVars
    <2>2. phase'[cur] = "running" /\ (j # cur => phase'[j] = phase[j])
        BY <1>0, <1>6, CommittingTable, CommitsWith DEF Committing
    <2>3. CASE m = Msg
        BY <1>0, <2>1, <2>2, <2>3 DEF MailShape
    <2>4. CASE m # Msg
        BY <1>0, <2>1, <2>2, <2>4 DEF MailShape
    <2> QED  BY <2>3, <2>4
<1>7. CASE Ending
    <2>1. UNCHANGED <<crm, hop, crmGot>>
        BY <1>7, StampRests
    <2>2. CASE cur = j
        <3>1. /\ Busy /\ Msg = m /\ cur[1] = "crm" /\ phase[j] \in Undecided
            BY <1>7, <2>2, EndingTable, AboutMail DEF Msg
        <3>2. CASE RelaySkips
            BY <3>1, <3>2 DEF RelaySkips, StepsInv, Relaying
        <3>3. CASE CrmSkips \/ Finish
            <4>1. crm[m] \in {"sent", "refused"}
                BY <1>0, <3>1, <3>3 DEF CrmSkips, Finish, StampInv, ToldInv, Undecided
            <4>2. phase'[j] # "absent"
                BY <1>0, <1>7, MailTable, <3>1 DEF TableMoves, Undecided
            <4> QED  BY <1>0, <2>1, <4>1, <4>2
        <3>4. CASE Raise
            <4>1. crm[m] # "queued" /\ crm[m] # "null"
                BY <1>0, <3>1, <3>4 DEF Raise, StampInv, ToldInv, Undecided
            <4>2. phase'[j] \in {"pending", "failed"}
                BY <1>0, <2>2, <3>4 DEF Raise, Failed, Q!Verdict
            <4> QED  BY <1>0, <2>1, <4>1, <4>2
        <3> QED  BY <1>7, <3>2, <3>3, <3>4 DEF Ending
    <2>3. CASE cur # j
        <3>1. phase'[j] = phase[j]
            BY <1>0, <1>7, <2>3, EndingTable, Concludes
        <3> QED  BY <1>1, <2>1, <3>1
    <2> QED  BY <2>2, <2>3
<1>8. ASSUME NEW n \in Mails, AdapterPosts(n)
      PROVE  Stamped(m)'
    <2>1. PICK answer \in {"sent", "refused", "failed"} :
              /\ hop' = [hop EXCEPT ![n] = answer]
              /\ crmGot' \in CASE answer = "sent" -> {crmGot \union {n}}
                                [] answer = "refused" -> {crmGot}
                                [] answer = "failed" -> {crmGot, crmGot \union {n}}
        BY <1>8 DEF AdapterPosts
    <2>2. /\ hop[n] = "read" /\ UNCHANGED <<crm, phase>>
        BY <1>8 DEF AdapterPosts, logVars, workerVars
    <2>3. crmGot \subseteq crmGot' /\ (answer = "sent" => n \in crmGot')
        BY <2>1
    <2> QED  BY <1>0, <2>1, <2>2, <2>3 DEF MailShape
<1>9. ASSUME NEW n \in Mails, AdapterCommits(n)
      PROVE  Stamped(m)'
    <2>1. /\ hop[n] \in {"sent", "refused", "failed"} /\ UNCHANGED <<phase, crmGot>>
          /\ crm' = [crm EXCEPT ![n] = hop[n]] /\ hop' = [hop EXCEPT ![n] = "none"]
        BY <1>9 DEF AdapterCommits, workerVars, tableVars, sideVars
    <2>2. CASE m = n
        BY <1>0, <2>1, <2>2 DEF MailShape
    <2>3. CASE m # n
        BY <1>0, <2>1, <2>3 DEF MailShape
    <2> QED  BY <2>2, <2>3
<1>10. CASE CrmAsks
    <2>1. /\ Actionable(Msg) /\ Msg \in Mails /\ UNCHANGED <<crm, crmGot, phase>>
          /\ hop' = [hop EXCEPT ![Msg] = IF @ = "none" THEN "read" ELSE @]
        BY <1>10, AboutMail DEF CrmAsks, logVars, tableVars
    <2> QED  BY <1>0, <2>1 DEF MailShape
<1> QED  BY <1>2, <1>3, <1>4, <1>5, <1>6, <1>7, <1>8, <1>9, <1>10, MailSteps
         DEF Submitting, Committing, MailQuiet

(* A verdict follows what the adapter answered, if it did. *)
LEMMA ToldKept ==
    ASSUME WorkerInv, MailShape, StepsInv, RowsInv, StampInv, [MailNext]_mailVars
    PROVE  ToldInv'
<1> USE DEF ToldInv
<1>1. CASE at' \notin {"finish", "raise"} \/ cur'[1] # "crm"
    BY <1>1
<1>2. CASE UNCHANGED <<at, cur, crm>>
    BY <1>2 DEF StampInv, Msg
<1>3. CASE (MailQuiet /\ ~\E n \in Mails : AdapterPosts(n)) \/ UNCHANGED mailVars
    BY <1>2, <1>3, QuietTable, StampRests DEF workerVars, mailVars, logVars
<1>4. CASE EnqueueRelay \/ EnqueueAgain
    BY <1>2, <1>4, SubmittingTable, StampRests, Submits DEF Submitting, workerVars
<1>5. CASE EnqueueCrm
    <2>1. poll.cur \in Mails
        BY <1>5 DEF EnqueueCrm, MailShape
    <2>2. CASE Delivered(poll.cur)
        <3>1. crm' = [crm EXCEPT ![poll.cur] = "queued"] /\ Submit(<<"crm", poll.cur>>)
            BY <1>5, <2>2 DEF EnqueueCrm, StampAndEnqueue
        <3>2. phase[<<"crm", poll.cur>>] = "absent" /\ UNCHANGED <<at, cur>>
            BY <2>1, <3>1, MailJobs, Submits
        <3>3. ASSUME Busy, cur[1] = "crm"
              PROVE  crm'[Msg] = crm[Msg]
            BY <3>1, <3>2, <3>3, AboutMail DEF Undecided, MailShape
        <3> QED  BY <3>2, <3>3, AboutMail DEF StampInv, Msg
    <2>3. CASE ~Delivered(poll.cur)
        BY <1>2, <1>5, <2>3 DEF EnqueueCrm, workerVars
    <2> QED  BY <2>2, <2>3
<1>6. CASE Going /\ ~CrmRefreshes
    <2>1. at' \notin {"finish", "raise"}
        <3>1. CASE RelayPosts \/ RelayAnnotates \/ CrmAsks \/ CrmTimesOut
            BY <3>1 DEF RelayPosts, RelayAnnotates, CrmAsks, CrmTimesOut, Advance
        <3>2. CASE RelayOpens \/ RelayNotes
            <4>1. at' \in {"opened", "duplicate", "carded", "noted"}
                BY <3>2 DEF RelayOpens, RelayNotes, Advance
            <4> QED  BY <4>1
        <3> QED  BY <1>6, <3>1, <3>2 DEF Going
    <2> QED  BY <1>1, <2>1
<1>7. CASE CrmRefreshes
    <2>1. /\ cur' = cur /\ crm' = crm /\ at' \in {"unsent", "raise"}
          /\ at' = "raise" => ~Actionable(Msg)
        BY <1>7 DEF CrmRefreshes, Advance, logVars
    <2> QED  BY <2>1 DEF Actionable, Msg
<1>8. CASE RelayDeclines \/ RelayBreaks \/ RelayStores
    <2>1. cur'[1] # "crm"
        BY <1>8, CommittingTable, CommitsOn
           DEF Committing, RelayDeclines, RelayBreaks, RelayStores, StepsInv, Relaying
    <2> QED  BY <1>1, <2>1
<1>9. CASE CrmRecords
    <2>1. /\ cur' = cur /\ at' = "raise" /\ crm' = [crm EXCEPT ![Msg] = "failed"]
          /\ Msg \in Mails
        BY <1>9, AboutMail DEF CrmRecords, Advance
    <2> QED  BY <2>1 DEF Msg, MailShape
<1>10. CASE Ending
    BY <1>1, <1>10, EndingTable, Concludes
<1>11. ASSUME NEW n \in Mails, AdapterPosts(n)
       PROVE  ToldInv'
    BY <1>2, <1>11 DEF AdapterPosts, workerVars, logVars
<1>12. ASSUME NEW n \in Mails, AdapterCommits(n)
       PROVE  ToldInv'
    <2>1. /\ hop[n] \in {"sent", "refused", "failed"} /\ crm' = [crm EXCEPT ![n] = hop[n]]
          /\ cur' = cur
        BY <1>12 DEF AdapterCommits, workerVars, Advance
    <2>2. CASE at = "asked" /\ Msg = n
        <3>1. at' = IF hop[n] = "failed" THEN "unheard" ELSE "finish"
            BY <1>12, <2>2 DEF AdapterCommits, Advance
        <3>2. crm'[n] = hop[n]
            BY <2>1 DEF MailShape
        <3> QED  BY <2>1, <2>2, <3>1, <3>2 DEF Msg
    <2>3. CASE ~(at = "asked" /\ Msg = n)
        <3>1. at' = at
            BY <1>12, <2>3 DEF AdapterCommits, workerVars
        <3>2. CASE at \in {"finish", "raise"} /\ cur[1] = "crm"
            <4>1. Msg \in Mails /\ crm[n] \in {"queued", "failed"}
                BY <2>1, <3>2, AboutMail DEF StampInv, Stamped, Actionable
            <4>2. CASE Msg = n
                BY <2>1, <3>1, <3>2, <4>1, <4>2 DEF StampInv, Msg, MailShape
            <4>3. CASE Msg # n
                BY <2>1, <3>1, <3>2, <4>1, <4>3 DEF StampInv, Msg, MailShape
            <4> QED  BY <4>2, <4>3
        <3>3. CASE ~(at \in {"finish", "raise"} /\ cur[1] = "crm")
            BY <1>1, <2>1, <3>1, <3>3
        <3> QED  BY <3>2, <3>3
    <2> QED  BY <2>2, <2>3
<1>13. CASE (\E j \in Jobs : ClaimMail(j)) \/ Crash \/ Restart
    <2>1. at' \notin {"finish", "raise"}
        BY <1>13, Dies, Restarts DEF ClaimMail, ClaimFor, Crash, Restart
    <2> QED  BY <1>1, <2>1
<1> QED  BY <1>3, <1>4, <1>5, <1>6, <1>7, <1>8, <1>9, <1>10, <1>11, <1>12, <1>13, MailSteps
         DEF Submitting, Committing, MailQuiet, Going

-----------------------------------------------------------------------------
(* What reached GoHighLevel *)

(* The steps of the relay, and the rest. *)
LEMMA RelayRests ==
    ASSUME [MailNext]_mailVars,
           ~RelayDeclines, ~RelayBreaks, ~RelayStores, ~RelayOpens, ~RelayNotes, ~RelayAnnotates
    PROVE  UNCHANGED <<relayed, contact, card, notes>>
<1> USE DEF logVars, ghlVars
<1>1. CASE MailQuiet
    BY <1>1 DEF MailQuiet, Arrives, StoreFails, RelayNow, SkipNameless, SkipForeign,
                HandleStored, Store,
       FailsToo, Fetch, MarkSeen, EnqueueFails, MarkFails, MarkPending, AdapterPosts
<1>2. CASE Submitting
    BY <1>2 DEF Submitting, EnqueueRelay, EnqueueCrm, EnqueueAgain
<1>3. CASE Going
    BY <1>3 DEF Going, RelayPosts, CrmAsks, CrmTimesOut, CrmRefreshes
<1>4. CASE Committing \/ Ending
    BY <1>4 DEF Committing, CrmRecords, Ending, RelaySkips, CrmSkips, Raise, Finish
<1>5. CASE (\E j \in Jobs : ClaimMail(j)) \/ (\E m \in Mails : AdapterCommits(m)) \/ Crash
           \/ Restart \/ UNCHANGED mailVars
    BY <1>5 DEF ClaimMail, AdapterCommits, Crash, Restart, mailVars
<1> QED  BY <1>1, <1>2, <1>3, <1>4, <1>5, MailSteps

(* Only RelayStores says that something was relayed. *)
LEMMA RelayWords ==
    ASSUME MailShape, [MailNext]_mailVars, ~RelayStores
    PROVE  /\ UNCHANGED <<relayed, contact>>
           /\ \A m \in Mails : \/ relay'[m] = relay[m]
                               \/ relay'[m] \notin {"sent", "cancellation_noted"}
<1> USE DEF logVars, MailShape
<1>1. CASE RelayDeclines \/ RelayBreaks
    BY <1>1 DEF RelayDeclines, RelayBreaks, RelayIs
<1>2. CASE RelayOpens \/ RelayNotes \/ RelayAnnotates
    BY <1>2 DEF RelayOpens, RelayNotes, RelayAnnotates
<1>3. ASSUME NEW m \in Mails, Store(m)
      PROVE  \A n \in Mails : \/ relay'[n] = relay[n]
                              \/ relay'[n] \notin {"sent", "cancellation_noted"}
    BY <1>3 DEF Store
<1>4. CASE MarkPending
    BY <1>4 DEF MarkPending
<1>5. CASE MailQuiet /\ ~MarkPending /\ ~\E m \in Mails : Store(m)
    BY <1>5 DEF MailQuiet, Arrives, StoreFails, RelayNow, SkipNameless, SkipForeign, HandleStored,
       FailsToo, Fetch, MarkSeen, EnqueueFails, MarkFails, AdapterPosts
<1>6. CASE Submitting
    BY <1>6 DEF Submitting, EnqueueRelay, EnqueueCrm, EnqueueAgain
<1>7. CASE RelayPosts \/ CrmAsks \/ CrmTimesOut \/ CrmRefreshes
    BY <1>7 DEF RelayPosts, CrmAsks, CrmTimesOut, CrmRefreshes
<1>8. CASE CrmRecords \/ Ending
    BY <1>8 DEF CrmRecords, Ending, RelaySkips, CrmSkips, Raise, Finish
<1>9. CASE (\E j \in Jobs : ClaimMail(j)) \/ (\E m \in Mails : AdapterCommits(m)) \/ Crash
           \/ Restart \/ UNCHANGED mailVars
    BY <1>9 DEF ClaimMail, AdapterCommits, Crash, Restart, mailVars
<1>10. (\E m \in Mails : Store(m)) => UNCHANGED <<relayed, contact>>
    BY DEF Store
<1> QED  BY <1>1, <1>2, <1>3, <1>4, <1>5, <1>6, <1>7, <1>8, <1>9, <1>10, MailSteps,
            RelayRests DEF MailQuiet, Going, Committing

(* The parser's verdicts are three. *)
LEMMA Verdicts ==
    ASSUME MailShape, [MailNext]_mailVars, WorkerInv, StepsInv, RowsInv, NEW m
    PROVE  ParseStatus(m)' = ParseStatus(m) /\ look' = look
<1> QED  BY MailOnlyGrows DEF MailGrows, ParseStatus

(* What the handler has found stays true until it stores. *)
LEMMA WayKept ==
    ASSUME WorkerInv, MailShape, StepsInv, RowsInv, WayInv, RelayedIsReal, [MailNext]_mailVars
    PROVE  WayInv'
<1> DEFINE Underway == {"opened", "duplicate", "posted", "carded", "noted", "annotated"}
<1>0. /\ look' = look /\ contact \subseteq contact' /\ notes \subseteq notes'
      /\ \A c \in Customers : card[c] # Nobody => card'[c] = card[c]
    BY MailOnlyGrows DEF MailGrows
<1>1. CASE at' \notin Underway
    BY <1>1 DEF WayInv, Relaying
<1>2. CASE UNCHANGED <<at, cur>>
    <2>1. CASE at \notin Underway
        BY <1>1, <1>2, <2>1
    <2>2. CASE at \in Underway
        <3>1. /\ Msg \in Mails /\ Customer \in Customers /\ UNCHANGED <<Msg, Customer>>
              /\ Nobody \notin Mails
            BY <1>2, <2>2, AboutMail, MailIntakeAssumption DEF Msg, Customer
        <3>2. ~RelayStores
            BY <1>2, <2>2 DEF RelayStores, Advance
        <3>3. relayed' = relayed
            BY <3>2, RelayWords
        <3>4. /\ ParseStatus(Msg)' = ParseStatus(Msg)
              /\ ParseStatus(look[Msg].original)' = ParseStatus(look[Msg].original)
            BY <1>0, <3>1 DEF ParseStatus
        <3>5. (at = "annotated" =>
                  /\ Msg \in notes /\ ParseStatus(Msg) = "cancellation"
                  /\ look[Msg].original \in contact
                  /\ ParseStatus(look[Msg].original) = "parsed")'
            BY <1>0, <1>2, <3>1, <3>4 DEF WayInv
        <3> QED  BY <1>0, <1>2, <2>2, <3>1, <3>3, <3>4, <3>5 DEF WayInv, Relaying
    <2> QED  BY <2>1, <2>2
<1>3. CASE MailQuiet \/ UNCHANGED mailVars
    BY <1>2, <1>3, QuietTable DEF workerVars, mailVars
<1>4. CASE Submitting
    BY <1>2, <1>4, SubmittingTable, Submits DEF workerVars
<1>5. CASE RelayPosts
    <2>1. at' = "posted" /\ Msg' = Msg /\ Msg \notin relayed /\ relayed' = relayed
        BY <1>5 DEF RelayPosts, Advance, Msg, logVars
    <2> QED  BY <2>1 DEF WayInv, Relaying
<1>6. CASE RelayOpens
    <2>1. /\ Msg \in Mails /\ Customer \in Customers /\ UNCHANGED <<Msg, Customer>>
          /\ Nobody \notin Mails /\ Msg \notin relayed /\ relayed' = relayed
        BY <1>6, AboutMail, MailIntakeAssumption DEF RelayOpens, Advance, Msg, Customer, logVars
    <2>2. /\ at' = IF card[Customer] = Nobody THEN "opened" ELSE "duplicate"
          /\ card' = [card EXCEPT ![Customer] = IF @ = Nobody THEN Msg ELSE @]
        BY <1>6 DEF RelayOpens, Advance, OpenCard
    <2>3. ParseStatus(Msg)' = "parsed"
        BY <1>0, <1>6, <2>1 DEF RelayOpens, ParseStatus
    <2>4. /\ card'[Customer] # Nobody
          /\ at' = "opened" => card'[Customer] = Msg
        BY <2>1, <2>2 DEF MailShape
    <2>5. at' \in {"opened", "duplicate"}
        BY <2>2
    <2> QED  BY <2>1, <2>3, <2>4, <2>5 DEF WayInv, Relaying
<1>7. CASE RelayNotes
    <2>1. /\ Msg \in Mails /\ Customer \in Customers /\ UNCHANGED <<Msg, Customer, card, relayed>>
        BY <1>7, AboutMail DEF RelayNotes, Advance, Msg, Customer, logVars
    <2>2. at \in {"opened", "duplicate"} /\ at' = IF at = "opened" THEN "carded" ELSE "noted"
        BY <1>7 DEF RelayNotes, Advance
    <2>3. ParseStatus(Msg)' = ParseStatus(Msg)
        BY <1>0, <2>1 DEF ParseStatus
    <2> QED  BY <2>1, <2>2, <2>3 DEF WayInv, Relaying
<1>8. CASE RelayAnnotates
    <2>1. /\ Msg \in Mails /\ UNCHANGED <<Msg, relayed, contact>> /\ at' = "annotated"
          /\ Msg \notin relayed /\ Msg \in notes' /\ ParseStatus(Msg) = "cancellation"
          /\ look[Msg].original \in contact /\ ParseStatus(look[Msg].original) = "parsed"
        BY <1>8, AboutMail DEF RelayAnnotates, Advance, Msg, logVars, Annotates
    <2>2. /\ ParseStatus(Msg)' = "cancellation"
          /\ ParseStatus(look[Msg].original)' = "parsed"
        BY <1>0, <2>1 DEF ParseStatus
    <2> QED  BY <1>0, <2>1, <2>2 DEF WayInv, Relaying
<1>9. CASE CrmAsks \/ CrmTimesOut \/ CrmRefreshes
    <2>1. at' \in {"asked", "unheard", "unsent", "raise"}
        BY <1>9 DEF CrmAsks, CrmTimesOut, CrmRefreshes, Advance
    <2> QED  BY <1>1, <2>1
<1>10. CASE Committing
    BY <1>1, <1>10, CommittingTable DEF Advance
<1>11. CASE Ending
    BY <1>1, <1>11, EndingTable, Concludes
<1>12. CASE (\E j \in Jobs : ClaimMail(j)) \/ Crash \/ Restart
    <2>1. at' \in {"ghl", "crm", "down", "idle"}
        BY <1>12, Dies, Restarts DEF ClaimMail, ClaimFor, Crash, Restart
    <2> QED  BY <1>1, <2>1
<1>13. ASSUME NEW m \in Mails, AdapterCommits(m)
       PROVE  WayInv'
    BY <1>1, <1>2, <1>13, AnsweringTable DEF Advance, workerVars
<1> QED  BY <1>3, <1>4, <1>5, <1>6, <1>7, <1>8, <1>9, <1>10, <1>11, <1>12, <1>13, MailSteps
         DEF Going

(* So what is called relayed was. *)
LEMMA RealKept ==
    ASSUME WorkerInv, MailShape, StepsInv, RowsInv, WayInv, OrderInv, RelayedIsReal,
           [MailNext]_mailVars
    PROVE  OrderInv' /\ RelayedIsReal'
<1>0. /\ look' = look /\ contact \subseteq contact' /\ notes \subseteq notes'
      /\ \A c \in Customers : card[c] # Nobody => card'[c] = card[c]
      /\ contact \subseteq Mails /\ Nobody \notin Mails
      /\ \A m \in Mails : CustomerOf[m] \in Customers
    BY MailOnlyGrows, MailIntakeAssumption DEF MailGrows, MailShape, Customers
<1>1. \A m : WorkOrder(m)' = WorkOrder(m)
    BY <1>0 DEF WorkOrder, ParseStatus
<1>2. CASE ~RelayStores
    <2>1. ASSUME NEW m \in Mails
          PROVE  /\ (relay[m] = "sent" /\ m \in contact => card[CustomerOf[m]] = m)'
                 /\ (m \in contact => card[CustomerOf[WorkOrder(m)]] # Nobody)'
                 /\ (relay[m] = "cancellation_noted" =>
                        m \in notes /\ look[m].original \in contact)'
        <3>1. /\ contact' = contact
              /\ relay'[m] = relay[m] \/ relay'[m] \notin {"sent", "cancellation_noted"}
            BY <1>2, RelayWords
        <3> QED  BY <1>0, <1>1, <2>1, <3>1 DEF RelayedIsReal, OrderInv
    <2>2. OrderInv'
        BY <1>1, <1>2, RelayWords DEF OrderInv
    <2> QED  BY <2>1, <2>2 DEF RelayedIsReal
<1>3. CASE RelayStores
    <2>1. /\ Msg \in Mails /\ at \in {"posted", "carded", "noted", "annotated"}
          /\ card' = card
          /\ relay' = [relay EXCEPT ![Msg] =
                          CASE at \in {"posted", "carded"} -> "sent"
                            [] at = "noted" -> "sent_as_note"
                            [] at = "annotated" -> "cancellation_noted"]
          /\ contact' = IF at = "posted" THEN contact ELSE contact \union {Msg}
        BY <1>3, AboutMail DEF RelayStores, RelayIs, ghlVars
    <2>2. Msg \notin contact
        BY <2>1 DEF WayInv, Relaying, MailShape
    <2>3. ASSUME NEW m \in Mails, m # Msg
          PROVE  /\ (relay[m] = "sent" /\ m \in contact => card[CustomerOf[m]] = m)'
                 /\ (m \in contact => card[CustomerOf[WorkOrder(m)]] # Nobody)'
                 /\ (relay[m] = "cancellation_noted" =>
                        m \in notes /\ look[m].original \in contact)'
        <3>1. relay'[m] = relay[m] /\ (m \in contact' => m \in contact)
            BY <2>1, <2>3 DEF MailShape
        <3> QED  BY <1>0, <1>1, <2>1, <2>3, <3>1 DEF RelayedIsReal, OrderInv
    <2>4. CASE at = "posted"
        <3>1. contact' = contact /\ relay'[Msg] = "sent"
            BY <2>1, <2>4 DEF MailShape
        <3>2. OrderInv'
            BY <1>1, <3>1 DEF OrderInv
        <3> QED  BY <2>2, <2>3, <3>1, <3>2 DEF RelayedIsReal
    <2>5. CASE at \in {"carded", "noted"}
        <3>1. /\ contact' = contact \union {Msg} /\ WorkOrder(Msg) = Msg
              /\ card'[CustomerOf[Msg]] # Nobody
              /\ at = "carded" => card'[CustomerOf[Msg]] = Msg
            BY <2>1, <2>5 DEF WayInv, WorkOrder, Customer
        <3>2. relay'[Msg] = IF at = "carded" THEN "sent" ELSE "sent_as_note"
            BY <2>1, <2>5 DEF MailShape
        <3>3. OrderInv'
            BY <1>1, <3>1 DEF OrderInv
        <3> QED  BY <1>1, <2>3, <2>5, <3>1, <3>2, <3>3 DEF RelayedIsReal
    <2>6. CASE at = "annotated"
        <3>1. /\ Msg \in notes' /\ look'[Msg].original \in contact
              /\ WorkOrder(Msg) = look[Msg].original
              /\ ParseStatus(look[Msg].original) = "parsed"
            BY <1>0, <2>6 DEF WayInv, WorkOrder
        <3>2. WorkOrder(look[Msg].original) = look[Msg].original
            BY <3>1 DEF WorkOrder
        <3>3. card'[CustomerOf[WorkOrder(Msg)]] # Nobody
            BY <1>0, <2>1, <3>1, <3>2 DEF RelayedIsReal
        <3>4. relay'[Msg] = "cancellation_noted" /\ contact' = contact \union {Msg}
            BY <2>1, <2>6 DEF MailShape
        <3>5. OrderInv'
            BY <1>0, <1>1, <3>1, <3>4 DEF OrderInv
        <3> QED  BY <1>0, <1>1, <2>3, <3>1, <3>3, <3>4, <3>5 DEF RelayedIsReal
    <2> QED  BY <2>1, <2>4, <2>5, <2>6
<1> QED  BY <1>2, <1>3

-----------------------------------------------------------------------------
(* The e-mail log can be trusted *)

(* An empty mailbox. *)
LEMMA MailBegins == MailInit => MailInv
<1> SUFFICES ASSUME MailInit PROVE MailInv
    OBVIOUS
<1> USE DEF MailInit
<1>1. WorkerInv /\ phase = [j \in Jobs |-> "absent"] /\ at = "idle" /\ crashes = 0
    BY WorkerStarts DEF WorkerInit, Q!Init
<1>2. MailShape
    BY MailJobs DEF MailShape, IdlePoll, NoClick, RelayStatuses, Customers
<1>3. StepsInv /\ WayInv
    BY <1>1 DEF StepsInv, WayInv, Relaying, Telling
<1>4. RowsInv
    BY <1>1 DEF RowsInv, PollInv, IdlePoll, NoClick
<1>5. LossInv
    <2>1. Stranded = {}
        BY DEF Stranded, Stored
    <2>2. IsFiniteSet({}) /\ Cardinality({}) = 0
        BY FS_EmptySet
    <2> QED  BY <1>1, <2>1, <2>2 DEF LossInv, IdlePoll
<1>6. StampInv
    BY <1>1, MailJobs DEF StampInv, ToldInv, Stamped
<1>7. OrderInv /\ RelayedIsReal
    BY DEF OrderInv, RelayedIsReal
<1> QED  BY <1>1, <1>2, <1>3, <1>4, <1>5, <1>6, <1>7 DEF MailInv

(* The invariant of the log, for any mailbox and any number of polls, relays,
   faults and deaths. *)
THEOREM MailInvariant == MailSpec => []MailInv
<1>1. MailInv /\ [MailNext]_mailVars => MailInv'
    <2> SUFFICES ASSUME MailInv, [MailNext]_mailVars PROVE MailInv'
        OBVIOUS
    <2>1. /\ WorkerInv /\ MailShape /\ StepsInv /\ RowsInv /\ LossInv /\ StampInv /\ WayInv
          /\ OrderInv /\ RelayedIsReal
        BY DEF MailInv
    <2>2. WorkerInv'
        BY <2>1, MailTable DEF TableMoves
    <2>3. StampInv'
        BY <2>1, StampedKept, ToldKept DEF StampInv
    <2> QED  BY <2>1, <2>2, <2>3, MailShapeKept, StepsKept, RowsKept, LossKept, WayKept,
                RealKept DEF MailInv
<1> QED  BY <1>1, MailBegins, PTL DEF MailSpec

(* LogIsHonest: whatever the poller, the two deliveries, the operator, faults and
   deaths do, each fault loses one order at most, every stamp has its job, and
   what is called relayed was (mail_poller.py, handlers.py, email_jobs.py). *)
THEOREM LogCanBeTrusted == MailSpec => []LogIsHonest
<1>1. ASSUME MailInv
      PROVE  LogIsHonest
    <2>1. /\ WorkerInv /\ MailShape /\ StepsInv /\ RowsInv /\ LossInv /\ StampInv
          /\ RelayedIsReal
        BY <1>1 DEF MailInv
    <2>2. WorkerTypeOK({"ghl", "opened", "duplicate", "posted", "carded", "noted",
                        "annotated", "crm", "asked", "unheard", "unsent", "raise", "finish"})
        BY <2>1, WorkerTyped DEF StepsInv, Relaying, Telling
    <2>3. MailTypeOK
        BY <2>1, <2>2 DEF MailTypeOK, MailShape
    <2>4. OneLossPerFault
        BY <2>1, <2>3 DEF OneLossPerFault, LossInv, RowsInv, PollInv, Filed
    <2>5. StampHasJob
        BY <2>1 DEF StampHasJob, StampInv, Stamped, Undecided
    <2> QED  BY <2>1, <2>4, <2>5 DEF LogIsHonest, OrdersAccountedFor
<1> QED  BY <1>1, MailInvariant, PTL

(* Polls, relays and the operator keep to the queue's terms: the jobs table
   behaves as WorkQueue allows (jobs enqueued by mail_poller.py, emails.py and
   email_jobs.py). *)
THEOREM MailKeepsToTheQueue == MailSpec => Q!Spec
<1>1. MailInit => Q!Init
    BY DEF MailInit, WorkerInit
<1>2. MailInv /\ [MailNext]_mailVars => [Q!Next]_(Q!wqVars)
    <2> SUFFICES ASSUME MailInv, [MailNext]_mailVars PROVE Promised
        BY DEF Promised
    <2>1. WorkerInv /\ MailShape /\ StepsInv /\ RowsInv
        BY DEF MailInv
    <2>2. CASE UNCHANGED <<phase, tries>>
        BY <2>2, TableKept
    <2>3. CASE MailQuiet \/ UNCHANGED mailVars
        BY <2>2, <2>3, QuietTable DEF workerVars, mailVars
    <2>4. CASE Submitting
        BY <2>1, <2>2, <2>4, SubmittingTable, SubmitPromised DEF workerVars
    <2>5. CASE Going
        BY <2>1, <2>2, <2>5, GoingTable DEF tableVars
    <2>6. CASE Committing
        BY <2>1, <2>6, CommittingTable, CommitPromised
    <2>7. CASE Ending
        BY <2>1, <2>7, EndingTable, VerdictPromised
    <2>8. CASE (\E j \in Jobs : ClaimMail(j)) \/ Crash \/ Restart
        BY <2>2, <2>8 DEF ClaimMail, ClaimFor, Crash, Died, Restart, Restarted, tableVars
    <2>9. ASSUME NEW m \in Mails, AdapterCommits(m)
          PROVE  Promised
        BY <2>1, <2>2, <2>9, AnsweringTable DEF workerVars, tableVars
    <2> QED  BY <2>3, <2>4, <2>5, <2>6, <2>7, <2>8, <2>9, MailSteps
<1> QED  BY <1>1, <1>2, MailInvariant, PTL DEF MailSpec, Q!Spec
=============================================================================
