---------------------------- MODULE VoiceSession ----------------------------
(***************************************************************************)
(* One conversation of the voice service (owen-voice): POST /sessions is   *)
(* held open while a media leg is attached to a live caller, the caller's  *)
(* turns are answered by tasks of the conversation, and the session ends   *)
(* on a port the flow takes.                                               *)
(*                                                                         *)
(* Everything here runs on one event loop, so an action is what happens    *)
(* between two awaits: of the request (agent_api.py, main.py), of the      *)
(* handler of the media leg's StasisStart, of the audio connection         *)
(* (server.py), and of the turn tasks (pipeline.py).  A turn may be begun  *)
(* on a turn end the recogniser only predicts; its sentences then wait at  *)
(* a gate until the end is confirmed.                                      *)
(***************************************************************************)
EXTENDS Naturals, FiniteSets

CONSTANTS
    MaxTurns,   \* bound: turn tasks begun
    MaxFaults   \* bound: failed, late or refused requests, and take-overs

Turns == 1..MaxTurns

ASSUME VoiceAssumption == MaxTurns \in Nat \ {0} /\ MaxFaults \in Nat

VARIABLES
    request,   \* POST /sessions: creating, attaching, waiting, tearing, answered
    answer,    \* the port it answers
    leg,       \* the externalMedia channel: none, up, gone
    join,      \* its StasisStart: none, due, ignored, bridging, joining, joined, failed
    bridge,    \* none, up, gone
    caller,    \* the caller's channel: live, gone, dropped (hung up by this service)
    sock,      \* the audio connection: none, greeting, open, closing, closed
    stt,       \* none, stream, local, deaf (closed by the vendor), dead (reported)
    vendor,    \* the recogniser's turn: quiet, talking, guessed
    port,      \* session.result_port
    error,     \* session.error is set
    done,      \* session.done
    at,        \* each turn task
    confirmed, \* turns answering an utterance that has ended
    turn,      \* Conversation._turn
    draft,     \* Conversation._draft
    gate,      \* Conversation._commit is set
    calls,     \* Conversation._tool_calls: the turns whose model asked for an exit tool
    play,      \* the play-out queue: the turns with audio in it
    early,     \* history: drafts heard before their utterance had ended
    faults     \* (bounded by MaxFaults)

requestVars == <<request, answer>>
mediaVars   == <<leg, join, bridge, caller>>
endVars     == <<port, error, done>>
gateVars    == <<turn, draft, gate>>
turnVars    == <<at, confirmed, calls, play, early>>
sessionVars == <<requestVars, mediaVars, sock, stt, vendor, endVars, gateVars, turnVars, faults>>

NoTurn == MaxTurns + 1
Live == {"thinking", "held", "fallback", "speaking", "draining"}
Alive(t) == t \in Turns /\ at[t] \in Live
connected == sock \in {"greeting", "open", "closing"}
known == request \in {"attaching", "waiting", "tearing"} /\ join # "failed"   \* _media_legs holds the leg
hearing == leg = "up" /\ join = "joined" /\ caller = "live"       \* frames arrive
Fault == faults < MaxFaults /\ faults' = faults + 1
Decide(p) == port' = IF port = "none" THEN p ELSE port

Starts(place) ==
    /\ request = place /\ answer = "none"
    /\ leg = "none" /\ join = "none" /\ bridge = "none" /\ caller = "live"
    /\ sock = "none" /\ stt = "none" /\ vendor = "quiet"
    /\ port = "none" /\ error = FALSE /\ done = FALSE
    /\ at = [t \in Turns |-> "none"] /\ confirmed = {}
    /\ turn = NoTurn /\ draft = NoTurn /\ gate = TRUE
    /\ calls = {} /\ play = {} /\ early = {}
    /\ faults = 0

SessionInit == Starts("creating")

-----------------------------------------------------------------------------
\* POST /sessions

(* Asterisk makes the externalMedia channel; it enters the service's Stasis
   application and dials back into the audio listener. *)
MediaMade ==
    /\ request = "creating" /\ leg = "none"
    /\ leg' = "up" /\ join' = "due"
    /\ UNCHANGED <<requestVars, bridge, caller, sock, stt, vendor, endVars, gateVars, turnVars, faults>>

(* create_external_media answers the id, which only now is registered. *)
MediaAnswered ==
    /\ request = "creating" /\ leg = "up"
    /\ request' = "attaching"
    /\ UNCHANGED <<answer, leg, join, bridge, caller, sock, stt, vendor, endVars, gateVars, turnVars, faults>>

(* ... or Asterisk refuses it: the session takes its failed port. *)
MediaRefused ==
    /\ request = "creating" /\ leg = "none" /\ Fault
    /\ request' = "tearing" /\ answer' = "failed"
    /\ UNCHANGED <<mediaVars, sock, stt, vendor, endVars, gateVars, turnVars>>

(* One look of attach_media_to_call at the session: an error ends it, a
   connection and a bridge let it wait for the conversation. *)
Attached ==
    /\ request = "attaching"
    /\ IF error THEN request' = "tearing" /\ answer' = "failed"
       ELSE /\ sock # "none" /\ bridge # "none"
            /\ request' = "waiting" /\ UNCHANGED answer
    /\ UNCHANGED <<mediaVars, sock, stt, vendor, endVars, gateVars, turnVars, faults>>

(* Sixty looks were not enough. *)
AttachExpires ==
    /\ request = "attaching" /\ ~error /\ ~(sock # "none" /\ bridge # "none")
    /\ request' = "tearing" /\ answer' = "failed"
    /\ UNCHANGED <<mediaVars, sock, stt, vendor, endVars, gateVars, turnVars, faults>>

(* session.done wakes the request, which reads the port. *)
Woken ==
    /\ request = "waiting" /\ done
    /\ request' = "tearing" /\ answer' = IF port = "none" THEN "default" ELSE port
    /\ UNCHANGED <<mediaVars, sock, stt, vendor, endVars, gateVars, turnVars, faults>>

(* The hard timeout above every guardrail. *)
HardTimeout ==
    /\ request = "waiting" /\ ~done /\ Fault
    /\ request' = "tearing" /\ port' = "end_call" /\ answer' = "end_call"
    /\ UNCHANGED <<mediaVars, sock, stt, vendor, error, done, gateVars, turnVars>>

(* teardown_session: the media leg is hung up (awaited) ... *)
HangUpMedia ==
    /\ request = "tearing" /\ leg = "up"
    /\ leg' = "gone"
    /\ UNCHANGED <<requestVars, join, bridge, caller, sock, stt, vendor, endVars, gateVars, turnVars, faults>>

(* ... then it is forgotten, the bridge destroyed, and the answer sent. *)
TornDown ==
    /\ request = "tearing" /\ leg # "up"
    /\ bridge' = IF bridge = "up" THEN "gone" ELSE bridge
    /\ done' = TRUE /\ request' = "answered"
    /\ UNCHANGED <<answer, leg, join, caller, sock, stt, vendor, port, error, gateVars, turnVars, faults>>

(* POST /sessions/{linkedid}/stop: a supervisor takes the call over. *)
Stop ==
    /\ connected /\ Fault
    /\ port' = "taken_over" /\ done' = TRUE
    /\ UNCHANGED <<requestVars, mediaVars, sock, stt, vendor, error, gateVars, turnVars>>

-----------------------------------------------------------------------------
\* The media leg (main.py, _on_media_leg_start) and the caller

(* The StasisStart: handled if the leg is registered, a stranger if not. *)
Entered ==
    /\ join = "due"
    /\ join' = IF known THEN "bridging" ELSE "ignored"
    /\ UNCHANGED <<requestVars, leg, bridge, caller, sock, stt, vendor, endVars, gateVars, turnVars, faults>>

Bridged ==
    /\ join = "bridging"
    /\ join' = "joining" /\ bridge' = "up"
    /\ UNCHANGED <<requestVars, leg, caller, sock, stt, vendor, endVars, gateVars, turnVars, faults>>

(* Caller and media leg are put in the bridge together. *)
Joined ==
    /\ join = "joining" /\ leg = "up" /\ bridge = "up" /\ caller = "live"
    /\ join' = "joined"
    /\ UNCHANGED <<requestVars, leg, bridge, caller, sock, stt, vendor, endVars, gateVars, turnVars, faults>>

BridgeLeft ==                                     \* mutant of JoinFailed: the bridge is kept
    /\ \/ join = "joining" /\ (leg # "up" \/ bridge # "up" \/ caller # "live") /\ UNCHANGED faults
       \/ join \in {"bridging", "joining"} /\ Fault
    /\ join' = "failed" /\ error' = TRUE /\ port' = "failed"
    /\ leg' = "gone" /\ caller' = IF caller = "live" THEN "dropped" ELSE caller
    /\ UNCHANGED <<requestVars, bridge, sock, stt, vendor, done, gateVars, turnVars>>

(* The bridge is refused, or one of its members has gone: _teardown hangs up
   the media leg and the caller. *)
JoinFailed ==
    /\ \/ join = "joining" /\ (leg # "up" \/ bridge # "up" \/ caller # "live") /\ UNCHANGED faults
       \/ join \in {"bridging", "joining"} /\ Fault
    /\ join' = "failed" /\ error' = TRUE /\ port' = "failed"
    /\ leg' = "gone"
    /\ caller' = IF caller = "live" THEN "dropped" ELSE caller
    /\ bridge' = IF bridge = "up" THEN "gone" ELSE bridge
    /\ UNCHANGED <<requestVars, sock, stt, vendor, done, gateVars, turnVars>>

CallerHangsUp ==
    /\ caller = "live" /\ caller' = "gone"
    /\ UNCHANGED <<requestVars, leg, join, bridge, sock, stt, vendor, endVars, gateVars, turnVars, faults>>

-----------------------------------------------------------------------------
\* The audio connection (server.py, handle_connection)

(* The identifying frame: the conversation starts, on the streaming recogniser
   or, if that will not open, on the local turn detector. *)
Connected ==
    /\ leg = "up" /\ sock = "none"
    /\ sock' = "greeting" /\ stt' \in {"stream", "local"}
    /\ UNCHANGED <<requestVars, mediaVars, vendor, endVars, gateVars, turnVars, faults>>

Greeted ==
    /\ sock = "greeting"
    /\ sock' = "open"
    /\ UNCHANGED <<requestVars, mediaVars, stt, vendor, endVars, gateVars, turnVars, faults>>

(* The handler raises, is told of an error, or is reset. *)
Breaks ==
    /\ sock \in {"greeting", "open"} /\ Fault
    /\ sock' = "closing" /\ error' \in {error, TRUE}
    /\ UNCHANGED <<requestVars, mediaVars, stt, vendor, port, done, gateVars, turnVars>>

(* End of stream: the media leg is gone; with the caller gone Asterisk may
   close the connection, or leave it open without a frame. *)
StreamEnds ==
    /\ sock = "open" /\ (leg # "up" \/ caller # "live")
    /\ sock' = "closing"
    /\ UNCHANGED <<requestVars, mediaVars, stt, vendor, endVars, gateVars, turnVars, faults>>

Softened ==                                       \* mutant of Guardrail: its port wins
    /\ sock = "open" /\ hearing
    /\ port' = "end_call" /\ error' = FALSE /\ sock' = "closing"
    /\ UNCHANGED <<requestVars, mediaVars, stt, vendor, done, gateVars, turnVars, faults>>

(* A frame finds a guardrail reached: the recogniser dead, the call or the
   caller's silence too long. *)
Guardrail ==
    /\ sock = "open" /\ hearing
    /\ Decide("end_call") /\ error' = FALSE /\ sock' = "closing"
    /\ UNCHANGED <<requestVars, mediaVars, stt, vendor, done, gateVars, turnVars, faults>>

Unwatched == FALSE                                \* mutant of Idle: no watchdog

(* _watch_idle: no frame for AGENT_IDLE_SECONDS, either because none arrives
   or because the handler is still busy with the greeting. *)
Idle ==
    /\ ~done
    /\ \/ sock = "open" /\ ~hearing /\ UNCHANGED faults
       \/ sock = "greeting" /\ Fault
    /\ Decide("end_call") /\ done' = TRUE
    /\ UNCHANGED <<requestVars, mediaVars, sock, stt, vendor, error, gateVars, turnVars>>

Cancelled(t) == IF Alive(t) THEN [at EXCEPT ![t] = "cut"] ELSE at

(* The handler's finally: Conversation.close has waited for the recogniser to
   close, lets go of the gate and cancels the turn; the session is done. *)
Closed ==
    /\ sock = "closing" /\ sock' = "closed"
    /\ at' = Cancelled(turn) /\ gate' = TRUE /\ play' = {}
    /\ Decide(IF error THEN "failed" ELSE "default") /\ done' = TRUE
    /\ UNCHANGED <<requestVars, mediaVars, stt, vendor, error, turn, draft, confirmed, calls, early, faults>>

-----------------------------------------------------------------------------
\* The caller's turns: the recogniser's events (_pump_turn_events), or the
\* local turn detector (on_frame)

Fresh(t) == t \in Turns /\ at[t] = "none" /\ \A u \in 1..(t - 1) : at[u] # "none"
streaming == sock = "open" /\ stt = "stream"
eventless == <<requestVars, mediaVars, sock, stt, error, port, done, calls, early>>

TalkOver ==                                       \* mutant of StartOfTurn: the turn goes on
    /\ vendor = "quiet" /\ vendor' = "talking"
    /\ join = "joined" /\ request # "attaching"
    /\ play' = {} /\ streaming /\ draft' = NoTurn
    /\ UNCHANGED <<eventless, at, turn, gate, confirmed, faults>>

(* The caller starts to talk: whatever is queued is dropped, the turn abandoned.
   (Nothing is heard before the legs are joined, and attach_media_to_call has
   looked ten times a second since.) *)
StartOfTurn ==
    /\ join = "joined" /\ request # "attaching"
    /\ vendor = "quiet" /\ vendor' = "talking"
    /\ play' = {} /\ at' = Cancelled(turn)
    /\ \/ streaming /\ draft' = NoTurn
       \/ sock = "open" /\ stt = "local" /\ hearing /\ UNCHANGED draft
    /\ UNCHANGED <<eventless, turn, gate, confirmed, faults>>

(* The recogniser predicts the end of the turn: the reply is drafted, behind
   the gate. *)
EagerEnd(t) ==
    /\ streaming /\ vendor = "talking" /\ draft = NoTurn /\ Fresh(t)
    /\ vendor' = "guessed"
    /\ at' = [at EXCEPT ![t] = "thinking"] /\ turn' = t /\ draft' = t /\ gate' = FALSE
    /\ UNCHANGED <<eventless, play, confirmed, faults>>

Resumed ==
    /\ streaming /\ vendor = "guessed" /\ vendor' = "talking"
    /\ at' = Cancelled(turn) /\ draft' = NoTurn /\ gate' = TRUE
    /\ UNCHANGED <<eventless, turn, play, confirmed, faults>>

HitHeld ==                                        \* mutant of DraftHit: the gate stays shut
    /\ streaming /\ vendor = "guessed" /\ Alive(draft)
    /\ vendor' = "quiet" /\ confirmed' = confirmed \union {draft}
    /\ UNCHANGED <<eventless, at, gateVars, play, faults>>

(* The turn has ended as predicted: the draft may speak. *)
DraftHit ==
    /\ streaming /\ vendor = "guessed" /\ Alive(draft)
    /\ vendor' = "quiet" /\ gate' = TRUE /\ confirmed' = confirmed \union {draft}
    /\ UNCHANGED <<eventless, at, turn, draft, play, faults>>

(* The turn has ended with no draft under way, or with another transcript. *)
EndOfTurn(t) ==
    /\ streaming /\ vendor \in {"talking", "guessed"} /\ Fresh(t)
    /\ IF Alive(draft) THEN Fault /\ draft' = NoTurn ELSE UNCHANGED <<faults, draft>>
    /\ vendor' = "quiet" /\ gate' = TRUE
    /\ at' = [(IF Alive(draft) THEN Cancelled(turn) ELSE at) EXCEPT ![t] = "thinking"]
    /\ turn' = t /\ confirmed' = confirmed \union {t}
    /\ UNCHANGED <<eventless, play>>

(* The local detector's end of an utterance: a turn, without a look at the last. *)
LocalEnd(t) ==
    /\ sock = "open" /\ stt = "local" /\ hearing /\ vendor = "talking" /\ Fresh(t)
    /\ vendor' = "quiet"
    /\ at' = [at EXCEPT ![t] = "thinking"] /\ turn' = t /\ confirmed' = confirmed \union {t}
    /\ UNCHANGED <<eventless, draft, gate, play, faults>>

(* Noise, or a turn that ends without a transcript. *)
NothingSaid ==
    /\ sock = "open" /\ vendor = "talking" /\ (stt = "stream" \/ (stt = "local" /\ hearing))
    /\ vendor' = "quiet"
    /\ UNCHANGED <<eventless, at, gateVars, play, confirmed, faults>>

(* The recogniser reports an error: the session will fail. *)
StreamDies ==
    /\ streaming /\ Fault
    /\ stt' = "dead" /\ error' = TRUE /\ port' = "failed" /\ gate' = TRUE
    /\ UNCHANGED <<requestVars, mediaVars, sock, vendor, done, turn, draft, turnVars>>

(* The recogniser closes its socket cleanly: _read_loop ends without an event. *)
StreamCloses ==
    /\ streaming /\ Fault
    /\ stt' = "deaf"
    /\ UNCHANGED <<requestVars, mediaVars, sock, vendor, endVars, gateVars, turnVars>>

-----------------------------------------------------------------------------
\* A turn (_handle_turn)

taskless == <<requestVars, mediaVars, sock, stt, vendor, error, gateVars, confirmed>>
Heard(t, how) == early' = IF t \in confirmed THEN early ELSE early \union {<<t, how>>}

(* Nothing was transcribed, or a hallucination: before the model is asked. *)
Ignored(t) ==
    /\ at[t] = "thinking" /\ t \notin calls
    /\ at' = [at EXCEPT ![t] = "over"]
    /\ UNCHANGED <<taskless, port, done, calls, play, early, faults>>

(* The model's stream, read by a task of its own, asks for an exit tool. *)
ToolCall(t) ==
    /\ at[t] \in {"thinking", "held"} /\ t \notin calls
    /\ calls' = calls \union {t}
    /\ UNCHANGED <<taskless, port, done, at, play, early, faults>>

(* ... or has a sentence to speak, or ends without one. *)
Answers(t) ==
    /\ at[t] = "thinking"
    /\ \E s \in {"held", "fallback"} : at' = [at EXCEPT ![t] = s]
    /\ UNCHANGED <<taskless, port, done, calls, play, early, faults>>

Speaks(t) ==
    /\ at[t] = "held" /\ gate
    /\ at' = [at EXCEPT ![t] = "speaking"] /\ play' = play \union {t} /\ Heard(t, "gate")
    /\ UNCHANGED <<taskless, port, done, calls, faults>>

(* The reply of the blocking call is spoken as it comes, or there is none. *)
FallsBack(t) ==
    /\ at[t] = "fallback"
    /\ \/ /\ at' = [at EXCEPT ![t] = "speaking"] /\ play' = play \union {t} /\ Heard(t, "fallback")
       \/ at' = [at EXCEPT ![t] = "over"] /\ UNCHANGED <<play, early>>
    /\ UNCHANGED <<taskless, port, done, calls, faults>>

(* _dispatch_tools: every call collected is acted on. *)
Dispatches(t) ==
    /\ at[t] = "speaking"
    /\ at' = [at EXCEPT ![t] = IF calls # {} THEN "draining" ELSE "over"]
    /\ calls' = {}
    /\ UNCHANGED <<taskless, port, done, play, early, faults>>

(* The goodbye has been played: the session ends on the tool's port. *)
Exits(t) ==
    /\ at[t] = "draining" /\ play = {}
    /\ at' = [at EXCEPT ![t] = "over"] /\ port' = "exit" /\ done' = TRUE
    /\ UNCHANGED <<taskless, calls, play, early, faults>>

TurnFails(t) ==
    /\ at[t] \in Live /\ Fault
    /\ at' = [at EXCEPT ![t] = "over"]
    /\ UNCHANGED <<taskless, port, done, calls, play, early>>

(* The play-out queue has been sent. *)
PlayedOut ==
    /\ play # {} /\ connected /\ play' = {}
    /\ UNCHANGED <<taskless, port, done, at, calls, early, faults>>

-----------------------------------------------------------------------------
Asterisk == MediaMade \/ MediaAnswered \/ Entered \/ Bridged \/ Joined \/ JoinFailed \/ Connected
Request == Attached \/ AttachExpires \/ Woken \/ HangUpMedia \/ TornDown
Connection == Greeted \/ StreamEnds \/ Guardrail \/ Idle \/ Closed \/ PlayedOut
Events == StartOfTurn \/ Resumed \/ DraftHit \/ NothingSaid
          \/ \E t \in Turns : EagerEnd(t) \/ EndOfTurn(t) \/ LocalEnd(t)
Work(t) == Answers(t) \/ Speaks(t) \/ FallsBack(t) \/ Dispatches(t) \/ Exits(t)
Faults == MediaRefused \/ HardTimeout \/ Breaks \/ StreamDies \/ StreamCloses
          \/ \E t \in Turns : TurnFails(t)

SessionNext ==
    \/ Asterisk \/ Request \/ Connection \/ Events \/ Faults
    \/ CallerHangsUp \/ Stop
    \/ \E t \in Turns : Work(t) \/ Ignored(t) \/ ToolCall(t)

(* Requests to Asterisk, to the model and to the voice are answered or time
   out; a media leg that is gone closes its connection; guardrails are armed.
   Nothing is asked of the caller or of the recogniser. *)
SessionFairness ==
    /\ WF_sessionVars(MediaMade) /\ WF_sessionVars(MediaAnswered) /\ WF_sessionVars(Entered) /\ WF_sessionVars(Bridged)
    /\ WF_sessionVars(Joined \/ JoinFailed)
    /\ WF_sessionVars(Request) /\ WF_sessionVars(Greeted) /\ WF_sessionVars(StreamEnds /\ leg # "up")
    /\ WF_sessionVars(Guardrail) /\ WF_sessionVars(Idle) /\ WF_sessionVars(Closed) /\ WF_sessionVars(PlayedOut)
    /\ \A t \in Turns : WF_sessionVars(Work(t))

SessionSpec == SessionInit /\ [][SessionNext]_sessionVars /\ SessionFairness

-----------------------------------------------------------------------------
SessionTypeOK ==
    /\ request \in {"creating", "attaching", "waiting", "tearing", "answered"}
    /\ {answer, port} \subseteq {"none", "failed", "end_call", "exit", "default", "taken_over"}
    /\ leg \in {"none", "up", "gone"} /\ bridge \in {"none", "up", "gone"}
    /\ join \in {"none", "due", "ignored", "bridging", "joining", "joined", "failed"}
    /\ caller \in {"live", "gone", "dropped"}
    /\ sock \in {"none", "greeting", "open", "closing", "closed"}
    /\ stt \in {"none", "stream", "local", "deaf", "dead"} /\ vendor \in {"quiet", "talking", "guessed"}
    /\ {error, done, gate} \subseteq BOOLEAN
    /\ at \in [Turns -> Live \union {"none", "over", "cut"}]
    /\ {turn, draft} \subseteq Turns \union {NoTurn}
    /\ confirmed \subseteq Turns /\ calls \subseteq Turns /\ play \subseteq Turns
    /\ early \subseteq Turns \X {"gate", "fallback"}
    /\ faults \in 0..MaxFaults

(* Whatever order the recogniser's events and the turns' awaits come in, one
   turn at most is at work, the one the conversation can still cancel, and no
   sentence of a turn the caller talked over is left to be played.  Only a
   reply that did not wait at the gate outlives its turn (the README says when). *)
OneVoice ==
    /\ SessionTypeOK
    /\ \A t \in Turns : Alive(t) => t = turn
    /\ \A t \in play : at[t] = "cut" => <<t, "fallback">> \in early

(* The gate: a sentence of a predicted turn is not spoken before the caller has
   finished, unless the recogniser has died; and the answer to what the caller
   did finish saying is never held. *)
GateHolds ==
    /\ \A t \in Turns : <<t, "gate">> \in early => stt = "dead"
    /\ \A t \in confirmed : at[t] = "held" => gate

(* The agent speaks in turn: one reply at a time, and none before it is due. *)
SpeaksInTurn == OneVoice /\ GateHolds

(* A session whose recogniser died, or whose caller could not be bridged, does
   not end as a conversation that was had: neither the closing connection nor
   a guardrail nor the watchdog overwrites the failure. *)
PortIsTrue ==
    stt = "dead" \/ join = "failed" =>
        /\ port \notin {"none", "default"}
        /\ port = "end_call" => answer = "end_call"           \* the hard timeout does

(* When the flow is told to go on, the agent can no longer be heard, and no
   bridge is left behind even by a join that was still under way. *)
HandsBack ==
    request = "answered" =>
        /\ leg # "up"
        /\ join \notin {"bridging", "joining"} => bridge # "up"

(* What the flow is told is so: how the session ended, and that it has. *)
EndIsTold == PortIsTrue /\ HandsBack

(* A session is true to its caller, who is spoken to in turn, and to its flow,
   which is told the end that something really caused. *)
SessionIsHonest == SpeaksInTurn /\ EndIsTold

(* Every session ends and gives its slot back: the leg, the
   bridge, the connection and the turns are gone, though frames simply stop. *)
Settled ==
    /\ request = "answered"
    /\ leg # "up" /\ bridge # "up" /\ sock \in {"none", "closed"}
    /\ \A t \in Turns : at[t] \notin Live

SessionsEnd == <>[]Settled
=============================================================================
