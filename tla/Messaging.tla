------------------------------ MODULE Messaging -----------------------------
(***************************************************************************)
(* Outbound texts from one DID to one contact: the send endpoint           *)
(* (api/messages.py), the worker's message_send (workers/handlers.py), the *)
(* contact's STOP and START (services/messages.py), and the carrier's two  *)
(* kinds of delivery reports (webhooks/bulkvs.py, services/dlr.py).        *)
(*                                                                         *)
(* Web requests are served by several app processes: each reads a row,     *)
(* decides, and commits later what it decided.  A commit writes only the   *)
(* columns the session changed, and no SELECT takes a lock.  The job queue *)
(* and its worker are those of QueueWorker.                                *)
(***************************************************************************)
EXTENDS QueueWorker, Sequences

CONSTANTS
    Msgs,       \* outbound messages
    BodyOf,     \* their texts, as the carrier echoes them
    Requests,   \* web requests served at once
    MaxTexts    \* bound: texts the carrier accepts

ASSUME MessagingAssumption ==
    /\ Jobs = {"send", "relay"} \X Msgs
    /\ DOMAIN BodyOf = Msgs
    /\ MaxTexts \in Nat

VARIABLES
    row,        \* messages.status; "none": not inserted yet
    ref,        \* the text whose RefId is the row's provider_message_sid, or 0
    seen,       \* raw_payload.bulkvs_dlr_seen: receipts applied to the row
    optout,     \* sms_opt_outs.state of the contact is opted_out
    texts,      \* what the carrier accepted: whose text, and what became of it
    mem,        \* the receipts in the worker's copy of the row
    request,    \* what each web request read and is about to commit
    afterStop   \* history: texts accepted since the contact last opted out

rowVars == <<row, ref, seen, optout>>
vars == <<workerVars, rowVars, texts, mem, request, afterStop>>

Terminal == {"delivered", "undelivered", "failed", "blocked"}
Statuses == {"queued", "sent"} \union Terminal
Outcomes == {"delivered", "undelivered"}
Texts    == 1..Len(texts)
NoRequest == [at |-> "idle"]

Init ==
    /\ WorkerInit
    /\ row = [m \in Msgs |-> "none"]
    /\ ref = [m \in Msgs |-> 0]
    /\ seen = [m \in Msgs |-> {}]
    /\ optout = FALSE
    /\ texts = <<>>
    /\ mem = {}
    /\ request = [h \in Requests |-> NoRequest]
    /\ afterStop = 0

(* services/sms.py *)
Rank(s) == CASE s = "queued" -> 1 [] s = "sent" -> 2 [] s \in Terminal -> 3 [] OTHER -> 0

AdvanceBackwards(current, new) == new              \* mutant of AdvanceStatus

AdvanceStatus(current, new) == IF Rank(new) > Rank(current) THEN new ELSE current

-----------------------------------------------------------------------------
(* api/messages.py send: refused when the contact has opted out; otherwise the
   row is committed, and then the job.  The process may die in between. *)
Accept(m) ==
    /\ row[m] = "none" /\ ~optout
    /\ row' = [row EXCEPT ![m] = "queued"]
    /\ UNCHANGED <<workerVars, ref, seen, optout, texts, mem, request, afterStop>>

EnqueueSend(m) ==
    /\ row[m] = "queued"
    /\ Submit(<<"send", m>>)
    /\ UNCHANGED <<rowVars, texts, mem, request, afterStop>>

(* apply_inbound_keyword: the contact texts STOP or START (or the carrier
   posts an old one again). *)
Keyword(stop) ==
    /\ optout' = stop
    /\ afterStop' = IF stop THEN afterStop ELSE 0
    /\ UNCHANGED <<workerVars, row, ref, seen, texts, mem, request>>

-----------------------------------------------------------------------------
(* handle_message_send *)

Msg == cur[2]

Claim(m) ==
    /\ ClaimFor(<<"send", m>>, "send")
    /\ UNCHANGED <<rowVars, texts, mem, request, afterStop>>

SendSkips ==                                       \* not queued any more
    /\ at = "send" /\ row[Msg] # "queued"
    /\ Completed
    /\ UNCHANGED <<rowVars, texts, mem, request, afterStop>>

SendLoads ==
    /\ at = "send" /\ row[Msg] = "queued"
    /\ mem' = seen[Msg]
    /\ Advance("loaded")
    /\ UNCHANGED <<tableVars, rowVars, texts, request, afterStop>>

OptedOutAtAccept == FALSE                          \* mutant of OptedOut: no re-check

OptedOut == optout

SendBlocks ==
    /\ at = "loaded" /\ OptedOut
    /\ row' = [row EXCEPT ![Msg] = "blocked"]
    /\ CommitWith({}) /\ Advance("finish")
    /\ UNCHANGED <<ref, seen, optout, texts, mem, request, afterStop>>

SendChecks ==
    /\ at = "loaded" /\ ~OptedOut
    /\ Advance("checked")
    /\ UNCHANGED <<tableVars, rowVars, texts, mem, request, afterStop>>

CarrierAccepts ==
    /\ Len(texts) < MaxTexts
    /\ texts' = Append(texts, [msg |-> Msg, outcome |-> "open"])
    /\ afterStop' = IF optout THEN afterStop + 1 ELSE afterStop

SendPosts ==
    /\ at = "checked"
    /\ CarrierAccepts /\ Advance("posted")
    /\ UNCHANGED <<tableVars, rowVars, mem, request>>

(* A non-2xx answer, or none within the timeout: raise.  The carrier may have
   accepted the text all the same. *)
SendFails ==
    /\ at = "checked" /\ Failed
    /\ CarrierAccepts \/ UNCHANGED <<texts, afterStop>>
    /\ UNCHANGED <<rowVars, mem, request>>

(* Status, reference and the whole raw_payload, from the copy loaded before
   the POST. *)
Stored(r) ==
    /\ row' = [row EXCEPT ![Msg] = "sent"]
    /\ ref' = [ref EXCEPT ![Msg] = r]
    /\ seen' = [seen EXCEPT ![Msg] = mem]

SendStores ==
    /\ at = "posted"
    /\ \E r \in {ref[Msg], Len(texts)} : Stored(r)
    /\ CommitWith({}) /\ Advance("stored")
    /\ UNCHANGED <<optout, texts, mem, request, afterStop>>

SendHandsOver ==
    /\ at = "stored"
    /\ CommitWith({<<"relay", Msg>>}) /\ Advance("finish")
    /\ UNCHANGED <<rowVars, texts, mem, request, afterStop>>

Finish ==
    /\ at = "finish" /\ Completed
    /\ UNCHANGED <<rowVars, texts, mem, request, afterStop>>

Crash   == Died /\ UNCHANGED <<rowVars, texts, mem, request, afterStop>>
Restart == Restarted /\ UNCHANGED <<rowVars, texts, mem, request, afterStop>>

-----------------------------------------------------------------------------
(* The carrier decides a text's fate, and reports it, possibly more than once
   (it repeats a report that got no 200). *)
Deliver(t) ==
    /\ texts[t].outcome = "open"
    /\ \E o \in Outcomes : texts' = [texts EXCEPT ![t].outcome = o]
    /\ UNCHANGED <<workerVars, rowVars, mem, request, afterStop>>

Decided(t) == texts[t].outcome # "open"

(* services/dlr.py correlate: a receipt bears an id of its own, so the row is
   found by the numbers and the echoed text.  A row without receipts wins;
   which of several is nearest in time depends on a clock nobody knows. *)
AnyBody(t) == {m \in Msgs : row[m] # "none"}       \* mutant of Candidates: text ignored

Candidates(t) == {m \in Msgs : row[m] # "none" /\ BodyOf[m] = BodyOf[texts[t].msg]}

Best(t) ==
    LET unreceipted == {m \in Candidates(t) : seen[m] = {}}
    IN  IF unreceipted # {} THEN unreceipted ELSE Candidates(t)

ReadReceipt(h, t) ==
    /\ request[h] = NoRequest /\ Decided(t)
    /\ \A m \in Candidates(t) : t \notin seen[m]    \* otherwise: already applied
    /\ \E m \in Best(t) :
          request' = [request EXCEPT ![h] =
              [at |-> "receipt", text |-> t, msg |-> m, seen |-> seen[m] \union {t},
               was |-> row[m], new |-> AdvanceStatus(row[m], texts[t].outcome)]]
    /\ UNCHANGED <<workerVars, rowVars, texts, mem, afterStop>>

(* webhooks/bulkvs.py message-status: the row is found by the RefId. *)
ReadStatus(h, t) ==
    /\ request[h] = NoRequest /\ Decided(t)
    /\ \E m \in Msgs :
          /\ ref[m] = t
          /\ request' = [request EXCEPT ![h] =
                [at |-> "status", text |-> t, msg |-> m, seen |-> {},
                 was |-> row[m], new |-> AdvanceStatus(row[m], texts[t].outcome)]]
    /\ UNCHANGED <<workerVars, rowVars, texts, mem, afterStop>>

CommitRequest(h) ==
    /\ request[h] # NoRequest
    /\ LET q == request[h] IN
        /\ row' = IF q.new # q.was THEN [row EXCEPT ![q.msg] = q.new] ELSE row
        /\ seen' = IF q.at = "receipt" THEN [seen EXCEPT ![q.msg] = q.seen] ELSE seen
    /\ request' = [request EXCEPT ![h] = NoRequest]
    /\ UNCHANGED <<workerVars, ref, optout, texts, mem, afterStop>>

RequestDies(h) ==
    /\ request[h] # NoRequest
    /\ request' = [request EXCEPT ![h] = NoRequest]
    /\ UNCHANGED <<workerVars, rowVars, texts, mem, afterStop>>

-----------------------------------------------------------------------------
Sending == \/ SendSkips \/ SendLoads \/ SendBlocks \/ SendChecks \/ SendPosts
           \/ SendFails \/ SendStores \/ SendHandsOver \/ Finish

Next ==
    \/ \E m \in Msgs : Accept(m) \/ EnqueueSend(m) \/ Claim(m)
    \/ \E stop \in BOOLEAN : Keyword(stop)
    \/ Sending \/ Crash \/ Restart
    \/ \E t \in Texts : Deliver(t)
    \/ \E h \in Requests : \/ \E t \in Texts : ReadReceipt(h, t) \/ ReadStatus(h, t)
                           \/ CommitRequest(h) \/ RequestDies(h)

Spec == Init /\ [][Next]_vars

(* The worker keeps draining and is restarted; the carrier's client times out. *)
Fairness == /\ \A m \in Msgs : WF_vars(Claim(m))
            /\ WF_vars(Sending) /\ WF_vars(Restart)

FairSpec == Spec /\ Fairness

-----------------------------------------------------------------------------
TypeOK ==
    /\ WorkerTypeOK({"send", "loaded", "checked", "posted", "stored", "finish"})
    /\ row \in [Msgs -> Statuses \union {"none"}]
    /\ ref \in [Msgs -> 0..MaxTexts]
    /\ seen \in [Msgs -> SUBSET (1..MaxTexts)] /\ mem \subseteq 1..MaxTexts
    /\ optout \in BOOLEAN
    /\ texts \in Seq([msg : Msgs, outcome : Outcomes \union {"open"}])
    /\ \A h \in Requests :
          request[h] # NoRequest => request[h].msg \in Msgs /\ request[h].new \in Statuses
    /\ afterStop \in 0..MaxTexts

(* A STOP holds: of all the texts accepted before it, at most the one that had
   already passed message_send's re-check still goes out -- whatever is queued,
   retried or restarted after it. *)
StopHolds == TypeOK /\ afterStop =< 1

(* What the inbox shows of a text is real: beyond 'queued' the carrier accepted
   a text of that message, and 'delivered' means it delivered one -- though
   receipts are matched by their echo, status callbacks by a reference, and
   both race each other and the sender. *)
StatusIsReal ==
    \A m \in Msgs :
        LET own == {t \in Texts : texts[t].msg = m} IN
        /\ row[m] \in {"sent", "delivered", "undelivered"} => own # {}
        /\ row[m] \in Outcomes => \E t \in own : texts[t].outcome = row[m]

(* A text is sent once per attempt of its job, and an attempt that recorded it
   is the last: a second text takes a failed attempt, whose answer may have been
   lost, or a worker death before the commit. *)
SentPerAttempt ==
    \A m \in Msgs :
        LET job == <<"send", m>>
            posting == IF cur = job /\ at = "posted" THEN 1 ELSE 0
        IN  Cardinality({t \in Texts : texts[t].msg = m}) =< tries[job] + posting + crashes

(* What the contact asked for and what the operators see of a text are both
   kept, and nobody is texted twice for nothing: StopHolds, StatusIsReal and
   SentPerAttempt. *)
TextsAreHonest == StopHolds /\ StatusIsReal /\ SentPerAttempt

(* Every text whose job was enqueued is sent, blocked or dead-lettered, worker
   deaths included: nothing is committed before the carrier has answered. *)
QueuedIsDecided ==
    \A m \in Msgs :
        row[m] = "queued" /\ phase[<<"send", m>>] # "absent"
            ~> row[m] # "queued" \/ phase[<<"send", m>>] = "failed"
=============================================================================
