------------------------------- MODULE CrmLink ------------------------------
(***************************************************************************)
(* What OWEN tells the CRM about a bound DID, and the texts the CRM sends  *)
(* from it (integrations/crm: hook.py, push.py, api.py, client.py).        *)
(*                                                                         *)
(* A phase of a call, an inbound text or a delivery receipt becomes a      *)
(* crm_report job.  The worker posts it to an adapter in the app           *)
(* container, which looks the binding up again and posts it to the CRM.    *)
(* The CRM inserts whatever it is given, so an answer that is lost means a *)
(* second row.  What the caller of a bound DID hears is RingGroup's.       *)
(***************************************************************************)
EXTENDS QueueWorker

CONSTANTS
    Webhooks,    \* deliveries of the one inbound text, repeats included
    Words,       \* what the carrier reports of the CRM's text, in order of rank
    Mixes,       \* bound: the kinds of traffic explored together
    MaxToggles,  \* bound: times the binding is switched off and on
    MaxLapses    \* bound: lost answers, failed requests and process deaths

CallPhases == {"started", "answered", "ended"}
Calls == {"call"} \X CallPhases
Texts == {"text"} \X Webhooks
Receipts == {"receipt"} \X Words
Send == <<"send", "text">>

ASSUME CrmLinkAssumption ==
    /\ Jobs = Calls \union Texts \union Receipts \union {Send}
    /\ Mixes \subseteq SUBSET {"calls", "texts", "sends", "withheld"}
    /\ Words \subseteq {"sent", "delivered", "failed"}
    /\ MaxToggles \in Nat /\ MaxLapses \in Nat

VARIABLES
    bound,     \* the DID's crm_links row is enabled
    mix,       \* which of Mixes this behaviour has
    toggles,   \* changes of it (bounded by MaxToggles)
    call,      \* a call on the DID, as the link's handler sees it
    agent,     \* an AI agent answered it
    web,       \* where each delivery of the inbound text is
    stored,    \* the inbound text has its messages row
    out,       \* the CRM's text: how far send_message has come
    ref,       \* the carrier's reference is on its row
    marked,    \* crm_link marker on its row
    word,      \* what the carrier has made of it
    known,     \* the CRM has the message_id
    hop,       \* the adapter: the request of each of the worker's lives
    got,       \* the CRM: rows inserted for each report
    refused,   \* reports answered ok: false
    late,      \* history: texts and receipts the CRM took since the unbinding
    lapses     \* (bounded by MaxLapses)

linkVars == <<bound, mix, toggles>>
callVars == <<call, agent>>
textVars == <<web, stored>>
sendVars == <<out, ref, marked, word, known>>
crmVars  == <<hop, got, refused, late>>
reportVars == <<workerVars, linkVars, callVars, textVars, sendVars, crmVars, lapses>>

NoHop == [at |-> "idle", job |-> NoJob]
Lapse == crashes + lapses < MaxLapses /\ lapses' = lapses + 1

LinkInit ==
    /\ WorkerInit
    /\ bound \in BOOLEAN /\ mix \in Mixes /\ toggles = 0
    /\ call = "away" /\ agent = FALSE
    /\ web = [w \in Webhooks |-> "away"] /\ stored = FALSE
    /\ out = "none" /\ ref = FALSE /\ marked = FALSE /\ word = "none" /\ known = FALSE
    /\ hop = [g \in 0..MaxCrashes |-> NoHop]
    /\ got = [j \in Jobs |-> 0] /\ refused = {} /\ late = 0
    /\ lapses = 0

-----------------------------------------------------------------------------
(* manage.py: the owner unbinds the DID, or binds it again. *)
Toggle ==
    /\ toggles < MaxToggles /\ toggles' = toggles + 1
    /\ bound' = ~bound /\ late' = 0
    /\ UNCHANGED <<workerVars, mix, callVars, textVars, sendVars, hop, got, refused, lapses>>

-----------------------------------------------------------------------------
(* A call.  The hook asks for the binding once; what it decides stands, for the
   link answers the caller before anything else. *)
Unheard == Lapse /\ UNCHANGED workerVars           \* the enqueue fails: logged, no more
Enqueues(j) == (Submit(j) /\ UNCHANGED lapses) \/ Unheard
ReportsCall(p) == Enqueues(<<"call", p>>)

CallArrives ==
    /\ "calls" \in mix /\ call = "away"
    /\ \/ ~bound /\ call' = "default" /\ UNCHANGED <<workerVars, lapses>>
       \/ bound /\ call' = "ringing" /\ ReportsCall("started")
    /\ UNCHANGED <<linkVars, agent, textVars, sendVars, crmVars>>

CallAnswered ==                                    \* a phone: the bridge has ended
    /\ call = "ringing" /\ call' = "answered"
    /\ ReportsCall("answered")
    /\ UNCHANGED <<linkVars, agent, textVars, sendVars, crmVars>>

CallUnanswered ==                                  \* _ai_agent_seam, else the voicemail
    /\ call = "ringing" /\ call' = "unanswered"
    /\ agent' \in BOOLEAN
    /\ UNCHANGED <<workerVars, linkVars, textVars, sendVars, crmVars, lapses>>

CallEnds ==                                        \* the handler's finally
    /\ call \in {"ringing", "answered", "unanswered"} /\ call' = "over"
    /\ ReportsCall("ended")
    /\ UNCHANGED <<linkVars, agent, textVars, sendVars, crmVars>>

CallLost ==                                        \* the consumer dies
    /\ call \in {"ringing", "answered", "unanswered"} /\ call' = "lost"
    /\ Lapse
    /\ UNCHANGED <<workerVars, linkVars, agent, textVars, sendVars, crmVars>>

-----------------------------------------------------------------------------
(* An inbound text.  The carrier posts it again until it has its 200. *)
MessagePosted(w) ==
    /\ "texts" \in mix /\ web[w] = "away" /\ \A v \in Webhooks : web[v] # "answered"
    /\ web' = [web EXCEPT ![w] = IF stored THEN "seen" ELSE "first"]
    /\ UNCHANGED <<workerVars, linkVars, callVars, stored, sendVars, crmVars, lapses>>

MessageIngested(w) ==
    /\ web[w] \in {"first", "seen"}
    /\ stored' = TRUE
    /\ web' = [web EXCEPT ![w] = IF @ = "first" THEN "report" ELSE "answered"]
    /\ UNCHANGED <<workerVars, linkVars, callVars, sendVars, crmVars, lapses>>

ReportsText(w) == Enqueues(<<"text", w>>)

MessageReported(w) ==
    /\ web[w] = "report"
    /\ web' = [web EXCEPT ![w] = "answered"]
    /\ \/ bound /\ ReportsText(w)
       \/ ~bound /\ UNCHANGED <<workerVars, lapses>>
    /\ UNCHANGED <<linkVars, callVars, stored, sendVars, crmVars>>

MessageDropped(w) ==                               \* the web process dies: no 200
    /\ web[w] \in {"first", "seen", "report"} /\ Lapse
    /\ web' = [web EXCEPT ![w] = "dead"]
    /\ UNCHANGED <<workerVars, linkVars, callVars, stored, sendVars, crmVars>>

-----------------------------------------------------------------------------
(* send_message: the row, then the marker, then the job. *)
SendAccepted ==
    /\ "sends" \in mix /\ out = "none" /\ bound
    /\ out' = "row"
    /\ UNCHANGED <<workerVars, linkVars, callVars, textVars, ref, marked, word, known, crmVars, lapses>>

EnqueueFirst ==                                   \* mutant of SendMarked: the job, then the marker
    \/ /\ out = "row" /\ out' = "marked" /\ Submit(Send)
       /\ UNCHANGED <<linkVars, callVars, textVars, ref, marked, word, known, crmVars, lapses>>
    \/ /\ out = "marked" /\ ~marked /\ marked' = TRUE
       /\ UNCHANGED <<workerVars, linkVars, callVars, textVars, out, ref, word, known, crmVars, lapses>>

SendMarked ==
    /\ out = "row" /\ out' = "marked" /\ marked' = TRUE
    /\ UNCHANGED <<workerVars, linkVars, callVars, textVars, ref, word, known, crmVars, lapses>>

SendQueued ==
    /\ out = "marked" /\ marked /\ out' = "queued"
    /\ Submit(Send)
    /\ UNCHANGED <<linkVars, callVars, textVars, ref, marked, word, known, crmVars, lapses>>

SendAnswered ==                                    \* the CRM stores the message_id
    /\ out = "queued" /\ out' = "answered" /\ known' = TRUE
    /\ UNCHANGED <<workerVars, linkVars, callVars, textVars, ref, marked, word, crmVars, lapses>>

SendDropped ==                                     \* the process dies, or its answer is lost
    /\ out \in {"row", "marked", "queued"} /\ Lapse
    /\ out' = "dropped"
    /\ UNCHANGED <<workerVars, linkVars, callVars, textVars, ref, marked, word, known, crmVars>>

(* handle_message_send (module Messaging): the carrier takes the text. *)
ClaimSend ==
    /\ ClaimFor(Send, "send")
    /\ UNCHANGED <<linkVars, callVars, textVars, sendVars, crmVars, lapses>>

TextSent ==
    /\ at = "send"
    /\ ref' = TRUE /\ CommitWith({}) /\ Advance("finish")
    /\ UNCHANGED <<linkVars, callVars, textVars, out, marked, word, known, crmVars, lapses>>

Finish ==
    /\ at = "finish" /\ Completed
    /\ UNCHANGED <<linkVars, callVars, textVars, sendVars, crmVars, lapses>>

(* The carrier's report of a text whose reference the row bears; message_status
   relays every word its ladder knows, whether or not it moved OWEN's row. *)
Relayed == marked /\ bound                         \* ours, and still bound

ReceiptPosted(r) ==
    /\ ref /\ phase[<<"receipt", r>>] = "absent" /\ word # r
    /\ r = "sent" => word = "none"
    /\ word' = r
    /\ \/ Relayed /\ Enqueues(<<"receipt", r>>)
       \/ ~Relayed /\ UNCHANGED <<workerVars, lapses>>
    /\ UNCHANGED <<linkVars, callVars, textVars, out, ref, marked, known, crmVars>>

-----------------------------------------------------------------------------
(* handle_crm_report, in the worker: post the job to the adapter.  Nothing is
   committed, so a worker that dies leaves the job pending and its request
   under way; the next life of the worker may post it again. *)
ClaimReport(j) ==
    /\ j # Send /\ ClaimFor(j, "report")
    /\ UNCHANGED <<linkVars, callVars, textVars, sendVars, crmVars, lapses>>

Posts ==
    /\ at = "report" /\ Advance("posted")
    /\ hop' = [hop EXCEPT ![crashes] = [at |-> "asked", job |-> cur]]
    /\ UNCHANGED <<tableVars, linkVars, callVars, textVars, sendVars, got, refused, late, lapses>>

(* The adapter.  A call is delivered even when its DID is no longer bound, with
   the global token; a text or a receipt is not. *)
NeverUnbound(j) == FALSE                           \* mutant of Unbound: no check at the drain

Unbound(j) == j \notin Calls /\ ~bound

(* An event needs a contact of the CRM or a number to make one of; a caller who
   withholds it has neither, and the event is dropped with an error. *)
Malformed(j) == j \in Calls \union Texts /\ "withheld" \in mix

Reads(g, kind) ==
    /\ hop[g].at = "asked" /\ hop[g].job \in kind
    /\ hop' = [hop EXCEPT ![g].at =
                  IF Unbound(hop[g].job) \/ Malformed(hop[g].job) THEN "refused" ELSE "bound"]
    /\ UNCHANGED <<workerVars, linkVars, callVars, textVars, sendVars, got, refused, late, lapses>>

ReadsCall(g)    == Reads(g, Calls)
ReadsText(g)    == Reads(g, Texts)
ReadsReceipt(g) == Reads(g, Receipts)

(* The CRM inserts a row each time, but for a dedupe_key it has seen; a receipt
   for a message_id it does not know is a 404. *)
NoKey(j) == FALSE                                  \* mutant of Dedupes: the key left out

Dedupes(j) == j = <<"call", "ended">> /\ agent

Takes(j) ==
    /\ got' = IF Dedupes(j) THEN [got EXCEPT ![j] = 1] ELSE [got EXCEPT ![j] = @ + 1]
    /\ late' = IF bound \/ j \in Calls THEN late ELSE late + 1

(* A request of the adapter: taken, refused for good (4xx), failed (5xx, or not
   reached), or taken and its answer lost. *)
Request(g, takes) ==
    /\ \/ takes /\ Takes(hop[g].job)
          /\ hop' = [hop EXCEPT ![g].at = "taken"] /\ UNCHANGED lapses
       \/ \E answer \in {"refused", "failed"} :
             hop' = [hop EXCEPT ![g].at = answer] /\ UNCHANGED <<got, late, lapses>>
       \/ takes /\ Takes(hop[g].job) /\ Lapse
          /\ hop' = [hop EXCEPT ![g].at = "failed"]
    /\ UNCHANGED <<workerVars, linkVars, callVars, textVars, sendVars, refused>>

PostsEvent(g)   == hop[g].at = "bound" /\ hop[g].job \notin Receipts /\ Request(g, TRUE)
PostsReceipt(g) == hop[g].at = "bound" /\ hop[g].job \in Receipts /\ Request(g, known)

(* Its answer.  The CRM's budget (15 s) ends before the worker's patience (20 s),
   so the worker hears it unless the answer itself is lost. *)
AdapterAnswers(g) ==
    /\ hop[g].at \in {"taken", "refused", "failed"}
    /\ hop' = [hop EXCEPT ![g] = NoHop]
    /\ refused' = IF hop[g].at = "refused" THEN refused \union {hop[g].job} ELSE refused
    /\ IF g = crashes /\ at = "posted"
       THEN \/ Advance(IF hop[g].at = "failed" THEN "raise" ELSE "finish") /\ UNCHANGED <<tableVars, lapses>>
            \/ Advance("raise") /\ Lapse /\ UNCHANGED tableVars
       ELSE UNCHANGED <<workerVars, lapses>>
    /\ UNCHANGED <<linkVars, callVars, textVars, sendVars, got, late>>

Raise ==
    /\ at = "raise" /\ Failed
    /\ UNCHANGED <<linkVars, callVars, textVars, sendVars, crmVars, lapses>>

Crash ==
    /\ Died /\ crashes + lapses < MaxLapses
    /\ UNCHANGED <<linkVars, callVars, textVars, sendVars, crmVars, lapses>>

Restart == Restarted /\ UNCHANGED <<linkVars, callVars, textVars, sendVars, crmVars, lapses>>

-----------------------------------------------------------------------------
Calling == CallArrives \/ CallAnswered \/ CallUnanswered \/ CallEnds \/ CallLost
Texting == \E w \in Webhooks : \/ MessagePosted(w) \/ MessageIngested(w)
                               \/ MessageReported(w) \/ MessageDropped(w)
Sending == \/ SendAccepted \/ SendMarked \/ SendQueued \/ SendAnswered \/ SendDropped
           \/ \E r \in Words : ReceiptPosted(r)
Working == TextSent \/ Posts \/ Raise \/ Finish
Adapter(g) == \/ ReadsCall(g) \/ ReadsText(g) \/ ReadsReceipt(g)
              \/ PostsEvent(g) \/ PostsReceipt(g) \/ AdapterAnswers(g)

LinkNext ==
    \/ Toggle \/ Calling \/ Texting \/ Sending
    \/ ClaimSend \/ \E j \in Jobs : ClaimReport(j)
    \/ Working \/ (\E g \in 0..MaxCrashes : Adapter(g)) \/ Crash \/ Restart

LinkSpec == LinkInit /\ [][LinkNext]_reportVars

(* The queue is drained, every request has its answer or its timeout, the
   worker is restarted, and a call that is up comes to its end. *)
LinkFairness ==
    /\ WF_reportVars(ClaimSend) /\ \A j \in Jobs : WF_reportVars(ClaimReport(j))
    /\ WF_reportVars(Working) /\ WF_reportVars(Restart) /\ WF_reportVars(CallEnds)
    /\ \A g \in 0..MaxCrashes : WF_reportVars(Adapter(g))

LinkFairSpec == LinkSpec /\ LinkFairness

-----------------------------------------------------------------------------
LinkTypeOK ==
    /\ WorkerTypeOK({"send", "report", "posted", "raise", "finish"})
    /\ bound \in BOOLEAN /\ mix \in Mixes /\ toggles \in 0..MaxToggles
    /\ call \in {"away", "default", "ringing", "answered", "unanswered", "over", "lost"}
    /\ web \in [Webhooks -> {"away", "first", "seen", "report", "answered", "dead"}]
    /\ out \in {"none", "row", "marked", "queued", "answered", "dropped"}
    /\ word \in Words \union {"none"}
    /\ \A g \in DOMAIN hop : (hop[g].at = "idle") = (hop[g].job = NoJob)
    /\ got \in [Jobs -> 0..MaxLapses + MaxAttempts] /\ refused \subseteq Jobs

(* Nothing is filed twice in the CRM without a cause: each row beyond a report's
   first answers for a worker that died or an answer that was lost, and a call an
   agent took is filed once whatever is lost. *)
Extra(j) == IF got[j] > 1 THEN got[j] - 1 ELSE 0

RepeatsAreFaults ==
    /\ LinkTypeOK
    /\ \A j \in Jobs : Extra(j) =< crashes + lapses
    /\ agent => got[<<"call", "ended">>] =< 1

(* A report is never dropped in silence: a finished job was taken by the CRM, or
   the adapter answered that it cannot be. *)
DoneIsTaken == \A j \in Jobs \ {Send} : phase[j] = "done" => got[j] > 0 \/ j \in refused

(* Unbinding holds: of all that is queued, retried or restarted after the owner
   unbinds the DID, only a request that had already looked the binding up takes a
   customer's text to the CRM. *)
UnboundIsQuiet == ~bound => late =< crashes + 1

(* Every text the CRM sent is marked as the CRM's before the carrier has it, so
   that no receipt finds the row without the marker. *)
SentIsMarked == ref => marked

(* Whose texts they are: nothing goes to a CRM the owner has left, and what the
   CRM sent is known as its own. *)
TextsAreTheOwners == UnboundIsQuiet /\ SentIsMarked

(* A report is filed, and filed again only for a fault. *)
FiledOnce == RepeatsAreFaults /\ DoneIsTaken

(* What the CRM is told is told once, and only to the CRM the owner has bound. *)
ReportsAreRight == FiledOnce /\ TextsAreTheOwners

(* In the end every call the link took is over and, a dead process or a failed
   enqueue apart, reported as ended; and no report is left pending: nothing is
   committed before the adapter answers, so a worker that dies strands none. *)
AllSettled ==
    /\ \A j \in Jobs : phase[j] # "pending"
    /\ call \notin {"ringing", "answered", "unanswered"}
    /\ call = "over" /\ lapses = 0 => phase[<<"call", "ended">>] # "absent"

ReportsSettle == <>[]AllSettled
=============================================================================
