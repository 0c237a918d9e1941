------------------------------ MODULE MailIntake -----------------------------
(***************************************************************************)
(* Work orders by e-mail: the mailbox poller (workers/mail_poller.py), the *)
(* relay of each lead to GoHighLevel and of each cancellation to the card  *)
(* it concerns (workers/handlers.py), and the second delivery to the CRM   *)
(* (integrations/crm/email_jobs.py, api.py deliver_email_job).             *)
(*                                                                         *)
(* The poller and the queue's worker share one process, so they die        *)
(* together; the adapter of the CRM runs in the app container.  Requests   *)
(* that fail may have been carried out.  The jobs table is QueueWorker's.  *)
(***************************************************************************)
EXTENDS QueueWorker

CONSTANTS
    Mails,       \* messages of the mailbox
    Nobody,
    Contents,    \* what may come: functions from some of the Mails
    CustomerOf,  \* whom each is about
    Batch,       \* INBOUND_MAIL_BATCH
    Configs,     \* the GHL relays the process may be started with
    CrmKinds,    \* what the CRM switches let through
    MaxOutages    \* bound: worker deaths and database failures together

Subjects == {"confirmation", "canceled", "note", "other"}
Marks == {"updated", "anchor", "refusal", "autho", "amount"}

ASSUME MailIntakeAssumption ==
    /\ Jobs \subseteq {"ghl", "crm", "again"} \X Mails
    /\ {"ghl", "crm"} \X Mails \subseteq Jobs
    /\ Nobody \notin Mails
    /\ \A content \in Contents :
          /\ DOMAIN content \subseteq Mails
          /\ Cardinality({m \in DOMAIN content : ~content[m].id}) < Batch
          /\ \A m \in DOMAIN content :
                /\ content[m].subject \in Subjects /\ content[m].marks \subseteq Marks
                /\ content[m].original \in Mails \union {Nobody}
    /\ DOMAIN CustomerOf = Mails /\ Configs \subseteq {"api", "webhook", "unset"}
    /\ CrmKinds \subseteq {"parsed", "cancellation", "authorization", "authorization_possible"}
    /\ MaxOutages \in Nat

VARIABLES
    look,      \* what the parser recognises in each message
    box,       \* the mailbox: away, unseen or seen
    relay,     \* inbound_emails.relay_status; "none": no row yet
    relayed,   \* relayed_to_ghl
    contact,   \* rows whose relay_result holds a contact_id
    crm,       \* crm_status; "null" until the poller stamps it
    poll,      \* the poller: what it fetched, handles and has handled
    mode,      \* which GHL relay the process was started with
    card,      \* GHL: whose work order has the customer's one card
    notes,     \* GHL: work orders and cancellations noted on a contact
    crmGot,    \* the CRM: e-mails delivered to it
    hop,       \* requests in the CRM adapter
    click,     \* an operator's "relay now", read and not yet committed
    outages     \* database failures so far (bounded by MaxOutages)

logVars == <<relay, relayed, contact, crm>>
ghlVars  == <<card, notes>>
sideVars == <<crmGot, hop>>
mailVars == <<workerVars, look, box, logVars, poll, mode, ghlVars, sideVars, click, outages>>

Customers == {CustomerOf[m] : m \in Mails}
NoId == {m \in DOMAIN look : ~look[m].id}
Foreign == {m \in DOMAIN look : ~look[m].ours}    \* dispatch_email.matches refuses its sender
IdlePoll == [at |-> "idle", cur |-> Nobody, todo |-> {}, done |-> {}, broken |-> FALSE]
NoClick == [at |-> "none", mail |-> Nobody]

(* providers/dispatch_email.py: a full extraction wins whatever the subject
   says; a note is an approval only if the template's anchor, an AUTHO and an
   amount are there and no word refuses it. *)
Approves(marks) == {"anchor", "autho", "amount"} \subseteq marks /\ "refusal" \notin marks

ParseStatus(m) ==
    LET l == look[m] IN
    CASE l.complete -> "parsed"
      [] ~l.complete /\ l.subject = "canceled" -> "cancellation"
      [] ~l.complete /\ l.subject = "confirmation" -> "failed"
      [] ~l.complete /\ l.subject = "note" ->
             IF "updated" \in l.marks THEN "authorization_possible"
             ELSE IF Approves(l.marks) THEN "authorization" ELSE "ignored"
      [] ~l.complete /\ l.subject = "other" -> "ignored"

Relayable(m)  == ParseStatus(m) \in {"parsed", "cancellation"}
Delivered(m)  == ParseStatus(m) \in CrmKinds   \* should_deliver and refusal
Stored(m)     == relay[m] # "none"
Actionable(m) == crm[m] \in {"queued", "failed"}

MailInit ==
    /\ WorkerInit
    /\ look \in Contents
    /\ box = [m \in Mails |-> "away"]
    /\ relay = [m \in Mails |-> "none"]
    /\ relayed = {} /\ contact = {}
    /\ crm = [m \in Mails |-> "null"]
    /\ poll = IdlePoll
    /\ mode \in Configs
    /\ card = [c \in Customers |-> Nobody] /\ notes = {}
    /\ crmGot = {} /\ hop = [m \in Mails |-> "none"]
    /\ click = NoClick /\ outages = 0

-----------------------------------------------------------------------------
(* workers/mail_poller.py poll_mailbox *)

Arrives(m) ==
    /\ m \in DOMAIN look /\ box[m] = "away"
    /\ box' = [box EXCEPT ![m] = "unseen"]
    /\ UNCHANGED <<workerVars, look, logVars, poll, mode, ghlVars, sideVars, click, outages>>

(* IMAP SEARCH UNSEEN, cut to the batch; which ones come first is the
   mailbox's order. *)
Fetch ==
    /\ poll.at = "idle" /\ at # "down"
    /\ \E batch \in SUBSET {m \in Mails : box[m] = "unseen"} :
          /\ batch # {} /\ Cardinality(batch) =< Batch
          /\ Cardinality(batch) < Batch => batch = {m \in Mails : box[m] = "unseen"}
          /\ poll' = [IdlePoll EXCEPT !.at = "next", !.todo = batch]
    /\ UNCHANGED <<workerVars, look, box, logVars, mode, ghlVars, sideVars, click, outages>>

SkipNameless(m) ==
    /\ poll.at = "next" /\ m \in poll.todo \intersect NoId
    /\ poll' = [poll EXCEPT !.todo = @ \ {m}]
    /\ UNCHANGED <<workerVars, look, box, logVars, mode, ghlVars, sideVars, click, outages>>

(* A message of another sender is marked seen and never stored; no statement of
   the database is involved. *)
SkipForeign(m) ==
    /\ poll.at = "next" /\ m \in (poll.todo \ NoId) \intersect Foreign
    /\ poll' = [poll EXCEPT !.todo = @ \ {m}, !.done = @ \union {m}]
    /\ UNCHANGED <<workerVars, look, box, logVars, mode, ghlVars, sideVars, click, outages>>

(* ingest_email's own commit; a Message-ID stored before is left alone. *)
Takes(m) == poll.at = "next" /\ m \in poll.todo \ (NoId \union Foreign) /\ ~poll.broken

HandleStored(m) ==
    /\ Takes(m) /\ Stored(m)
    /\ poll' = [poll EXCEPT !.todo = @ \ {m}, !.done = @ \union {m}]
    /\ UNCHANGED <<workerVars, look, box, logVars, mode, ghlVars, sideVars, click, outages>>

Store(m) ==
    /\ Takes(m) /\ ~Stored(m)
    /\ relay' = [relay EXCEPT ![m] = "new"]
    /\ poll' = [poll EXCEPT !.at = "created", !.cur = m, !.todo = @ \ {m}]
    /\ UNCHANGED <<workerVars, look, box, relayed, contact, crm, mode, ghlVars, sideVars, click, outages>>

EnqueueOrders ==                        \* mutant of EnqueueRelay: no cancellations
    /\ poll.at = "created"
    /\ IF ParseStatus(poll.cur) = "parsed" THEN Submit(<<"ghl", poll.cur>>)
       ELSE UNCHANGED workerVars
    /\ poll' = [poll EXCEPT !.at = "relaying"]
    /\ UNCHANGED <<look, box, logVars, mode, ghlVars, sideVars, click, outages>>

EnqueueRelay ==
    /\ poll.at = "created"
    /\ IF Relayable(poll.cur) THEN Submit(<<"ghl", poll.cur>>) ELSE UNCHANGED workerVars
    /\ poll' = [poll EXCEPT !.at = "relaying"]
    /\ UNCHANGED <<look, box, logVars, mode, ghlVars, sideVars, click, outages>>

(* enqueue_for_new_email: the stamp and the job are one commit. *)
StampAlone(m) ==                                   \* mutant of StampAndEnqueue
    /\ crm' = [crm EXCEPT ![m] = "queued"]
    /\ UNCHANGED workerVars

StampAndEnqueue(m) ==
    /\ crm' = [crm EXCEPT ![m] = "queued"]
    /\ Submit(<<"crm", m>>)

Handled == poll' = [poll EXCEPT !.at = "next", !.cur = Nobody, !.done = @ \union {poll.cur}]

EnqueueCrm ==
    /\ poll.at = "relaying"
    /\ IF Delivered(poll.cur) THEN StampAndEnqueue(poll.cur)
       ELSE UNCHANGED <<workerVars, crm>>
    /\ Handled
    /\ UNCHANGED <<look, box, relay, relayed, contact, mode, ghlVars, sideVars, click, outages>>

(* A statement of the poller fails.  Nothing rolls its session back, so every
   later message of this poll fails too (FailsToo) and stays unseen;
   enqueue_for_new_email alone catches and rolls back. *)
Outage == crashes + outages < MaxOutages /\ outages' = outages + 1

StoreFails(m) ==
    /\ Takes(m) /\ Outage
    /\ poll' = [poll EXCEPT !.todo = @ \ {m}, !.broken = TRUE]
    /\ UNCHANGED <<workerVars, look, box, logVars, mode, ghlVars, sideVars, click>>

EnqueueFails ==
    /\ \/ /\ poll.at = "created" /\ Relayable(poll.cur)
          /\ poll' = [poll EXCEPT !.at = "next", !.cur = Nobody, !.broken = TRUE]
       \/ /\ poll.at = "relaying" /\ Handled
    /\ Outage
    /\ UNCHANGED <<workerVars, look, box, logVars, mode, ghlVars, sideVars, click>>

SeenAnyway(m) ==                        \* mutant of FailsToo: marked seen though not stored
    /\ poll.at = "next" /\ poll.broken /\ m \in poll.todo \ (NoId \union Foreign)
    /\ poll' = [poll EXCEPT !.todo = @ \ {m}, !.done = @ \union {m}]
    /\ UNCHANGED <<workerVars, look, box, logVars, mode, ghlVars, sideVars, click, outages>>

FailsToo(m) ==
    /\ poll.at = "next" /\ poll.broken /\ m \in poll.todo \ (NoId \union Foreign)
    /\ poll' = [poll EXCEPT !.todo = @ \ {m}]
    /\ UNCHANGED <<workerVars, look, box, logVars, mode, ghlVars, sideVars, click, outages>>

(* mark_seen, once for the whole batch; its failure is only logged. *)
MarkSeen ==
    /\ poll.at = "next" /\ poll.todo = {}
    /\ box' = [m \in Mails |-> IF m \in poll.done THEN "seen" ELSE box[m]]
    /\ poll' = IdlePoll
    /\ UNCHANGED <<workerVars, look, logVars, mode, ghlVars, sideVars, click, outages>>

MarkFails ==
    /\ poll.at = "next" /\ poll.todo = {}
    /\ Outage
    /\ poll' = IdlePoll
    /\ UNCHANGED <<workerVars, look, box, logVars, mode, ghlVars, sideVars, click>>

(* POST /api/emails/{id}/relay: an operator flushes an unsent work order. *)
RelayNow(m) ==
    /\ click = NoClick /\ Stored(m) /\ ParseStatus(m) = "parsed" /\ m \notin relayed
    /\ <<"again", m>> \in Jobs /\ phase[<<"again", m>>] = "absent"
    /\ click' = [at |-> "read", mail |-> m]
    /\ UNCHANGED <<workerVars, look, box, logVars, poll, mode, ghlVars, sideVars, outages>>

MarkPending ==
    /\ click.at = "read"
    /\ relay' = [relay EXCEPT ![click.mail] = "pending"]
    /\ click' = [click EXCEPT !.at = "pending"]
    /\ UNCHANGED <<workerVars, look, box, relayed, contact, crm, poll, mode, ghlVars, sideVars, outages>>

EnqueueAgain ==
    /\ click.at = "pending"
    /\ Submit(<<"again", click.mail>>)
    /\ click' = NoClick
    /\ UNCHANGED <<look, box, logVars, poll, mode, ghlVars, sideVars, outages>>

-----------------------------------------------------------------------------
(* handle_email_relay_ghl *)

Msg == cur[2]
Customer == CustomerOf[Msg]

ClaimMail(j) ==
    /\ ClaimFor(j, IF j[1] = "crm" THEN "crm" ELSE "ghl")
    /\ UNCHANGED <<look, box, logVars, poll, mode, ghlVars, sideVars, click, outages>>

RelaySkips ==
    /\ at = "ghl" /\ Msg \in relayed
    /\ Completed
    /\ UNCHANGED <<look, box, logVars, poll, mode, ghlVars, sideVars, click, outages>>

RelayIs(status) == relay' = [relay EXCEPT ![Msg] = status]

(* No relay configured, or nothing in GHL to note the cancellation on: the
   attempt is logged, not marked relayed. *)
AnnotatesAnything == mode = "api"                  \* mutant of Annotates

Annotates ==
    /\ mode = "api" /\ look[Msg].original \in relayed \intersect contact
    /\ ParseStatus(look[Msg].original) = "parsed"

RelayDeclines ==
    /\ at = "ghl" /\ Msg \notin relayed
    /\ \/ /\ ParseStatus(Msg) = "parsed" /\ mode = "unset"
          /\ RelayIs("skipped_not_configured")
       \/ /\ ParseStatus(Msg) = "cancellation" /\ ~Annotates
          /\ RelayIs("skipped_no_original")
    /\ CommitWith({}) /\ Advance("finish")
    /\ UNCHANGED <<look, box, relayed, contact, crm, poll, mode, ghlVars, sideVars, click, outages>>

(* The flat webhook; what GHL makes of it is its own affair. *)
RelayPosts ==
    /\ at = "ghl" /\ Msg \notin relayed /\ ParseStatus(Msg) = "parsed" /\ mode = "webhook"
    /\ Advance("posted")
    /\ UNCHANGED <<tableVars, look, box, logVars, poll, mode, ghlVars, sideVars, click, outages>>

(* _relay_via_api: the contact, then the card -- refused when the customer has
   one already, whoever made it -- then the note, which may fail. *)
OpenCard == card' = [card EXCEPT ![Customer] = IF @ = Nobody THEN Msg ELSE @]

RelayOpens ==
    /\ at = "ghl" /\ Msg \notin relayed /\ ParseStatus(Msg) = "parsed" /\ mode = "api"
    /\ OpenCard
    /\ Advance(IF card[Customer] = Nobody THEN "opened" ELSE "duplicate")
    /\ UNCHANGED <<tableVars, look, box, logVars, poll, mode, notes, sideVars, click, outages>>

RelayNotes ==
    /\ at \in {"opened", "duplicate"}
    /\ notes' \in {notes, notes \union {Msg}}
    /\ Advance(IF at = "opened" THEN "carded" ELSE "noted")
    /\ UNCHANGED <<tableVars, look, box, logVars, poll, mode, card, sideVars, click, outages>>

RelayAnnotates ==
    /\ at = "ghl" /\ Msg \notin relayed /\ ParseStatus(Msg) = "cancellation" /\ Annotates
    /\ notes' = notes \union {Msg}
    /\ Advance("annotated")
    /\ UNCHANGED <<tableVars, look, box, logVars, poll, mode, card, sideVars, click, outages>>

(* A request fails, carried out or not: the failure is committed, then raised. *)
RelayBreaks ==
    /\ at = "ghl" /\ Msg \notin relayed
    /\ \/ ParseStatus(Msg) = "parsed" /\ mode = "webhook" /\ UNCHANGED ghlVars
       \/ /\ ParseStatus(Msg) = "parsed" /\ mode = "api"
          /\ OpenCard \/ UNCHANGED card
          /\ UNCHANGED notes
       \/ /\ ParseStatus(Msg) = "cancellation" /\ Annotates
          /\ notes' \in {notes, notes \union {Msg}}
          /\ UNCHANGED card
    /\ RelayIs("failed")
    /\ CommitWith({}) /\ Advance("raise")
    /\ UNCHANGED <<look, box, relayed, contact, crm, poll, mode, sideVars, click, outages>>

RelayStores ==
    /\ at \in {"posted", "carded", "noted", "annotated"}
    /\ RelayIs(CASE at \in {"posted", "carded"} -> "sent"
                 [] at = "noted" -> "sent_as_note"
                 [] at = "annotated" -> "cancellation_noted")
    /\ relayed' = relayed \union {Msg}
    /\ contact' = IF at = "posted" THEN contact ELSE contact \union {Msg}
    /\ CommitWith({}) /\ Advance("finish")
    /\ UNCHANGED <<look, box, crm, poll, mode, ghlVars, sideVars, click, outages>>

-----------------------------------------------------------------------------
(* handle_email_relay_crm, and the adapter it posts to (deliver_email_job). *)

CrmSkips ==
    /\ at = "crm" /\ ~Actionable(Msg)
    /\ Completed
    /\ UNCHANGED <<look, box, logVars, poll, mode, ghlVars, sideVars, click, outages>>

CrmAsks ==
    /\ at = "crm" /\ Actionable(Msg)
    /\ Advance("asked")
    /\ hop' = [hop EXCEPT ![Msg] = IF @ = "none" THEN "read" ELSE @]
    /\ UNCHANGED <<tableVars, look, box, logVars, poll, mode, ghlVars, crmGot, click, outages>>

(* One request per e-mail at a time: the adapter's budget towards the CRM (15 s)
   ends before the worker's timeout (20 s) and the queue's back-off do.  The
   CRM accepts (it is idempotent by job number), refuses for good, or cannot be
   reached -- having accepted or not. *)
AdapterPosts(m) ==
    /\ hop[m] = "read"
    /\ \E answer \in {"sent", "refused", "failed"} :
          /\ hop' = [hop EXCEPT ![m] = answer]
          /\ crmGot' \in CASE answer = "sent" -> {crmGot \union {m}}
                            [] answer = "refused" -> {crmGot}
                            [] answer = "failed" -> {crmGot, crmGot \union {m}}
    /\ UNCHANGED <<workerVars, look, box, logVars, poll, mode, ghlVars, click, outages>>

(* It commits the outcome and answers; nobody listens after a timeout. *)
AdapterCommits(m) ==
    /\ hop[m] \in {"sent", "refused", "failed"}
    /\ crm' = [crm EXCEPT ![m] = hop[m]]
    /\ hop' = [hop EXCEPT ![m] = "none"]
    /\ IF at = "asked" /\ Msg = m
       THEN Advance(IF hop[m] = "failed" THEN "unheard" ELSE "finish") /\ UNCHANGED tableVars
       ELSE UNCHANGED workerVars
    /\ UNCHANGED <<look, box, relay, relayed, contact, poll, mode, ghlVars, crmGot, click, outages>>

CrmTimesOut ==
    /\ at = "asked"
    /\ Advance("unheard")
    /\ UNCHANGED <<tableVars, look, box, logVars, poll, mode, ghlVars, sideVars, click, outages>>

(* refresh, then write 'failed' over a row that still looks actionable. *)
CrmRefreshes ==
    /\ at = "unheard"
    /\ Advance(IF Actionable(Msg) THEN "unsent" ELSE "raise")
    /\ UNCHANGED <<tableVars, look, box, logVars, poll, mode, ghlVars, sideVars, click, outages>>

CrmRecords ==
    /\ at = "unsent"
    /\ crm' = [crm EXCEPT ![Msg] = "failed"]
    /\ CommitWith({}) /\ Advance("raise")
    /\ UNCHANGED <<look, box, relay, relayed, contact, poll, mode, ghlVars, sideVars, click, outages>>

-----------------------------------------------------------------------------
Raise ==
    /\ at = "raise" /\ Failed
    /\ UNCHANGED <<look, box, logVars, poll, mode, ghlVars, sideVars, click, outages>>

Finish ==
    /\ at = "finish" /\ Completed
    /\ UNCHANGED <<look, box, logVars, poll, mode, ghlVars, sideVars, click, outages>>

Crash ==
    /\ Died /\ crashes + outages < MaxOutages
    /\ poll' = IdlePoll
    /\ UNCHANGED <<look, box, logVars, mode, ghlVars, sideVars, click, outages>>

Restart ==
    /\ Restarted
    /\ mode' \in Configs
    /\ UNCHANGED <<look, box, logVars, poll, ghlVars, sideVars, click, outages>>

Polling == \/ Fetch \/ EnqueueRelay \/ EnqueueCrm \/ MarkSeen
           \/ \E m \in Mails : SkipNameless(m) \/ SkipForeign(m) \/ HandleStored(m) \/ Store(m) \/ FailsToo(m)

Working == \/ RelaySkips \/ RelayDeclines \/ RelayPosts \/ RelayOpens \/ RelayNotes
           \/ RelayAnnotates \/ RelayBreaks \/ RelayStores \/ CrmSkips \/ CrmAsks
           \/ CrmTimesOut \/ CrmRefreshes \/ CrmRecords \/ Raise \/ Finish

Adapter == \E m \in Mails : AdapterPosts(m) \/ AdapterCommits(m)

MailNext ==
    \/ \E m \in Mails : Arrives(m) \/ StoreFails(m) \/ RelayNow(m)
    \/ Polling \/ EnqueueFails \/ MarkFails \/ MarkPending \/ EnqueueAgain
    \/ \E j \in Jobs : ClaimMail(j)
    \/ Working \/ Adapter \/ Crash \/ Restart

MailSpec == MailInit /\ [][MailNext]_mailVars

(* The scheduler polls again and again, the queue is drained, both requests
   time out, the container is restarted. *)
MailFairness == /\ WF_mailVars(Polling) /\ WF_mailVars(Working) /\ WF_mailVars(Restart)
            /\ \A j \in Jobs : WF_mailVars(ClaimMail(j))

MailFairSpec == MailSpec /\ MailFairness

-----------------------------------------------------------------------------
RelayStatuses == {"none", "new", "pending", "failed", "sent", "sent_as_note",
                  "cancellation_noted", "skipped_not_configured", "skipped_no_original"}

MailTypeOK ==
    /\ WorkerTypeOK({"ghl", "opened", "duplicate", "posted", "carded", "noted", "annotated",
                     "crm", "asked", "unheard", "unsent", "raise", "finish"})
    /\ box \in [Mails -> {"away", "unseen", "seen"}]
    /\ relay \in [Mails -> RelayStatuses] /\ relayed \subseteq Mails /\ contact \subseteq relayed
    /\ crm \in [Mails -> {"null", "queued", "failed", "sent", "refused"}]
    /\ poll.cur \in Mails \union {Nobody} /\ poll.todo \subseteq Mails /\ poll.done \subseteq Mails
    /\ (poll.cur # Nobody) = (poll.at \in {"created", "relaying"})
    /\ mode \in Configs /\ look \in Contents /\ card \in [Customers -> Mails \union {Nobody}] /\ notes \subseteq Mails
    /\ crmGot \subseteq Mails /\ hop \in [Mails -> {"none", "read", "sent", "refused", "failed"}]
    /\ click.mail \in Mails \union {Nobody} /\ outages \in 0..MaxOutages

(* A message of the sender is marked seen only once stored, and a stored work order or
   cancellation has its relay job, except that each worker death or database
   failure may strand the one the poller had just stored: no later poll makes
   up for it. *)
Stranded == {m \in Mails : /\ Stored(m) /\ Relayable(m) /\ m # poll.cur
                           /\ phase[<<"ghl", m>>] = "absent"}

OneLossPerFault ==
    /\ MailTypeOK
    /\ Cardinality(Stranded) =< crashes + outages
    /\ \A m \in Mails : box[m] = "seen" => Stored(m) \/ m \in Foreign

\* The work order an e-mail is or cancels.
WorkOrder(m) == IF ParseStatus(m) = "cancellation" THEN look[m].original ELSE m

(* What the log says reached GoHighLevel did: a relayed work order's customer
   has a card there, and a noted cancellation is on the customer of a work order
   that was relayed before it. *)
RelayedIsReal ==
    \A m \in Mails :
        /\ relay[m] = "sent" /\ m \in contact => card[CustomerOf[m]] = m
        /\ m \in contact => card[CustomerOf[WorkOrder(m)]] # Nobody
        /\ relay[m] = "cancellation_noted" => m \in notes /\ look[m].original \in contact

(* "there is never a 'queued' row without a job": a stamped e-mail has a CRM job
   that has not finished, and what is recorded as sent was delivered -- though
   the worker may stop waiting for the adapter and record a failure of its own. *)
StampHasJob ==
    \A m \in Mails :
        /\ crm[m] = "queued" => phase[<<"crm", m>>] \in {"pending", "running"}
        /\ crm[m] = "sent" => m \in crmGot
        /\ phase[<<"crm", m>>] = "done" => crm[m] \in {"sent", "refused"}

(* Nothing received is lost without a fault, and every stamp has its job. *)
OrdersAccountedFor == OneLossPerFault /\ StampHasJob

(* The e-mail log can be trusted: what it holds is on its way, and what it calls
   relayed was. *)
LogIsHonest == OrdersAccountedFor /\ RelayedIsReal

(* Every message of the sender with an id is stored in the end, though a statement that fails
   takes the rest of its poll with it, the worker may die, and messages without
   an id are fetched anew each time and take up room in the batch. *)
MailIsStored == \A m \in Mails : box[m] = "unseen" /\ m \notin NoId \union Foreign ~> Stored(m)
=============================================================================
