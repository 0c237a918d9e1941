-------------------------------- MODULE Inbox --------------------------------
(***************************************************************************)
(* One contact's thread in the operators' Inbox (api/inbox.py,             *)
(* services/inbox_threads.py, services/messages.py).                       *)
(*                                                                         *)
(* Texts and calls of the contact are filed by webhooks, which never touch *)
(* the thread's own row; the operators read, close, block, delete and      *)
(* restore it, each act one column of that row.  What the thread looks     *)
(* like, unread, open or deleted, and which number a reply leaves from, is *)
(* computed from the stamps when somebody asks.                            *)
(*                                                                         *)
(* A row is stamped when its transaction begins and is seen when it        *)
(* commits; an act is stamped before its upsert.                           *)
(***************************************************************************)
EXTENDS Naturals, FiniteSetsExt

CONSTANTS
    Dids,           \* our numbers
    NoDid,
    Desks,          \* operators' requests that can be served at the same time
    Texts,          \* texts the contact sends: provider message ids
    Calls,          \* calls with the contact: provider call ids
    Through,        \* the number of ours each text and call came through
    Replies,        \* texts the operators send
    MaxTime,        \* bound on what is stamped
    MaxActs,        \* bound on the operators' acts, of a kind
    MaxCuts         \* bound on requests and deliveries cut short

ASSUME ThingsAreToldApart ==
    Texts \cap Calls = {} /\ (Texts \cup Calls) \cap Replies = {}

VARIABLES
    now,        \* the last stamp given
    log,        \* messages and calls, as committed
    underway,   \* what began and is not filed: the stamp of a delivery or a call, or 0
    thread,     \* contact_thread_state: one stamp per column, 0 for NULL
    dflt,       \* app_settings inbox_default_number_id
    able,       \* numbers: passed the 10DLC gate, active at the carrier
    desk,       \* what each operator's request holds
    done,       \* history: of each act in force, what had begun when it was asked
    acts, cuts

threadVars == <<now, log, underway, thread, dflt, able, desk, done, acts, cuts>>
setup == <<dflt, able>>

Columns  == {"read", "closed", "blocked", "deleted"}
Incoming == Texts \cup Calls
Free     == [at |-> "idle"]

Filed(i) == \E row \in log : row.id = i

Begun ==                                   \* history: everything that had begun by now
    {i \in Incoming : underway[i] > 0}
        \cup {row.id : row \in log}
        \cup {desk[d].id : d \in {e \in Desks : desk[e].at \in {"begun", "resolved"}}}

-----------------------------------------------------------------------------
(* What the thread list says: merge_threads, resolve_sms_from. *)

Stamps == {row.at : row \in log}
LastAt == IF log = {} THEN 0 ELSE Max(Stamps)
Newest(rows) == CHOOSE row \in rows : \A other \in rows : row.at >= other.at

Newer(at, mark) ==                         \* activity newer than the act wins
    at > mark

ReadOver(row) ==                           \* mutant of Unread: its own texts count too
    thread.read = 0 \/ Newer(row.at, thread.read)
Unread(row) ==
    /\ row.dir = "in"
    /\ thread.read = 0 \/ Newer(row.at, thread.read)

UnreadRows == {row \in log : Unread(row)}
OpenNow    == thread.closed = 0 \/ Newer(LastAt, thread.closed)
BlockedNow == thread.blocked # 0
DeletedNow == thread.deleted # 0 /\ ~Newer(LastAt, thread.deleted)

MaySend(d) == d # NoDid /\ able[d].sms      \* outbound_block_reason
Default    == IF dflt # NoDid /\ able[dflt].active THEN dflt ELSE NoDid

SmsFrom(sticky) ==                         \* resolve_sms_from
    IF MaySend(sticky) THEN sticky
    ELSE IF MaySend(Default) THEN Default
    ELSE NoDid

Sticky == IF log = {} THEN NoDid ELSE Newest(log).did
Shown  == SmsFrom(Sticky)

-----------------------------------------------------------------------------
(* A behaviour is about the thread's looks or about where a reply leaves from. *)
ThreadInit ==
    /\ now = 0 /\ log = {} /\ cuts = 0
    /\ underway = [i \in Incoming |-> 0]
    /\ thread = [c \in Columns |-> 0]
    /\ done = [c \in Columns |-> [on |-> FALSE, over |-> {}]]
    /\ desk = [d \in Desks |-> Free]
    /\ \/ /\ acts = [look |-> 0, reply |-> MaxActs]
          /\ dflt = NoDid /\ able = [d \in Dids |-> [sms |-> TRUE, active |-> TRUE]]
       \/ /\ acts = [look |-> MaxActs, reply |-> 0]
          /\ dflt \in Dids \cup {NoDid}
          /\ able \in [Dids -> [sms : BOOLEAN, active : {TRUE}]] /\ \E d \in Dids : able[d].sms

Parked ==
    /\ now = MaxTime /\ log = {} /\ cuts = MaxCuts
    /\ acts = [look |-> MaxActs, reply |-> MaxActs]
    /\ underway = [i \in Incoming |-> 0]
    /\ thread = [c \in Columns |-> 0]
    /\ done = [c \in Columns |-> [on |-> FALSE, over |-> {}]]
    /\ dflt = NoDid /\ able = [d \in Dids |-> [sms |-> FALSE, active |-> FALSE]]
    /\ desk = [d \in Desks |-> Free]

Stamped == now < MaxTime /\ now' = now + 1
Act(about) == acts[about] < MaxActs /\ acts' = [acts EXCEPT ![about] = @ + 1]

-----------------------------------------------------------------------------
(* What arrives: webhooks/bulkvs.py and the call ingestion. *)

(* What begins now began after every act so far (a repeat did not begin now). *)
Without(i, d) == IF d.at = "asked" THEN [d EXCEPT !.over = @ \ {i}] ELSE d
BeginsNow(i) == done' = [c \in Columns |-> [done[c] EXCEPT !.over = @ \ {i}]]

Arrives(i) ==                              \* the text's webhook, or the call, begins
    /\ underway[i] = 0
    /\ Filed(i) => i \in Texts             \* the carrier repeats a text it got no 200 for
    /\ Stamped
    /\ underway' = [underway EXCEPT ![i] = now']
    /\ IF Filed(i) THEN UNCHANGED <<desk, done>>
       ELSE BeginsNow(i) /\ desk' = [d \in Desks |-> Without(i, desk[d])]
    /\ UNCHANGED <<log, thread, setup, acts, cuts>>

(* The upsert of ingest_message_event leaves a repeated text's received_at alone. *)
FiledAnew(i, new) ==                       \* mutant of FiledOnce: a repeat is stamped again
    {row \in log : row.id # i} \cup {new}
FiledOnce(i, new) ==
    IF Filed(i) THEN log ELSE log \cup {new}

Files(i, dir) ==
    /\ underway[i] > 0
    /\ i \in Texts => dir = "in"
    /\ log' = FiledOnce(i, [id |-> i, kind |-> IF i \in Texts THEN "message" ELSE "call",
                            dir |-> dir, did |-> Through[i], at |-> underway[i]])
    /\ underway' = [underway EXCEPT ![i] = 0]
    /\ UNCHANGED <<now, thread, setup, desk, done, acts, cuts>>

Cut(i) ==                                  \* the delivery fails: the carrier repeats it
    /\ underway[i] > 0 /\ i \in Texts
    /\ cuts < MaxCuts /\ cuts' = cuts + 1
    /\ underway' = [underway EXCEPT ![i] = 0]
    /\ UNCHANGED <<now, log, thread, setup, desk, done, acts>>

-----------------------------------------------------------------------------
(* What the operators do. *)

(* POST read, state, block, delete, and their opposites: the stamp is taken,
   then the one column is upserted. *)
Asks(d, c, on) ==
    /\ desk[d] = Free /\ Act("look") /\ Stamped
    /\ ~on => c # "read" /\ thread[c] # 0     \* what is not set is not offered to be lifted
    /\ desk' = [desk EXCEPT ![d] = [at |-> "asked", col |-> c, mark |-> IF on THEN now' ELSE 0,
                                    over |-> Begun]]
    /\ UNCHANGED <<log, underway, thread, setup, done, cuts>>

UpsertRow(c, mark) ==                      \* mutant of Upserted: the whole row is replaced
    [[k \in Columns |-> 0] EXCEPT ![c] = mark]
Upserted(c, mark) == [thread EXCEPT ![c] = mark]

Upserts(d) ==
    /\ desk[d].at = "asked"
    /\ thread' = Upserted(desk[d].col, desk[d].mark)
    /\ done' = [done EXCEPT ![desk[d].col] = [on |-> desk[d].mark > 0, over |-> desk[d].over]]
    /\ desk' = [desk EXCEPT ![d] = Free]
    /\ UNCHANGED <<now, log, underway, setup, acts, cuts>>

(* POST send: the row is stamped when its transaction began, with the block check. *)
Begins(d, id, named) ==
    /\ desk[d] = Free /\ Act("reply") /\ Stamped
    /\ ~BlockedNow
    /\ id \notin Begun
    /\ BeginsNow(id)
    /\ desk' = [e \in Desks |->
           IF e = d THEN [at |-> "begun", id |-> id, named |-> named, mark |-> now']
           ELSE Without(id, desk[e])]
    /\ UNCHANGED <<log, underway, thread, setup, cuts>>

LastOf(kind) == {row \in log : row.kind = kind}

NewestText ==                              \* mutant of LastUsed: calls are not looked at
    IF LastOf("message") = {} THEN NoDid ELSE Newest(LastOf("message")).did
LastUsed ==                                \* the sticky number, from two queries
    LET texts == LastOf("message")
        calls == LastOf("call")
    IN  IF texts # {} /\ calls # {}
        THEN IF Newest(texts).at >= Newest(calls).at
             THEN Newest(texts).did ELSE Newest(calls).did
        ELSE IF texts # {} THEN Newest(texts).did
        ELSE IF calls # {} THEN Newest(calls).did
        ELSE NoDid

Resolves(d) ==
    /\ desk[d].at = "begun"
    /\ LET named  == desk[d].named
           chosen == IF named = NoDid THEN SmsFrom(LastUsed) ELSE named
       IN  desk' = [desk EXCEPT ![d] =
               IF ~MaySend(chosen) \/ ~able[chosen].active THEN Free      \* 409
               ELSE [at |-> "resolved", id |-> @.id, mark |-> @.mark, did |-> chosen,
                     shown |-> IF named = NoDid THEN Shown ELSE named]]
    /\ UNCHANGED <<now, log, underway, thread, setup, done, acts, cuts>>

SendsOut(d) ==                             \* enqueue_outbound_message
    /\ desk[d].at = "resolved"
    /\ log' = log \cup {[id |-> desk[d].id, kind |-> "message", dir |-> "out",
                         did |-> desk[d].did, at |-> desk[d].mark, shown |-> desk[d].shown]}
    /\ desk' = [desk EXCEPT ![d] = Free]
    /\ UNCHANGED <<now, underway, thread, setup, done, acts, cuts>>

Refuses(d) ==                              \* the contact opted out from that number
    /\ desk[d].at = "resolved"
    /\ desk' = [desk EXCEPT ![d] = Free]
    /\ UNCHANGED <<now, log, underway, thread, setup, done, acts, cuts>>

SetsDefault(did) ==                        \* PUT settings/default-number
    /\ Act("reply") /\ (did # NoDid => able[did].active)
    /\ dflt' = did
    /\ UNCHANGED <<now, log, underway, thread, able, desk, done, cuts>>

Provisions(did) ==                         \* number_sync and the number's settings page
    /\ Act("reply")
    /\ \/ able' = [able EXCEPT ![did].sms = ~@]
       \/ able' = [able EXCEPT ![did].active = ~@]
    /\ UNCHANGED <<now, log, underway, thread, dflt, desk, done, cuts>>

Serve(d) == Upserts(d) \/ Resolves(d) \/ SendsOut(d) \/ Refuses(d)

ThreadNext ==
    \/ \E i \in Incoming :
        \/ Arrives(i) \/ Cut(i)
        \/ \E dir \in {"in", "out"} : Files(i, dir)
    \/ \E d \in Desks :
        \/ \E c \in Columns, on \in BOOLEAN : Asks(d, c, on)
        \/ \E id \in Replies, named \in Dids \cup {NoDid} : Begins(d, id, named)
        \/ Serve(d)
    \/ \E did \in Dids \cup {NoDid} : SetsDefault(did)
    \/ \E did \in Dids : Provisions(did)

(* Requests and deliveries are served. *)
ThreadFairness ==
    /\ \A d \in Desks : WF_threadVars(Serve(d))
    /\ \A i \in Incoming : WF_threadVars(\E dir \in {"in", "out"} : Files(i, dir))

ThreadSpec == ThreadInit /\ [][ThreadNext]_threadVars
FairThread == ThreadSpec /\ ThreadFairness

-----------------------------------------------------------------------------
(* The stamps say what the operators' last acts and the arrivals since then
   say: a thread is open, or back from the deleted ones, exactly when
   something began after it was closed or deleted; what is unread is what the
   contact did since the last reading; a block stays until it is lifted.
   Whatever order the deliveries, repeats and upserts commit in. *)
Since(c) == {row \in log : ~done[c].on \/ row.id \notin done[c].over}

ShownAsActed ==
    /\ UnreadRows = {row \in Since("read") : row.dir = "in"}
    /\ OpenNow <=> (~done["closed"].on \/ Since("closed") # {})
    /\ DeletedNow <=> (done["deleted"].on /\ Since("deleted") = {})
    /\ BlockedNow <=> done["blocked"].on

(* A reply leaves from the number the thread list would have shown for it
   when it was sent, though the list and the request find it out each in its
   own way. *)
LeavesAsShown ==
    \A row \in log : row.id \in Replies => row.did = row.shown

(* The thread looks as the operators and the contact left it, and a reply leaves
   from the number the list shows for it. *)
ThreadIsTrue == ShownAsActed /\ LeavesAsShown

(* Everything asked is answered, everything delivered is filed. *)
AllServed ==
    /\ \A d \in Desks : desk[d] = Free
    /\ \A i \in Incoming : underway[i] = 0
=============================================================================
