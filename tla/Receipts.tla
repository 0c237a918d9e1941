------------------------------- MODULE Receipts ------------------------------
(***************************************************************************)
(* Delivery receipts that the carrier posts as if they were texts          *)
(* (webhooks/bulkvs.py message, services/dlr.py), and the command that     *)
(* repairs those stored as texts before they were recognised               *)
(* (scripts/backfill_dlrs.py).                                             *)
(*                                                                         *)
(* A receipt bears an id of its own; the text it is about is found by its  *)
(* numbers, echo and time.  It is applied to that text's row, remembered   *)
(* there, and told to the CRM if the text is the CRM's; a receipt of no    *)
(* known text is stored and then hidden.  Several web processes and the    *)
(* command do this at once, each committing what it worked out from what   *)
(* it read.  What the sender of the text does meanwhile is Messaging's.    *)
(***************************************************************************)
EXTENDS Naturals, FiniteSets

CONSTANTS
    Sent,         \* outbound texts in messages
    Ours,         \* those the CRM sent
    Echo,         \* text -> what of it a receipt echoes
    Receipts,     \* the carrier's receipts
    About,        \* receipt -> the echo it bears
    Stat,         \* receipt -> the status it means
    Others,       \* what else is posted: texts of customers, receipts nobody can read
    Servers,      \* web requests served at once
    Traffic,      \* bound: payloads explored together
    MaxPosts,     \* bound: posts of one payload
    MaxRuns,      \* bound: runs of the command that write
    MaxSlips      \* bound: failed requests, and processes that die

VARIABLES
    status,       \* text -> its row's status
    seen,         \* text -> bulkvs_dlr_seen of its row
    inbox,        \* payload -> its inbound row: none, shown in the thread, or hidden
    posts,        \* payload -> times posted
    acked,        \* payloads with a 200
    task,         \* what each request, and the command, has read and decided
    old,          \* receipts stored before they were recognised
    todo, marks,  \* the command: receipts to see to, and marks not committed yet
    owing,        \* history: receipts of known texts stored when it began
    runs, quiet,  \* its runs; --no-crm
    told,         \* receipt -> times the CRM is told
    applied,      \* history: receipts applied to a row
    overlaps,     \* history: commits of what was read before another's commit
    slips

rowVars     == <<status, seen, inbox>>
carrierVars == <<posts, acked, old>>
runVars     == <<todo, marks, owing, runs, quiet>>
historyVars == <<told, applied, overlaps>>
receiptVars == <<rowVars, carrierVars, task, runVars, historyVars, slips>>

Command == "command"
Tasks == Servers \union {Command}
Payloads == Receipts \union Others
Idle == [at |-> "idle"]
Task(at, r) == [at |-> at, item |-> r]

StartWith(stored, live) ==
    /\ status = [m \in Sent |-> "sent"] /\ seen = [m \in Sent |-> {}]
    /\ inbox = [i \in Payloads |-> IF i \in stored THEN "shown" ELSE "none"]
    /\ posts = [i \in Payloads |-> 0] /\ old = stored
    /\ acked = stored \union (Payloads \ live)
    /\ task = [s \in Tasks |-> Idle]
    /\ todo = {} /\ marks = {} /\ owing = {} /\ runs = 0 /\ quiet = FALSE
    /\ told = [r \in Receipts |-> 0] /\ applied = {} /\ overlaps = 0 /\ slips = 0

(* Some receipts were stored before anyone knew what they were. *)
ReceiptsInit ==
    \E live \in Traffic : \E stored \in SUBSET (live \intersect Receipts) : StartWith(stored, live)

(* A behaviour that follows something else. *)
NoReceipts == StartWith({}, {})

Fault == slips < MaxSlips /\ slips' = slips + 1
Becomes(s, t) == task' = [task EXCEPT ![s] = t]

-----------------------------------------------------------------------------
(* message: the carrier posts a payload until it has its 200. *)
Posted(h, i) ==
    /\ task[h] = Idle /\ i \notin acked /\ posts[i] < MaxPosts
    /\ posts' = [posts EXCEPT ![i] = @ + 1]
    /\ Becomes(h, Task("in", i))
    /\ UNCHANGED <<rowVars, acked, old, runVars, historyVars, slips>>

LooksLikeOne(i) == TRUE             \* mutant of IsReceipt
IsReceipt(i) == i \in Receipts      \* all seven fields, in order

Answered(h) == Becomes(h, Idle) /\ acked' = acked \union {task[h].item}

(* No receipt: an inbound text like any other. *)
Ingests(h) ==
    /\ task[h].at = "in" /\ ~IsReceipt(task[h].item)
    /\ inbox' = [inbox EXCEPT ![task[h].item] = "shown"]
    /\ Answered(h)
    /\ UNCHANGED <<status, seen, posts, old, runVars, historyVars, slips>>

-----------------------------------------------------------------------------
(* services/dlr.py: correlate, apply, remember *)

Matching(r) == {m \in Sent : Echo[m] = About[r]}
Fresh(r) == {m \in Matching(r) : seen[m] = {}}
Best(r) == IF Fresh(r) # {} THEN Fresh(r) ELSE Matching(r)

NeverSeen(r) == FALSE               \* mutant of AlreadyApplied
AlreadyApplied(r) == \E m \in Matching(r) : r \in seen[m]

Final == {"delivered", "failed"}
Advance(current, new) == IF current \in Final THEN current ELSE new

Correlates(s) ==
    LET r == task[s].item IN
    /\ task[s].at = "in" /\ IsReceipt(r)
    /\ IF r \in Others \/ Matching(r) = {} THEN Becomes(s, Task("orphan", r))
       ELSE IF AlreadyApplied(r) THEN Becomes(s, Task("seen", r))
       ELSE \E m \in Best(r) :
              Becomes(s, [at |-> "chosen", item |-> r, msg |-> m, fresh |-> TRUE,
                          was |-> status[m], seen |-> seen[m] \union {r}])
    /\ UNCHANGED <<rowVars, carrierVars, runVars, historyVars, slips>>

Hidden(rs) == [i \in Payloads |-> IF i \in rs /\ inbox[i] = "shown" THEN "hidden" ELSE inbox[i]]
Stale(s) == [t \in Tasks |-> IF t # s /\ task[t].at = "chosen"
                             THEN [task[t] EXCEPT !.fresh = FALSE] ELSE task[t]]

(* The status if it advanced, and the whole raw_payload.  The command's commit
   takes the marks it has made with it. *)
Applies(s) ==
    LET q == task[s]
        new == Advance(q.was, Stat[q.item])
    IN  /\ q.at = "chosen"
        /\ status' = IF new # q.was THEN [status EXCEPT ![q.msg] = new] ELSE status
        /\ seen' = [seen EXCEPT ![q.msg] = q.seen]
        /\ inbox' = IF s = Command THEN Hidden(marks) ELSE inbox
        /\ marks' = IF s = Command THEN {} ELSE marks
        /\ applied' = applied \union {q.item}
        /\ overlaps' = IF q.fresh THEN overlaps ELSE overlaps + 1
        /\ task' = [Stale(s) EXCEPT ![s] = [at |-> "applied", item |-> q.item, msg |-> q.msg]]
        /\ UNCHANGED <<carrierVars, todo, owing, runs, quiet, told, slips>>

(* handle_delivery_receipt: only for a text the CRM sent; the command may have
   been asked not to. *)
Tells(s) ==
    /\ task[s].at = "applied"
    /\ IF task[s].msg \in Ours /\ ~(s = Command /\ quiet)
       THEN \/ told' = [told EXCEPT ![task[s].item] = @ + 1] /\ UNCHANGED slips
            \/ Fault /\ UNCHANGED told            \* the enqueue fails: logged
       ELSE UNCHANGED <<told, slips>>
    /\ Becomes(s, Task("seen", task[s].item))
    /\ UNCHANGED <<rowVars, carrierVars, runVars, applied, overlaps>>

Acknowledges(h) ==
    /\ h # Command /\ task[h].at = "seen" /\ Answered(h)
    /\ UNCHANGED <<rowVars, posts, old, runVars, historyVars, slips>>

-----------------------------------------------------------------------------
(* _keep_orphan_receipt: stored as a text, and marked in a second transaction. *)
Drops(h) == UNCHANGED inbox         \* mutant of Keeps
Keeps(h) == inbox' = [inbox EXCEPT ![task[h].item] = IF @ = "none" THEN "shown" ELSE @]

StoresOrphan(h) ==
    /\ h # Command /\ task[h].at = "orphan"
    /\ Keeps(h) /\ Becomes(h, Task("stored", task[h].item))
    /\ UNCHANGED <<status, seen, carrierVars, runVars, historyVars, slips>>

HidesOrphan(h) ==
    /\ task[h].at = "stored"
    /\ inbox' = Hidden({task[h].item}) /\ Answered(h)
    /\ UNCHANGED <<status, seen, posts, old, runVars, historyVars, slips>>

(* _take_receipt is total: whatever fails, the carrier has its 200. *)
RequestFails(h) ==
    /\ task[h].at \in {"in", "chosen", "orphan", "stored"} /\ task[h].item \in Receipts
    /\ Fault /\ Answered(h)
    /\ UNCHANGED <<rowVars, posts, old, runVars, historyVars>>

RequestDies(h) ==
    /\ task[h] # Idle /\ Fault /\ Becomes(h, Idle)
    /\ UNCHANGED <<rowVars, carrierVars, runVars, historyVars>>

-----------------------------------------------------------------------------
(* The command, with --apply: every stored receipt, hidden or not, in turn. *)
Stored == {r \in Receipts : inbox[r] # "none"}

RunStarts ==
    /\ task[Command].at \in {"idle", "ended"} /\ runs < MaxRuns /\ runs' = runs + 1
    /\ quiet' \in BOOLEAN
    /\ todo' = Stored /\ marks' = {}
    /\ owing' = {r \in Stored : Matching(r) # {}}
    /\ Becomes(Command, [at |-> "next"])
    /\ UNCHANGED <<rowVars, carrierVars, historyVars, slips>>

RunTakes ==
    /\ task[Command].at = "next"
    /\ \E r \in todo : todo' = todo \ {r} /\ Becomes(Command, Task("in", r))
    /\ UNCHANGED <<rowVars, carrierVars, marks, owing, runs, quiet, historyVars, slips>>

RunMarks ==
    /\ task[Command].at \in {"seen", "orphan"}
    /\ marks' = marks \union {task[Command].item}
    /\ Becomes(Command, [at |-> "next"])
    /\ UNCHANGED <<rowVars, carrierVars, todo, owing, runs, quiet, historyVars, slips>>

LeavesMarks == UNCHANGED inbox      \* mutant of CommitsMarks
CommitsMarks == inbox' = Hidden(marks)

RunEnds ==
    /\ task[Command].at = "next" /\ todo = {}
    /\ CommitsMarks /\ marks' = {}
    /\ Becomes(Command, [at |-> "ended"])
    /\ UNCHANGED <<status, seen, carrierVars, todo, owing, runs, quiet, historyVars, slips>>

(* A statement of it fails, or it is stopped: what it had committed stands. *)
RunDies ==
    /\ task[Command].at \notin {"idle", "ended"} /\ Fault
    /\ Becomes(Command, Idle) /\ todo' = {} /\ marks' = {} /\ owing' = {}
    /\ UNCHANGED <<rowVars, carrierVars, runs, quiet, historyVars>>

-----------------------------------------------------------------------------
Serves(h) == \/ Ingests(h) \/ Correlates(h) \/ Applies(h) \/ Tells(h) \/ Acknowledges(h)
             \/ StoresOrphan(h) \/ HidesOrphan(h)
Running == \/ RunTakes \/ Correlates(Command) \/ Applies(Command) \/ Tells(Command)
           \/ RunMarks \/ RunEnds

ReceiptsNext ==
    \/ \E h \in Servers : \/ \E i \in Payloads : Posted(h, i)
                           \/ Serves(h) \/ RequestFails(h) \/ RequestDies(h)
    \/ RunStarts \/ Running \/ RunDies

ReceiptsSpec == ReceiptsInit /\ [][ReceiptsNext]_receiptVars

-----------------------------------------------------------------------------
(* A customer's words are never hidden, and a receipt of now is in a thread only
   between the two commits that store and hide it, failures apart. *)
ThreadsAreClean ==
    /\ \A i \in Others : inbox[i] # "hidden"
    /\ \A r \in Receipts :
          inbox[r] = "shown" /\ r \notin old /\ slips = 0 =>
              \E h \in Servers : task[h].at = "stored" /\ task[h].item = r

(* No receipt is lost: what the carrier has its 200 for has been applied or is
   stored, and a run of the command that ends leaves every receipt it found of a
   known text applied and hidden -- whoever else applied it, died or was in the
   middle of it. *)
NoReceiptIsLost ==
    /\ slips = 0 => \A r \in acked \intersect Receipts :
                        posts[r] > 0 => r \in applied \/ inbox[r] # "none"
    /\ task[Command].at = "ended" => \A r \in owing : r \in applied /\ inbox[r] = "hidden"

(* The CRM is told once of a receipt, however often it is posted and the command
   is run: each further time answers for a commit that overlapped another's. *)
ToldOnce == \A r \in Receipts : told[r] =< 1 + overlaps

ReceiptsAreKept == ThreadsAreClean /\ NoReceiptIsLost /\ ToldOnce
=============================================================================
