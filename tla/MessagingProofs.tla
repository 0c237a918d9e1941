--------------------------- MODULE MessagingProofs --------------------------
(***************************************************************************)
(* What the texts say of themselves is true, for any number of messages,   *)
(* requests, accepted texts and worker deaths.  Three independent parts    *)
(* rest on one invariant of the worker (SendInv): the contact's STOP       *)
(* (StopInv), what the rows show (TruthInv, for texts the carrier's echo   *)
(* can tell apart), and how often a message was sent (TimesInv).           *)
(*                                                                         *)
(* The relays of calls and texts (Relays), which work the same table, and  *)
(* the bill (Billing) have their theorems after them; Retell's calls       *)
(* (RetellSession) and the Workiz import (WorkizImport) come at the end.   *)
(***************************************************************************)
EXTENDS Messaging, Relays, Billing, RetellSession, WorkizImport, QueueWorkerProofs,
        SequenceTheorems, FiniteSetTheorems

Text == [msg : Msgs, outcome : Outcomes \union {"open"}]
Receipt ==
    [at : {"receipt", "status"}, text : 1..MaxTexts, msg : Msgs, seen : SUBSET (1..MaxTexts),
     was : Statuses \union {"none"}, new : Statuses]

Shape ==
    /\ row \in [Msgs -> Statuses \union {"none"}]
    /\ ref \in [Msgs -> 0..MaxTexts]
    /\ seen \in [Msgs -> SUBSET (1..MaxTexts)]
    /\ mem \in SUBSET (1..MaxTexts)
    /\ optout \in BOOLEAN
    /\ texts \in Seq(Text) /\ Len(texts) =< MaxTexts
    /\ request \in [Requests -> Receipt \union {NoRequest}]

(* The worker sends; until it has the carrier's answer nothing is committed, and
   the last text the carrier accepted is the one it has just posted. *)
SendInv ==
    /\ at \in {"send", "loaded", "checked", "posted", "stored", "finish", "idle", "down"}
    /\ Busy => Msg \in Msgs /\ cur = <<"send", Msg>>
    /\ at \in {"send", "loaded", "checked", "posted"} => phase[cur] = "pending"
    /\ at = "posted" => Len(texts) >= 1 /\ texts[Len(texts)].msg = Msg

(* Nothing was accepted since the contact opted out when he has not, or when the
   worker is past its re-check: it passed before. *)
StopInv ==
    /\ afterStop \in 0..1 /\ afterStop =< Len(texts)
    /\ ~optout \/ at = "checked" => afterStop = 0

BaseInv == WorkerInv /\ Shape /\ SendInv /\ StopInv

(* The carrier has told of a text of this message that it ended so. *)
Told(m, outcome) == \E t \in Texts : texts[t].msg = m /\ texts[t].outcome = outcome

(* What a row shows, and what a request is about to write, the carrier has told. *)
RowTrue(m) ==
    /\ ref[m] # 0 => ref[m] \in Texts /\ texts[ref[m]].msg = m
    /\ row[m] \in {"sent", "delivered", "undelivered"} => \E t \in Texts : texts[t].msg = m
    /\ row[m] \in Outcomes => Told(m, row[m])

RequestTrue(h) ==
    request[h] # NoRequest /\ request[h].new # request[h].was =>
        request[h].new \in Outcomes /\ Told(request[h].msg, request[h].new)

TruthInv == (\A m \in Msgs : RowTrue(m)) /\ \A h \in Requests : RequestTrue(h)

Own(m) == {t \in Texts : texts[t].msg = m}
Posting(m) == IF cur = <<"send", m>> /\ at = "posted" THEN 1 ELSE 0

(* Every text of a message is of an attempt that is counted, of the one that is
   under way, or of one a death cut short. *)
TimesInv ==
    \A m \in Msgs : Cardinality(Own(m)) =< tries[<<"send", m>>] + Posting(m) + crashes

IInv == BaseInv /\ TimesInv

(* The carrier's echo tells the messages apart. *)
BodiesDiffer == \A m, n \in Msgs : BodyOf[m] = BodyOf[n] => m = n

-----------------------------------------------------------------------------
(* Names and types *)

(* Each message has a job that sends it. *)
LEMMA JobNames ==
    /\ \A m \in Msgs : <<"send", m>> \in Jobs /\ <<"relay", m>> \in Jobs
    /\ \A m, n \in Msgs : <<"send", m>> = <<"send", n>> => m = n
    /\ \A m, n \in Msgs : <<"send", m>> # <<"relay", n>>
<1> QED  BY MessagingAssumption

(* While a handler runs it is sending some message. *)
LEMMA Doing ==
    ASSUME WorkerInv, SendInv
    PROVE  /\ at \notin {"idle", "down"} <=> Busy
           /\ Busy => cur \in Jobs /\ Msg \in Msgs /\ cur = <<"send", Msg>>
<1> QED  BY DEF WorkerInv, SendInv, Busy

(* A status only moves forward. *)
LEMMA Forward ==
    ASSUME NEW s \in Statuses \union {"none"}, NEW o \in Outcomes
    PROVE  AdvanceStatus(s, o) \in Statuses /\ AdvanceStatus(s, o) \in {s, o}
<1>1. Rank(o) = 3
    BY DEF Rank, Outcomes, Terminal
<1>2. CASE s \in Terminal
    <2>1. Rank(s) = 3
        BY <1>2 DEF Rank, Terminal
    <2> QED  BY <1>1, <1>2, <2>1 DEF AdvanceStatus, Statuses
<1>3. CASE s \notin Terminal
    <2>1. Rank(s) < 3
        BY <1>3 DEF Rank, Terminal
    <2>2. o \in Statuses
        BY DEF Outcomes, Statuses, Terminal
    <2> QED  BY <1>1, <2>1, <2>2 DEF AdvanceStatus
<1> QED  BY <1>2, <1>3

(* The carrier's list: what is on it. *)
LEMMA OnTheList ==
    ASSUME Shape
    PROVE  /\ Len(texts) \in Nat /\ Texts \subseteq 1..MaxTexts /\ MaxTexts \in Nat
           /\ \A t \in Texts :
                 texts[t].msg \in Msgs /\ texts[t].outcome \in Outcomes \union {"open"}
<1>1. /\ texts \in Seq(Text) /\ Len(texts) \in Nat /\ Len(texts) =< MaxTexts
      /\ MaxTexts \in Nat
    BY MessagingAssumption, LenProperties DEF Shape
<1>2. \A t \in Texts : texts[t] \in Text
    BY <1>1, ElementOfSeq DEF Texts
<1> QED  BY <1>1, <1>2 DEF Texts, Text

(* It accepts one more. *)
LEMMA Accepts ==
    ASSUME Shape, Msg \in Msgs, CarrierAccepts
    PROVE  /\ texts' \in Seq(Text) /\ Len(texts') = Len(texts) + 1 /\ Len(texts') =< MaxTexts
           /\ \A t \in Texts : texts'[t] = texts[t]
           /\ texts'[Len(texts) + 1] = [msg |-> Msg, outcome |-> "open"]
           /\ afterStop' = IF optout THEN afterStop + 1 ELSE afterStop
<1> DEFINE new == [msg |-> Msg, outcome |-> "open"]
<1>1. texts \in Seq(Text) /\ new \in Text /\ Len(texts) \in Nat /\ MaxTexts \in Nat
    BY MessagingAssumption, LenProperties DEF Shape, Text
<1>2. /\ texts' = Append(texts, new) /\ Len(texts) < MaxTexts
      /\ afterStop' = IF optout THEN afterStop + 1 ELSE afterStop
    BY DEF CarrierAccepts
<1> HIDE DEF new
<1>3. /\ Append(texts, new) \in Seq(Text) /\ Len(Append(texts, new)) = Len(texts) + 1
      /\ \A t \in 1..Len(texts) : Append(texts, new)[t] = texts[t]
      /\ Append(texts, new)[Len(texts) + 1] = new
    BY <1>1, AppendProperties
<1> QED  BY <1>1, <1>2, <1>3 DEF Texts, new

(* It decides what becomes of one. *)
LEMMA Decides ==
    ASSUME Shape, NEW t \in Texts, Deliver(t)
    PROVE  /\ texts' \in Seq(Text) /\ Len(texts') = Len(texts)
           /\ \A u \in Texts : /\ texts'[u].msg = texts[u].msg
                               /\ texts[u].outcome \in Outcomes => texts'[u] = texts[u]
<1>1. PICK o \in Outcomes : texts' = [texts EXCEPT ![t].outcome = o]
    BY DEF Deliver
<1>2. texts \in Seq(Text) /\ t \in 1..Len(texts) /\ texts[t].outcome = "open"
    BY DEF Shape, Deliver, Texts
<1>3. texts \in [1..Len(texts) -> Text]
    BY <1>2, LenProperties
<1> DEFINE new == [texts[t] EXCEPT !.outcome = o]
<1>4. new \in Text /\ new.msg = texts[t].msg
    BY <1>2, <1>3 DEF Text
<1>5. texts' = [texts EXCEPT ![t] = new]
    BY <1>1
<1> HIDE DEF new
<1>6. /\ texts' \in Seq(Text) /\ Len(texts') = Len(texts)
      /\ \A u \in 1..Len(texts) : texts'[u] = IF u = t THEN new ELSE texts[u]
    BY <1>2, <1>4, <1>5, ExceptSeq
<1>7. "open" \notin Outcomes
    BY DEF Outcomes
<1> QED  BY <1>2, <1>4, <1>6, <1>7 DEF Texts

(* The counts are numbers. *)
LEMMA Counts ==
    ASSUME WorkerInv, NEW m \in Msgs
    PROVE  /\ <<"send", m>> \in Jobs
           /\ tries[<<"send", m>>] \in Nat /\ crashes \in Nat
           /\ Posting(m) \in 0..1
<1>1. <<"send", m>> \in Jobs
    BY JobNames
<1>2. tries \in [Jobs -> 0..MaxAttempts] /\ crashes \in 0..MaxCrashes
    BY DEF WorkerInv
<1>3. MaxAttempts \in Nat /\ MaxCrashes \in Nat
    BY WorkerAssumption
<1>4. tries[<<"send", m>>] \in 0..MaxAttempts
    BY <1>1, <1>2
<1>5. Posting(m) \in 0..1
    BY DEF Posting
<1> QED  BY <1>1, <1>2, <1>3, <1>4, <1>5

(* Whatever happens the list only grows, by at most one text of the message that
   is being sent, and what was told stays told. *)
Grows ==
    /\ Len(texts) \in Nat /\ Len(texts') \in Nat
    /\ Len(texts) =< Len(texts')
    /\ \A t \in Texts : /\ texts'[t].msg = texts[t].msg
                        /\ texts[t].outcome \in Outcomes => texts'[t].outcome = texts[t].outcome

(* What the carrier once told stays told. *)
LEMMA TellsOn ==
    ASSUME Grows, NEW m, NEW o \in Outcomes, Told(m, o)
    PROVE  Told(m, o)'
<1>1. PICK t \in Texts : texts[t].msg = m /\ texts[t].outcome = o
    BY DEF Told
<1>2. t \in Texts'
    BY DEF Grows, Texts
<1> QED  BY <1>1, <1>2 DEF Grows, Told

(* A message's texts are finitely many. *)
LEMMA OwnFinite ==
    ASSUME Shape, NEW m
    PROVE  IsFiniteSet(Own(m)) /\ Cardinality(Own(m)) \in Nat
<1>1. IsFiniteSet(1..Len(texts))
    BY OnTheList, FS_Interval
<1>2. Own(m) \in SUBSET (1..Len(texts))
    BY DEF Own, Texts
<1>3. IsFiniteSet(Own(m))
    BY <1>1, <1>2, FS_Subset
<1> QED  BY <1>3, FS_CardinalityType

(* One more is accepted: one more text of one message. *)
LEMMA OneMore ==
    ASSUME Shape, Msg \in Msgs, CarrierAccepts, NEW m \in Msgs
    PROVE  Cardinality(Own(m)') =< Cardinality(Own(m)) + IF m = Msg THEN 1 ELSE 0
<1> DEFINE n == Len(texts) + 1
<1>1. /\ Len(texts) \in Nat /\ Len(texts') = n
      /\ \A t \in Texts : texts'[t] = texts[t]
      /\ texts'[n].msg = Msg
    BY Accepts, OnTheList
<1>2. Texts' = Texts \union {n}
    BY <1>1 DEF Texts
<1>3. IsFiniteSet(Own(m)) /\ Cardinality(Own(m)) \in Nat
    BY OwnFinite
<1>4. CASE m = Msg
    <2>1. Own(m)' = Own(m) \union {n}
        BY <1>1, <1>2, <1>4 DEF Own
    <2> HIDE DEF n
    <2>2. Cardinality(Own(m) \union {n}) =< Cardinality(Own(m)) + 1
        BY <1>3, FS_AddElement
    <2> QED  BY <1>3, <1>4, <2>1, <2>2
<1>5. CASE m # Msg
    <2>1. Own(m)' = Own(m)
        BY <1>1, <1>2, <1>5 DEF Own
    <2> QED  BY <1>3, <1>5, <2>1
<1> QED  BY <1>4, <1>5

(* The list is as long as it was: as many texts of each. *)
LEMMA AsMany ==
    ASSUME Grows, Len(texts') = Len(texts), NEW m
    PROVE  Own(m)' = Own(m)
<1>1. Texts' = Texts
    BY DEF Texts
<1> QED  BY <1>1 DEF Own, Grows

-----------------------------------------------------------------------------
(* The worker, the types and the STOP *)

(* The worker's part. *)
LEMMA WorkerKept == WorkerInv /\ Shape /\ SendInv /\ StopInv /\ [Next]_vars => WorkerInv'
<1> SUFFICES ASSUME WorkerInv, Shape, SendInv, StopInv, [Next]_vars PROVE WorkerInv'
    OBVIOUS
<1>1. CASE \/ (\E m \in Msgs : Accept(m))
          \/ (\E stop \in BOOLEAN : Keyword(stop))
          \/ (\E t \in Texts : Deliver(t))
          \/ (\E h \in Requests, t \in Texts : ReadReceipt(h, t))
          \/ (\E h \in Requests, t \in Texts : ReadStatus(h, t))
          \/ (\E h \in Requests : CommitRequest(h))
          \/ (\E h \in Requests : RequestDies(h))
    BY <1>1 DEF Accept, CommitRequest, Deliver, Keyword, ReadReceipt, ReadStatus,
        RequestDies, workerVars, WorkerInv, Undecided
<1>2. ASSUME NEW m \in Msgs, EnqueueSend(m)
      PROVE  WorkerInv'
    BY <1>2, JobNames, Submits DEF EnqueueSend
<1>3. ASSUME NEW m \in Msgs, Claim(m)
      PROVE  WorkerInv'
    BY <1>3, JobNames, ClaimsJob DEF Claim
<1>4. CASE \/ SendSkips
          \/ Finish
    BY <1>4, Doing, Concludes DEF Finish, SendSkips
<1>5. CASE SendFails
    BY <1>5, Doing, Concludes DEF SendFails
<1>6. CASE \/ SendLoads
          \/ SendChecks
    BY <1>6, Doing, Advances DEF SendChecks, SendLoads
<1>7. CASE SendPosts
    BY <1>7, Doing, Advances DEF SendPosts
<1>8. CASE \/ SendBlocks
          \/ SendStores
    BY <1>8, Doing, CommitsOn DEF SendBlocks, SendStores
<1>9. CASE SendHandsOver
    <2>1. Busy /\ {<<"relay", Msg>>} \in SUBSET Jobs
        BY <1>9, Doing, JobNames DEF SendHandsOver
    <2> QED  BY <1>9, <2>1, CommitsOn DEF SendHandsOver
<1>10. CASE Crash
    BY <1>10, Dies DEF Crash
<1>11. CASE Restart
    BY <1>11, Restarts DEF Restart
<1>12. CASE UNCHANGED vars
    BY <1>12 DEF vars, workerVars, WorkerInv, Undecided
<1> QED  BY <1>1, <1>2, <1>3, <1>4, <1>5, <1>6, <1>7, <1>8, <1>9, <1>10, <1>11,
    <1>12 DEF Next, Sending

(* The types of the rest. *)
LEMMA ShapeKept == WorkerInv /\ Shape /\ SendInv /\ StopInv /\ [Next]_vars => Shape'
<1> SUFFICES ASSUME WorkerInv, Shape, SendInv, StopInv, [Next]_vars PROVE Shape'
    OBVIOUS
<1>1. ASSUME NEW m \in Msgs, Accept(m)
      PROVE  Shape'
    <2>1. "queued" \in Statuses
        BY DEF Statuses
    <2> QED  BY <1>1, <2>1 DEF Accept, Shape
<1>2. CASE \/ (\E m \in Msgs : EnqueueSend(m))
          \/ (\E stop \in BOOLEAN : Keyword(stop))
    BY <1>2 DEF EnqueueSend, Keyword, Shape, rowVars
<1>3. CASE \/ (\E m \in Msgs : Claim(m))
          \/ SendSkips
          \/ SendChecks
          \/ SendHandsOver
          \/ Finish
          \/ Crash
          \/ Restart
    BY <1>3 DEF Claim, Crash, Finish, Restart, SendChecks, SendHandsOver, SendSkips, Shape,
        rowVars
<1>4. CASE SendLoads
    <2>1. seen[Msg] \in SUBSET (1..MaxTexts)
        BY <1>4, Doing DEF SendLoads, Shape
    <2> QED  BY <1>4, <2>1 DEF SendLoads, Shape, rowVars
<1>5. CASE SendBlocks
    <2>1. "blocked" \in Statuses
        BY DEF Statuses, Terminal
    <2> QED  BY <1>5, <2>1 DEF SendBlocks, Shape
<1>6. CASE SendPosts
    <2>1. texts' \in Seq(Text) /\ Len(texts') =< MaxTexts
        BY <1>6, Doing, Accepts DEF SendPosts
    <2> QED  BY <1>6, <2>1 DEF SendPosts, Shape, rowVars
<1>7. CASE SendFails
    <2>1. texts' \in Seq(Text) /\ Len(texts') =< MaxTexts
        BY <1>7, Doing, Accepts DEF SendFails, Shape
    <2> QED  BY <1>7, <2>1 DEF SendFails, Shape, rowVars
<1>8. CASE SendStores
    <2>1. PICK r \in {ref[Msg], Len(texts)} : Stored(r)
        BY <1>8 DEF SendStores
    <2>2. r \in 0..MaxTexts /\ Msg \in Msgs
        BY <1>8, Doing, OnTheList, MessagingAssumption DEF SendStores, Shape
    <2>3. "sent" \in Statuses
        BY DEF Statuses
    <2> QED  BY <1>8, <2>1, <2>2, <2>3 DEF SendStores, Stored, Shape
<1>9. ASSUME NEW t \in Texts, Deliver(t)
      PROVE  Shape'
    <2>1. texts' \in Seq(Text) /\ Len(texts') = Len(texts)
        BY <1>9, Decides
    <2> QED  BY <1>9, <2>1 DEF Deliver, Shape, rowVars
<1>10. ASSUME NEW h \in Requests, NEW t \in Texts, ReadReceipt(h, t)
      PROVE  Shape'
    <2>1. t \in 1..MaxTexts /\ texts[t].outcome \in Outcomes
        BY <1>10, OnTheList DEF ReadReceipt, Decided
    <2>2. PICK m \in Best(t) :
              request' = [request EXCEPT ![h] =
                  [at |-> "receipt", text |-> t, msg |-> m, seen |-> seen[m] \union {t},
                   was |-> row[m], new |-> AdvanceStatus(row[m], texts[t].outcome)]]
        BY <1>10 DEF ReadReceipt
    <2>3. m \in Msgs
        BY DEF Best, Candidates
    <2>4. row[m] \in Statuses \union {"none"} /\ seen[m] \union {t} \in SUBSET (1..MaxTexts)
        BY <2>1, <2>3 DEF Shape
    <2>5. AdvanceStatus(row[m], texts[t].outcome) \in Statuses
        BY <2>1, <2>4, Forward
    <2>6. request'[h] \in Receipt
        BY <2>1, <2>2, <2>3, <2>4, <2>5 DEF Receipt, Shape
    <2>7. request' \in [Requests -> Receipt \union {NoRequest}]
        BY <2>2, <2>6 DEF Shape
    <2> QED  BY <1>10, <2>7 DEF ReadReceipt, Shape, rowVars
<1>11. ASSUME NEW h \in Requests, NEW t \in Texts, ReadStatus(h, t)
      PROVE  Shape'
    <2>1. t \in 1..MaxTexts /\ texts[t].outcome \in Outcomes
        BY <1>11, OnTheList DEF ReadStatus, Decided
    <2>2. PICK m \in Msgs :
              request' = [request EXCEPT ![h] =
                  [at |-> "status", text |-> t, msg |-> m, seen |-> {},
                   was |-> row[m], new |-> AdvanceStatus(row[m], texts[t].outcome)]]
        BY <1>11 DEF ReadStatus
    <2>4. row[m] \in Statuses \union {"none"} /\ {} \in SUBSET (1..MaxTexts)
        BY <2>1 DEF Shape
    <2>5. AdvanceStatus(row[m], texts[t].outcome) \in Statuses
        BY <2>1, <2>4, Forward
    <2>6. request'[h] \in Receipt
        BY <2>1, <2>2, <2>4, <2>5 DEF Receipt, Shape
    <2>7. request' \in [Requests -> Receipt \union {NoRequest}]
        BY <2>2, <2>6 DEF Shape
    <2> QED  BY <1>11, <2>7 DEF ReadStatus, Shape, rowVars
<1>12. ASSUME NEW h \in Requests, CommitRequest(h)
      PROVE  Shape'
    <2> DEFINE q == request[h]
    <2>1. /\ q.msg \in Msgs /\ q.new \in Statuses
          /\ q.seen \in SUBSET (1..MaxTexts)
        BY <1>12 DEF CommitRequest, Shape, Receipt
    <2>2. /\ row' = IF q.new # q.was THEN [row EXCEPT ![q.msg] = q.new] ELSE row
          /\ seen' = IF q.at = "receipt" THEN [seen EXCEPT ![q.msg] = q.seen] ELSE seen
          /\ request' = [request EXCEPT ![h] = NoRequest]
        BY <1>12 DEF CommitRequest
    <2> HIDE DEF q
    <2>3. row' \in [Msgs -> Statuses \union {"none"}]
        BY <2>1, <2>2 DEF Shape
    <2>4. seen' \in [Msgs -> SUBSET (1..MaxTexts)]
        BY <2>1, <2>2 DEF Shape
    <2>5. request' \in [Requests -> Receipt \union {NoRequest}]
        BY <2>2 DEF Shape
    <2> QED  BY <1>12, <2>3, <2>4, <2>5 DEF CommitRequest, Shape
<1>13. ASSUME NEW h \in Requests, RequestDies(h)
      PROVE  Shape'
    <2>1. request' \in [Requests -> Receipt \union {NoRequest}]
        BY <1>13 DEF RequestDies, Shape
    <2> QED  BY <1>13, <2>1 DEF RequestDies, Shape, rowVars
<1>14. CASE UNCHANGED vars
    BY <1>14 DEF vars, Shape, rowVars
<1> QED  BY <1>1, <1>2, <1>3, <1>4, <1>5, <1>6, <1>7, <1>8, <1>9, <1>10, <1>11, <1>12,
    <1>13, <1>14 DEF Next, Sending

(* The list of texts is never cut. *)
LEMMA ListGrows == ASSUME WorkerInv, Shape, SendInv, [Next]_vars PROVE Grows
<1>1. Len(texts) \in Nat
    BY OnTheList
<1>2. CASE UNCHANGED texts
    BY <1>1, <1>2 DEF Grows
<1>3. ASSUME Msg \in Msgs, CarrierAccepts PROVE Grows
    BY <1>1, <1>3, Accepts DEF Grows
<1>4. ASSUME NEW t \in Texts, Deliver(t) PROVE Grows
    BY <1>1, <1>4, Decides DEF Grows
<1>5. CASE SendPosts \/ SendFails
    BY <1>2, <1>3, <1>5, Doing DEF SendPosts, SendFails
<1> QED  BY <1>2, <1>4, <1>5 DEF Next, Sending, vars, Accept, EnqueueSend, Claim, Keyword,
       SendSkips, SendLoads, SendBlocks, SendChecks, SendStores, SendHandsOver, Finish,
       Crash,
       Restart, ReadReceipt, ReadStatus, CommitRequest, RequestDies

(* Where the worker is. *)
LEMMA SendKept == WorkerInv /\ Shape /\ SendInv /\ StopInv /\ [Next]_vars => SendInv'
<1> SUFFICES ASSUME WorkerInv, Shape, SendInv, StopInv, [Next]_vars PROVE SendInv'
    OBVIOUS
<1>1. CASE \/ (\E m \in Msgs : Accept(m))
          \/ (\E stop \in BOOLEAN : Keyword(stop))
          \/ (\E h \in Requests, t \in Texts : ReadReceipt(h, t))
          \/ (\E h \in Requests, t \in Texts : ReadStatus(h, t))
          \/ (\E h \in Requests : CommitRequest(h))
          \/ (\E h \in Requests : RequestDies(h))
    BY <1>1 DEF Accept, CommitRequest, Keyword, ReadReceipt, ReadStatus, RequestDies,
        workerVars, SendInv, Msg, Busy
<1>2. ASSUME NEW t \in Texts, Deliver(t)
      PROVE  SendInv'
    <2>1. Len(texts') = Len(texts) /\ \A u \in Texts : texts'[u].msg = texts[u].msg
        BY <1>2, Decides
    <2>2. at = "posted" => Len(texts) \in Texts
        BY OnTheList DEF SendInv, Texts
    <2> QED  BY <1>2, <2>1, <2>2 DEF Deliver, workerVars, SendInv, Msg, Busy
<1>3. ASSUME NEW m \in Msgs, EnqueueSend(m)
      PROVE  SendInv'
    <2>1. /\ UNCHANGED <<at, cur, texts>> /\ phase[<<"send", m>>] = "absent"
          /\ phase' = [phase EXCEPT ![<<"send", m>>] = "pending"]
        BY <1>3, JobNames, Submits DEF EnqueueSend
    <2>2. phase \in [Jobs -> Phases] /\ (Busy => cur \in Jobs)
        BY Doing DEF WorkerInv
    <2>3. at \in {"send", "loaded", "checked", "posted"} => Busy /\ phase'[cur] = "pending"
        BY <2>1, <2>2, Doing DEF SendInv
    <2> QED  BY <2>1, <2>3 DEF SendInv, Msg, Busy
<1>4. ASSUME NEW m \in Msgs, Claim(m)
      PROVE  SendInv'
    <2>1. at' = "send" /\ cur' = <<"send", m>> /\ phase'[cur'] = "pending"
        BY <1>4 DEF Claim, ClaimFor, tableVars
    <2> QED  BY <2>1 DEF SendInv, Msg
<1>5. CASE \/ SendSkips
          \/ SendFails
          \/ Finish
    BY <1>5 DEF Finish, SendFails, SendSkips, Completed, Failed, Idle, SendInv, Busy
<1>6. CASE \/ SendLoads
          \/ SendChecks
    BY <1>6 DEF SendChecks, SendLoads, Advance, tableVars, SendInv, Msg, Busy
<1>7. CASE \/ SendBlocks
          \/ SendStores
          \/ SendHandsOver
    BY <1>7 DEF SendBlocks, SendHandsOver, SendStores, Advance, SendInv, Msg, Busy
<1>8. CASE SendPosts
    <2>1. /\ texts'[Len(texts')].msg = Msg /\ Len(texts') >= 1
        BY <1>8, Doing, Accepts, OnTheList DEF SendPosts
    <2> QED  BY <1>8, <2>1 DEF SendPosts, Advance, tableVars, SendInv, Msg, Busy
<1>9. CASE Crash
    BY <1>9 DEF Crash, Died, SendInv, Busy
<1>10. CASE Restart
    BY <1>10, Restarts DEF Restart, SendInv, Busy
<1>11. CASE UNCHANGED vars
    BY <1>11 DEF vars, workerVars, SendInv, Msg, Busy
<1> QED  BY <1>1, <1>2, <1>3, <1>4, <1>5, <1>6, <1>7, <1>8, <1>9, <1>10, <1>11 DEF Next,
    Sending

(* After a STOP the worker's re-check lets nothing more through. *)
LEMMA StopKept == WorkerInv /\ Shape /\ SendInv /\ StopInv /\ [Next]_vars => StopInv'
<1> SUFFICES ASSUME WorkerInv, Shape, SendInv, StopInv, [Next]_vars PROVE StopInv'
    OBVIOUS
<1>1. CASE \/ (\E m \in Msgs : Accept(m))
          \/ (\E m \in Msgs : EnqueueSend(m))
          \/ (\E h \in Requests, t \in Texts : ReadReceipt(h, t))
          \/ (\E h \in Requests, t \in Texts : ReadStatus(h, t))
          \/ (\E h \in Requests : CommitRequest(h))
          \/ (\E h \in Requests : RequestDies(h))
    BY <1>1 DEF Accept, CommitRequest, EnqueueSend, ReadReceipt, ReadStatus, RequestDies,
        Submit, StopInv, rowVars, workerVars
<1>2. ASSUME NEW stop \in BOOLEAN, Keyword(stop)
      PROVE  StopInv'
    BY <1>2 DEF Keyword, StopInv, workerVars
<1>3. ASSUME NEW t \in Texts, Deliver(t)
      PROVE  StopInv'
    BY <1>3, Decides DEF Deliver, StopInv, workerVars, rowVars
<1>4. ASSUME NEW m \in Msgs, Claim(m)
      PROVE  StopInv'
    BY <1>4 DEF Claim, ClaimFor, StopInv, rowVars
<1>5. CASE \/ SendSkips
          \/ Finish
    BY <1>5 DEF Finish, SendSkips, Completed, Idle, StopInv, rowVars
<1>6. CASE \/ SendLoads
          \/ SendHandsOver
    BY <1>6 DEF SendHandsOver, SendLoads, Advance, StopInv, rowVars
<1>7. CASE SendBlocks
    BY <1>7 DEF SendBlocks, Advance, StopInv
<1>8. CASE SendStores
    BY <1>8 DEF SendStores, Stored, Advance, StopInv
<1>9. CASE SendChecks
    BY <1>9 DEF SendChecks, OptedOut, Advance, StopInv, rowVars
<1>10. CASE SendPosts
    <2>1. /\ afterStop = 0 /\ Len(texts') = Len(texts) + 1 /\ Len(texts) \in Nat
          /\ afterStop' = IF optout THEN afterStop + 1 ELSE afterStop
        BY <1>10, Doing, Accepts, OnTheList DEF SendPosts, StopInv
    <2> QED  BY <1>10, <2>1 DEF SendPosts, Advance, StopInv, rowVars
<1>11. CASE SendFails
    <2>1. afterStop = 0 /\ at' = "idle" /\ optout' = optout /\ Len(texts) \in Nat
        BY <1>11, OnTheList DEF SendFails, Failed, Idle, StopInv, rowVars
    <2>2. CASE CarrierAccepts
        BY <1>11, <2>1, <2>2, Doing, Accepts DEF SendFails, StopInv
    <2>3. CASE UNCHANGED <<texts, afterStop>>
        BY <2>1, <2>3 DEF StopInv
    <2> QED  BY <1>11, <2>2, <2>3 DEF SendFails
<1>12. CASE Crash
    BY <1>12 DEF Crash, Died, StopInv, rowVars
<1>13. CASE Restart
    BY <1>13 DEF Restart, Restarted, StopInv, rowVars
<1>14. CASE UNCHANGED vars
    BY <1>14 DEF vars, workerVars, rowVars, StopInv
<1> QED  BY <1>1, <1>2, <1>3, <1>4, <1>5, <1>6, <1>7, <1>8, <1>9, <1>10, <1>11, <1>12,
    <1>13, <1>14 DEF Next, Sending

-----------------------------------------------------------------------------
(* How often a message is sent *)

(* And so they are after the step. *)
LEMMA OwnNext ==
    ASSUME Shape', NEW m
    PROVE  IsFiniteSet(Own(m)') /\ Cardinality(Own(m)') \in Nat
<1>1. IsFiniteSet(1..Len(texts')) /\ Own(m)' \in SUBSET (1..Len(texts'))
    <2>1. texts' \in Seq(Text)
        BY DEF Shape
    <2>2. Len(texts') \in Nat
        BY <2>1, LenProperties
    <2> QED  BY <2>2, FS_Interval DEF Own, Texts
<1>2. IsFiniteSet(Own(m)')
    BY <1>1, FS_Subset
<1> QED  BY <1>2, FS_CardinalityType

(* What a step may do to the counts: no text, or one that is accounted for. *)
LEMMA SameTexts ==
    ASSUME Shape, TimesInv, Grows, Len(texts') = Len(texts), WorkerInv, WorkerInv',
           \A m \in Msgs : tries[<<"send", m>>] + Posting(m) + crashes
                           =< tries'[<<"send", m>>] + Posting(m)' + crashes'
    PROVE  TimesInv'
<1> SUFFICES ASSUME NEW m \in Msgs
             PROVE  Cardinality(Own(m)') =< tries'[<<"send", m>>] + Posting(m)' + crashes'
    BY DEF TimesInv
<1>1. Own(m)' = Own(m) /\ Cardinality(Own(m)) \in Nat
    BY AsMany, OwnFinite
<1>2. Cardinality(Own(m)) =< tries[<<"send", m>>] + Posting(m) + crashes
    BY DEF TimesInv
<1>3. /\ tries[<<"send", m>>] \in Nat /\ crashes \in Nat /\ Posting(m) \in 0..1
    BY Counts
<1>4. /\ tries'[<<"send", m>>] \in Nat /\ crashes' \in Nat
      /\ Posting(m)' \in 0..1
    <2>1. /\ tries' \in [Jobs -> 0..MaxAttempts] /\ crashes' \in 0..MaxCrashes
          /\ MaxAttempts \in Nat /\ MaxCrashes \in Nat /\ <<"send", m>> \in Jobs
        BY WorkerAssumption, JobNames DEF WorkerInv
    <2>2. tries'[<<"send", m>>] \in 0..MaxAttempts
        BY <2>1
    <2> QED  BY <2>1, <2>2 DEF Posting
<1>5. tries[<<"send", m>>] + Posting(m) + crashes
      =< tries'[<<"send", m>>] + Posting(m)' + crashes'
    OBVIOUS
<1> HIDE DEF Posting, Own
<1> QED  BY <1>1, <1>2, <1>3, <1>4, <1>5, SMTT(30)

(* A step that neither sends nor ends an attempt. *)
LEMMA QuietTexts ==
    ASSUME Shape, TimesInv, Grows, Len(texts') = Len(texts), WorkerInv, WorkerInv',
           tries' = tries, crashes' = crashes, \A m \in Msgs : Posting(m)' = Posting(m)
    PROVE  TimesInv'
<1>1. ASSUME NEW m \in Msgs
      PROVE  tries[<<"send", m>>] + Posting(m) + crashes
             =< tries'[<<"send", m>>] + Posting(m)' + crashes'
    <2>1. /\ tries[<<"send", m>>] \in Nat /\ crashes \in Nat /\ Posting(m) \in Nat
        BY Counts
    <2>2. Posting(m)' = Posting(m)
        OBVIOUS
    <2> HIDE DEF Posting
    <2> QED  BY <2>1, <2>2
<1> QED  BY <1>1, SameTexts

(* A step that ends an attempt, or commits during one. *)
LEMMA CountedTexts ==
    ASSUME Shape, SendInv, TimesInv, Grows, Len(texts') = Len(texts), WorkerInv, WorkerInv',
           Busy, crashes' = crashes,
           \A j \in Jobs \ {cur} : tries'[j] = tries[j],
           tries'[cur] = tries[cur] + IF phase[cur] = "pending" THEN 1 ELSE 0
    PROVE  TimesInv'
<1>1. ASSUME NEW m \in Msgs
      PROVE  tries[<<"send", m>>] + Posting(m) + crashes
             =< tries'[<<"send", m>>] + Posting(m)' + crashes'
    <2>1. /\ <<"send", m>> \in Jobs /\ tries[<<"send", m>>] \in Nat /\ crashes \in Nat
        BY Counts
    <2>2. Posting(m) \in {0, 1} /\ Posting(m)' \in {0, 1}
        BY DEF Posting
    <2>3. CASE cur # <<"send", m>>
        BY <2>1, <2>2, <2>3 DEF Posting
    <2>4. CASE cur = <<"send", m>> /\ at = "posted"
        <3>1. tries'[cur] = tries[cur] + 1 /\ Posting(m) = 1
            BY <2>4 DEF SendInv, Posting
        <3> QED  BY <2>1, <2>2, <2>4, <3>1
    <2>5. CASE cur = <<"send", m>> /\ at # "posted"
        <3>1. tries'[cur] >= tries[cur] /\ Posting(m) = 0
            BY <2>1, <2>5 DEF Posting
        <3> QED  BY <2>1, <2>2, <2>5, <3>1
    <2> QED  BY <2>3, <2>4, <2>5
<1> QED  BY <1>1, SameTexts

(* Every text is accounted for. *)
LEMMA TimesKept == WorkerInv /\ Shape /\ SendInv /\ StopInv /\ TimesInv /\ [Next]_vars => TimesInv'
<1> SUFFICES ASSUME WorkerInv, Shape, SendInv, StopInv, TimesInv, [Next]_vars PROVE TimesInv'
    OBVIOUS
<1>0. Grows /\ WorkerInv' /\ Shape'
    BY ListGrows, WorkerKept, ShapeKept
<1>1. CASE \/ (\E m \in Msgs : Accept(m))
          \/ (\E stop \in BOOLEAN : Keyword(stop))
          \/ (\E h \in Requests, t \in Texts : ReadReceipt(h, t))
          \/ (\E h \in Requests, t \in Texts : ReadStatus(h, t))
          \/ (\E h \in Requests : CommitRequest(h))
          \/ (\E h \in Requests : RequestDies(h))
    <2>1. tries' = tries /\ crashes' = crashes /\ Len(texts') = Len(texts)
        BY <1>1 DEF Accept, CommitRequest, Keyword, ReadReceipt, ReadStatus, RequestDies,
            workerVars
    <2>2. \A n \in Msgs : Posting(n)' = Posting(n)
        BY <1>1 DEF Accept, CommitRequest, Keyword, ReadReceipt, ReadStatus, RequestDies,
            workerVars, Posting
    <2> QED  BY <1>0, <2>1, <2>2, QuietTexts
<1>2. ASSUME NEW m \in Msgs, EnqueueSend(m)
      PROVE  TimesInv'
    <2>1. tries' = tries /\ crashes' = crashes /\ Len(texts') = Len(texts)
        BY <1>2 DEF EnqueueSend, workerVars, Submit, Q!Submit
    <2>2. \A n \in Msgs : Posting(n)' = Posting(n)
        BY <1>2 DEF EnqueueSend, workerVars, Posting, Submit, Q!Submit
    <2> QED  BY <1>0, <2>1, <2>2, QuietTexts
<1>3. ASSUME NEW m \in Msgs, Claim(m)
      PROVE  TimesInv'
    <2>1. tries' = tries /\ crashes' = crashes /\ Len(texts') = Len(texts)
        BY <1>3 DEF Claim, ClaimFor, tableVars
    <2>2. \A n \in Msgs : Posting(n)' = 0 /\ Posting(n) = 0
        BY <1>3 DEF Claim, ClaimFor, Posting
    <2> QED  BY <1>0, <2>1, <2>2, QuietTexts
<1>4. CASE \/ SendSkips
          \/ Finish
    <2>1. Busy /\ Len(texts') = Len(texts) /\ crashes' = crashes
        BY <1>4, Doing DEF Finish, SendSkips, Completed, Idle
    <2>2. /\ \A j \in Jobs \ {cur} : tries'[j] = tries[j]
          /\ tries'[cur] = tries[cur] + IF phase[cur] = "pending" THEN 1 ELSE 0
        BY <1>4, <2>1, Concludes DEF Finish, SendSkips
    <2> QED  BY <1>0, <2>1, <2>2, CountedTexts
<1>5. CASE \/ SendLoads
          \/ SendChecks
    <2>1. tries' = tries /\ crashes' = crashes /\ Len(texts') = Len(texts)
        BY <1>5 DEF SendChecks, SendLoads, Advance, tableVars
    <2>2. \A m \in Msgs : Posting(m)' = 0 /\ Posting(m) = 0
        BY <1>5 DEF SendChecks, SendLoads, Advance, Posting
    <2> QED  BY <1>0, <2>1, <2>2, QuietTexts
<1>6. CASE \/ SendBlocks
          \/ SendStores
    <2>1. Busy /\ Len(texts') = Len(texts) /\ crashes' = crashes
        BY <1>6, Doing DEF SendBlocks, SendStores, Advance
    <2>2. /\ \A j \in Jobs \ {cur} : tries'[j] = tries[j]
          /\ tries'[cur] = tries[cur] + IF phase[cur] = "pending" THEN 1 ELSE 0
        BY <1>6, <2>1, CommitsWith DEF SendBlocks, SendStores
    <2> QED  BY <1>0, <2>1, <2>2, CountedTexts
<1>7. CASE SendHandsOver
    <2>1. /\ Busy /\ Len(texts') = Len(texts) /\ crashes' = crashes
          /\ {<<"relay", Msg>>} \in SUBSET Jobs
        BY <1>7, Doing, JobNames DEF SendHandsOver, Advance
    <2>2. /\ \A j \in Jobs \ {cur} : tries'[j] = tries[j]
          /\ tries'[cur] = tries[cur] + IF phase[cur] = "pending" THEN 1 ELSE 0
        BY <1>7, <2>1, CommitsWith DEF SendHandsOver
    <2> QED  BY <1>0, <2>1, <2>2, CountedTexts
<1>8. CASE SendPosts
    <2>1. Msg \in Msgs /\ cur = <<"send", Msg>> /\ CarrierAccepts
        BY <1>8, Doing DEF SendPosts
    <2>2. /\ tries' = tries /\ crashes' = crashes /\ cur' = cur
          /\ at = "checked" /\ at' = "posted"
        BY <1>8 DEF SendPosts, Advance, tableVars
    <2> SUFFICES ASSUME NEW m \in Msgs
                 PROVE  Cardinality(Own(m)') =< tries'[<<"send", m>>] + Posting(m)' + crashes'
        BY DEF TimesInv
    <2>3. /\ Cardinality(Own(m)) =< tries[<<"send", m>>] + Posting(m) + crashes
          /\ Cardinality(Own(m)') =< Cardinality(Own(m)) + IF m = Msg THEN 1 ELSE 0
          /\ Cardinality(Own(m)) \in Nat /\ Cardinality(Own(m)') \in Nat
        BY <1>0, <2>1, OneMore, OwnFinite, OwnNext DEF TimesInv
    <2>4. tries[<<"send", m>>] \in Nat /\ crashes \in Nat
        BY Counts
    <2>5. Posting(m) = 0 /\ Posting(m)' = IF m = Msg THEN 1 ELSE 0
        BY <2>1, <2>2, JobNames DEF Posting
    <2> HIDE DEF Posting, Own
    <2> QED  BY <2>2, <2>3, <2>4, <2>5
<1>9. CASE SendFails
    <2>1. Msg \in Msgs /\ cur = <<"send", Msg>> /\ Busy /\ phase[cur] = "pending"
        BY <1>9, Doing DEF SendFails, SendInv
    <2>2. /\ \A j \in Jobs \ {cur} : tries'[j] = tries[j]
          /\ tries'[cur] = tries[cur] + 1 /\ crashes' = crashes /\ cur' = NoJob
          /\ at = "checked" /\ at' = "idle"
        BY <1>9, <2>1, Concludes DEF SendFails
    <2>3. CASE UNCHANGED <<texts, afterStop>>
        BY <1>0, <2>1, <2>2, <2>3, CountedTexts
    <2>4. ASSUME CarrierAccepts, NEW m \in Msgs
          PROVE  Cardinality(Own(m)') =< tries'[<<"send", m>>] + Posting(m)' + crashes'
        <3>1. /\ Cardinality(Own(m)) =< tries[<<"send", m>>] + Posting(m) + crashes
              /\ Cardinality(Own(m)') =< Cardinality(Own(m)) + IF m = Msg THEN 1 ELSE 0
              /\ Cardinality(Own(m)) \in Nat /\ Cardinality(Own(m)') \in Nat
            BY <1>0, <2>1, <2>4, OneMore, OwnFinite, OwnNext DEF TimesInv
        <3>2. tries[<<"send", m>>] \in Nat /\ crashes \in Nat /\ <<"send", m>> \in Jobs
            BY Counts
        <3>3. Posting(m) = 0 /\ Posting(m)' = 0
            BY <2>2 DEF Posting
        <3>4. tries'[<<"send", m>>] = tries[<<"send", m>>] + IF m = Msg THEN 1 ELSE 0
            BY <2>1, <2>2, <3>2, JobNames
        <3> HIDE DEF Posting, Own
        <3> QED  BY <2>2, <3>1, <3>2, <3>3, <3>4
    <2> QED  BY <1>9, <2>3, <2>4 DEF SendFails, TimesInv
<1>10. CASE Crash
    <2>1. /\ tries' = tries /\ crashes' = crashes + 1 /\ cur' = NoJob /\ at' = "down"
          /\ Len(texts') = Len(texts)
        BY <1>10, Dies DEF Crash
    <2>2. ASSUME NEW m \in Msgs
          PROVE  tries[<<"send", m>>] + Posting(m) + crashes
                 =< tries'[<<"send", m>>] + Posting(m)' + crashes'
        <3>1. tries[<<"send", m>>] \in Nat /\ crashes \in Nat
            BY Counts
        <3>2. Posting(m) \in {0, 1} /\ Posting(m)' = 0
            BY <2>1 DEF Posting
        <3> QED  BY <2>1, <3>1, <3>2
    <2> QED  BY <1>0, <2>1, <2>2, SameTexts
<1>11. CASE Restart
    <2>1. /\ tries' = tries /\ crashes' = crashes /\ Len(texts') = Len(texts)
          /\ at = "down" /\ at' = "idle"
        BY <1>11, Restarts DEF Restart, Restarted
    <2>2. \A m \in Msgs : Posting(m)' = 0 /\ Posting(m) = 0
        BY <2>1 DEF Posting
    <2> QED  BY <1>0, <2>1, <2>2, QuietTexts
<1>12. ASSUME NEW t \in Texts, Deliver(t)
      PROVE  TimesInv'
    <2>1. tries' = tries /\ crashes' = crashes /\ Len(texts') = Len(texts)
        BY <1>12, Decides DEF Deliver, workerVars
    <2>2. \A n \in Msgs : Posting(n)' = Posting(n)
        BY <1>12 DEF Deliver, workerVars, Posting
    <2> QED  BY <1>0, <2>1, <2>2, QuietTexts
<1>13. CASE UNCHANGED vars
    <2>1. tries' = tries /\ crashes' = crashes /\ Len(texts') = Len(texts)
        BY <1>13 DEF vars, workerVars
    <2>2. \A m \in Msgs : Posting(m)' = Posting(m)
        BY <1>13 DEF vars, workerVars, Posting
    <2> QED  BY <1>0, <2>1, <2>2, QuietTexts
<1> QED  BY <1>1, <1>2, <1>3, <1>4, <1>5, <1>6, <1>7, <1>8, <1>9, <1>10, <1>11, <1>12,
    <1>13 DEF Next, Sending

-----------------------------------------------------------------------------
(* What the rows and the requests say is what the carrier told *)

(* A row nobody writes, and a request that waits, stay true. *)
LEMMA RowStays ==
    ASSUME Grows, NEW m \in Msgs, RowTrue(m), ref'[m] = ref[m], row'[m] = row[m]
    PROVE  RowTrue(m)'
<1>1. Texts \subseteq Texts' /\ \A t \in Texts : texts'[t].msg = texts[t].msg
    BY DEF Grows, Texts
<1>2. row[m] \in Outcomes => Told(m, row[m])'
    BY TellsOn DEF RowTrue
<1> QED  BY <1>1, <1>2 DEF RowTrue

(* A request the step leaves alone stays true. *)
LEMMA RequestStays ==
    ASSUME Grows, NEW h \in Requests, RequestTrue(h), request'[h] = request[h]
    PROVE  RequestTrue(h)'
<1>1. CASE request[h] # NoRequest /\ request[h].new # request[h].was
    BY <1>1, TellsOn DEF RequestTrue
<1> QED  BY <1>1 DEF RequestTrue

(* A request is about to write what the carrier told, or nothing new. *)
LEMMA Receives ==
    ASSUME Shape, NEW t \in Texts, Decided(t), NEW m \in Msgs, texts[t].msg = m,
           NEW h \in Requests, NEW q, UNCHANGED <<texts, row, ref>>,
           request' = [request EXCEPT ![h] = q], q.msg = m, q.was = row[m],
           q.new = AdvanceStatus(row[m], texts[t].outcome),
           TruthInv, Grows
    PROVE  TruthInv'
<1>1. texts[t].outcome \in Outcomes
    BY OnTheList DEF Decided
<1>2. q.new \in {row[m], texts[t].outcome}
    <2>1. row[m] \in Statuses \union {"none"}
        BY DEF Shape
    <2> QED  BY <1>1, <2>1, Forward
<1>3. Told(m, texts[t].outcome)
    BY DEF Told
<1>4. request'[h] = q /\ \A g \in Requests \ {h} : request'[g] = request[g]
    BY DEF Shape
<1>5. RequestTrue(h)'
    BY <1>1, <1>2, <1>3, <1>4 DEF RequestTrue, Told, Texts
<1>6. \A g \in Requests \ {h} : RequestTrue(g)'
    BY <1>4, RequestStays DEF TruthInv
<1>7. \A n \in Msgs : RowTrue(n)'
    BY RowStays DEF TruthInv
<1> QED  BY <1>5, <1>6, <1>7 DEF TruthInv

(* What is shown stays true. *)
LEMMA TruthKept ==
    /\ BodiesDiffer /\ WorkerInv /\ Shape /\ SendInv /\ StopInv /\ TruthInv
    /\ [Next]_vars
    => TruthInv'
<1> SUFFICES ASSUME BodiesDiffer, WorkerInv, Shape, SendInv, StopInv, TruthInv, [Next]_vars
             PROVE  TruthInv'
    OBVIOUS
<1>0. Grows
    BY ListGrows
<1>1. CASE \/ (\E m \in Msgs : EnqueueSend(m))
          \/ (\E m \in Msgs : Claim(m))
          \/ (\E stop \in BOOLEAN : Keyword(stop))
          \/ SendSkips
          \/ SendLoads
          \/ SendChecks
          \/ SendPosts
          \/ SendFails
          \/ SendHandsOver
          \/ Finish
          \/ Crash
          \/ Restart
          \/ (\E t \in Texts : Deliver(t))
    <2>1. row' = row /\ ref' = ref /\ request' = request
        BY <1>1 DEF Claim, Crash, Deliver, EnqueueSend, Finish, Keyword, Restart,
            SendChecks, SendFails, SendHandsOver, SendLoads, SendPosts, SendSkips, rowVars
    <2> QED  BY <1>0, <2>1, RowStays, RequestStays DEF TruthInv
<1>2. ASSUME NEW m \in Msgs, Accept(m)
      PROVE  TruthInv'
    <2>1. /\ ref' = ref /\ request' = request /\ row'[m] = "queued" /\ m \in Msgs
          /\ \A n \in Msgs \ {m} : row'[n] = row[n]
        BY <1>2, Doing DEF Accept, Shape
    <2>2. RowTrue(m)'
        <3>1. ref[m] # 0 => ref[m] \in Texts' /\ texts'[ref[m]].msg = m
            BY <1>0, <2>1 DEF TruthInv, RowTrue, Grows, Texts
        <3> QED  BY <2>1, <3>1 DEF RowTrue, Outcomes
    <2>3. \A n \in Msgs \ {m} : RowTrue(n)'
        BY <1>0, <2>1, RowStays DEF TruthInv
    <2> QED  BY <1>0, <2>1, <2>2, <2>3, RequestStays DEF TruthInv
<1>3. CASE SendBlocks
    <2>0. PICK m \in Msgs : m = Msg
        BY <1>3, Doing DEF SendBlocks
    <2>1. /\ ref' = ref /\ request' = request /\ row'[m] = "blocked" /\ m \in Msgs
          /\ \A n \in Msgs \ {m} : row'[n] = row[n]
        BY <1>3, <2>0 DEF SendBlocks, Shape
    <2>2. RowTrue(m)'
        <3>1. ref[m] # 0 => ref[m] \in Texts' /\ texts'[ref[m]].msg = m
            BY <1>0, <2>1 DEF TruthInv, RowTrue, Grows, Texts
        <3> QED  BY <2>1, <3>1 DEF RowTrue, Outcomes
    <2>3. \A n \in Msgs \ {m} : RowTrue(n)'
        BY <1>0, <2>1, RowStays DEF TruthInv
    <2> QED  BY <1>0, <2>1, <2>2, <2>3, RequestStays DEF TruthInv
<1>4. CASE SendStores
    <2>0. PICK m \in Msgs : m = Msg
        BY <1>4, Doing DEF SendStores
    <2>1. PICK r \in {ref[m], Len(texts)} : Stored(r)
        BY <1>4, <2>0 DEF SendStores
    <2>2. /\ row'[m] = "sent" /\ ref'[m] = r /\ texts' = texts /\ request' = request
          /\ \A n \in Msgs \ {m} : row'[n] = row[n] /\ ref'[n] = ref[n]
        BY <1>4, <2>0, <2>1 DEF SendStores, Stored, Shape
    <2>3. Len(texts) \in Texts /\ texts[Len(texts)].msg = m
        BY <1>4, <2>0, OnTheList DEF SendStores, SendInv, Texts
    <2>4. r # 0 => r \in Texts /\ texts[r].msg = m
        BY <2>3 DEF TruthInv, RowTrue
    <2>5. RowTrue(m)'
        BY <2>2, <2>3, <2>4 DEF RowTrue, Texts, Outcomes
    <2>6. \A n \in Msgs \ {m} : RowTrue(n)'
        BY <1>0, <2>2, RowStays DEF TruthInv
    <2> QED  BY <1>0, <2>2, <2>5, <2>6, RequestStays DEF TruthInv
<1>5. ASSUME NEW h \in Requests, NEW t \in Texts, ReadReceipt(h, t)
      PROVE  TruthInv'
    <2>1. PICK m \in Best(t) :
              request' = [request EXCEPT ![h] =
                  [at |-> "receipt", text |-> t, msg |-> m, seen |-> seen[m] \union {t},
                   was |-> row[m], new |-> AdvanceStatus(row[m], texts[t].outcome)]]
        BY <1>5 DEF ReadReceipt
    <2>2. m \in Msgs /\ BodyOf[m] = BodyOf[texts[t].msg]
        BY DEF Best, Candidates
    <2>3. texts[t].msg = m
        BY <1>5, <2>2, OnTheList DEF BodiesDiffer
    <2>4. Decided(t) /\ UNCHANGED <<texts, row, ref>>
        BY <1>5 DEF ReadReceipt, rowVars
    <2> QED  BY <1>0, <1>5, <2>1, <2>2, <2>3, <2>4, Receives
<1>6. ASSUME NEW h \in Requests, NEW t \in Texts, ReadStatus(h, t)
      PROVE  TruthInv'
    <2>1. PICK m \in Msgs :
              /\ ref[m] = t
              /\ request' = [request EXCEPT ![h] =
                  [at |-> "status", text |-> t, msg |-> m, seen |-> {},
                   was |-> row[m], new |-> AdvanceStatus(row[m], texts[t].outcome)]]
        BY <1>6 DEF ReadStatus
    <2>2. texts[t].msg = m
        BY <1>6, <2>1 DEF TruthInv, RowTrue, Texts
    <2>3. Decided(t) /\ UNCHANGED <<texts, row, ref>>
        BY <1>6 DEF ReadStatus, rowVars
    <2>4. PICK q : q = [at |-> "status", text |-> t, msg |-> m, seen |-> {}, was |-> row[m],
                        new |-> AdvanceStatus(row[m], texts[t].outcome)]
        OBVIOUS
    <2>5. q.msg = m /\ q.was = row[m] /\ q.new = AdvanceStatus(row[m], texts[t].outcome)
        BY <2>4
    <2>6. request' = [request EXCEPT ![h] = q]
        BY <2>1, <2>4
    <2> QED  BY <1>0, <2>2, <2>3, <2>5, <2>6, Receives
<1>7. ASSUME NEW h \in Requests, CommitRequest(h)
      PROVE  TruthInv'
    <2>1. PICK q : q = request[h]
        OBVIOUS
    <2>2. /\ q # NoRequest /\ request' = [request EXCEPT ![h] = NoRequest]
          /\ row' = IF q.new # q.was THEN [row EXCEPT ![q.msg] = q.new] ELSE row
          /\ ref' = ref /\ texts' = texts
        BY <1>7, <2>1 DEF CommitRequest
    <2>3. q.msg \in Msgs /\ (q.new # q.was => q.new \in Outcomes /\ Told(q.msg, q.new))
        BY <1>7, <2>1, <2>2 DEF Shape, Receipt, TruthInv, RequestTrue
    <2>4. \A g \in Requests : RequestTrue(g)'
        <3>1. request'[h] = NoRequest /\ \A g \in Requests \ {h} : request'[g] = request[g]
            BY <2>2 DEF Shape
        <3>2. \A g \in Requests \ {h} : RequestTrue(g)'
            BY <1>0, <3>1, RequestStays DEF TruthInv
        <3>3. RequestTrue(h)'
            BY <3>1 DEF RequestTrue
        <3> QED  BY <3>2, <3>3
    <2>5. ASSUME NEW m \in Msgs PROVE RowTrue(m)'
        <3>1. CASE q.new # q.was /\ m = q.msg
            <4>1. row'[m] = q.new /\ q.new \in Outcomes /\ Told(m, q.new)
                BY <2>2, <2>3, <3>1 DEF Shape
            <4>2. \E t \in Texts : texts[t].msg = m
                BY <4>1 DEF Told
            <4> QED  BY <2>2, <4>1, <4>2 DEF RowTrue, TruthInv, Told, Texts
        <3>2. CASE ~(q.new # q.was /\ m = q.msg)
            <4>1. row'[m] = row[m]
                BY <2>2, <2>3, <3>2 DEF Shape
            <4> QED  BY <1>0, <2>2, <4>1, RowStays DEF TruthInv
        <3> QED  BY <3>1, <3>2
    <2> QED  BY <2>4, <2>5 DEF TruthInv
<1>8. ASSUME NEW h \in Requests, RequestDies(h)
      PROVE  TruthInv'
    <2>1. request' = [request EXCEPT ![h] = NoRequest] /\ row' = row /\ ref' = ref
        BY <1>8 DEF RequestDies, rowVars
    <2>2. request'[h] = NoRequest /\ \A g \in Requests \ {h} : request'[g] = request[g]
        BY <2>1 DEF Shape
    <2>3. RequestTrue(h)'
        BY <2>2 DEF RequestTrue
    <2>4. \A g \in Requests \ {h} : RequestTrue(g)'
        BY <1>0, <2>2, RequestStays DEF TruthInv
    <2> QED  BY <1>0, <2>1, <2>3, <2>4, RowStays DEF TruthInv
<1>9. CASE UNCHANGED vars
    <2>1. row' = row /\ ref' = ref /\ request' = request
        BY <1>9 DEF vars, rowVars
    <2> QED  BY <1>0, <2>1, RowStays, RequestStays DEF TruthInv
<1> QED  BY <1>1, <1>2, <1>3, <1>4, <1>5, <1>6, <1>7, <1>8, <1>9 DEF Next, Sending

-----------------------------------------------------------------------------
(* Before the first text. *)
LEMMA Starts == Init => BaseInv /\ TimesInv /\ TruthInv
<1> SUFFICES ASSUME Init PROVE BaseInv /\ TimesInv /\ TruthInv
    OBVIOUS
<1>1. WorkerInv /\ at = "idle" /\ cur = NoJob
    BY WorkerStarts DEF Init, WorkerInit
<1>2. texts \in Seq(Text) /\ Len(texts) = 0 /\ MaxTexts \in Nat
    BY EmptySeq, MessagingAssumption DEF Init
<1>3. Shape
    <2>1. /\ row \in [Msgs -> Statuses \union {"none"}] /\ ref \in [Msgs -> 0..MaxTexts]
          /\ seen \in [Msgs -> SUBSET (1..MaxTexts)] /\ mem \in SUBSET (1..MaxTexts)
          /\ optout \in BOOLEAN
        <3>1. row \in [Msgs -> Statuses \union {"none"}]
            BY DEF Init
        <3>2. ref \in [Msgs -> 0..MaxTexts]
            <4>1. 0 \in 0..MaxTexts
                BY <1>2
            <4> QED  BY <4>1 DEF Init
        <3>3. seen \in [Msgs -> SUBSET (1..MaxTexts)]
            <4>1. {} \in SUBSET (1..MaxTexts)
                OBVIOUS
            <4> QED  BY <4>1 DEF Init
        <3>4. mem \in SUBSET (1..MaxTexts) /\ optout \in BOOLEAN
            BY DEF Init
        <3> QED  BY <3>1, <3>2, <3>3, <3>4
    <2>2. request \in [Requests -> Receipt \union {NoRequest}]
        BY DEF Init
    <2> QED  BY <1>2, <2>1, <2>2 DEF Shape
<1>4. SendInv /\ StopInv
    BY <1>1, <1>2 DEF Init, SendInv, StopInv, Busy
<1>5. TimesInv
    <2> SUFFICES ASSUME NEW m \in Msgs
                 PROVE  Cardinality(Own(m)) =< tries[<<"send", m>>] + Posting(m) + crashes
        BY DEF TimesInv
    <2>1. Own(m) = {}
        BY <1>2 DEF Own, Texts
    <2>2. Cardinality(Own(m)) = 0
        BY <2>1, FS_EmptySet
    <2>3. tries[<<"send", m>>] \in Nat /\ crashes \in Nat /\ Posting(m) \in 0..1
        BY <1>1, Counts
    <2> HIDE DEF Own, Posting
    <2> QED  BY <2>2, <2>3
<1>6. TruthInv
    <2>1. \A m \in Msgs : ref[m] = 0 /\ row[m] = "none"
        BY DEF Init
    <2>2. \A h \in Requests : request[h] = NoRequest
        BY DEF Init
    <2> QED  BY <2>1, <2>2 DEF TruthInv, RowTrue, RequestTrue, Outcomes
<1> QED  BY <1>1, <1>3, <1>4, <1>5, <1>6 DEF BaseInv

(* The inductive invariant: the worker, the STOP and the counts. *)
THEOREM Invariant == Spec => []IInv
<1>1. Init => IInv
    BY Starts DEF IInv
<1>2. IInv /\ [Next]_vars => IInv'
    BY WorkerKept, ShapeKept, SendKept, StopKept, TimesKept DEF IInv, BaseInv
<1> QED  BY <1>1, <1>2, PTL DEF Spec

(* Once the contact has texted STOP at most the one text that had passed
   message_send's re-check goes out, whatever was queued, is retried or restarted
   (services/messages.py apply_inbound_keyword, workers/handlers.py). *)
THEOREM StopIsFinal == Spec => []StopHolds
<1>1. IInv => StopHolds
    <2> SUFFICES ASSUME IInv PROVE StopHolds
        OBVIOUS
    <2>1. WorkerTypeOK({"send", "loaded", "checked", "posted", "stored", "finish"})
        <3> DEFINE steps == {"send", "loaded", "checked", "posted", "stored", "finish"}
        <3>1. at \in steps \union {"idle", "down"}
            BY DEF IInv, BaseInv, SendInv
        <3> HIDE DEF steps
        <3>2. WorkerTypeOK(steps)
            BY <3>1, WorkerTyped DEF IInv, BaseInv
        <3> QED  BY <3>2 DEF steps
    <2>2. /\ texts \in Seq([msg : Msgs, outcome : Outcomes \union {"open"}])
          /\ afterStop \in 0..MaxTexts
        BY OnTheList DEF IInv, BaseInv, Shape, StopInv, Text
    <2>3. \A h \in Requests : request[h] # NoRequest =>
              request[h].msg \in Msgs /\ request[h].new \in Statuses
        BY DEF IInv, BaseInv, Shape, Receipt
    <2>4. /\ row \in [Msgs -> Statuses \union {"none"}] /\ ref \in [Msgs -> 0..MaxTexts]
          /\ seen \in [Msgs -> SUBSET (1..MaxTexts)] /\ mem \subseteq 1..MaxTexts
          /\ optout \in BOOLEAN /\ afterStop =< 1
        BY DEF IInv, BaseInv, Shape, StopInv
    <2> QED  BY <2>1, <2>2, <2>3, <2>4 DEF StopHolds, TypeOK
<1> QED  BY <1>1, Invariant, PTL

(* A message is texted once per attempt of its job: more than one text takes an
   attempt that failed, or a worker that died before its commit. *)
THEOREM OncePerAttempt == Spec => []SentPerAttempt
<1>1. IInv => SentPerAttempt
    BY DEF IInv, TimesInv, Own, Posting, SentPerAttempt
<1> QED  BY <1>1, Invariant, PTL

(* When the carrier's echo tells the contact's messages apart, what a row shows is
   what the carrier did with one of that message's texts, although receipts,
   status callbacks and the sender race each other (services/dlr.py). *)
THEOREM WhatIsShownIsReal == ASSUME BodiesDiffer PROVE Spec => []StatusIsReal
<1>1. Init => BaseInv /\ TruthInv
    BY Starts
<1>2. (BaseInv /\ TruthInv) /\ [Next]_vars => (BaseInv /\ TruthInv)'
    BY WorkerKept, ShapeKept, SendKept, StopKept, TruthKept DEF BaseInv
<1>3. TruthInv => StatusIsReal
    BY DEF TruthInv, RowTrue, Told, StatusIsReal
<1> QED  BY <1>1, <1>2, <1>3, PTL DEF Spec

(* All three, as the run checks them. *)
THEOREM TextsTellTheTruth == ASSUME BodiesDiffer PROVE Spec => []TextsAreHonest
<1> QED  BY StopIsFinal, WhatIsShownIsReal, OncePerAttempt, PTL DEF TextsAreHonest

-----------------------------------------------------------------------------
(* What a step does to the jobs table. *)
LEMMA StepPromised == BaseInv /\ [Next]_vars => Promised
<1> SUFFICES ASSUME BaseInv, [Next]_vars PROVE Promised
    OBVIOUS
<1> USE DEF workerVars, tableVars
<1>0. WorkerInv /\ SendInv
    BY DEF BaseInv
<1>1. CASE \/ (\E m \in Msgs : Accept(m) \/ Claim(m))
           \/ (\E stop \in BOOLEAN : Keyword(stop))
           \/ (\E t \in Texts : Deliver(t))
           \/ (\E h \in Requests, t \in Texts : ReadReceipt(h, t) \/ ReadStatus(h, t))
           \/ (\E h \in Requests : CommitRequest(h) \/ RequestDies(h))
           \/ SendLoads \/ SendChecks \/ SendPosts \/ Crash \/ Restart \/ UNCHANGED vars
    BY <1>1, TableKept DEF Accept, Claim, ClaimFor, Keyword, Deliver, ReadReceipt, ReadStatus,
        CommitRequest, RequestDies, SendLoads, SendChecks, SendPosts, Crash, Died, Restart,
        Restarted, vars
<1>2. ASSUME NEW m \in Msgs, EnqueueSend(m) PROVE Promised
    BY <1>2, JobNames, SubmitPromised DEF EnqueueSend
<1>3. CASE SendBlocks \/ SendStores \/ SendHandsOver
    <2>1. Busy /\ (CommitWith({}) \/ CommitWith({<<"relay", Msg>>}))
        BY <1>0, <1>3, Doing DEF SendBlocks, SendStores, SendHandsOver
    <2>2. <<"relay", Msg>> \in Jobs
        BY <1>0, <2>1, Doing, JobNames
    <2> QED  BY <1>0, <2>1, <2>2, CommitPromised
<1>4. CASE SendSkips \/ SendFails \/ Finish
    <2>1. Busy /\ (Completed \/ Failed)
        BY <1>0, <1>4, Doing DEF SendSkips, SendFails, Finish
    <2> QED  BY <1>0, <2>1, VerdictPromised
<1> QED  BY <1>1, <1>2, <1>3, <1>4 DEF Next, Sending

(* Texting keeps to the queue's terms: whatever is accepted, resent, cut short or
   restarted, the jobs table behaves as WorkQueue allows (jobs/queue.py enqueue,
   complete, fail). *)
THEOREM KeepsToTheQueue == Spec => Q!Spec
<1>1. Init => Q!Init
    BY DEF Init, WorkerInit
<1>2. IInv /\ [Next]_vars => [Q!Next]_(Q!wqVars)
    BY StepPromised DEF IInv, Promised
<1> QED  BY <1>1, <1>2, Invariant, PTL DEF Spec, Q!Spec
-----------------------------------------------------------------------------
(* The relays of texts and calls to GoHighLevel, for any number of subjects, jobs,
   feeds, refusals and deaths.  A behaviour of Messaging is none of Relays: nothing
   above is used below but what QueueWorkerProofs says of the worker. *)

Knowledge == [recording : BOOLEAN, analysis : BOOLEAN, late : BOOLEAN]

(* A recording without its analysis is not known in time. *)
Ripe(known) == known.recording => known.analysis \/ known.late

RelayShape ==
    /\ posts \in [Subjects -> Nat] /\ unheard \in [Subjects -> Nat]
    /\ told \in [Subjects -> Knowledge]

(* Past the look at the flag the subject is not relayed -- no other worker could
   have done it since -- and what is about to be posted of it is ripe. *)
RelayAtInv ==
    /\ at \in {"idle", "down", "look", "read", "posted", "done"}
    /\ at \in {"read", "posted"} =>
          Subject \notin relayed /\ (Subject \in Subjects => Ripe(told[Subject]))

RelayInv == WorkerInv /\ RelayShape /\ RelayAtInv /\ RelayedOnce

(* Who is at one of the handler's places holds a job. *)
LEMMA RelayBusy ==
    ASSUME WorkerInv, at \in {"look", "read", "posted", "done"}
    PROVE  Busy
<1> QED  BY DEF WorkerInv, Busy

(* One more of something that is counted per subject, or none. *)
LEMMA Recounted ==
    ASSUME NEW f \in [Subjects -> Nat], NEW x
    PROVE  /\ [f EXCEPT ![x] = @ + 1] \in [Subjects -> Nat]
           /\ [f EXCEPT ![x] = @ + 0] = f
<1>1. CASE x \in Subjects
    <2>1. f[x] \in Nat /\ f[x] + 1 \in Nat /\ f[x] + 0 = f[x]
        BY <1>1
    <2> QED  BY <1>1, <2>1
<1>2. CASE x \notin Subjects
    BY <1>2
<1> QED  BY <1>1, <1>2

(* The steps of the feeds, of the recording pipeline and of time. *)
Outside ==
    \/ \E s \in Subjects : CallEnds(s) \/ TextArrives(s) \/ Scan(s)
                           \/ Recorded(s) \/ Analysed(s) \/ WaitIsUp(s)
    \/ Enqueue \/ FeedDies

(* They touch neither the worker, nor what was posted; at most a row appears. *)
LEMMA OutsideStep ==
    ASSUME WorkerInv, Outside
    PROVE  WorkerInv' /\ Promised /\ UNCHANGED <<at, cur, relayed, posts, unheard, told>>
<1>1. CASE \E s \in Subjects : CallEnds(s) \/ TextArrives(s) \/ Scan(s)
                               \/ Recorded(s) \/ Analysed(s) \/ WaitIsUp(s)
    <2>1. UNCHANGED <<phase, tries, at, cur, crashes, relayed, posts, unheard, told>>
        BY <1>1 DEF CallEnds, TextArrives, Scan, Recorded, Analysed, WaitIsUp, Found, workerVars,
           postVars
    <2> QED  BY <2>1, TableKept DEF WorkerInv
<1>2. CASE Enqueue
    <2>1. PICK j \in Jobs : Submit(j)
        BY <1>2 DEF Enqueue, Spare
    <2>2. UNCHANGED <<relayed, posts, unheard, told>>
        BY <1>2 DEF Enqueue, postVars
    <2> QED  BY <2>1, <2>2, Submits, SubmitPromised
<1>3. CASE FeedDies
    <2>1. UNCHANGED <<phase, tries, at, cur, crashes, relayed, posts, unheard, told>>
        BY <1>3 DEF FeedDies, workerVars, postVars
    <2> QED  BY <2>1, TableKept DEF WorkerInv
<1> QED  BY <1>1, <1>2, <1>3 DEF Outside

(* Every step of the relays is one of these. *)
LEMMA RelaySteps ==
    ASSUME RelayNext
    PROVE  Outside \/ (\E j \in Jobs : ClaimRelay(j)) \/ Handles \/ RelayDies \/ RelayRestarts
<1> QED  BY DEF RelayNext, Outside

(* The worker, and the queue, under the relays' handlers. *)
LEMMA RelayWorker ==
    ASSUME WorkerInv, RelayAtInv, [RelayNext]_relayVars
    PROVE  WorkerInv' /\ Promised
<1>1. CASE Outside
    BY <1>1, OutsideStep
<1>2. ASSUME NEW j \in Jobs, ClaimRelay(j)
      PROVE  WorkerInv' /\ Promised
    BY <1>2, ClaimsJob, TableKept DEF ClaimRelay
<1>3. CASE Skips \/ FinishRelay \/ PostFails
    <2>1. Busy /\ (Completed \/ Failed)
        BY <1>3, RelayBusy DEF Skips, FinishRelay, PostFails
    <2> QED  BY <2>1, Concludes, VerdictPromised
<1>4. CASE PutsOff
    <2>1. PICK j \in Jobs : CommitWith({j})
        BY <1>4 DEF PutsOff, Deferral, Spare
    <2>2. Busy /\ Advance("done") /\ {j} \in SUBSET Jobs
        BY <1>4, RelayBusy DEF PutsOff
    <2> QED  BY <2>1, <2>2, CommitsOn, CommitPromised
<1>5. CASE Reads \/ Posts
    <2>1. Busy /\ UNCHANGED tableVars /\ (Advance("read") \/ Advance("posted"))
        BY <1>5, RelayBusy DEF Reads, Posts
    <2> QED  BY <2>1, Advances, TableKept
<1>6. CASE Marks
    <2>1. Busy /\ CommitWith({}) /\ Advance("done")
        BY <1>6, RelayBusy DEF Marks
    <2> QED  BY <2>1, CommitsOn, CommitPromised
<1>7. CASE RelayDies
    BY <1>7, Dies, TableKept DEF RelayDies
<1>8. CASE RelayRestarts
    BY <1>8, Restarts, TableKept DEF RelayRestarts
<1>9. CASE UNCHANGED relayVars
    BY <1>9, TableKept DEF relayVars, workerVars, WorkerInv
<1> QED  BY <1>1, <1>2, <1>3, <1>4, <1>5, <1>6, <1>7, <1>8, <1>9, RelaySteps DEF Handles

(* What GoHighLevel has accepted and what the flag tells of it. *)
LEMMA RelayKept ==
    ASSUME WorkerInv, RelayShape, RelayAtInv, RelayedOnce, [RelayNext]_relayVars
    PROVE  RelayShape' /\ RelayAtInv' /\ RelayedOnce'
<1>1. CASE Outside \/ UNCHANGED relayVars
    <2>1. UNCHANGED <<at, cur, relayed, posts, unheard, told>>
        BY <1>1, OutsideStep DEF relayVars, workerVars, postVars
    <2> QED  BY <2>1 DEF RelayShape, RelayAtInv, RelayedOnce, Subject, About
<1>2. ASSUME NEW j \in Jobs, ClaimRelay(j)
      PROVE  RelayShape' /\ RelayAtInv' /\ RelayedOnce'
    <2>1. at = "idle" /\ at' = "look" /\ UNCHANGED <<relayed, posts, unheard, told>>
        BY <1>2 DEF ClaimRelay, ClaimFor, postVars
    <2> QED  BY <2>1 DEF RelayShape, RelayAtInv, RelayedOnce
<1>3. CASE Skips \/ FinishRelay
    <2>1. /\ at \in {"look", "done"} /\ at' = "idle"
          /\ UNCHANGED <<relayed, posts, unheard, told>>
        BY <1>3 DEF Skips, FinishRelay, Completed, Idle, postVars
    <2> QED  BY <2>1 DEF RelayShape, RelayAtInv, RelayedOnce
<1>4. CASE PutsOff
    <2>1. at = "look" /\ at' = "done" /\ UNCHANGED <<relayed, posts, unheard, told>>
        BY <1>4 DEF PutsOff, Advance, postVars
    <2> QED  BY <2>1 DEF RelayShape, RelayAtInv, RelayedOnce
<1>5. CASE Reads
    <2>1. /\ at = "look" /\ at' = "read" /\ Subject' = Subject /\ Subject \notin relayed
          /\ told' = [told EXCEPT ![Subject] = Known(Subject)]
          /\ UNCHANGED <<relayed, posts, unheard>>
        BY <1>5 DEF Reads, Advance, AlreadyRelayed, Subject, About
    <2>2. Known(Subject) \in Knowledge /\ Ripe(Known(Subject))
        <3>1. Subject \in recorded => Subject \in analysed \/ Subject \in late
            BY <1>5 DEF Reads, Pending
        <3>2. Known(Subject) \in Knowledge
            BY DEF Known, Knowledge
        <3>3. Ripe(Known(Subject))
            BY <3>1, Zenon DEF Known, Ripe
        <3> QED  BY <3>2, <3>3
    <2>3. told' \in [Subjects -> Knowledge]
        BY <2>1, <2>2 DEF RelayShape
    <2>4. Subject \in Subjects => told'[Subject] = Known(Subject)
        BY <2>1 DEF RelayShape
    <2>5. \A s \in Subjects : s \in relayed => told'[s] = told[s]
        BY <2>1 DEF RelayShape
    <2> QED  BY <2>1, <2>2, <2>3, <2>4, <2>5 DEF RelayShape, RelayAtInv, RelayedOnce
<1>6. CASE Posts
    <2>1. /\ at = "read" /\ at' = "posted" /\ Subject' = Subject /\ Subject \notin relayed
          /\ posts' = [posts EXCEPT ![Subject] = @ + 1]
          /\ unheard' = [unheard EXCEPT ![Subject] = @ + 0]
          /\ UNCHANGED <<relayed, told>>
        BY <1>6 DEF Posts, Accepted, Advance, RelayAtInv, Subject, About
    <2>2. posts' \in [Subjects -> Nat] /\ unheard' = unheard
        BY <2>1, Recounted DEF RelayShape
    <2>3. ASSUME NEW s \in Subjects
          PROVE  posts'[s] =< unheard'[s] + (IF s \in relayed \/ Subject = s THEN 1 ELSE 0)
        <3>1. posts[s] \in Nat /\ unheard[s] \in Nat
            BY DEF RelayShape
        <3>2. CASE s = Subject
            BY <2>1, <2>2, <3>1, <3>2 DEF RelayedOnce, RelayShape
        <3>3. CASE s # Subject
            BY <2>1, <2>2, <3>1, <3>3 DEF RelayedOnce, RelayShape
        <3> QED  BY <3>2, <3>3
    <2> QED  BY <2>1, <2>2, <2>3 DEF RelayShape, RelayAtInv, RelayedOnce
<1>7. CASE PostFails
    <2>1. /\ at = "read" /\ at' = "idle" /\ Subject \notin relayed /\ UNCHANGED <<relayed, told>>
          /\ \/ /\ posts' = [posts EXCEPT ![Subject] = @ + 1]
                /\ unheard' = [unheard EXCEPT ![Subject] = @ + 1]
             \/ UNCHANGED <<posts, unheard>>
        BY <1>7 DEF PostFails, Accepted, Failed, Idle, RelayAtInv
    <2>2. posts' \in [Subjects -> Nat] /\ unheard' \in [Subjects -> Nat]
        BY <2>1 DEF RelayShape
    <2>3. ASSUME NEW s \in Subjects
          PROVE  posts'[s] =< unheard'[s] + (IF s \in relayed THEN 1 ELSE 0)
        <3>1. posts[s] \in Nat /\ unheard[s] \in Nat
            BY DEF RelayShape
        <3>2. posts[s] =< unheard[s] + (IF s \in relayed THEN 1 ELSE 0)
            BY <2>1 DEF RelayedOnce
        <3> QED  BY <2>1, <3>1, <3>2 DEF RelayShape
    <2> QED  BY <2>1, <2>2, <2>3 DEF RelayShape, RelayAtInv, RelayedOnce
<1>8. CASE Marks
    <2>1. /\ at = "posted" /\ at' = "done" /\ relayed' = relayed \union {Subject}
          /\ Subject' = Subject /\ UNCHANGED <<posts, unheard, told>>
        BY <1>8 DEF Marks, Advance, postVars, Subject, About
    <2> QED  BY <2>1 DEF RelayShape, RelayAtInv, RelayedOnce, Ripe
<1>9. CASE RelayDies
    <2>1. /\ at' = "down" /\ UNCHANGED <<relayed, posts, told>>
          /\ unheard' = IF at = "posted" THEN [unheard EXCEPT ![Subject] = @ + 1] ELSE unheard
        BY <1>9 DEF RelayDies, Died
    <2>2. unheard' \in [Subjects -> Nat]
        BY <2>1, Recounted DEF RelayShape
    <2>3. ASSUME NEW s \in Subjects
          PROVE  posts[s] =< unheard'[s] + (IF s \in relayed THEN 1 ELSE 0)
        <3>1. posts[s] \in Nat /\ unheard[s] \in Nat
            BY DEF RelayShape
        <3>2. /\ posts[s] =< unheard[s] + (IF s \in relayed \/ (at = "posted" /\ Subject = s)
                                           THEN 1 ELSE 0)
            BY DEF RelayedOnce
        <3> QED  BY <2>1, <3>1, <3>2 DEF RelayShape
    <2> QED  BY <2>1, <2>2, <2>3 DEF RelayShape, RelayAtInv, RelayedOnce
<1>10. CASE RelayRestarts
    <2>1. at = "down" /\ at' = "idle" /\ UNCHANGED <<relayed, posts, unheard, told>>
        BY <1>10 DEF RelayRestarts, Restarted, postVars
    <2> QED  BY <2>1 DEF RelayShape, RelayAtInv, RelayedOnce
<1> QED  BY <1>1, <1>2, <1>3, <1>4, <1>5, <1>6, <1>7, <1>8, <1>9, <1>10, RelaySteps DEF Handles

(* Nothing is posted at the start. *)
LEMMA RelayBegins == RelayInit => RelayInv
<1> SUFFICES ASSUME RelayInit PROVE RelayInv
    OBVIOUS
<1>1. /\ WorkerInit /\ relayed = {} /\ posts = [s \in Subjects |-> 0] /\ unheard = posts
      /\ told = [s \in Subjects |-> Unposted]
    BY DEF RelayInit, Fresh
<1>2. at = "idle"
    BY <1>1 DEF WorkerInit
<1>3. Unposted \in Knowledge
    BY DEF Unposted, Knowledge
<1> QED  BY <1>1, <1>2, <1>3, WorkerStarts DEF RelayInv, RelayShape, RelayAtInv, RelayedOnce

(* The invariant of the relays. *)
THEOREM RelayInvariant == RelaySpec => []RelayInv
<1>1. RelayInit => RelayInv
    BY RelayBegins
<1>2. RelayInv /\ [RelayNext]_relayVars => RelayInv'
    BY RelayWorker, RelayKept DEF RelayInv
<1> QED  BY <1>1, <1>2, PTL DEF RelaySpec

(* However many feeds announce a text or a call, and however often its job is put
   off, it is posted again only after a post the flag does not tell of, and a
   recorded call is not posted before its analysis unless the wait was over. *)
THEOREM NothingIsRelayedTwice == RelaySpec => []RelayedOnce
<1>1. RelayInv => RelayedOnce
    BY DEF RelayInv
<1> QED  BY <1>1, RelayInvariant, PTL

(* The relays' jobs move as the queue promises, the ones put off included. *)
THEOREM RelaysKeepToTheQueue == RelaySpec => Q!Spec
<1>1. RelayInit => Q!Init
    BY DEF RelayInit, Fresh, WorkerInit
<1>2. RelayInv /\ [RelayNext]_relayVars => [Q!Next]_(Q!wqVars)
    BY RelayWorker DEF RelayInv, Promised
<1> QED  BY <1>1, <1>2, RelayInvariant, PTL DEF RelaySpec, Q!Spec

-----------------------------------------------------------------------------
(* Sums.  A sum of a finite set of rows is computed row by row, in an order that
   depends on the set; that it depends on nothing but the rows is shown by looking at
   a smallest set for which it would not be so. *)

Folds(f, T, g) ==
    g = [s \in SUBSET T |-> IF s = {} THEN 0
                            ELSE LET x == CHOOSE x \in s : TRUE IN f[x] + g[s \ {x}]]
TheFold(f, T) == CHOOSE g : Folds(f, T, g)
First(s) == CHOOSE x \in s : TRUE

(* The sum of the model is this one. *)
LEMMA SumIs ==
    ASSUME NEW f, NEW T
    PROVE  SumFunctionOnSet(f, T) = TheFold(f, T)[T]
<1> QED  BY DEF SumFunctionOnSet, FoldFunctionOnSet, MapThenFoldSet, TheFold, Folds

(* What such a function says of a set. *)
LEMMA FoldOf ==
    ASSUME NEW f, NEW T, NEW g, Folds(f, T, g), NEW s \in SUBSET T
    PROVE  /\ s = {} => g[s] = 0
           /\ s # {} => First(s) \in s /\ g[s] = f[First(s)] + g[s \ {First(s)}]
<1>1. g[s] = IF s = {} THEN 0 ELSE LET x == CHOOSE x \in s : TRUE
                                   IN  f[x] + g[s \ {x}]
    BY DEF Folds
<1> QED  BY <1>1 DEF First

(* A finite set that has a property has a subset of least size that has it. *)
LEMMA LeastSubset ==
    ASSUME NEW T, IsFiniteSet(T), NEW Bad, Bad \subseteq SUBSET T, Bad # {}
    PROVE  \E u \in Bad : \A v \in SUBSET u : v # u => v \notin Bad
<1>1. IsWellFoundedOn(StrictSubsetOrdering(T), FiniteSubsetsOf(T))
    BY FS_StrictSubsetOrderingWellFounded
<1>2. Bad \subseteq FiniteSubsetsOf(T)
    BY FS_Subset DEF FiniteSubsetsOf
<1>3. PICK u \in Bad : \A v \in Bad : <<v, u>> \notin StrictSubsetOrdering(T)
    BY <1>1, <1>2, WFMin
<1>4. \A v \in SUBSET u : v # u /\ v \in Bad => <<v, u>> \in StrictSubsetOrdering(T)
    BY <1>2, <1>3 DEF StrictSubsetOrdering
<1>5. \A v \in SUBSET u : v # u => v \notin Bad
    BY <1>3, <1>4
<1> QED  BY <1>3, <1>5

(* Two such functions agree on a set that both speak of. *)
LEMMA FoldsAgree ==
    ASSUME NEW f, NEW S, NEW T, NEW g, NEW h, Folds(f, S, g), Folds(f, T, h),
           NEW t, t \subseteq S, t \subseteq T, IsFiniteSet(t)
    PROVE  g[t] = h[t]
<1> DEFINE Bad == {u \in SUBSET t : g[u] # h[u]}
<1>1. SUFFICES ASSUME Bad # {}
               PROVE  FALSE
    OBVIOUS
<1>2. PICK u \in Bad : \A v \in SUBSET u : v # u => v \notin Bad
    <2>1. Bad \subseteq SUBSET t
        OBVIOUS
    <2> HIDE DEF Bad
    <2> QED  BY <1>1, <2>1, LeastSubset
<1>3. u \in SUBSET t /\ u \in SUBSET S /\ u \in SUBSET T /\ g[u] # h[u]
    OBVIOUS
<1>4. CASE u = {}
    BY <1>3, <1>4, FoldOf
<1>5. CASE u # {}
    <2> DEFINE v == u \ {First(u)}
    <2>0. First(u) \in u /\ g[u] = f[First(u)] + g[v]
        BY <1>3, <1>5, FoldOf
    <2>4. h[u] = f[First(u)] + h[v]
        BY <1>3, <1>5, FoldOf
    <2>1. First(u) \in u /\ g[u] = f[First(u)] + g[v] /\ h[u] = f[First(u)] + h[v]
        BY <2>0, <2>4
    <2>2. v \in SUBSET u /\ v # u
        BY <2>1
    <2>3. g[v] = h[v]
        BY <1>2, <1>3, <2>2
    <2> QED  BY <1>3, <2>1, <2>3
<1> QED  BY <1>4, <1>5

(* There is such a function. *)
LEMMA FoldExists ==
    ASSUME NEW f, NEW T, IsFiniteSet(T)
    PROVE  Folds(f, T, TheFold(f, T))
<1> DEFINE Bad == {u \in SUBSET T : ~Folds(f, u, TheFold(f, u))}
<1>1. SUFFICES ASSUME Bad # {}
               PROVE  FALSE
    OBVIOUS
<1>2. PICK u \in Bad : \A v \in SUBSET u : v # u => v \notin Bad
    <2>1. Bad \subseteq SUBSET T
        OBVIOUS
    <2> HIDE DEF Bad
    <2> QED  BY <1>1, <2>1, LeastSubset
<1>3. u \in SUBSET T /\ IsFiniteSet(u)
    BY FS_Subset
<1>4. \A v \in SUBSET u : v # u => Folds(f, v, TheFold(f, v)) /\ IsFiniteSet(v)
    BY <1>2, <1>3, FS_Subset
<1> DEFINE F(v) == TheFold(f, v)[v]
           top == f[First(u)] + F(u \ {First(u)})
           g == [v \in SUBSET u |-> IF v = {} THEN 0 ELSE IF v = u THEN top ELSE F(v)]
<1>5. ASSUME NEW v \in SUBSET u
      PROVE  g[v] = IF v = {} THEN 0
                    ELSE LET x == CHOOSE x \in v : TRUE IN f[x] + g[v \ {x}]
    <2>1. CASE v = {}
        BY <2>1
    <2>2. CASE v # {}
        <3> DEFINE w == v \ {First(v)}
        <3>1. First(v) \in v
            BY <2>2 DEF First
        <3>2. w \in SUBSET u /\ w # u
            BY <3>1
        <3>3. Folds(f, w, TheFold(f, w))
            BY <1>4, <3>2
        <3>4. g[w] = F(w)
            <4>1. CASE w = {}
                <5>1. TheFold(f, w)[w] = 0
                    BY <3>3, <4>1, FoldOf
                <5> QED  BY <3>2, <4>1, <5>1
            <4>2. CASE w # {}
                BY <3>2, <4>2
            <4> QED  BY <4>1, <4>2
        <3>5. g[v] = f[First(v)] + F(w)
            <4>1. CASE v = u
                BY <2>2, <4>1
            <4>2. CASE v # u
                <5>1. Folds(f, v, TheFold(f, v))
                    BY <1>4, <4>2
                <5>2. F(v) = f[First(v)] + TheFold(f, v)[w]
                    BY <2>2, <5>1, FoldOf
                <5>3. TheFold(f, v)[w] = F(w)
                    BY <1>4, <3>2, <3>3, <5>1, FoldsAgree
                <5>4. g[v] = F(v)
                    BY <2>2, <4>2
                <5> QED  BY <5>2, <5>3, <5>4
            <4> QED  BY <4>1, <4>2
        <3> QED  BY <2>2, <3>4, <3>5 DEF First
    <2> QED  BY <2>1, <2>2
<1> HIDE DEF F, top
<1>6. Folds(f, u, g)
    <2>1. [v \in SUBSET u |-> g[v]] = g
        OBVIOUS
    <2> HIDE DEF g
    <2> QED  BY <1>5, <2>1 DEF Folds
<1>7. Folds(f, u, TheFold(f, u))
    BY <1>6 DEF TheFold
<1> QED  BY <1>7

(* No row, no money. *)
LEMMA SumOfNone == ASSUME NEW f PROVE SumFunctionOnSet(f, {}) = 0
<1> QED  BY SumIs, FoldExists, FoldOf, FS_EmptySet

(* A sum, unfolded once. *)
LEMMA SumOfSome ==
    ASSUME NEW f, NEW T, IsFiniteSet(T), T # {}
    PROVE  /\ First(T) \in T
           /\ SumFunctionOnSet(f, T) = f[First(T)] + SumFunctionOnSet(f, T \ {First(T)})
<1> DEFINE v == T \ {First(T)}
           h == TheFold(f, T)
<1>1. Folds(f, T, h) /\ IsFiniteSet(v) /\ Folds(f, v, TheFold(f, v))
    BY FoldExists, FS_Subset
<1>2. h[v] = TheFold(f, v)[v]
    BY <1>1, FoldsAgree
<1>3. First(T) \in T /\ h[T] = f[First(T)] + h[v]
    BY <1>1, FoldOf
<1> QED  BY <1>2, <1>3, SumIs

(* A sum of amounts is an amount. *)
LEMMA SumIsNat ==
    ASSUME NEW f, NEW T, IsFiniteSet(T), \A x \in T : f[x] \in Nat
    PROVE  SumFunctionOnSet(f, T) \in Nat
<1> DEFINE Bad == {u \in SUBSET T : SumFunctionOnSet(f, u) \notin Nat}
<1>1. SUFFICES ASSUME Bad # {}
               PROVE  FALSE
    OBVIOUS
<1>2. PICK u \in Bad : \A v \in SUBSET u : v # u => v \notin Bad
    <2>1. Bad \subseteq SUBSET T
        OBVIOUS
    <2> HIDE DEF Bad
    <2> QED  BY <1>1, <2>1, LeastSubset
<1>3. u \in SUBSET T /\ IsFiniteSet(u) /\ SumFunctionOnSet(f, u) \notin Nat
    BY FS_Subset
<1>4. u # {}
    BY <1>3, SumOfNone
<1>5. /\ First(u) \in u
      /\ SumFunctionOnSet(f, u) = f[First(u)] + SumFunctionOnSet(f, u \ {First(u)})
    BY <1>3, <1>4, SumOfSome
<1>6. SumFunctionOnSet(f, u \ {First(u)}) \in Nat
    BY <1>2, <1>3, <1>5
<1> QED  BY <1>3, <1>5, <1>6

(* Any row may be the first. *)
LEMMA SumTakes ==
    ASSUME NEW f, NEW T, IsFiniteSet(T), \A x \in T : f[x] \in Nat, NEW x \in T
    PROVE  SumFunctionOnSet(f, T) = f[x] + SumFunctionOnSet(f, T \ {x})
<1> DEFINE Bad == {u \in SUBSET T : \E y \in u :
                      SumFunctionOnSet(f, u) # f[y] + SumFunctionOnSet(f, u \ {y})}
<1>1. SUFFICES ASSUME Bad # {}
               PROVE  FALSE
    OBVIOUS
<1>2. PICK u \in Bad : \A v \in SUBSET u : v # u => v \notin Bad
    <2>1. Bad \subseteq SUBSET T
        OBVIOUS
    <2> HIDE DEF Bad
    <2> QED  BY <1>1, <2>1, LeastSubset
<1>3. u \in SUBSET T /\ IsFiniteSet(u)
    BY FS_Subset
<1>4. PICK y \in u : SumFunctionOnSet(f, u) # f[y] + SumFunctionOnSet(f, u \ {y})
    BY <1>2
<1> DEFINE c == First(u)
           v == u \ {c}
           w == u \ {y}
           z == (u \ {c}) \ {y}
<1>5. c \in u /\ SumFunctionOnSet(f, u) = f[c] + SumFunctionOnSet(f, v)
    BY <1>3, SumOfSome
<1>6. y # c
    BY <1>4, <1>5
<1>7. v \in SUBSET u /\ v # u /\ w \in SUBSET u /\ w # u /\ y \in v /\ c \in w /\ z = w \ {c}
    BY <1>5, <1>6
<1> HIDE DEF c, v, w, z
<1>8. \A s \in SUBSET u : s # u => \A p \in s : SumFunctionOnSet(f, s) = f[p] + SumFunctionOnSet(f, s \ {p})
    BY <1>2, <1>3
<1>9. SumFunctionOnSet(f, v) = f[y] + SumFunctionOnSet(f, v \ {y})
    BY <1>7, <1>8
<1>10. SumFunctionOnSet(f, w) = f[c] + SumFunctionOnSet(f, z)
    BY <1>7, <1>8
<1>11. f[c] \in Nat /\ f[y] \in Nat
    BY <1>3, <1>5
<1>12. SumFunctionOnSet(f, z) \in Nat
    BY <1>3, FS_Subset, SumIsNat DEF z
<1>13. v \ {y} = z
    BY DEF v, z
<1>14. SumFunctionOnSet(f, u) # f[y] + SumFunctionOnSet(f, w)
    BY <1>4 DEF w
<1>15. SumFunctionOnSet(f, v) = f[y] + SumFunctionOnSet(f, z)
    BY <1>9, <1>13
<1> QED  BY <1>5, <1>10, <1>11, <1>12, <1>14, <1>15

(* Rows that bear no money add nothing. *)
LEMMA SumSkips ==
    ASSUME NEW f, NEW A, NEW R, IsFiniteSet(A), \A x \in A : f[x] \in Nat,
           R \subseteq A, \A x \in A \ R : f[x] = 0
    PROVE  SumFunctionOnSet(f, A) = SumFunctionOnSet(f, R)
<1> DEFINE Bad == {u \in SUBSET A : R \subseteq u /\ SumFunctionOnSet(f, u) # SumFunctionOnSet(f, R)}
<1>1. SUFFICES ASSUME Bad # {}
               PROVE  FALSE
    OBVIOUS
<1>2. PICK u \in Bad : \A v \in SUBSET u : v # u => v \notin Bad
    <2>1. Bad \subseteq SUBSET A
        OBVIOUS
    <2> HIDE DEF Bad
    <2> QED  BY <1>1, <2>1, LeastSubset
<1>3. u \in SUBSET A /\ IsFiniteSet(u) /\ R \subseteq u /\ SumFunctionOnSet(f, u) # SumFunctionOnSet(f, R)
    BY FS_Subset
<1>4. PICK x \in u : x \notin R
    BY <1>3
<1>5. SumFunctionOnSet(f, u) = f[x] + SumFunctionOnSet(f, u \ {x}) /\ f[x] = 0
    BY <1>3, <1>4, SumTakes
<1>6. u \ {x} \in SUBSET u /\ u \ {x} # u /\ R \subseteq u \ {x}
    BY <1>3, <1>4
<1>7. SumFunctionOnSet(f, u \ {x}) = SumFunctionOnSet(f, R)
    BY <1>2, <1>3, <1>6
<1>8. SumFunctionOnSet(f, u \ {x}) \in Nat
    BY <1>3, FS_Subset, SumIsNat
<1> QED  BY <1>3, <1>5, <1>7, <1>8

(* A sum of a set asks only for the numbers of its members. *)
LEMMA SumAgrees ==
    ASSUME NEW f, NEW g, NEW T, IsFiniteSet(T), \A x \in T : f[x] = g[x]
    PROVE  SumFunctionOnSet(f, T) = SumFunctionOnSet(g, T)
<1> DEFINE Bad == {u \in SUBSET T : SumFunctionOnSet(f, u) # SumFunctionOnSet(g, u)}
<1>1. SUFFICES ASSUME Bad # {}
               PROVE  FALSE
    OBVIOUS
<1>2. PICK u \in Bad : \A v \in SUBSET u : v # u => v \notin Bad
    <2>1. Bad \subseteq SUBSET T
        OBVIOUS
    <2> HIDE DEF Bad
    <2> QED  BY <1>1, <2>1, LeastSubset
<1>3. u \in SUBSET T /\ IsFiniteSet(u) /\ SumFunctionOnSet(f, u) # SumFunctionOnSet(g, u)
    BY FS_Subset
<1>4. u # {}
    BY <1>3, SumOfNone
<1>5. /\ First(u) \in u
      /\ SumFunctionOnSet(f, u) = f[First(u)] + SumFunctionOnSet(f, u \ {First(u)})
    BY <1>3, <1>4, SumOfSome
<1>6. SumFunctionOnSet(g, u) = g[First(u)] + SumFunctionOnSet(g, u \ {First(u)})
    BY <1>3, <1>4, SumOfSome
<1>7. SumFunctionOnSet(f, u \ {First(u)}) = SumFunctionOnSet(g, u \ {First(u)})
    BY <1>2, <1>3, <1>5
<1>8. f[First(u)] = g[First(u)]
    BY <1>3, <1>5
<1> QED  BY <1>3, <1>5, <1>6, <1>7, <1>8

(* A part sums up to no more than the whole. *)
LEMMA SumOfPart ==
    ASSUME NEW f, NEW A, NEW R, IsFiniteSet(A), \A x \in A : f[x] \in Nat, R \subseteq A
    PROVE  SumFunctionOnSet(f, R) =< SumFunctionOnSet(f, A)
<1> DEFINE Bad == {u \in SUBSET A : R \subseteq u /\ ~(SumFunctionOnSet(f, R) =< SumFunctionOnSet(f, u))}
<1>1. SUFFICES ASSUME Bad # {}
               PROVE  FALSE
    OBVIOUS
<1>2. PICK u \in Bad : \A v \in SUBSET u : v # u => v \notin Bad
    <2>1. Bad \subseteq SUBSET A
        OBVIOUS
    <2> HIDE DEF Bad
    <2> QED  BY <1>1, <2>1, LeastSubset
<1>3. /\ u \in SUBSET A /\ IsFiniteSet(u) /\ IsFiniteSet(R) /\ R \subseteq u
      /\ ~(SumFunctionOnSet(f, R) =< SumFunctionOnSet(f, u))
    BY FS_Subset
<1>4. SumFunctionOnSet(f, R) \in Nat
    BY <1>3, SumIsNat
<1>5. PICK x \in u : x \notin R
    BY <1>3, <1>4
<1>6. SumFunctionOnSet(f, u) = f[x] + SumFunctionOnSet(f, u \ {x})
    BY <1>3, <1>5, SumTakes
<1>7. u \ {x} \in SUBSET u /\ u \ {x} # u /\ R \subseteq u \ {x}
    BY <1>3, <1>5
<1>8. SumFunctionOnSet(f, R) =< SumFunctionOnSet(f, u \ {x})
    BY <1>2, <1>3, <1>7
<1>9. SumFunctionOnSet(f, u \ {x}) \in Nat
    BY <1>3, FS_Subset, SumIsNat
<1>10. f[x] \in Nat
    BY <1>3, <1>5
<1> QED  BY <1>3, <1>4, <1>6, <1>8, <1>9, <1>10

(* One more member. *)
LEMMA SumWithOne ==
    ASSUME NEW f, NEW T, IsFiniteSet(T), NEW x, x \notin T, \A y \in T \cup {x} : f[y] \in Nat
    PROVE  SumFunctionOnSet(f, T \cup {x}) = f[x] + SumFunctionOnSet(f, T)
<1> DEFINE U == T \cup {x}
<1>1. IsFiniteSet(U)
    BY FS_AddElement
<1>2. x \in U /\ U \ {x} = T
    OBVIOUS
<1>3. \A y \in U : f[y] \in Nat
    OBVIOUS
<1> HIDE DEF U
<1>4. SumFunctionOnSet(f, U) = f[x] + SumFunctionOnSet(f, U \ {x})
    BY <1>1, <1>2, <1>3, SumTakes
<1> QED  BY <1>2, <1>4 DEF U

-----------------------------------------------------------------------------
(* The bill, for any finite number of records, any scans and any changes of the
   operators. *)

RecordsAreFinite == IsFiniteSet(Records)
FiguresAreNumbers == Figures \subseteq Nat /\ Silent \notin Nat

Row == [there : BOOLEAN, amount : Nat, unrated : BOOLEAN]
Price == Nat \union {Silent}

Charged(l) == l.unrated => l.amount = 0
Fetched(s) == scan[s].step = "writing"

BillTyped ==
    /\ amount \in [Records -> Price] /\ rate \in Price
    /\ minutes \in [Records -> Row] /\ dips \in [Records -> Row]
    /\ DOMAIN scan = Scanners
    /\ \A s \in Scanners : Fetched(s) =>
          /\ scan[s].rate \in Price
          /\ DOMAIN scan[s].got \subseteq Records
          /\ \A r \in DOMAIN scan[s].got : scan[s].got[r] \in Price

(* What a scan has fetched the carrier has said, and our own number had. *)
SaidInv ==
    /\ \A r \in Records : amount[r] = 0 => r \in free
    /\ cnam => offered
    /\ \A s \in Scanners : Fetched(s) =>
          /\ \A r \in DOMAIN scan[s].got : scan[s].got[r] = 0 => r \in free
          /\ scan[s].cnam => offered

(* A row is priced, or flagged as unpriced; and the dip comes with its call. *)
Accounted(r, call, dip) ==
    /\ Charged(call) /\ Charged(dip)
    /\ call.there => (call.unrated \/ call.amount > 0 \/ r \in free)
    /\ dip.there => call.there /\ r \in Inbound /\ ~dip.unrated /\ (offered \/ r \in named)

RowsInv == \A r \in Records : Accounted(r, minutes[r], dips[r])

BillInv == BillTyped /\ SaidInv /\ RowsInv

(* What a row becomes when a record is charged. *)
LEMMA ChargeIs ==
    ASSUME FiguresAreNumbers, NEW a \in Price
    PROVE  /\ Charge(a) \in Row /\ Charged(Charge(a)) /\ Charge(a).there
           /\ Charge(a).unrated \/ Charge(a).amount > 0 \/ a = 0
           /\ a # Silent => a \in Nat /\ Priced(a) \in Row /\ Priced(a).there /\ ~Priced(a).unrated
<1> QED  BY DEF Charge, Priced, Price, Row, Charged, FiguresAreNumbers

(* A row that is not there bears no money. *)
LEMMA NoRowIs == NoRow \in Row /\ Charged(NoRow) /\ ~NoRow.there
<1> QED  BY DEF NoRow, Row, Charged

(* Nothing is billed yet. *)
LEMMA BillStarts == FiguresAreNumbers /\ BillInit => BillInv
<1> SUFFICES ASSUME FiguresAreNumbers, BillInit
             PROVE  BillInv
    OBVIOUS
<1>1. /\ amount = [r \in Records |-> Silent] /\ offered = cnam /\ rate \in {Silent, 1}
      /\ minutes = [r \in Records |-> NoRow] /\ dips = minutes
      /\ scan = [s \in Scanners |-> NoScan]
    BY DEF BillInit, Off
<1>2. BillTyped
    BY <1>1, NoRowIs DEF BillTyped, Fetched, NoScan, Price
<1>3. RowsInv
    BY <1>1, NoRowIs DEF RowsInv, Accounted
<1>4. SaidInv
    BY <1>1 DEF SaidInv, Fetched, NoScan, FiguresAreNumbers
<1> QED  BY <1>2, <1>3, <1>4 DEF BillInv

(* A scan writes what it fetched. *)
LEMMA WritesKeep ==
    ASSUME FiguresAreNumbers, BillInv, NEW s \in Scanners, Writes(s)
    PROVE  /\ minutes' \in [Records -> Row] /\ dips' \in [Records -> Row] /\ RowsInv'
           /\ \A r \in Records : /\ minutes[r].there => minutes'[r].there
                                 /\ dips[r].there => dips'[r].there
<1> DEFINE got == scan[s].got
<1>1. /\ scan[s].rate \in Price /\ DOMAIN got \subseteq Records
      /\ \A r \in DOMAIN got : got[r] \in Price /\ (got[r] = 0 => r \in free)
      /\ scan[s].cnam => offered
    BY DEF BillInv, BillTyped, SaidInv, Fetched, Writes
<1>2. PICK found \in SUBSET Inbound :
        /\ minutes' = [r \in Records |-> IF r \in DOMAIN got THEN Charge(got[r]) ELSE minutes[r]]
        /\ dips' = [r \in Records |-> IF r \in DOMAIN got /\ DipFor(s, r, found)
                                      THEN Priced(scan[s].rate) ELSE dips[r]]
    BY DEF Writes, Upserted
<1>3. \A r \in Records : minutes[r] \in Row /\ dips[r] \in Row
    BY DEF BillInv, BillTyped
<1>4. ASSUME NEW r \in Records
      PROVE  /\ minutes'[r] \in Row /\ Charged(minutes'[r])
             /\ minutes[r].there \/ r \in DOMAIN got => minutes'[r].there
             /\ minutes'[r].there => \/ minutes'[r].unrated \/ minutes'[r].amount > 0
                                     \/ r \in free
    <2>1. CASE r \in DOMAIN got
        <3>1. minutes'[r] = Charge(got[r]) /\ got[r] \in Price /\ (got[r] = 0 => r \in free)
            BY <1>1, <1>2, <2>1
        <3> QED  BY <3>1, ChargeIs
    <2>2. CASE r \notin DOMAIN got
        <3>1. minutes'[r] = minutes[r]
            BY <1>2, <2>2
        <3>2. Accounted(r, minutes[r], dips[r])
            BY DEF BillInv, RowsInv
        <3> QED  BY <1>3, <2>2, <3>1, <3>2 DEF Accounted
    <2> QED  BY <2>1, <2>2
<1>5. ASSUME NEW r \in Records
      PROVE  /\ dips'[r] \in Row /\ Charged(dips'[r])
             /\ dips[r].there => dips'[r].there
             /\ dips'[r].there => /\ minutes'[r].there /\ r \in Inbound /\ ~dips'[r].unrated
                                  /\ offered \/ r \in named
    <2>1. CASE r \in DOMAIN got /\ DipFor(s, r, found)
        <3>1. dips'[r] = Priced(scan[s].rate)
            BY <1>2, <2>1
        <3>2. r \in Inbound /\ scan[s].rate # Silent
            BY <2>1 DEF DipFor
        <3>3. offered \/ r \in named
            <4>1. CASE r \in found
                BY <1>1, <2>1, <4>1 DEF DipFor
            <4>2. CASE r \notin found
                BY <2>1, <4>2 DEF DipFor
            <4> QED  BY <4>1, <4>2
        <3>4. Priced(scan[s].rate) \in Row /\ Priced(scan[s].rate).there
              /\ ~Priced(scan[s].rate).unrated
            BY <1>1, <3>2, ChargeIs
        <3> QED  BY <1>4, <2>1, <3>1, <3>2, <3>3, <3>4 DEF Charged
    <2>2. CASE ~(r \in DOMAIN got /\ DipFor(s, r, found))
        <3>1. dips'[r] = dips[r]
            BY <1>2, <2>2
        <3>2. Accounted(r, minutes[r], dips[r])
            BY DEF BillInv, RowsInv
        <3> QED  BY <1>3, <1>4, <3>1, <3>2 DEF Accounted
    <2> QED  BY <2>1, <2>2
<1>6. /\ minutes' = [r \in Records |-> minutes'[r]] /\ dips' = [r \in Records |-> dips'[r]]
    BY <1>2
<1>7. minutes' \in [Records -> Row] /\ dips' \in [Records -> Row]
    BY <1>4, <1>5, <1>6
<1>8. UNCHANGED <<free, named, offered>>
    BY DEF Writes, carrierVars, ownVars
<1>9. ASSUME NEW r \in Records
      PROVE  Accounted(r, minutes[r], dips[r])'
    BY <1>4, <1>5, <1>8 DEF Accounted, Charged
<1>10. RowsInv'
    BY <1>9 DEF RowsInv
<1> QED  BY <1>4, <1>5, <1>7, <1>10

(* What has been said once stays said. *)
Remembers == free \subseteq free' /\ named' = named /\ (offered => offered')

(* Rows nobody writes stay accounted for. *)
LEMMA RowsStay ==
    ASSUME BillInv, Remembers, UNCHANGED <<minutes, dips>>
    PROVE  /\ RowsInv'
           /\ \A r \in Records : /\ minutes[r].there => minutes'[r].there
                                 /\ dips[r].there => dips'[r].there
<1>1. ASSUME NEW r \in Records
      PROVE  Accounted(r, minutes[r], dips[r])'
    <2>1. Accounted(r, minutes[r], dips[r])
        BY DEF BillInv, RowsInv
    <2> QED  BY <2>1 DEF Remembers, Accounted, Charged
<1> QED  BY <1>1 DEF RowsInv

(* No step takes back what was said, nor lets a scan hold what was not. *)
LEMMA BillStep ==
    ASSUME FiguresAreNumbers, BillInv, [BillNext]_billVars
    PROVE  /\ BillInv'
           /\ \A r \in Records : /\ minutes[r].there => minutes'[r].there
                                 /\ dips[r].there => dips'[r].there
<1>1. CASE \E s \in Scanners : Writes(s)
    <2>1. PICK s \in Scanners : Writes(s)
        BY <1>1
    <2>2. /\ scan' = [scan EXCEPT ![s] = NoScan]
          /\ UNCHANGED <<amount, free, cnam, offered, rate>>
        BY <2>1 DEF Writes, carrierVars, ownVars
    <2>3. \A t \in Scanners : Fetched(t)' => Fetched(t) /\ scan'[t] = scan[t]
        BY <2>2 DEF BillInv, BillTyped, Fetched, NoScan
    <2>4. BillTyped'
        BY <2>1, <2>2, <2>3, WritesKeep DEF BillInv, BillTyped
    <2>5. SaidInv'
        BY <2>2, <2>3 DEF BillInv, SaidInv
    <2> QED  BY <2>1, <2>4, <2>5, WritesKeep DEF BillInv
<1>2. CASE \E s \in Scanners : Fetches(s) \/ Breaks(s)
    <2>1. PICK s \in Scanners : Fetches(s) \/ Breaks(s)
        BY <1>2
    <2>2. UNCHANGED <<amount, free, named, cnam, offered, rate, minutes, dips>>
        BY <2>1 DEF Fetches, Breaks, carrierVars, ownVars
    <2>3. /\ DOMAIN scan' = Scanners
          /\ \A t \in Scanners \ {s} : scan'[t] = scan[t]
          /\ \/ scan'[s].step = "none"
             \/ scan'[s] = [step |-> "writing", got |-> [r \in Window |-> amount[r]],
                            rate |-> rate, cnam |-> cnam]
        BY <2>1 DEF Fetches, Breaks, BillInv, BillTyped, NoScan
    <2>4. /\ Window \subseteq Records /\ rate \in Price
          /\ \A r \in Window : amount[r] \in Price /\ (amount[r] = 0 => r \in free)
          /\ cnam => offered
        BY DEF Window, BillInv, BillTyped, SaidInv
    <2>5. ASSUME NEW t \in Scanners, scan'[t].step = "writing"
          PROVE  /\ scan'[t].rate \in Price /\ DOMAIN scan'[t].got \subseteq Records
                 /\ \A r \in DOMAIN scan'[t].got :
                       scan'[t].got[r] \in Price /\ (scan'[t].got[r] = 0 => r \in free)
                 /\ scan'[t].cnam => offered
        <3>1. CASE t = s
            BY <2>3, <2>4, <2>5, <3>1
        <3>2. CASE t # s
            BY <2>3, <2>5, <3>2 DEF BillInv, BillTyped, SaidInv, Fetched
        <3> QED  BY <3>1, <3>2
    <2>6. BillTyped'
        BY <2>2, <2>3, <2>5 DEF BillInv, BillTyped, Fetched
    <2>7. SaidInv'
        BY <2>2, <2>5 DEF BillInv, SaidInv, Fetched
    <2>8. Remembers
        BY <2>2 DEF Remembers
    <2> QED  BY <2>2, <2>6, <2>7, <2>8, RowsStay DEF BillInv
<1>3. CASE \E r \in Records : States(r) \/ Ages(r)
    <2>1. PICK r \in Records : States(r) \/ Ages(r)
        BY <1>3
    <2>2. UNCHANGED <<named, cnam, offered, rate, minutes, dips, scan>>
        BY <2>1 DEF States, Ages, ownVars
    <2>3. /\ amount' \in [Records -> Price] /\ free \subseteq free'
          /\ \A q \in Records : amount'[q] = 0 => q \in free'
        <3>1. CASE Ages(r)
            BY <3>1 DEF Ages, BillInv, BillTyped, SaidInv
        <3>2. CASE States(r)
            <4>1. PICK a \in Figures \union {Silent} :
                      /\ amount' = [amount EXCEPT ![r] = a]
                      /\ free' = IF a = 0 THEN free \union {r} ELSE free
                BY <3>2 DEF States
            <4>2. a \in Price
                BY DEF FiguresAreNumbers, Price
            <4> QED  BY <4>1, <4>2 DEF BillInv, BillTyped, SaidInv
        <3> QED  BY <2>1, <3>1, <3>2
    <2>4. BillTyped' /\ SaidInv' /\ Remembers
        BY <2>2, <2>3 DEF BillInv, BillTyped, SaidInv, Fetched, Remembers
    <2> QED  BY <2>2, <2>4, RowsStay DEF BillInv
<1>4. CASE SetsRate \/ TogglesCnam \/ Adjusts \/ Purges
    <2>1. UNCHANGED <<amount, free, named, scan, minutes, dips>>
        BY <1>4 DEF SetsRate, TogglesCnam, Adjusts, Purges, Edit, Purged, carrierVars
    <2>2. rate' \in Price
        <3>1. CASE SetsRate
            BY <3>1 DEF SetsRate, Price, BillInv, BillTyped
        <3>2. CASE TogglesCnam \/ Adjusts \/ Purges
            BY <3>2 DEF TogglesCnam, Adjusts, Purges, BillInv, BillTyped
        <3> QED  BY <1>4, <3>1, <3>2
    <2>3. offered' \/ UNCHANGED <<cnam, offered>>
        BY <1>4 DEF SetsRate, TogglesCnam, Adjusts, Purges
    <2>4. BillTyped'
        BY <2>1, <2>2 DEF BillInv, BillTyped, Fetched
    <2>5. SaidInv'
        BY <2>1, <2>3 DEF BillInv, SaidInv, Fetched
    <2>6. Remembers
        BY <2>1, <2>3 DEF Remembers
    <2> QED  BY <2>1, <2>4, <2>5, <2>6, RowsStay DEF BillInv
<1>5. CASE UNCHANGED billVars
    <2>1. UNCHANGED <<amount, free, named, scan, minutes, dips, rate, cnam, offered>>
        BY <1>5 DEF billVars, carrierVars, ownVars
    <2>2. BillTyped' /\ SaidInv' /\ Remembers
        BY <2>1 DEF BillInv, BillTyped, SaidInv, Fetched, Remembers
    <2> QED  BY <2>1, <2>2, RowsStay DEF BillInv
<1> QED  BY <1>1, <1>2, <1>3, <1>4, <1>5 DEF BillNext

(* The totals of a page agree, whatever it sums. *)
LEMMA TotalsAgree ==
    ASSUME RecordsAreFinite, NEW rows \in [Records -> Row], \A r \in Records : Charged(rows[r])
    PROVE  /\ SumOf(rows, RowsOf(rows, Any)) = SumOf(rows, RowsOf(rows, Rated))
           /\ SumOf(rows, RowsOf(rows, Any)) \in Nat
<1> DEFINE A == RowsOf(rows, Any)
           R == RowsOf(rows, Rated)
<1>1. IsFiniteSet(A)
    BY FS_Subset DEF RecordsAreFinite, RowsOf
<1>2. \A r \in A : rows[r].amount \in Nat
    BY DEF RowsOf, Row
<1>3. R \subseteq A
    BY DEF RowsOf, Rated, Any
<1>4. ASSUME NEW r \in A \ R
      PROVE  rows[r].amount = 0
    <2>1. r \in Records /\ rows[r] \in Row /\ rows[r].there
        BY DEF RowsOf
    <2>2. rows[r].unrated \in BOOLEAN /\ rows[r].unrated \notin {FALSE}
        BY <2>1, Zenon DEF RowsOf, Rated, Row
    <2>3. rows[r].unrated
        BY <2>2, Zenon
    <2> QED  BY <2>1, <2>3 DEF Charged
<1> DEFINE f == [r \in Records |-> rows[r].amount]
<1>5. \A r \in A : f[r] = rows[r].amount
    BY DEF RowsOf
<1>6. SumOf(rows, A) = SumFunctionOnSet(f, A) /\ SumOf(rows, R) = SumFunctionOnSet(f, R)
    BY DEF SumOf
<1> HIDE DEF A, R, f
<1>7. SumOf(rows, A) = SumOf(rows, R) /\ SumOf(rows, A) \in Nat
    BY <1>1, <1>2, <1>3, <1>4, <1>5, <1>6, SumSkips, SumIsNat
<1> QED  BY <1>7 DEF A, R

(* workers/billing.py, api/billing.py: the totals of a page agree; a leg that is not
   listed as unpriced is free only when the carrier said so of it; and a dip is
   charged only beside its inbound call, where CNAM was on or a name delivered. *)
THEOREM TheBillIsHonest ==
    ASSUME RecordsAreFinite, FiguresAreNumbers
    PROVE  BillSpec => []BillIsHonest
<1>1. BillInv => BillIsHonest
    <2> SUFFICES ASSUME BillInv
                 PROVE  BillIsHonest
        OBVIOUS
    <2>1. UsageTotal = PerDayTotal
        <3>1. /\ minutes \in [Records -> Row] /\ dips \in [Records -> Row]
              /\ \A r \in Records : Charged(minutes[r]) /\ Charged(dips[r])
            BY DEF BillInv, BillTyped, RowsInv, Accounted
        <3> QED  BY <3>1, TotalsAgree DEF UsageTotal, PerDayTotal
    <2>2. ASSUME NEW r \in Records
          PROVE  /\ r \in UnratedLegs => minutes[r].amount = 0
                 /\ minutes[r].there /\ r \notin UnratedLegs =>
                       (minutes[r].amount > 0 \/ r \in free)
                 /\ dips[r].there => /\ minutes[r].there /\ r \in Inbound /\ ~dips[r].unrated
                                     /\ offered \/ r \in named
        <3>1. Accounted(r, minutes[r], dips[r])
            BY DEF BillInv, RowsInv
        <3>2. r \in UnratedLegs <=> minutes[r].there /\ minutes[r].unrated
            BY DEF UnratedLegs
        <3> QED  BY <3>1, <3>2 DEF Accounted, Charged
    <2> QED  BY <2>1, <2>2 DEF BillIsHonest
<1>2. BillInit => BillInv
    BY BillStarts
<1>3. BillInv /\ [BillNext]_billVars => BillInv'
    BY BillStep
<1> QED  BY <1>1, <1>2, <1>3, PTL DEF BillSpec

(* No row a scan wrote is lost, not to another scan nor to the purge. *)
THEOREM NoChargeIsForgotten ==
    ASSUME FiguresAreNumbers
    PROVE  BillSpec => NothingForgotten
<1>1. BillInit => BillInv
    BY BillStarts
<1>2. BillInv /\ [BillNext]_billVars => BillInv' /\ [~Forgets]_billVars
    BY BillStep DEF Forgets
<1> QED  BY <1>1, <1>2, PTL DEF BillSpec, NothingForgotten

-----------------------------------------------------------------------------
(* Retell's calls, for any number of function calls and faults.  No step needs what
   another leaves open: where a caller goes rests on the row (WayInv), what becomes
   of a webhook on its claim (HookInv), and what was heard on who held a copy of
   the transcript (OneScript, PartsInv) and of the notes (NotesInv). *)

(* The way out: what the agent asked for is what the row says, and only a first
   session is transferred. *)
WayInv ==
    /\ \A s \in Sessions : calls[s].exit = "transfer" => s = 1
    /\ session = 2 \/ flow = "ring" \/ port \in {"transfer", "transferred"} =>
           calls[1].exit = "transfer"
    /\ flow \in Past => leg # "up" \/ session \in luck.left
    /\ flow \in {"start", "connect"} => leg = "none" /\ talk = "none"
    /\ flow = "ring" => session = 1
    /\ \A t \in Tools : tool[t].in =< session

(* Webhooks: nothing is claimed that was not posted, what is claimed is being
   worked on, done or dead, and an acknowledgement has its reason. *)
HookInv ==
    /\ \A s \in Sessions : post[s] = "none" => hook[s].at = "idle" /\ ~calls[s].claimed
    /\ talk = "on" \/ flow \in {"start", "connect"} => post[session] = "none"
    /\ session = 1 => post[2] = "none"
    /\ \A s \in Sessions :
          /\ Working(s) => calls[s].claimed
          /\ calls[s].claimed => s \in done \/ Working(s) \/ hook[s].at = "dead"
          /\ post[s] = "acked" /\ Working(s) => s \in done \/ s \in luck.raced
          /\ post[s] = "acked" => s \in done \/ Working(s) \/ hook[s].at = "dead" \/ s \in luck.raced

(* While no two requests held a copy of it at once, there is one transcript, and
   the request that holds a copy holds the latest. *)
OneScript ==
    ~luck.crossed =>
        /\ Len(script) =< 1
        /\ \A e \in Sessions : hook[e].at = "loaded" =>
              \/ hook[e].found = 0 /\ script = <<>>
              \/ hook[e].found = 1 /\ Len(script) = 1 /\ hook[e].saw = script[1]
        /\ \A e, f \in Sessions : hook[e].at = "loaded" /\ hook[f].at = "loaded" => e = f

(* And a part of the conversation is in the transcript once it was stored, once as
   long as nothing went wrong. *)
PartsInv ==
    ~luck.crossed =>
        /\ \A e \in Sessions : e \in done \/ hook[e].at = "stored" => InTranscript(e)
        /\ failed = 0 => script \in {<<>>, <<<<1>>>>, <<<<2>>>>, <<<<1, 2>>>>, <<<<2, 1>>>>}
        /\ failed = 0 => \A e \in Sessions :
              hook[e].at \in {"claimed", "loaded"} \/ ~calls[e].claimed => ~InTranscript(e)

(* A note nothing crossed is in the row, in the copies of those who still merge,
   in the snapshot once it is taken, and with the call once that is stored. *)
NotesInv ==
    /\ \A t \in Tools : tool[t].at # "idle" =>
          tool[t].in < session \/ flow \notin {"start", "connect", "bridge"}
    /\ flow = "start" => calls[session].status # "live"
    /\ session = 1 => calls[2].status # "live"
    /\ failed = 0 =>
          /\ flow \in {"store", "ring", "report", "done"} => calls[session].status # "live"
          /\ session = 2 => calls[1].status # "live"
          /\ \A t \in Tools \ luck.notes : tool[t].at = "saved" =>
                /\ t \in calls[tool[t].in].captured
                /\ \A u \in Tools : tool[u].at = "merging" /\ tool[u].in = tool[t].in => t \in tool[u].saw
                /\ flow = "store" /\ tool[t].in = session => t \in snap
                /\ tool[t].in < session \/ flow \in {"ring", "report", "done"} => t \in kept

(* The invariant. *)
RetellInv == RetellTypes /\ WayInv /\ HookInv /\ OneScript /\ PartsInv /\ NotesInv

(* A fault there is room for stays within the bound. *)
LEMMA RoomLeft == ASSUME RetellTypes, MoreEvents PROVE failed + 1 \in 0..MaxEvents
<1>1. Cardinality(Calls) \in Nat
  <2>1. IsFiniteSet(Tools) BY FS_Interval, EventsAreCounted DEF Tools
  <2>2. Calls \subseteq Tools BY DEF Calls
  <2> QED BY <2>1, <2>2, FS_Subset, FS_CardinalityType
<1> QED BY <1>1, EventsAreCounted DEF RetellTypes, MoreEvents

(* A row of which one column is set is a row. *)
LEMMA RowSet ==
    ASSUME NEW f \in [Sessions -> SessionRows], NEW s \in Sessions
    PROVE  /\ \A v \in {"live", "ended"} : [f EXCEPT ![s].status = v] \in [Sessions -> SessionRows]
           /\ \A v \in {"transfer", "end_call"} : [f EXCEPT ![s].exit = v] \in [Sessions -> SessionRows]
           /\ \A v \in BOOLEAN : [f EXCEPT ![s].claimed = v] \in [Sessions -> SessionRows]
           /\ \A v \in SUBSET Tools : [f EXCEPT ![s].captured = v] \in [Sessions -> SessionRows]
<1>1. \A v \in {"live", "ended"} : [f EXCEPT ![s].status = v] \in [Sessions -> SessionRows]
    BY DEF SessionRows
<1>2. \A v \in {"transfer", "end_call"} : [f EXCEPT ![s].exit = v] \in [Sessions -> SessionRows]
    BY DEF SessionRows
<1>3. \A v \in BOOLEAN : [f EXCEPT ![s].claimed = v] \in [Sessions -> SessionRows]
    BY DEF SessionRows
<1>4. \A v \in SUBSET Tools : [f EXCEPT ![s].captured = v] \in [Sessions -> SessionRows]
    BY DEF SessionRows
<1> QED BY <1>1, <1>2, <1>3, <1>4

(* A call whose answer is noted is a call. *)
LEMMA ToolSet ==
    ASSUME NEW f \in [Tools -> ToolCalls], NEW t \in Tools, NEW v \in {"told", "refused"}
    PROVE  [f EXCEPT ![t].at = v] \in [Tools -> ToolCalls]
BY DEF ToolCalls

(* A sequence of which one entry is replaced, or none, is one still. *)
LEMMA ChangedEntry ==
    ASSUME NEW S, NEW q \in Seq(S), NEW k, NEW s \in S PROVE [q EXCEPT ![k] = s] \in Seq(S)
<1> DEFINE p == [q EXCEPT ![k] = s]
<1>1. q \in [1..Len(q) -> S] /\ Len(q) \in Nat OBVIOUS
<1>2. p \in [1..Len(q) -> S] BY <1>1
<1>3. Seq(S) = UNION {[1..n -> S] : n \in Nat} BY SeqDef
<1>4. [1..Len(q) -> S] \in {[1..n -> S] : n \in Nat} BY <1>1
<1>5. p \in UNION {[1..n -> S] : n \in Nat} BY <1>2, <1>4
<1> QED BY <1>3, <1>5

(* Every step of the worker, of Retell and of its requests keeps the types. *)
LEMMA TypesGoOn == ASSUME RetellTypes, RetellNext PROVE RetellTypes'
<1> USE DEF RetellTypes, retellVars, channels, worker, webhooks
<1>1. CASE Registers
  <2>1. [calls EXCEPT ![session].status = "live"] \in [Sessions -> SessionRows]
    BY RowSet
  <2> QED BY <2>1, <1>1, RoomLeft DEF Registers, Ends, Sessions, Tools
<1>2. CASE Connects
    BY <1>2, RoomLeft DEF Connects, Ends, Sessions, Kinds
<1>3. CASE Bridges
    BY <1>3, RoomLeft DEF Bridges, Ends, GoesWrong, Fine, Sessions, Kinds
<1>4. CASE HearsAgentGo
  <2>1. Mine.exit \in {"none", "transfer", "end_call"}
    BY DEF Mine, SessionRows
  <2> QED BY <2>1, <1>4, RoomLeft DEF HearsAgentGo, Leaves, Mine, Ends, GoesWrong, Fine,
                                      Sessions, Tools
<1>5. CASE HearsCallerGo
    BY <1>5, RoomLeft DEF HearsCallerGo, Ends, Sessions, Kinds
<1>6. CASE Polls
  <2>1. Mine.exit \in {"none", "transfer", "end_call"}
    BY DEF Mine, SessionRows
  <2> QED BY <2>1, <1>6, RoomLeft DEF Polls, Leaves, Mine, Ends, Sessions, Tools
<1>7. CASE CapReached
    BY <1>7, RoomLeft DEF CapReached, Ends, Sessions, Kinds
<1>8. CASE GracePasses
    BY <1>8, RoomLeft DEF GracePasses, Sessions, Kinds
<1>9. CASE TearsDown
  <2>1. /\ leg' \in {"none", "up", "gone"} /\ talk' \in {"none", "on", "over"}
        /\ post' \in [Sessions -> {"none", "owed", "acked"}]
    BY <1>9 DEF TearsDown, Over, LegToDrop
  <2>2. luck' \in [raced : SUBSET Sessions, notes : SUBSET Tools, crossed : BOOLEAN, left : SUBSET Sessions]
    <3>1. \/ luck' = luck
          \/ luck' = [luck EXCEPT !.left = @ \union {session}]
      BY <1>9, Zenon DEF TearsDown
    <3>2. luck.left \union {session} \in SUBSET Sessions
      OBVIOUS
    <3> QED BY <3>1, <3>2
  <2>3. failed' \in 0..MaxEvents
    <3>1. failed' = failed \/ (MoreEvents /\ failed' = failed + 1)
      BY <1>9 DEF TearsDown, GoesWrong, Fine
    <3> QED BY <3>1, RoomLeft
  <2> QED BY <2>1, <2>2, <2>3, <1>9 DEF TearsDown
<1>10. CASE Finishes
  <2>1. [calls EXCEPT ![session].status = "ended"] \in [Sessions -> SessionRows]
    BY RowSet
  <2>2. Mine.captured \in SUBSET Tools
    BY DEF Mine, SessionRows
  <2> QED BY <2>1, <2>2, <1>10, RoomLeft DEF Finishes, Mine, GoesWrong, Fine, Sessions, Tools
<1>11. CASE Stores
    BY <1>11, RoomLeft DEF Stores, Together, GoesWrong, Fine, Sessions, Kinds
<1>12. CASE TransfersCaller
    BY <1>12, RoomLeft DEF TransfersCaller, Ends, Sessions, Kinds
<1>13. CASE ReturnsToAgent
    BY <1>13, RoomLeft DEF ReturnsToAgent, Sessions, Kinds
<1>14. CASE Reports
    BY <1>14, RoomLeft DEF Reports, Ends, Sessions, Kinds
<1>15. CASE CallerHangsUp
    BY <1>15, RoomLeft DEF CallerHangsUp, Sessions, Kinds
<1>16. CASE AgentHangsUp
    BY <1>16, RoomLeft DEF AgentHangsUp, Over, GoesWrong, Fine, Sessions, Kinds
<1>17. ASSUME NEW t \in Tools, AgentCalls(t) PROVE RetellTypes'
  <2>1. \A k \in Kinds : [NoTool EXCEPT !.at = "sent", !.in = session, !.kind = k] \in ToolCalls
    BY DEF NoTool, ToolCalls, Sessions
  <2>2. PICK k \in Kinds : tool' = [tool EXCEPT ![t] = [NoTool EXCEPT !.at = "sent", !.in = session, !.kind = k]]
    BY <1>17 DEF AgentCalls
  <2>3. tool' \in [Tools -> ToolCalls]
    BY <2>1, <2>2
  <2> QED BY <2>3, <1>17 DEF AgentCalls
<1>18. ASSUME NEW t \in Tools, Refuses(t) PROVE RetellTypes'
  <2>1. tool' \in [Tools -> ToolCalls]
    BY <1>18, ToolSet DEF Refuses, Goes
  <2> QED BY <2>1, <1>18, RoomLeft DEF Refuses, Goes, Live, TransferTried, RowOf, Sessions, Tools
<1>19. ASSUME NEW t \in Tools, AsksToLeave(t) PROVE RetellTypes'
  <2>1. tool' \in [Tools -> ToolCalls]
    BY <1>19, ToolSet DEF AsksToLeave, Goes
  <2>2. tool[t].in \in Sessions
    BY DEF ToolCalls
  <2>3. tool[t].kind \in {"transfer", "end_call"}
    BY <1>19 DEF AsksToLeave
  <2>4. [calls EXCEPT ![tool[t].in].exit = tool[t].kind] \in [Sessions -> SessionRows]
    BY <2>2, <2>3, RowSet
  <2>5. calls' \in [Sessions -> SessionRows]
    BY <2>4, <1>19 DEF AsksToLeave
  <2> QED BY <2>1, <2>5, <1>19 DEF AsksToLeave
<1>20. ASSUME NEW t \in Tools, ReadsNotes(t) PROVE RetellTypes'
  <2>1. RowOf(t).captured \in SUBSET Tools
    BY DEF RowOf, ToolCalls, SessionRows
  <2>2. \A c \in ToolCalls, n \in SUBSET Tools : [c EXCEPT !.at = "merging", !.saw = n] \in ToolCalls
    BY DEF ToolCalls
  <2>3. tool' \in [Tools -> ToolCalls]
    BY <2>1, <2>2, <1>20 DEF ReadsNotes
  <2> QED BY <2>3, <1>20 DEF ReadsNotes
<1>21. ASSUME NEW t \in Tools, WritesNotes(t) PROVE RetellTypes'
  <2>1. tool[t].in \in Sessions /\ tool[t].saw \union {t} \in SUBSET Tools
    BY DEF ToolCalls
  <2>2. \A c \in ToolCalls : [c EXCEPT !.at = "saved", !.saw = {}] \in ToolCalls
    BY DEF ToolCalls
  <2>3. tool' \in [Tools -> ToolCalls]
    BY <2>2, <1>21 DEF WritesNotes
  <2>4. \A s \in Sessions, n \in SUBSET Tools : [calls EXCEPT ![s].captured = n] \in [Sessions -> SessionRows]
    BY RowSet
  <2>5. calls' \in [Sessions -> SessionRows]
    BY <2>1, <2>4, <1>21 DEF WritesNotes
  <2>6. luck' \in [raced : SUBSET Sessions, notes : SUBSET Tools, crossed : BOOLEAN, left : SUBSET Sessions]
    BY <1>21 DEF WritesNotes
  <2> QED BY <2>3, <2>5, <2>6, <1>21 DEF WritesNotes
<1>22. ASSUME NEW e \in Sessions, Claims(e) PROVE RetellTypes'
  <2>1. \A r \in SessionRows : [r EXCEPT !.claimed = TRUE, !.reason = TRUE] \in SessionRows
    BY DEF SessionRows
  <2>2. calls' \in [Sessions -> SessionRows]
    BY <2>1, <1>22 DEF Claims
  <2>3. hook' \in [Sessions -> Deliveries]
    BY <1>22 DEF Claims, At, Deliveries
  <2> QED BY <2>2, <2>3, <1>22 DEF Claims
<1>23. ASSUME NEW e \in Sessions, Duplicate(e) PROVE RetellTypes'
  <2>1. luck' \in [raced : SUBSET Sessions, notes : SUBSET Tools, crossed : BOOLEAN, left : SUBSET Sessions]
    BY <1>23 DEF Duplicate
  <2>2. post' \in [Sessions -> {"none", "owed", "acked"}]
    BY <1>23 DEF Duplicate
  <2> QED BY <2>1, <2>2, <1>23 DEF Duplicate
<1>24. ASSUME NEW e \in Sessions, Loads(e) PROVE RetellTypes'
  <2>1. ASSUME NEW i \in IF script = <<>> THEN {0} ELSE DOMAIN script
           PROVE  [at |-> "loaded", found |-> i, saw |-> IF i = 0 THEN <<>> ELSE script[i]] \in Deliveries
    BY DEF Deliveries
  <2>2. hook' \in [Sessions -> Deliveries]
    BY <2>1, <1>24 DEF Loads
  <2>3. luck' \in [raced : SUBSET Sessions, notes : SUBSET Tools, crossed : BOOLEAN, left : SUBSET Sessions]
    BY <1>24 DEF Loads
  <2> QED BY <2>2, <2>3, <1>24 DEF Loads
<1>25. ASSUME NEW e \in Sessions, Persists(e) PROVE RetellTypes'
  <2>1. hook[e].saw \in Seq(Sessions) /\ <<>> \in Seq(Sessions)
    BY DEF Deliveries
  <2>2. Appended(hook[e].saw, e) \in Seq(Sessions) /\ Appended(<<>>, e) \in Seq(Sessions)
    BY <2>1 DEF Appended
  <2>3. script' \in Seq(Seq(Sessions))
    <3>1. CASE hook[e].found = 0
      BY <2>2, <3>1, <1>25 DEF Persists
    <3>2. CASE hook[e].found # 0
      <4>1. script' = [script EXCEPT ![hook[e].found] = Appended(hook[e].saw, e)]
          BY <3>2, <1>25 DEF Persists
      <4> QED BY <4>1, <2>2, ChangedEntry
    <3> QED BY <3>1, <3>2
  <2>4. [NoHook EXCEPT !.at = "stored"] \in Deliveries
    BY <2>1 DEF NoHook, Deliveries
  <2>5. hook' \in [Sessions -> Deliveries]
    BY <2>4, <1>25 DEF Persists
  <2> QED BY <2>3, <2>5, <1>25 DEF Persists
<1>26. ASSUME NEW e \in Sessions, Processed(e) PROVE RetellTypes'
  <2>1. NoHook \in Deliveries
    BY DEF NoHook, Deliveries
  <2>2. hook' \in [Sessions -> Deliveries]
    BY <2>1, <1>26 DEF Processed
  <2>3. post' \in [Sessions -> {"none", "owed", "acked"}]
    BY <1>26 DEF Processed
  <2> QED BY <2>2, <2>3, <1>26 DEF Processed
<1>27. ASSUME NEW e \in Sessions, Released(e) PROVE RetellTypes'
  <2>1. NoHook \in Deliveries
    BY DEF NoHook, Deliveries
  <2>2. hook' \in [Sessions -> Deliveries]
    BY <2>1, <1>27 DEF Released
  <2>3. [calls EXCEPT ![e].claimed = FALSE] \in [Sessions -> SessionRows]
    BY RowSet
  <2> QED BY <2>2, <2>3, <1>27, RoomLeft DEF Released, GoesWrong
<1>28. ASSUME NEW e \in Sessions, DiesWorking(e) PROVE RetellTypes'
  <2>1. hook' \in [Sessions -> Deliveries]
    BY <1>28 DEF DiesWorking, At, Deliveries
  <2> QED BY <2>1, <1>28, RoomLeft DEF DiesWorking, GoesWrong
<1>29. CASE LeftAloneEnds
    BY <1>29 DEF LeftAloneEnds, Sessions
<1> QED BY <1>1, <1>2, <1>3, <1>4, <1>5, <1>6, <1>7, <1>8, <1>9, <1>10, <1>11, <1>12, <1>13,
    <1>14, <1>15, <1>16, <1>17, <1>18, <1>19, <1>20, <1>21, <1>22, <1>23, <1>24, <1>25, <1>26,
    <1>27, <1>28, <1>29
    DEF RetellNext, WorkerStep, ToolStep, HookStep, PostStep

(* A session's row is told that it is live, or ended; what else it says stays. *)
LEMMA StatusOnly ==
    ASSUME RetellTypes, Registers \/ Finishes
    PROVE  \A s \in Sessions :
              /\ calls'[s].exit = calls[s].exit /\ calls'[s].claimed = calls[s].claimed
              /\ calls'[s].captured = calls[s].captured
              /\ s # session => calls'[s] = calls[s]
<1>1. CASE Registers
    BY <1>1 DEF Registers, RetellTypes, SessionRows
<1>2. CASE Finishes
    BY <1>2 DEF Finishes, RetellTypes, SessionRows
<1> QED BY <1>1, <1>2

(* Only the first answer to `where do I go' is written (request_exit), and a second
   session starts where a first one asked for a transfer. *)
LEMMA WayGoesOn == ASSUME RetellTypes, WayInv, RetellNext PROVE WayInv'
<1> USE DEF RetellTypes, WayInv, retellVars, channels, worker, webhooks
<1>1. CASE Registers
    BY <1>1, StatusOnly
       DEF Registers, Ends, SessionRows, ToolCalls, Deliveries, Sessions, Kinds, Past
<1>2. CASE Connects
    BY <1>2 DEF Connects, Ends, SessionRows, ToolCalls, Deliveries, Sessions, Kinds, Past
<1>3. CASE Bridges
    BY <1>3
       DEF Bridges, Ends, GoesWrong, Fine, SessionRows, ToolCalls, Deliveries, Sessions,
           Kinds, Past
<1>4. CASE HearsAgentGo
    BY <1>4
       DEF HearsAgentGo, Leaves, Mine, Ends, GoesWrong, Fine, SessionRows, ToolCalls,
           Deliveries, Sessions, Kinds, Past
<1>5. CASE HearsCallerGo
    BY <1>5 DEF HearsCallerGo, Ends, SessionRows, ToolCalls, Deliveries, Sessions, Kinds, Past
<1>6. CASE Polls
    BY <1>6
       DEF Polls, Leaves, Mine, Ends, SessionRows, ToolCalls, Deliveries, Sessions, Kinds,
           Past
<1>7. CASE CapReached
    BY <1>7 DEF CapReached, Ends, SessionRows, ToolCalls, Deliveries, Sessions, Kinds, Past
<1>8. CASE GracePasses
    BY <1>8 DEF GracePasses, SessionRows, ToolCalls, Deliveries, Sessions, Kinds, Past
<1>9. CASE TearsDown
    BY <1>9
       DEF TearsDown, Over, LegToDrop, GoesWrong, Fine, SessionRows, ToolCalls, Deliveries,
           Sessions, Kinds,
           Past
<1>10. CASE Finishes
    BY <1>10
       DEF Finishes, Mine, GoesWrong, Fine, SessionRows, ToolCalls, Deliveries, Sessions,
           Kinds, Past
<1>11. CASE Stores
    BY <1>11
       DEF Stores, Together, GoesWrong, Fine, SessionRows, ToolCalls, Deliveries, Sessions,
           Kinds, Past
<1>12. CASE TransfersCaller
    BY <1>12 DEF TransfersCaller, Ends, SessionRows, ToolCalls, Deliveries, Sessions, Kinds, Past
<1>13. CASE ReturnsToAgent
    BY <1>13 DEF ReturnsToAgent, SessionRows, ToolCalls, Deliveries, Sessions, Kinds, Past
<1>14. CASE Reports
    BY <1>14 DEF Reports, Ends, SessionRows, ToolCalls, Deliveries, Sessions, Kinds, Past
<1>15. CASE CallerHangsUp
    BY <1>15 DEF CallerHangsUp, SessionRows, ToolCalls, Deliveries, Sessions, Kinds, Past
<1>16. CASE AgentHangsUp
    BY <1>16
       DEF AgentHangsUp, Over, GoesWrong, Fine, SessionRows, ToolCalls, Deliveries, Sessions,
           Kinds, Past
<1>17. ASSUME NEW t \in Tools, AgentCalls(t) PROVE WayInv'
    BY <1>17
       DEF AgentCalls, NoTool, Kinds, Bridged, SessionRows, ToolCalls, Deliveries, Sessions,
           Kinds, Past
<1>18. ASSUME NEW t \in Tools, Refuses(t) PROVE WayInv'
    BY <1>18
       DEF Refuses, Goes, Live, TransferTried, RowOf, SessionRows, ToolCalls, Deliveries,
           Sessions, Kinds, Past
<1>19. ASSUME NEW t \in Tools, AsksToLeave(t) PROVE WayInv'
    BY <1>19
       DEF AsksToLeave, Goes, Live, MayExit, RowOf, TransferTried, SessionRows, ToolCalls,
           Deliveries, Sessions, Kinds, Past
<1>20. ASSUME NEW t \in Tools, ReadsNotes(t) PROVE WayInv'
    BY <1>20
       DEF ReadsNotes, Live, RowOf, SessionRows, ToolCalls, Deliveries, Sessions, Kinds, Past
<1>21. ASSUME NEW t \in Tools, WritesNotes(t) PROVE WayInv'
    BY <1>21
       DEF WritesNotes, Crossed, RowOf, SessionRows, ToolCalls, Deliveries, Sessions, Kinds,
           Past
<1>22. ASSUME NEW e \in Sessions, Claims(e) PROVE WayInv'
    BY <1>22 DEF Claims, Unclaimed, At, SessionRows, ToolCalls, Deliveries, Sessions, Kinds, Past
<1>23. ASSUME NEW e \in Sessions, Duplicate(e) PROVE WayInv'
    BY <1>23
       DEF Duplicate, Unclaimed, Working, SessionRows, ToolCalls, Deliveries, Sessions, Kinds,
           Past
<1>24. ASSUME NEW e \in Sessions, Loads(e) PROVE WayInv'
    BY <1>24 DEF Loads, SessionRows, ToolCalls, Deliveries, Sessions, Kinds, Past
<1>25. ASSUME NEW e \in Sessions, Persists(e) PROVE WayInv'
    BY <1>25
       DEF Persists, NoHook, Appended, SessionRows, ToolCalls, Deliveries, Sessions, Kinds,
           Past
<1>26. ASSUME NEW e \in Sessions, Processed(e) PROVE WayInv'
    BY <1>26 DEF Processed, NoHook, SessionRows, ToolCalls, Deliveries, Sessions, Kinds, Past
<1>27. ASSUME NEW e \in Sessions, Released(e) PROVE WayInv'
    BY <1>27
       DEF Released, Working, GoesWrong, NoHook, SessionRows, ToolCalls, Deliveries, Sessions,
           Kinds, Past
<1>28. ASSUME NEW e \in Sessions, DiesWorking(e) PROVE WayInv'
    BY <1>28
       DEF DiesWorking, Working, GoesWrong, At, SessionRows, ToolCalls, Deliveries, Sessions,
           Kinds, Past
<1>29. CASE LeftAloneEnds
    BY <1>29 DEF LeftAloneEnds, Sessions, SessionRows, ToolCalls, Past
<1> QED BY <1>1, <1>2, <1>3, <1>4, <1>5, <1>6, <1>7, <1>8, <1>9, <1>10, <1>11, <1>12, <1>13,
    <1>14, <1>15, <1>16, <1>17, <1>18, <1>19, <1>20, <1>21, <1>22, <1>23, <1>24, <1>25, <1>26,
    <1>27, <1>28, <1>29
    DEF RetellNext, WorkerStep, ToolStep, HookStep, PostStep

(* A webhook falls due once in a session, when its conversation ends; it is claimed
   by one request (claim_event), and given back by the one that holds it. *)
LEMMA HooksGoOn == ASSUME RetellTypes, WayInv, HookInv, RetellNext PROVE HookInv'
<1> USE DEF RetellTypes, HookInv, retellVars, channels, worker, webhooks
<1>1. CASE Registers
    BY <1>1, StatusOnly
       DEF Registers, Ends, SessionRows, ToolCalls, Deliveries, Sessions, Kinds, Working
<1>2. CASE Connects
    BY <1>2 DEF Connects, Ends, SessionRows, ToolCalls, Deliveries, Sessions, Kinds, Working
<1>3. CASE Bridges
    BY <1>3
       DEF Bridges, Ends, GoesWrong, Fine, SessionRows, ToolCalls, Deliveries, Sessions,
           Kinds, Working
<1>4. CASE HearsAgentGo
    BY <1>4
       DEF HearsAgentGo, Leaves, Mine, Ends, GoesWrong, Fine, SessionRows, ToolCalls,
           Deliveries, Sessions, Kinds, Working
<1>5. CASE HearsCallerGo
    BY <1>5 DEF HearsCallerGo, Ends, SessionRows, ToolCalls, Deliveries, Sessions, Kinds, Working
<1>6. CASE Polls
    BY <1>6
       DEF Polls, Leaves, Mine, Ends, SessionRows, ToolCalls, Deliveries, Sessions, Kinds,
           Working
<1>7. CASE CapReached
    BY <1>7 DEF CapReached, Ends, SessionRows, ToolCalls, Deliveries, Sessions, Kinds, Working
<1>8. CASE GracePasses
    BY <1>8 DEF GracePasses, SessionRows, ToolCalls, Deliveries, Sessions, Kinds, Working
<1>9. CASE TearsDown
  <2>1. luck'.raced = luck.raced
    BY <1>9 DEF TearsDown
  <2>2. UNCHANGED <<calls, session, hook, script, done>> /\ flow = "teardown" /\ flow' = "finish"
    BY <1>9 DEF TearsDown
  <2>3. \/ UNCHANGED <<talk, post>>
        \/ talk = "on" /\ talk' = "over" /\ post' = [post EXCEPT ![session] = "owed"]
        \/ talk # "on" /\ UNCHANGED <<talk, post>>
    BY <1>9 DEF TearsDown, Over
  <2> QED BY <2>1, <2>2, <2>3 DEF Working, Sessions
<1>10. CASE Finishes
    BY <1>10, StatusOnly
       DEF Finishes, Mine, GoesWrong, Fine, SessionRows, ToolCalls, Deliveries, Sessions,
           Kinds, Working
<1>11. CASE Stores
    BY <1>11
       DEF Stores, Together, GoesWrong, Fine, SessionRows, ToolCalls, Deliveries, Sessions,
           Kinds, Working
<1>12. CASE TransfersCaller
    BY <1>12
       DEF TransfersCaller, Ends, SessionRows, ToolCalls, Deliveries, Sessions, Kinds, Working
<1>13. CASE ReturnsToAgent
  <2>1. post[2] = "none"
    BY <1>13 DEF ReturnsToAgent, WayInv
  <2>2. session' = 2 /\ post' = post /\ hook' = hook /\ calls' = calls /\ done' = done /\ luck' = luck /\ talk' = "none"
    BY <1>13 DEF ReturnsToAgent
  <2> QED BY <2>1, <2>2, <1>13 DEF Working, Sessions
<1>14. CASE Reports
    BY <1>14 DEF Reports, Ends, SessionRows, ToolCalls, Deliveries, Sessions, Kinds, Working
<1>15. CASE CallerHangsUp
    BY <1>15 DEF CallerHangsUp, SessionRows, ToolCalls, Deliveries, Sessions, Kinds, Working
<1>16. CASE AgentHangsUp
  <2>1. calls' = calls /\ hook' = hook /\ done' = done /\ luck' = luck /\ session' = session /\ flow' = flow
    BY <1>16 DEF AgentHangsUp
  <2>2. talk = "on" /\ talk' = "over" /\ post' = [post EXCEPT ![session] = "owed"]
    BY <1>16 DEF AgentHangsUp, Over
  <2>3. flow \notin {"start", "connect"}
    BY <2>2 DEF WayInv
  <2> QED BY <2>1, <2>2, <2>3 DEF Working, Sessions
<1>17. ASSUME NEW t \in Tools, AgentCalls(t) PROVE HookInv'
    BY <1>17
       DEF AgentCalls, NoTool, Kinds, Bridged, SessionRows, ToolCalls, Deliveries, Sessions,
           Kinds, Working
<1>18. ASSUME NEW t \in Tools, Refuses(t) PROVE HookInv'
    BY <1>18
       DEF Refuses, Goes, Live, TransferTried, RowOf, SessionRows, ToolCalls, Deliveries,
           Sessions, Kinds, Working
<1>19. ASSUME NEW t \in Tools, AsksToLeave(t) PROVE HookInv'
    BY <1>19
       DEF AsksToLeave, Goes, Live, MayExit, RowOf, TransferTried, SessionRows, ToolCalls,
           Deliveries, Sessions, Kinds, Working
<1>20. ASSUME NEW t \in Tools, ReadsNotes(t) PROVE HookInv'
    BY <1>20
       DEF ReadsNotes, Live, RowOf, SessionRows, ToolCalls, Deliveries, Sessions, Kinds,
           Working
<1>21. ASSUME NEW t \in Tools, WritesNotes(t) PROVE HookInv'
    BY <1>21
       DEF WritesNotes, Crossed, RowOf, SessionRows, ToolCalls, Deliveries, Sessions, Kinds,
           Working
<1>22. ASSUME NEW e \in Sessions, Claims(e) PROVE HookInv'
    BY <1>22
       DEF Claims, Unclaimed, At, SessionRows, ToolCalls, Deliveries, Sessions, Kinds, Working
<1>23. ASSUME NEW e \in Sessions, Duplicate(e) PROVE HookInv'
    BY <1>23
       DEF Duplicate, Unclaimed, Working, SessionRows, ToolCalls, Deliveries, Sessions, Kinds,
           Working
<1>24. ASSUME NEW e \in Sessions, Loads(e) PROVE HookInv'
    BY <1>24 DEF Loads, SessionRows, ToolCalls, Deliveries, Sessions, Kinds, Working
<1>25. ASSUME NEW e \in Sessions, Persists(e) PROVE HookInv'
    BY <1>25
       DEF Persists, NoHook, Appended, SessionRows, ToolCalls, Deliveries, Sessions, Kinds,
           Working
<1>26. ASSUME NEW e \in Sessions, Processed(e) PROVE HookInv'
    BY <1>26 DEF Processed, NoHook, SessionRows, ToolCalls, Deliveries, Sessions, Kinds, Working
<1>27. ASSUME NEW e \in Sessions, Released(e) PROVE HookInv'
    BY <1>27
       DEF Released, Working, GoesWrong, NoHook, SessionRows, ToolCalls, Deliveries, Sessions,
           Kinds, Working
<1>28. ASSUME NEW e \in Sessions, DiesWorking(e) PROVE HookInv'
    BY <1>28
       DEF DiesWorking, Working, GoesWrong, At, SessionRows, ToolCalls, Deliveries, Sessions,
           Kinds, Working
<1>29. CASE LeftAloneEnds
    BY <1>29 DEF LeftAloneEnds, Sessions, SessionRows, Deliveries, Working
<1> QED BY <1>1, <1>2, <1>3, <1>4, <1>5, <1>6, <1>7, <1>8, <1>9, <1>10, <1>11, <1>12, <1>13,
    <1>14, <1>15, <1>16, <1>17, <1>18, <1>19, <1>20, <1>21, <1>22, <1>23, <1>24, <1>25, <1>26,
    <1>27, <1>28, <1>29
    DEF RetellNext, WorkerStep, ToolStep, HookStep, PostStep

(* A request takes its copy of the transcript while another holds one only where
   history says so. *)
LEMMA ScriptGoesOn == ASSUME RetellTypes, OneScript, RetellNext PROVE OneScript'
<1> USE DEF RetellTypes, OneScript, retellVars, channels, worker, webhooks
<1>1. CASE Registers
    BY <1>1 DEF Registers, Ends, Sessions
<1>2. CASE Connects
    BY <1>2 DEF Connects, Ends, Sessions
<1>3. CASE Bridges
    BY <1>3 DEF Bridges, Ends, GoesWrong, Fine, Sessions
<1>4. CASE HearsAgentGo
    BY <1>4 DEF HearsAgentGo, Leaves, Mine, Ends, GoesWrong, Fine, Sessions
<1>5. CASE HearsCallerGo
    BY <1>5 DEF HearsCallerGo, Ends, Sessions
<1>6. CASE Polls
    BY <1>6 DEF Polls, Leaves, Mine, Ends, Sessions
<1>7. CASE CapReached
    BY <1>7 DEF CapReached, Ends, Sessions
<1>8. CASE GracePasses
    BY <1>8 DEF GracePasses, Sessions
<1>9. CASE TearsDown
    BY <1>9 DEF TearsDown, Over, LegToDrop, GoesWrong, Fine, Sessions
<1>10. CASE Finishes
    BY <1>10 DEF Finishes, Mine, GoesWrong, Fine, Sessions
<1>11. CASE Stores
    BY <1>11 DEF Stores, Together, GoesWrong, Fine, Sessions
<1>12. CASE TransfersCaller
    BY <1>12 DEF TransfersCaller, Ends, Sessions
<1>13. CASE ReturnsToAgent
    BY <1>13 DEF ReturnsToAgent, Sessions
<1>14. CASE Reports
    BY <1>14 DEF Reports, Ends, Sessions
<1>15. CASE CallerHangsUp
    BY <1>15 DEF CallerHangsUp, Sessions
<1>16. CASE AgentHangsUp
    BY <1>16 DEF AgentHangsUp, Over, GoesWrong, Fine, Sessions
<1>17. ASSUME NEW t \in Tools, AgentCalls(t) PROVE OneScript'
    BY <1>17 DEF AgentCalls, NoTool, Kinds, Bridged, Sessions
<1>18. ASSUME NEW t \in Tools, Refuses(t) PROVE OneScript'
    BY <1>18 DEF Refuses, Goes, Live, TransferTried, RowOf, Sessions
<1>19. ASSUME NEW t \in Tools, AsksToLeave(t) PROVE OneScript'
    BY <1>19 DEF AsksToLeave, Goes, Live, MayExit, RowOf, TransferTried, Sessions
<1>20. ASSUME NEW t \in Tools, ReadsNotes(t) PROVE OneScript'
    BY <1>20 DEF ReadsNotes, Live, RowOf, Sessions
<1>21. ASSUME NEW t \in Tools, WritesNotes(t) PROVE OneScript'
    BY <1>21 DEF WritesNotes, Crossed, RowOf, Sessions
<1>22. ASSUME NEW e \in Sessions, Claims(e) PROVE OneScript'
    BY <1>22 DEF Claims, Unclaimed, At, Sessions
<1>23. ASSUME NEW e \in Sessions, Duplicate(e) PROVE OneScript'
    BY <1>23 DEF Duplicate, Unclaimed, Working, Sessions
<1>24. ASSUME NEW e \in Sessions, Loads(e) PROVE OneScript'
  <2>1. PICK i \in IF script = <<>> THEN {0} ELSE DOMAIN script :
           hook' = [hook EXCEPT ![e] = [at |-> "loaded", found |-> i, saw |-> IF i = 0 THEN <<>> ELSE script[i]]]
    BY <1>24 DEF Loads
  <2>2. script' = script
    BY <1>24 DEF Loads
  <2>3. ~luck'.crossed => ~luck.crossed /\ \A f \in Sessions \ {e} : hook[f].at # "loaded"
    BY <1>24 DEF Loads
  <2>4. ~luck'.crossed => (i = 0 /\ script = <<>>) \/ (i = 1 /\ Len(script) = 1)
    <3>1. Len(script) \in Nat /\ DOMAIN script = 1..Len(script) /\ (~luck.crossed => Len(script) =< 1) BY DEF OneScript
    <3>2. CASE script = <<>> BY <3>2
    <3>3. CASE script # <<>>
      <4>1. i \in 1..Len(script) BY <3>1, <3>3
      <4> QED BY <4>1, <3>1, <2>3
    <3> QED BY <3>2, <3>3
  <2>5. hook'[e] = [at |-> "loaded", found |-> i, saw |-> IF i = 0 THEN <<>> ELSE script[i]]
    BY <2>1
  <2>6. \A f \in Sessions \ {e} : hook'[f] = hook[f]
    BY <2>1
  <2> QED BY <2>2, <2>3, <2>4, <2>5, <2>6
<1>25. ASSUME NEW e \in Sessions, Persists(e) PROVE OneScript'
    BY <1>25 DEF Persists, NoHook, Appended, Sessions
<1>26. ASSUME NEW e \in Sessions, Processed(e) PROVE OneScript'
    BY <1>26 DEF Processed, NoHook, Sessions
<1>27. ASSUME NEW e \in Sessions, Released(e) PROVE OneScript'
    BY <1>27 DEF Released, Working, GoesWrong, NoHook, Sessions
<1>28. ASSUME NEW e \in Sessions, DiesWorking(e) PROVE OneScript'
    BY <1>28 DEF DiesWorking, Working, GoesWrong, At, Sessions
<1>29. CASE LeftAloneEnds
    BY <1>29 DEF LeftAloneEnds, Sessions, Deliveries
<1> QED BY <1>1, <1>2, <1>3, <1>4, <1>5, <1>6, <1>7, <1>8, <1>9, <1>10, <1>11, <1>12, <1>13,
    <1>14, <1>15, <1>16, <1>17, <1>18, <1>19, <1>20, <1>21, <1>22, <1>23, <1>24, <1>25, <1>26,
    <1>27, <1>28, <1>29
    DEF RetellNext, WorkerStep, ToolStep, HookStep, PostStep

(* What a request appends it appends to the latest transcript (persist_ended). *)
LEMMA PartsGoOn == ASSUME RetellTypes, HookInv, OneScript, PartsInv, RetellNext PROVE PartsInv'
<1> USE DEF RetellTypes, PartsInv, retellVars, channels, worker, webhooks
<1>1. CASE Registers
  <2>1. hook' = hook /\ done' = done /\ script' = script /\ luck' = luck /\ failed' = failed
    BY <1>1 DEF Registers
  <2>2. \A s \in Sessions : calls'[s].claimed = calls[s].claimed
    BY <1>1, StatusOnly
  <2> QED BY <2>1, <2>2 DEF InTranscript
<1>2. CASE Connects
    BY <1>2 DEF Connects, Ends, Sessions, SessionRows, InTranscript
<1>3. CASE Bridges
  <2>1. hook' = hook /\ calls' = calls /\ done' = done /\ script' = script /\ luck' = luck
    BY <1>3 DEF Bridges
  <2>2. failed' = 0 => failed = 0
    BY <1>3 DEF Bridges, GoesWrong, Fine
  <2> QED BY <2>1, <2>2 DEF InTranscript
<1>4. CASE HearsAgentGo
  <2>1. hook' = hook /\ calls' = calls /\ done' = done /\ script' = script /\ luck' = luck
    BY <1>4 DEF HearsAgentGo
  <2>2. failed' = 0 => failed = 0
    BY <1>4 DEF HearsAgentGo, GoesWrong, Fine
  <2> QED BY <2>1, <2>2 DEF InTranscript
<1>5. CASE HearsCallerGo
    BY <1>5 DEF HearsCallerGo, Ends, Sessions, SessionRows, InTranscript
<1>6. CASE Polls
    BY <1>6 DEF Polls, Leaves, Mine, Ends, Sessions, SessionRows, InTranscript
<1>7. CASE CapReached
    BY <1>7 DEF CapReached, Ends, Sessions, SessionRows, InTranscript
<1>8. CASE GracePasses
    BY <1>8 DEF GracePasses, Sessions, SessionRows, InTranscript
<1>9. CASE TearsDown
  <2>1. UNCHANGED <<calls, hook, script, done>> /\ luck'.crossed = luck.crossed
    BY <1>9 DEF TearsDown
  <2>2. failed' = 0 => failed = 0
    BY <1>9 DEF TearsDown, GoesWrong, Fine
  <2> QED BY <2>1, <2>2 DEF InTranscript
<1>10. CASE Finishes
    BY <1>10 DEF Finishes, Mine, GoesWrong, Fine, Sessions, SessionRows, InTranscript
<1>11. CASE Stores
    BY <1>11 DEF Stores, Together, GoesWrong, Fine, Sessions, SessionRows, InTranscript
<1>12. CASE TransfersCaller
    BY <1>12 DEF TransfersCaller, Ends, Sessions, SessionRows, InTranscript
<1>13. CASE ReturnsToAgent
    BY <1>13 DEF ReturnsToAgent, Sessions, SessionRows, InTranscript
<1>14. CASE Reports
    BY <1>14 DEF Reports, Ends, Sessions, SessionRows, InTranscript
<1>15. CASE CallerHangsUp
    BY <1>15 DEF CallerHangsUp, Sessions, SessionRows, InTranscript
<1>16. CASE AgentHangsUp
    BY <1>16 DEF AgentHangsUp, Over, GoesWrong, Fine, Sessions, SessionRows, InTranscript
<1>17. ASSUME NEW t \in Tools, AgentCalls(t) PROVE PartsInv'
    BY <1>17 DEF AgentCalls, NoTool, Kinds, Bridged, Sessions, SessionRows, InTranscript
<1>18. ASSUME NEW t \in Tools, Refuses(t) PROVE PartsInv'
    BY <1>18 DEF Refuses, Goes, Live, TransferTried, RowOf, Sessions, SessionRows, InTranscript
<1>19. ASSUME NEW t \in Tools, AsksToLeave(t) PROVE PartsInv'
    BY <1>19
       DEF AsksToLeave, Goes, Live, MayExit, RowOf, TransferTried, Sessions, SessionRows,
           InTranscript
<1>20. ASSUME NEW t \in Tools, ReadsNotes(t) PROVE PartsInv'
    BY <1>20 DEF ReadsNotes, Live, RowOf, Sessions, SessionRows, InTranscript
<1>21. ASSUME NEW t \in Tools, WritesNotes(t) PROVE PartsInv'
    BY <1>21 DEF WritesNotes, Crossed, RowOf, Sessions, SessionRows, InTranscript
<1>22. ASSUME NEW e \in Sessions, Claims(e) PROVE PartsInv'
    BY <1>22 DEF Claims, Unclaimed, At, Sessions, SessionRows, InTranscript
<1>23. ASSUME NEW e \in Sessions, Duplicate(e) PROVE PartsInv'
    BY <1>23 DEF Duplicate, Unclaimed, Working, Sessions, SessionRows, InTranscript
<1>24. ASSUME NEW e \in Sessions, Loads(e) PROVE PartsInv'
  <2>1. calls' = calls /\ done' = done /\ script' = script /\ failed' = failed /\ (luck.crossed => luck'.crossed)
    BY <1>24 DEF Loads
  <2>2. hook[e].at = "claimed" /\ hook'[e].at = "loaded" /\ \A f \in Sessions \ {e} : hook'[f] = hook[f]
    BY <1>24 DEF Loads
  <2>3. \A f \in Sessions : InTranscript(f)' <=> InTranscript(f) BY <2>1 DEF InTranscript
  <2>4. \A f \in Sessions : /\ hook'[f].at = "stored" => hook[f].at = "stored"
                            /\ hook'[f].at \in {"claimed", "loaded"} => hook[f].at \in {"claimed", "loaded"}
      BY <2>2
  <2> QED BY <2>1, <2>3, <2>4
<1>25. ASSUME NEW e \in Sessions, Persists(e) PROVE PartsInv'
  <2>1. hook[e].at = "loaded" /\ UNCHANGED <<calls, done, failed, luck>>
    BY <1>25 DEF Persists
  <2>2. hook'[e].at = "stored" /\ \A f \in Sessions \ {e} : hook'[f] = hook[f]
    BY <1>25 DEF Persists, NoHook
  <2>3. SUFFICES ASSUME ~luck.crossed PROVE PartsInv'
    BY <2>1
  <2>4. \A f \in Sessions : InTranscript(f)' <=> f = e \/ InTranscript(f)
    <3>1. CASE hook[e].found = 0
      <4>1. script = <<>> BY <3>1, <2>1, <2>3 DEF OneScript
      <4>2. Appended(<<>>, e) = <<e>> BY DEF Appended
      <4>3. script' = Append(script, <<e>>) BY <3>1, <4>2, <1>25 DEF Persists
      <4>4. script' = <<<<e>>>> BY <4>1, <4>3
      <4> QED BY <4>1, <4>4 DEF InTranscript
    <3>2. CASE hook[e].found = 1
      <4>1. Len(script) = 1 /\ hook[e].saw = script[1] /\ script[1] \in Seq(Sessions)
          BY <3>2, <2>1, <2>3 DEF OneScript
      <4>2. script' = [script EXCEPT ![1] = Appended(script[1], e)]
          BY <3>2, <4>1, <1>25 DEF Persists
      <4>3. DOMAIN script = {1} /\ DOMAIN script' = {1} /\ script'[1] = Appended(script[1], e)
          BY <4>1, <4>2
      <4>4. \A f \in Sessions : (\E j \in DOMAIN script'[1] : script'[1][j] = f)
                              <=> f = e \/ \E j \in DOMAIN script[1] : script[1][j] = f
        <5> DEFINE p == script[1]
        <5>1. p \in Seq(Sessions) BY <4>1
        <5>2. CASE p # <<>> /\ p[Len(p)] = e
          <6>1. Appended(p, e) = p BY <5>2 DEF Appended
          <6>2. Len(p) \in DOMAIN p BY <5>1, <5>2
          <6> QED BY <6>1, <6>2, <5>2, <4>3
        <5>3. CASE ~(p # <<>> /\ p[Len(p)] = e)
          <6>1. Appended(p, e) = Append(p, e) BY <5>3 DEF Appended
          <6>2. /\ DOMAIN Append(p, e) = DOMAIN p \union {Len(p) + 1}
                /\ Append(p, e)[Len(p) + 1] = e
                /\ \A j \in DOMAIN p : Append(p, e)[j] = p[j]
              BY <5>1
          <6> QED BY <6>1, <6>2, <4>3
        <5> QED BY <5>2, <5>3
      <4>5. \A f \in Sessions : InTranscript(f) <=> \E j \in DOMAIN script[1] : script[1][j] = f
          BY <4>3 DEF InTranscript
      <4>6. \A f \in Sessions : InTranscript(f)' <=> \E j \in DOMAIN script'[1] : script'[1][j] = f
          BY <4>3 DEF InTranscript
      <4> QED BY <4>4, <4>5, <4>6
    <3> QED BY <3>1, <3>2, <2>1, <2>3 DEF OneScript
  <2>5. failed = 0 => ~InTranscript(e)
    BY <2>1, <2>3
  <2>6. failed = 0 => script' \in {<<>>, <<<<1>>>>, <<<<2>>>>, <<<<1, 2>>>>, <<<<2, 1>>>>}
    <3> SUFFICES ASSUME failed = 0
                 PROVE  script' \in {<<<<1>>>>, <<<<2>>>>, <<<<1, 2>>>>, <<<<2, 1>>>>}
        OBVIOUS
    <3>1. CASE hook[e].found = 0
      <4>1. script = <<>> BY <3>1, <2>1, <2>3 DEF OneScript
      <4>2. Appended(<<>>, e) = <<e>> BY DEF Appended
      <4>3. script' = Append(script, <<e>>) BY <3>1, <4>2, <1>25 DEF Persists
      <4>4. script' = <<<<e>>>> BY <4>1, <4>3
      <4> QED BY <4>4 DEF Sessions
    <3>2. CASE hook[e].found = 1
      <4>1. Len(script) = 1 /\ hook[e].saw = script[1]
          BY <3>2, <2>1, <2>3 DEF OneScript
      <4>2. script' = [script EXCEPT ![1] = Appended(script[1], e)]
          BY <3>2, <4>1, <1>25 DEF Persists
      <4>3. \E f \in Sessions : f # e /\ script = <<<<f>>>>
        <5>1. script \in {<<<<1>>>>, <<<<2>>>>, <<<<1, 2>>>>, <<<<2, 1>>>>}
            BY <4>1, <2>3
        <5>2. \A j \in DOMAIN script[1] : script[1][j] # e
            BY <4>1, <2>3, <2>5 DEF InTranscript
        <5>3. \A f, g \in Sessions : f # g /\ script = <<<<f, g>>>> => FALSE
          <6> SUFFICES ASSUME NEW f \in Sessions, NEW g \in Sessions, f # g, script = <<<<f, g>>>>
                       PROVE  FALSE
              OBVIOUS
          <6>1. script[1] = <<f, g>> OBVIOUS
          <6>2. script[1][1] = f /\ script[1][2] = g /\ 1 \in DOMAIN script[1] /\ 2 \in DOMAIN script[1] BY <6>1
          <6>3. e = f \/ e = g BY DEF Sessions
          <6> QED BY <6>2, <6>3, <5>2
        <5>4. script # <<<<e>>>> BY <5>2
        <5> QED BY <5>1, <5>3, <5>4 DEF Sessions
      <4>4. PICK f \in Sessions : f # e /\ script = <<<<f>>>> BY <4>3
      <4>5. script' = <<<<f, e>>>> BY <4>2, <4>4 DEF Appended
      <4> QED BY <4>4, <4>5 DEF Sessions
    <3> QED BY <3>1, <3>2, <2>1, <2>3 DEF OneScript
  <2>7. calls[e].claimed
    BY <2>1 DEF HookInv, Working
  <2> QED BY <2>1, <2>2, <2>3, <2>4, <2>5, <2>6, <2>7
<1>26. ASSUME NEW e \in Sessions, Processed(e) PROVE PartsInv'
    BY <1>26 DEF Processed, NoHook, Sessions, SessionRows, InTranscript
<1>27. ASSUME NEW e \in Sessions, Released(e) PROVE PartsInv'
    BY <1>27 DEF Released, Working, GoesWrong, NoHook, Sessions, SessionRows, InTranscript
<1>28. ASSUME NEW e \in Sessions, DiesWorking(e) PROVE PartsInv'
    BY <1>28 DEF DiesWorking, Working, GoesWrong, At, Sessions, SessionRows, InTranscript
<1>29. CASE LeftAloneEnds
    BY <1>29 DEF LeftAloneEnds, Sessions, SessionRows, InTranscript
<1> QED BY <1>1, <1>2, <1>3, <1>4, <1>5, <1>6, <1>7, <1>8, <1>9, <1>10, <1>11, <1>12, <1>13,
    <1>14, <1>15, <1>16, <1>17, <1>18, <1>19, <1>20, <1>21, <1>22, <1>23, <1>24, <1>25, <1>26,
    <1>27, <1>28, <1>29
    DEF RetellNext, WorkerStep, ToolStep, HookStep, PostStep

(* merge_capture writes back what it read: a note is in every copy made after it was
   saved, and finish() snapshots the row. *)
LEMMA NotesGoOn == ASSUME RetellTypes, WayInv, NotesInv, RetellNext PROVE NotesInv'
<1> USE DEF RetellTypes, NotesInv, retellVars, channels, worker, webhooks
<1>1. CASE Registers
    BY <1>1, StatusOnly DEF Registers, Ends, SessionRows, ToolCalls, Deliveries, Sessions, Kinds
<1>2. CASE Connects
    BY <1>2 DEF Connects, Ends, SessionRows, ToolCalls, Deliveries, Sessions, Kinds
<1>3. CASE Bridges
    BY <1>3
       DEF Bridges, Ends, GoesWrong, Fine, SessionRows, ToolCalls, Deliveries, Sessions, Kinds
<1>4. CASE HearsAgentGo
    BY <1>4
       DEF HearsAgentGo, Leaves, Mine, Ends, GoesWrong, Fine, SessionRows, ToolCalls,
           Deliveries, Sessions, Kinds
<1>5. CASE HearsCallerGo
    BY <1>5 DEF HearsCallerGo, Ends, SessionRows, ToolCalls, Deliveries, Sessions, Kinds
<1>6. CASE Polls
    BY <1>6 DEF Polls, Leaves, Mine, Ends, SessionRows, ToolCalls, Deliveries, Sessions, Kinds
<1>7. CASE CapReached
    BY <1>7 DEF CapReached, Ends, SessionRows, ToolCalls, Deliveries, Sessions, Kinds
<1>8. CASE GracePasses
    BY <1>8 DEF GracePasses, SessionRows, ToolCalls, Deliveries, Sessions, Kinds
<1>9. CASE TearsDown
    BY <1>9 DEF TearsDown, Over, LegToDrop, GoesWrong, Fine, SessionRows, ToolCalls,
                Deliveries, Sessions, Kinds
<1>10. CASE Finishes
  <2>1. CASE failed' = failed + 1
    BY <2>1, <1>10, StatusOnly
       DEF Finishes, Mine, GoesWrong, Fine, SessionRows, ToolCalls, Deliveries, Sessions,
           Kinds
  <2>2. CASE calls' = [calls EXCEPT ![session].status = "ended"] /\ snap' = Mine.captured /\ Fine
    BY <2>2, <1>10, StatusOnly
       DEF Finishes, Mine, GoesWrong, Fine, SessionRows, ToolCalls, Deliveries, Sessions,
           Kinds
  <2> QED BY <2>1, <2>2, <1>10 DEF Finishes, GoesWrong
<1>11. CASE Stores
  <2>1. CASE failed' = failed + 1
    BY <2>1, <1>11
       DEF Stores, Together, GoesWrong, Fine, SessionRows, ToolCalls, Deliveries, Sessions,
           Kinds
  <2>2. CASE kept' = Together(snap) /\ Fine
    BY <2>2, <1>11
       DEF Stores, Together, GoesWrong, Fine, SessionRows, ToolCalls, Deliveries, Sessions,
           Kinds, WayInv
  <2> QED BY <2>1, <2>2, <1>11 DEF Stores, GoesWrong
<1>12. CASE TransfersCaller
    BY <1>12 DEF TransfersCaller, Ends, SessionRows, ToolCalls, Deliveries, Sessions, Kinds
<1>13. CASE ReturnsToAgent
  <2>1. session = 1 /\ flow = "ring" /\ session' = 2 /\ flow' = "start"
    BY <1>13 DEF ReturnsToAgent, WayInv
  <2>2. calls' = calls /\ tool' = tool /\ failed' = failed /\ luck' = luck /\ kept' = kept
    BY <1>13 DEF ReturnsToAgent
  <2>3. \A t \in Tools : tool[t].in < session'
    <3> SUFFICES ASSUME NEW t \in Tools PROVE tool[t].in < session' OBVIOUS
    <3>1. tool[t].in \in Sessions /\ tool[t].in =< session BY DEF ToolCalls, WayInv
    <3> QED BY <3>1, <2>1 DEF Sessions
  <2>4. failed = 0 => \A t \in Tools \ luck.notes : tool[t].at = "saved" => t \in kept
    BY <2>1
  <2> QED BY <2>1, <2>2, <2>3, <2>4
<1>14. CASE Reports
    BY <1>14 DEF Reports, Ends, SessionRows, ToolCalls, Deliveries, Sessions, Kinds
<1>15. CASE CallerHangsUp
    BY <1>15 DEF CallerHangsUp, SessionRows, ToolCalls, Deliveries, Sessions, Kinds
<1>16. CASE AgentHangsUp
    BY <1>16
       DEF AgentHangsUp, Over, GoesWrong, Fine, SessionRows, ToolCalls, Deliveries, Sessions,
           Kinds
<1>17. ASSUME NEW t \in Tools, AgentCalls(t) PROVE NotesInv'
    BY <1>17
       DEF AgentCalls, NoTool, Kinds, Bridged, SessionRows, ToolCalls, Deliveries, Sessions,
           Kinds
<1>18. ASSUME NEW t \in Tools, Refuses(t) PROVE NotesInv'
    BY <1>18
       DEF Refuses, Goes, Live, TransferTried, RowOf, SessionRows, ToolCalls, Deliveries,
           Sessions, Kinds
<1>19. ASSUME NEW t \in Tools, AsksToLeave(t) PROVE NotesInv'
    BY <1>19
       DEF AsksToLeave, Goes, Live, MayExit, RowOf, TransferTried, SessionRows, ToolCalls,
           Deliveries, Sessions, Kinds
<1>20. ASSUME NEW t \in Tools, ReadsNotes(t) PROVE NotesInv'
    BY <1>20 DEF ReadsNotes, Live, RowOf, SessionRows, ToolCalls, Deliveries, Sessions, Kinds
<1>21. ASSUME NEW t \in Tools, WritesNotes(t) PROVE NotesInv'
  <2>1. tool[t].in \in Sessions /\ tool[t].in =< session
    BY DEF ToolCalls, WayInv
  <2>2. \A s \in Sessions : calls'[s].status = calls[s].status /\ (s # tool[t].in => calls'[s] = calls[s])
    BY <1>21 DEF WritesNotes, SessionRows
  <2>3. calls'[tool[t].in].captured = tool[t].saw \union {t}
    BY <2>1, <1>21 DEF WritesNotes, SessionRows
  <2>4. \A u \in Tools : IF u = t THEN tool'[u].at = "saved" /\ tool'[u].in = tool[u].in ELSE tool'[u] = tool[u]
    BY <1>21 DEF WritesNotes, ToolCalls
  <2>5. luck.notes \subseteq luck'.notes /\ (t \notin luck'.notes => ~Crossed(t) /\ RowOf(t).status = "live")
    BY <1>21 DEF WritesNotes
  <2>6. UNCHANGED <<session, flow, failed, snap, kept>>
    BY <1>21 DEF WritesNotes
  <2>7. failed = 0 /\ t \notin luck'.notes => session = tool[t].in /\ flow \notin {"store", "ring", "report", "done"}
    BY <2>1, <2>5 DEF RowOf, Sessions
  <2>8. tool[t].at = "merging"
    BY <1>21 DEF WritesNotes
  <2>9. ASSUME failed' = 0, NEW u \in Tools \ luck'.notes, tool'[u].at = "saved"
        PROVE  /\ u \in calls'[tool'[u].in].captured
               /\ \A v \in Tools : tool'[v].at = "merging" /\ tool'[v].in = tool'[u].in => u \in tool'[v].saw
               /\ flow' = "store" /\ tool'[u].in = session' => u \in snap'
               /\ tool'[u].in < session' \/ flow' \in {"ring", "report", "done"} => u \in kept'
    <3>1. CASE u = t
      <4>1. tool'[t].in = tool[t].in /\ t \notin luck'.notes /\ failed = 0
          BY <3>1, <2>4, <2>6, <2>9
      <4>2. t \in calls'[tool'[t].in].captured BY <4>1, <2>3
      <4>3. ~\E v \in Tools : tool'[v].at = "merging" /\ tool'[v].in = tool[t].in
        <5> SUFFICES ASSUME NEW v \in Tools, tool'[v].at = "merging", tool'[v].in = tool[t].in
                     PROVE  FALSE
            OBVIOUS
        <5>1. v # t /\ tool'[v] = tool[v] BY <2>4
        <5> QED BY <5>1, <4>1, <2>5 DEF Crossed
      <4>4. session' = tool[t].in /\ flow' \notin {"store", "ring", "report", "done"}
          BY <4>1, <2>6, <2>7
      <4>5. ~(tool'[t].in < session') BY <4>1, <4>4, <2>1 DEF Sessions
      <4> QED BY <3>1, <4>1, <4>2, <4>3, <4>4, <4>5
    <3>2. CASE u # t
      <4>1. tool'[u] = tool[u] /\ tool[u].in \in Sessions /\ u \notin luck.notes /\ tool[u].at = "saved"
          BY <3>2, <2>9, <2>4, <2>5 DEF ToolCalls
      <4>2. u \in calls[tool[u].in].captured /\ (tool[u].in = tool[t].in => u \in tool[t].saw)
          BY <4>1, <2>9, <2>6, <2>8
      <4>3. u \in calls'[tool'[u].in].captured
          BY <4>1, <4>2, <2>2, <2>3
      <4> QED BY <4>1, <4>3, <2>4, <2>6, <2>9
    <3> QED BY <3>1, <3>2
  <2>10. \A u \in Tools : tool'[u].in = tool[u].in /\ (tool'[u].at # "idle" => tool[u].at # "idle")
      BY <2>4, <2>8
  <2>11. session \in Sessions OBVIOUS
  <2>12. \A u \in Tools : tool'[u].at # "idle" =>
             tool'[u].in < session' \/ flow' \notin {"start", "connect", "bridge"}
      BY <2>6, <2>10
  <2>13. 1 \in Sessions /\ 2 \in Sessions /\ session \in Sessions /\ \A s \in Sessions : calls'[s].status = calls[s].status
      BY <2>2 DEF Sessions
  <2>14. /\ flow' = "start" => calls'[session'].status # "live"
         /\ session' = 1 => calls'[2].status # "live"
         /\ failed' = 0 => /\ flow' \in {"store", "ring", "report", "done"} => calls'[session'].status # "live"
                           /\ session' = 2 => calls'[1].status # "live"
      BY <2>6, <2>13
  <2> QED BY <2>9, <2>12, <2>14
<1>22. ASSUME NEW e \in Sessions, Claims(e) PROVE NotesInv'
    BY <1>22 DEF Claims, Unclaimed, At, SessionRows, ToolCalls, Deliveries, Sessions, Kinds
<1>23. ASSUME NEW e \in Sessions, Duplicate(e) PROVE NotesInv'
    BY <1>23
       DEF Duplicate, Unclaimed, Working, SessionRows, ToolCalls, Deliveries, Sessions, Kinds
<1>24. ASSUME NEW e \in Sessions, Loads(e) PROVE NotesInv'
    BY <1>24 DEF Loads, SessionRows, ToolCalls, Deliveries, Sessions, Kinds
<1>25. ASSUME NEW e \in Sessions, Persists(e) PROVE NotesInv'
    BY <1>25 DEF Persists, NoHook, Appended, SessionRows, ToolCalls, Deliveries, Sessions, Kinds
<1>26. ASSUME NEW e \in Sessions, Processed(e) PROVE NotesInv'
    BY <1>26 DEF Processed, NoHook, SessionRows, ToolCalls, Deliveries, Sessions, Kinds
<1>27. ASSUME NEW e \in Sessions, Released(e) PROVE NotesInv'
    BY <1>27
       DEF Released, Working, GoesWrong, NoHook, SessionRows, ToolCalls, Deliveries, Sessions,
           Kinds
<1>28. ASSUME NEW e \in Sessions, DiesWorking(e) PROVE NotesInv'
    BY <1>28
       DEF DiesWorking, Working, GoesWrong, At, SessionRows, ToolCalls, Deliveries, Sessions,
           Kinds
<1>29. CASE LeftAloneEnds
    BY <1>29 DEF LeftAloneEnds, Sessions, SessionRows, ToolCalls
<1> QED BY <1>1, <1>2, <1>3, <1>4, <1>5, <1>6, <1>7, <1>8, <1>9, <1>10, <1>11, <1>12, <1>13,
    <1>14, <1>15, <1>16, <1>17, <1>18, <1>19, <1>20, <1>21, <1>22, <1>23, <1>24, <1>25, <1>26,
    <1>27, <1>28, <1>29
    DEF RetellNext, WorkerStep, ToolStep, HookStep, PostStep

(* A call begins without a session, a note or a webhook. *)
LEMMA RetellBegins == RetellInit => RetellInv
<1> SUFFICES ASSUME RetellInit PROVE RetellInv OBVIOUS
<1> USE DEF RetellInit, StartsAt
<1>1. NoCall \in SessionRows /\ NoHook \in Deliveries /\ NoTool \in ToolCalls
    BY DEF NoCall, NoHook, NoTool, SessionRows, Deliveries, ToolCalls, Sessions, Kinds
<1>2. RetellTypes
    BY <1>1, EventsAreCounted DEF RetellTypes, Sessions
<1>3. WayInv /\ HookInv
    BY DEF WayInv, HookInv, NoCall, NoTool, NoHook, Sessions, Past, Working
<1>4. OneScript /\ PartsInv
  <2>1. \A e \in Sessions : hook[e].at = "idle" /\ e \notin done /\ ~InTranscript(e)
      BY DEF NoHook, InTranscript
  <2>2. Len(script) = 0 OBVIOUS
  <2> QED BY <2>1, <2>2 DEF OneScript, PartsInv
<1>5. NotesInv
    BY DEF NotesInv, NoCall, NoTool, Sessions
<1> QED BY <1>2, <1>3, <1>4, <1>5 DEF RetellInv

(* Every step, and every step of others, keeps the whole invariant. *)
LEMMA RetellGoesOn == RetellInv /\ [RetellNext]_retellVars => RetellInv'
<1>1. ASSUME RetellInv, RetellNext PROVE RetellInv'
    BY <1>1, TypesGoOn, WayGoesOn, HooksGoOn, ScriptGoesOn, PartsGoOn, NotesGoOn DEF RetellInv
<1>2. ASSUME RetellInv, UNCHANGED retellVars PROVE RetellInv'
  <2> USE <1>2 DEF retellVars, channels, worker, webhooks
  <2>1. RetellTypes' /\ WayInv' BY DEF RetellInv, RetellTypes, WayInv
  <2>2. HookInv' BY DEF RetellInv, HookInv, Working
  <2>3. OneScript' /\ PartsInv' BY DEF RetellInv, OneScript, PartsInv, InTranscript
  <2>4. NotesInv' BY DEF RetellInv, NotesInv
  <2> QED BY <2>1, <2>2, <2>3, <2>4 DEF RetellInv
<1> QED BY <1>1, <1>2

(* For any number of function calls and faults: the row says what the agent asked for
   first, one request works on a webhook, and a note nothing crossed is in every
   copy taken after it. *)
THEOREM RetellInvariant == RetellSpec => []RetellInv
BY RetellBegins, RetellGoesOn, PTL DEF RetellSpec

(* What is promised of a call is in the invariant. *)
LEMMA TheCallFollows == RetellInv => AskedAndHeard
<1> SUFFICES ASSUME RetellInv PROVE AskedAndHeard OBVIOUS
<1>1. LeavesAsAsked
    BY DEF RetellInv, WayInv, LeavesAsAsked
<1>2. \A e \in Sessions :
          /\ post[e] = "acked" => e \in done \/ Working(e) \/ hook[e].at = "dead" \/ e \in luck.raced
          /\ e \in done /\ ~luck.crossed => InTranscript(e)
    BY DEF RetellInv, HookInv, PartsInv
<1>3. failed = 0 /\ ~luck.crossed =>
          script \in {<<>>, <<<<1>>>>, <<<<2>>>>, <<<<1, 2>>>>, <<<<2, 1>>>>}
    BY DEF RetellInv, PartsInv
<1>4. \A t \in Tools \ luck.notes :
          tool[t].at = "saved" /\ failed = 0
              /\ (tool[t].in < session \/ flow \in {"ring", "report", "done"}) => t \in kept
    BY DEF RetellInv, NotesInv
<1> QED BY <1>1, <1>2, <1>3, <1>4 DEF AskedAndHeard, Kept

(* The caller goes where the agent first asked, once, with the agent off the line;
   a webhook Retell was told is done has been done or lost to a death or a race of
   repeats, a part of the conversation is in the one transcript once, and a note
   the agent was told is saved is with the call: AskedAndHeard. *)
THEOREM WhatWasAskedIsHeard == RetellSpec => []AskedAndHeard
BY RetellInvariant, TheCallFollows, PTL

-----------------------------------------------------------------------------
(* The import and the repair of what it left wrong, for every export, any number of
   runs, kills, failing requests and cards of the relay's. *)

SheetsAreWhole ==
    \A s \in Sheets : /\ Len(s) \in Nat /\ DOMAIN s = 1..Len(s)
                      /\ \A r \in DOMAIN s : s[r].won \in BOOLEAN /\ s[r].worth \in Nat

InHand  == run.at \in {"put", "booked"}
AtJob == run.at \notin {"off", "row"}

(* One line of the ledger a job; the job at work has none.  What a line, or the run,
   says of a card, a note and an appointment is so. *)
ToldOf(line) ==
    /\ line.card # 0 => cards[line.card].of = line.row /\ ~line.note
    /\ line.card = 0 => line.note \/ line.row \in said

CardsInv == \A c \in DOMAIN cards : cards[c].of # 0 => cards[c].key = Key(cards[c].of)

LinesInv ==
    /\ \A k, l \in DOMAIN ledger : ledger[k].row = ledger[l].row => k = l
    /\ \A l \in DOMAIN ledger : ToldOf(ledger[l]) /\ (ledger[l].card # 0 => ledger[l].stranded = 0)

RunInv ==
    /\ run.at # "off" => run.row \in 1..(run.upto + 1)
    /\ AtJob => run.row \in Rows /\ run.row =< run.upto /\ run.row \notin Ledgered
    /\ InHand => ToldOf(run)
    /\ ~InHand => run.card = 0 /\ ~run.note
    /\ run.at # "booked" => ~run.appt
    /\ run.at = "refused" => ~Included
    /\ run.card # 0 => ~Included
    /\ AtJob /\ HasPhone(run.row) => Key(run.row) \in run.seen

FixInv ==
    /\ fix.at \in {"values", "appts"} => run.at = "off"
    /\ fix.at = "values" => \A r \in fix.todo : r \in Ledgered /\ EntryOf(r).stranded > 0
    /\ fix.at = "appts" => fix.todo \subseteq Ledgered

(* A half line takes a run to be left, and a second to be joined. *)
TornInv ==
    /\ run.at # "off" => runs >= 1
    /\ torn => runs >= 1 /\ (run.at # "off" => runs >= 2)
    /\ halves > 0 => runs >= 2

(* Jobs done that may be done again: a kill or a half line has hidden them. *)
Redone == {r \in Rows : Copies(r) > 0 /\ r \notin Ledgered /\ ~(InHand /\ run.row = r)}
Rebooked ==
    {r \in Rows : /\ booked[r] > 0
                  /\ \/ r \notin Ledgered /\ ~(run.appt /\ run.row = r)
                     \/ r \in Ledgered /\ fix.at \in {"new", "values"} /\ ~EntryOf(r).appt
                     \/ fix.at = "appts" /\ r \in fix.todo}

CopiesOf == [r \in Rows |-> Copies(r)]

CopiesInv == Repeats(CopiesOf) + Cardinality(Redone) =< kills + halves
BookedInv == Repeats(booked) + Cardinality(Rebooked) =< kills + halves

(* No card is worth more than the client's jobs.  Where a client may have several,
   they are of different jobs, or there is one, opened by the run that is not over. *)
WorthOf(key) == SumFunctionOnSet(Worth, JobsOf(key))
Handled(r) == runs > 0 /\ (run.at = "off" \/ r < run.row \/ (InHand /\ r = run.row))
Done(key) == {r \in JobsOf(key) : Handled(r)}
OneRun == rule = "many" /\ kills = 0 /\ runs =< 1
Summed(key) == by = "sum" /\ \E r \in JobsOf(key) : HasPhone(r)

ManyInv ==
    /\ \A l \in DOMAIN ledger : ledger[l].stranded = 0
    /\ run.at # "refused"
    /\ InHand /\ run.note => Included

WorthInv == \A c \in DOMAIN cards : cards[c].value =< WorthOf(cards[c].key)
OneInv == rule = "one" => \A c, d \in DOMAIN cards : cards[c].key = cards[d].key => c = d

(* A client's only card is opened by the run's first job of that client. *)
Opened(key) ==
    runs = 1 /\ (run.at = "off" \/ (key \in run.seen /\ ~(run.at = "contact" /\ run.first /\ Key(run.row) = key)))
OnceInv ==
    OneRun => \A key \in Keys :
        IF Summed(key)
        THEN (\A c, d \in OursOn(key) : c = d) /\ (OursOn(key) # {} => Opened(key))
        ELSE OnCards(key) =< SumFunctionOnSet(Worth, Done(key))

CapInv == WorthInv /\ OneInv /\ (rule = "many" => ManyInv) /\ OnceInv

(* What was earned is on cards, or it is said of one of the client's jobs that it is
   not.  When every job has a card of its own, job by job ... *)
Flagged(key) ==
    \E r \in JobsOf(key) : r \in said \/ (r \in Ledgered /\ EntryOf(r).stranded > 0)
Carried(key) ==
    {r \in JobsOf(key) : r \in Ledgered \/ (InHand /\ run.row = r /\ (run.note => Worth[r] = 0))}

EachInv ==
    by = "allow" =>
        \A key \in Keys : Flagged(key) \/ SumFunctionOnSet(Worth, Carried(key)) =< OnCards(key)

(* ... and when the client's first card of a run stands for all jobs of the run, by a
   card, or a refused one's note, or the job whose line half a line has hidden. *)
Enough(key, upto) ==
    WonOf(key, upto) = 0 \/ \E c \in OursOn(key) : WonOf(key, upto) =< cards[c].value
Hidden(key) ==
    /\ halves > 0
    /\ \/ runs > 2
       \/ \E r \in JobsOf(key) : r \notin Ledgered /\ (run.at = "off" \/ r < run.row)
Standing(key) ==
    /\ AtJob /\ Key(run.row) = key /\ run.first
    /\ InHand => run.note

SumInv ==
    by = "sum" =>
        /\ \A r \in Ledgered :
              HasPhone(r) => \/ Flagged(Key(r)) \/ Hidden(Key(r))
                             \/ \E upto \in r..Len(sheet) : Enough(Key(r), upto)
        /\ run.at # "off" =>
              \A key \in run.seen :
                  Flagged(key) \/ Hidden(key) \/ Enough(key, run.upto) \/ Standing(key)

MoneyInv ==
    /\ ImportTypes /\ CardsInv /\ LinesInv /\ RunInv /\ FixInv /\ TornInv
    /\ CopiesInv /\ BookedInv /\ CapInv /\ EachInv /\ SumInv

(* What the definitions say of an export. *)
LEMMA ExportFacts ==
    ASSUME SheetsAreWhole, ImportTypes
    PROVE  /\ Len(sheet) \in Nat /\ DOMAIN sheet = Rows /\ IsFiniteSet(Rows) /\ Rows \subseteq Nat
           /\ Worth \in [Rows -> Nat]
           /\ \A r \in Rows : /\ Key(r) \in Keys /\ HasPhone(r) \in BOOLEAN
                              /\ sheet[r].worth \in Nat /\ Worth[r] = sheet[r].worth
<1>1. sheet \in Sheets \cup {<<>>}
    BY DEF ImportTypes
<1>2. /\ Len(sheet) \in Nat /\ DOMAIN sheet = 1..Len(sheet)
      /\ \A r \in DOMAIN sheet : sheet[r].worth \in Nat
    <2>1. CASE sheet \in Sheets
        BY <2>1 DEF SheetsAreWhole
    <2>2. CASE sheet = <<>>
        BY <2>2
    <2> QED  BY <1>1, <2>1, <2>2
<1>3. IsFiniteSet(Rows)
    BY <1>2, FS_Interval DEF Rows
<1> QED  BY <1>2, <1>3 DEF Rows, Worth, Keys, HasPhone

(* What a client's jobs are worth. *)
LEMMA JobFacts ==
    ASSUME SheetsAreWhole, ImportTypes, NEW key
    PROVE  /\ JobsOf(key) \subseteq Rows /\ IsFiniteSet(JobsOf(key)) /\ WorthOf(key) \in Nat
           /\ \A x \in JobsOf(key) : Worth[x] \in Nat
           /\ \A r \in JobsOf(key) : Worth[r] =< WorthOf(key)
<1>1. IsFiniteSet(Rows) /\ Worth \in [Rows -> Nat]
    BY ExportFacts
<1>2. JobsOf(key) \subseteq Rows /\ \A x \in JobsOf(key) : Worth[x] \in Nat
    BY <1>1 DEF JobsOf
<1>3. IsFiniteSet(JobsOf(key))
    BY <1>1, <1>2, FS_Subset
<1>4. WorthOf(key) \in Nat
    BY <1>2, <1>3, SumIsNat DEF WorthOf
<1>5. ASSUME NEW r \in JobsOf(key)
      PROVE  Worth[r] =< WorthOf(key)
    <2>1. WorthOf(key) = Worth[r] + SumFunctionOnSet(Worth, JobsOf(key) \ {r})
        BY <1>2, <1>3, SumTakes DEF WorthOf
    <2>2. SumFunctionOnSet(Worth, JobsOf(key) \ {r}) \in Nat
        BY <1>2, <1>3, FS_Subset, SumIsNat
    <2> QED  BY <1>2, <2>1, <2>2
<1> QED  BY <1>2, <1>3, <1>4, <1>5

(* The sum --duplicates=sum writes: of won jobs only, and never less for more rows. *)
LEMMA WonFacts ==
    ASSUME SheetsAreWhole, ImportTypes, NEW key, NEW u \in 0..Len(sheet)
    PROVE  /\ WonJobs(key, u) \subseteq JobsOf(key) /\ WonOf(key, u) \in Nat
           /\ WonOf(key, u) =< WorthOf(key)
           /\ \A v \in u..Len(sheet) : WonOf(key, u) =< WonOf(key, v)
<1>1. Len(sheet) \in Nat
    BY ExportFacts
<1>2. \A v \in 0..Len(sheet) : WonJobs(key, v) \subseteq JobsOf(key)
    BY <1>1 DEF WonJobs, JobsOf, Rows
<1>3. IsFiniteSet(JobsOf(key)) /\ \A x \in JobsOf(key) : Worth[x] \in Nat
    BY JobFacts
<1>4. \A v \in 0..Len(sheet) : IsFiniteSet(WonJobs(key, v)) /\ \A x \in WonJobs(key, v) : Worth[x] \in Nat
    BY <1>2, <1>3, FS_Subset
<1>5. WonOf(key, u) \in Nat
    BY <1>4, SumIsNat DEF WonOf
<1>6. WonOf(key, u) =< WorthOf(key)
    BY <1>2, <1>3, SumOfPart DEF WonOf, WorthOf
<1>7. ASSUME NEW v \in u..Len(sheet)
      PROVE  WonOf(key, u) =< WonOf(key, v)
    <2>1. v \in 0..Len(sheet) /\ WonJobs(key, u) \subseteq WonJobs(key, v)
        BY <1>1 DEF WonJobs
    <2> QED  BY <1>4, <2>1, SumOfPart DEF WonOf
<1> QED  BY <1>2, <1>5, <1>6, <1>7

(* The export stays, and what is computed from it. *)
LEMMA ExportStays ==
    ASSUME sheet' = sheet
    PROVE  /\ Rows' = Rows /\ Keys' = Keys /\ Worth' = Worth
           /\ \A r : HasPhone(r)' = HasPhone(r) /\ Key(r)' = Key(r)
           /\ \A key : JobsOf(key)' = JobsOf(key) /\ WorthOf(key)' = WorthOf(key)
           /\ \A key, u : WonOf(key, u)' = WonOf(key, u)
<1>1. Rows' = Rows
    BY DEF Rows
<1>2. \A r : HasPhone(r)' = HasPhone(r)
    BY DEF HasPhone
<1>3. \A r : Key(r)' = Key(r)
    BY <1>2 DEF Key, Contact
<1>4. Worth' = Worth
    BY <1>1 DEF Worth
<1>5. Keys' = Keys
    BY <1>1, <1>3 DEF Keys
<1>6. \A key : JobsOf(key)' = JobsOf(key)
    BY <1>1, <1>3 DEF JobsOf
<1>7. \A key, u : WonJobs(key, u)' = WonJobs(key, u)
    BY <1>2, <1>3 DEF WonJobs
<1> QED  BY <1>1, <1>2, <1>3, <1>4, <1>5, <1>6, <1>7 DEF WorthOf, WonOf

(* What a card opened now says. *)
LEMMA ValueIs ==
    ASSUME SheetsAreWhole, ImportTypes, AtJob, run.row \in Rows
    PROVE  /\ Value \in Nat /\ Value =< WorthOf(Key(run.row))
           /\ by = "allow" => Value = Worth[run.row]
           /\ ~HasPhone(run.row) => Value = Worth[run.row]
           /\ by = "sum" /\ HasPhone(run.row) /\ run.first =>
                 WonOf(Key(run.row), run.upto) = 0 \/ Value = WonOf(Key(run.row), run.upto)
<1>1. run.upto \in 0..Len(sheet) /\ by \in {"sum", "allow"} /\ HasPhone(run.row) \in BOOLEAN
    BY ExportFacts DEF ImportTypes, Runs
<1>2. WonOf(Key(run.row), run.upto) \in Nat /\ WonOf(Key(run.row), run.upto) =< WorthOf(Key(run.row))
    BY <1>1, WonFacts
<1>3. run.row \in JobsOf(Key(run.row))
    BY DEF JobsOf
<1>4. /\ sheet[run.row].worth \in Nat /\ Worth[run.row] = sheet[run.row].worth
      /\ Worth[run.row] =< WorthOf(Key(run.row))
    BY <1>3, ExportFacts, JobFacts
<1> QED  BY <1>1, <1>2, <1>4 DEF Value

(* A line of the ledger is its job's. *)
LEMMA EntryIs ==
    ASSUME \A k, l \in DOMAIN ledger : ledger[k].row = ledger[l].row => k = l,
           NEW l \in DOMAIN ledger
    PROVE  ledger[l].row \in Ledgered /\ EntryOf(ledger[l].row) = ledger[l]
<1>1. ledger[l] \in {ledger[i] : i \in DOMAIN ledger}
    OBVIOUS
<1>2. \A e \in {ledger[i] : i \in DOMAIN ledger} : e.row = ledger[l].row => e = ledger[l]
    OBVIOUS
<1> QED  BY <1>1, <1>2 DEF EntryOf, Ledgered

(* A line appended is one more job in the ledger, and no other line changes. *)
LEMMA LedgerGrows ==
    ASSUME ImportTypes, \A k, l \in DOMAIN ledger : ledger[k].row = ledger[l].row => k = l,
           NEW e, ledger' = Append(ledger, e), e.row \notin Ledgered
    PROVE  /\ Ledgered' = Ledgered \cup {e.row}
           /\ \A r \in Ledgered : EntryOf(r)' = EntryOf(r)
           /\ EntryOf(e.row)' = e
           /\ \A k, l \in DOMAIN ledger' : ledger'[k].row = ledger'[l].row => k = l
           /\ \A l \in DOMAIN ledger' : (l \in DOMAIN ledger /\ ledger'[l] = ledger[l]) \/ ledger'[l] = e
<1>1. ledger \in Seq(Lines)
    BY DEF ImportTypes
<1>2. /\ DOMAIN ledger = 1..Len(ledger) /\ Len(ledger) \in Nat
      /\ DOMAIN ledger' = 1..(Len(ledger) + 1) /\ ledger'[Len(ledger) + 1] = e
      /\ \A l \in 1..Len(ledger) : ledger'[l] = ledger[l]
    BY <1>1
<1>3. \A l \in DOMAIN ledger' : (l \in DOMAIN ledger /\ ledger'[l] = ledger[l]) \/ (l = Len(ledger) + 1 /\ ledger'[l] = e)
    BY <1>2
<1>4. \A l \in DOMAIN ledger : ledger[l].row # e.row
    BY DEF Ledgered
<1>5. \A k, l \in DOMAIN ledger' : ledger'[k].row = ledger'[l].row => k = l
    BY <1>3, <1>4
<1>6. Ledgered' = Ledgered \cup {e.row}
    BY <1>2, <1>3 DEF Ledgered
<1> DEFINE E == {ledger[i] : i \in DOMAIN ledger}
           F == {ledger'[i] : i \in DOMAIN ledger'}
<1>7. F = E \cup {e}
    BY <1>2, <1>3
<1>8. ASSUME NEW r \in Ledgered
      PROVE  EntryOf(r)' = EntryOf(r)
    <2>1. r # e.row
        OBVIOUS
    <2>2. PICK l \in DOMAIN ledger : ledger[l].row = r
        BY DEF Ledgered
    <2>3. EntryOf(r) = ledger[l]
        BY <2>2, EntryIs
    <2>4. \A x \in F : x.row = r => x = ledger[l]
        BY <2>1, <2>2, <1>7
    <2>5. ledger[l] \in F
        BY <1>7
    <2>6. EntryOf(r)' = CHOOSE x \in F : x.row = r
        BY DEF EntryOf
    <2> HIDE DEF F
    <2> QED  BY <2>2, <2>3, <2>4, <2>5, <2>6
<1>9. EntryOf(e.row)' = e
    <2>1. \A x \in F : x.row = e.row => x = e
        BY <1>4, <1>7
    <2>2. e \in F
        BY <1>7
    <2>3. EntryOf(e.row)' = CHOOSE x \in F : x.row = e.row
        BY DEF EntryOf
    <2> HIDE DEF F
    <2> QED  BY <2>1, <2>2, <2>3
<1> QED  BY <1>3, <1>5, <1>6, <1>8, <1>9

(* The same ledger says the same. *)
LEMMA LedgerStays ==
    ASSUME ledger' = ledger
    PROVE  Ledgered' = Ledgered /\ \A r : EntryOf(r)' = EntryOf(r)
<1> QED  BY DEF Ledgered, EntryOf

(* A job's entry is a line of the ledger. *)
LEMMA EntryFacts ==
    ASSUME ImportTypes, LinesInv, NEW r \in Ledgered
    PROVE  /\ r \in Rows /\ EntryOf(r) \in Lines /\ EntryOf(r).row = r
           /\ \E l \in DOMAIN ledger : EntryOf(r) = ledger[l]
<1>1. PICK l \in DOMAIN ledger : ledger[l].row = r
    BY DEF Ledgered
<1>2. EntryOf(r) = ledger[l]
    BY <1>1, EntryIs DEF LinesInv
<1>3. ledger[l] \in Lines
    BY DEF ImportTypes
<1>4. ledger[l].row \in Rows
    BY <1>3 DEF Lines
<1> QED  BY <1>1, <1>2, <1>3, <1>4

(* Cards only come: what was typed stays so. *)
LEMMA CardsCome ==
    ASSUME SheetsAreWhole, ImportTypes, sheet' = sheet, NEW c, c \in Cards, cards' = Append(cards, c)
    PROVE  /\ cards' \in Seq(Cards)' /\ Len(cards') = Len(cards) + 1 /\ Len(cards) \in Nat
           /\ DOMAIN cards = 1..Len(cards) /\ DOMAIN cards' = 1..(Len(cards) + 1)
           /\ cards'[Len(cards) + 1] = c /\ \A d \in DOMAIN cards : cards'[d] = cards[d]
           /\ Lines \subseteq Lines' /\ ledger \in Seq(Lines') /\ Runs \subseteq Runs'
<1>1. cards \in Seq(Cards) /\ Keys' = Keys /\ Rows' = Rows
    BY ExportStays DEF ImportTypes
<1>2. Cards' = Cards
    BY <1>1 DEF Cards
<1>3. /\ cards' \in Seq(Cards) /\ Len(cards') = Len(cards) + 1 /\ Len(cards) \in Nat
      /\ DOMAIN cards = 1..Len(cards) /\ DOMAIN cards' = 1..(Len(cards) + 1)
      /\ cards'[Len(cards) + 1] = c /\ \A d \in DOMAIN cards : cards'[d] = cards[d]
    BY <1>1
<1>4. 0..Len(cards) \subseteq 0..Len(cards')
    BY <1>3
<1>5. Lines \subseteq Lines'
    BY <1>1, <1>4 DEF Lines
<1>6. ledger \in Seq(Lines')
    BY <1>5, SeqMonotonic DEF ImportTypes
<1>7. Runs \subseteq Runs'
    BY <1>1, <1>4 DEF Runs
<1> QED  BY <1>2, <1>3, <1>5, <1>6, <1>7

(* A step of the import or the repair that leaves the cards' number alone. *)
LEMMA SameShapes ==
    ASSUME sheet' = sheet, Len(cards') = Len(cards)
    PROVE  Cards' = Cards /\ Lines' = Lines /\ Runs' = Runs
<1>1. Keys' = Keys /\ Rows' = Rows
    BY ExportStays
<1> QED  BY <1>1 DEF Cards, Lines, Runs

(* The run is at a row, or over. *)
LEMMA NextRow ==
    ASSUME SheetsAreWhole, ImportTypes
    PROVE  /\ NoRun \in Runs
           /\ \A upto \in Rows : RunAt("row", 1, upto, {}) \in Runs
           /\ RunAt("row", run.row + 1, run.upto, run.seen) \in Runs
<1>1. Len(sheet) \in Nat /\ run \in Runs /\ Len(cards) \in Nat
    BY ExportFacts DEF ImportTypes
<1>2. NoRun \in Runs
    BY <1>1 DEF NoRun, RunAt, Runs
<1>3. \A upto \in Rows : upto \in 0..Len(sheet)
    BY <1>1 DEF Rows
<1>4. run.row + 1 \in Nat /\ run.upto \in 0..Len(sheet) /\ run.seen \in SUBSET Keys /\ {} \in SUBSET Keys
    BY <1>1 DEF Runs
<1>5. \A n \in Nat, upto \in 0..Len(sheet), s \in SUBSET Keys : RunAt("row", n, upto, s) \in Runs
    BY <1>1 DEF Runs, RunAt
<1> QED  BY <1>1, <1>2, <1>3, <1>4, <1>5

(* What a repair's or a run's step reads of the ledger is a card. *)
LEMMA SibIs ==
    ASSUME SheetsAreWhole, ImportTypes, CardsInv, LinesInv, NEW r \in Rows, SibsOf(r) # {}
    PROVE  /\ ledger[Min(SibsOf(r))].card \in DOMAIN cards
           /\ cards[ledger[Min(SibsOf(r))].card].key = Key(r)
           /\ cards[ledger[Min(SibsOf(r))].card].of # 0
<1> DEFINE S == SibsOf(r)
           Below(m) == {y \in S : y =< m}
           Bad == {Below(m) : m \in S}
<1>1. S \subseteq DOMAIN ledger /\ S \subseteq 1..Len(ledger) /\ Len(ledger) \in Nat
    BY DEF ImportTypes, SibsOf
<1>2. IsFiniteSet(S)
    BY <1>1, FS_Interval, FS_Subset
<1>3. \E m \in S : \A y \in S : m =< y
    <2>1. Bad \subseteq SUBSET S /\ Bad # {}
        OBVIOUS
    <2>2. PICK u \in Bad : \A v \in SUBSET u : v # u => v \notin Bad
        <3> HIDE DEF Bad, S
        <3> QED  BY <1>2, <2>1, LeastSubset
    <2>3. PICK m \in S : u = Below(m)
        OBVIOUS
    <2>4. ASSUME NEW y \in S
          PROVE  m =< y
        <3>1. SUFFICES ASSUME y < m
                       PROVE  FALSE
            BY <1>1
        <3>2. Below(y) \subseteq u /\ m \in u /\ m \notin Below(y)
            BY <1>1, <2>3, <3>1
        <3>3. Below(y) \in Bad
            OBVIOUS
        <3> QED  BY <2>2, <3>2, <3>3
    <2> QED  BY <2>4
<1>4. Min(S) \in S
    BY <1>3 DEF Min
<1>5. PICK l \in DOMAIN ledger : l = Min(S) /\ ledger[l].card # 0 /\ Key(ledger[l].row) = Key(r)
    BY <1>4 DEF SibsOf, Key
<1>6. ledger[l] \in Lines /\ Len(cards) \in Nat /\ DOMAIN cards = 1..Len(cards)
    BY DEF ImportTypes
<1>7. ledger[l].card \in DOMAIN cards /\ ledger[l].row \in Rows
    BY <1>5, <1>6 DEF Lines
<1>8. cards[ledger[l].card].of = ledger[l].row
    BY <1>5 DEF LinesInv, ToldOf
<1>9. ledger[l].row # 0
    BY <1>7, ExportFacts DEF Rows
<1>10. cards[ledger[l].card].key = Key(ledger[l].row)
    BY <1>7, <1>8, <1>9 DEF CardsInv
<1> QED  BY <1>5, <1>7, <1>8, <1>9, <1>10

(* The repair writes the sum onto one card. *)
LEMMA CardFixed ==
    ASSUME SheetsAreWhole, ImportTypes, CardsInv, LinesInv, NEW r \in Rows, SibsOf(r) # {}, NEW c,
           c = ledger[Min(SibsOf(r))].card,
           cards' = [cards EXCEPT ![c] = [@ EXCEPT !.value = WonOf(Key(r), Len(sheet))]]
    PROVE  /\ cards' \in Seq(Cards) /\ Len(cards') = Len(cards) /\ DOMAIN cards' = DOMAIN cards
           /\ \A d \in DOMAIN cards : cards'[d].key = cards[d].key /\ cards'[d].of = cards[d].of
           /\ \A d \in DOMAIN cards : d # c => cards'[d] = cards[d]
           /\ c \in DOMAIN cards /\ cards'[c].value = WonOf(Key(r), Len(sheet))
           /\ cards[c].key = Key(r) /\ cards[c].of # 0
<1>1. c \in DOMAIN cards /\ cards[c].key = Key(r) /\ cards[c].of # 0
    BY SibIs
<1>2. cards \in Seq(Cards) /\ DOMAIN cards = 1..Len(cards) /\ Len(cards) \in Nat
    BY DEF ImportTypes
<1>3. WonOf(Key(r), Len(sheet)) \in Nat
    BY ExportFacts, WonFacts
<1> DEFINE d0 == [cards[c] EXCEPT !.value = WonOf(Key(r), Len(sheet))]
<1>4. cards[c] \in Cards
    BY <1>1, <1>2
<1>5. d0 \in Cards /\ d0.key = cards[c].key /\ d0.of = cards[c].of /\ d0.value = WonOf(Key(r), Len(sheet))
    BY <1>3, <1>4 DEF Cards
<1> HIDE DEF d0
<1>6. cards' = [cards EXCEPT ![c] = d0]
    BY DEF d0
<1>7. cards' \in Seq(Cards) /\ Len(cards') = Len(cards) /\ DOMAIN cards' = DOMAIN cards
    BY <1>1, <1>2, <1>5, <1>6, ExceptSeq
<1>8. \A d \in DOMAIN cards : cards'[d] = IF d = c THEN d0 ELSE cards[d]
    BY <1>2, <1>6
<1> QED  BY <1>1, <1>5, <1>7, <1>8

(* A list with one more at its end is another. *)
LEMMA NoneAdded ==
    ASSUME NEW S, NEW q \in Seq(S), NEW x, q = Append(q, x)
    PROVE  FALSE
<1>1. Len(q) \in Nat /\ Len(Append(q, x)) = Len(q) + 1
    OBVIOUS
<1> QED  BY <1>1

(* No step changes the export or how it is taken. *)
LEMMA SetupStays == ASSUME ImportNext PROVE UNCHANGED setup
<1>1. ASSUME \/ \E upto \in Rows : Begins(upto)
             \/ SkipsRow \/ PutsContact \/ PutsCard \/ PutsNote
      PROVE  UNCHANGED setup
    BY <1>1 DEF Begins, SkipsRow, PutsContact, PutsCard, PutsNote
<1>2. ASSUME Books \/ Appends \/ EndsRun \/ Killed \/ FixBegins \/ FixTurns \/ FixEnds
      PROVE  UNCHANGED setup
    BY <1>2 DEF Books, Appends, EndsRun, Killed, FixBegins, FixTurns, FixEnds
<1>3. ASSUME NEW r, RelayOpens(r) \/ FixesValue(r) \/ FixBooks(r)
      PROVE  UNCHANGED setup
    BY <1>3 DEF RelayOpens, FixesValue, FixBooks
<1> QED  BY <1>1, <1>2, <1>3 DEF ImportNext

(* What every step leaves of the types. *)
LEMMA ImportTypesGoOn ==
    ASSUME SheetsAreWhole, ImportTypes, CardsInv, LinesInv, RunInv, ImportNext
    PROVE  ImportTypes'
<1>1. /\ Rows' = Rows /\ Keys' = Keys /\ UNCHANGED setup
      /\ Len(sheet) \in Nat /\ Rows \subseteq Nat /\ run \in Runs
    <2>1. UNCHANGED setup
        BY SetupStays
    <2> QED  BY <2>1, ExportStays, ExportFacts DEF setup, ImportTypes
<1>2. sheet' = sheet /\ sheet' \in Sheets \cup {<<>>} /\ rule' \in {"one", "many"} /\ by' \in {"sum", "allow"}
    BY <1>1 DEF setup, ImportTypes
<1>3. run.row \in Nat /\ run.upto \in 0..Len(sheet) /\ run.card \in 0..Len(cards) /\ run.note \in BOOLEAN /\ run.appt \in BOOLEAN
    BY <1>1 DEF Runs
<1>4. ASSUME UNCHANGED cards
      PROVE  Cards' = Cards /\ Lines' = Lines /\ Runs' = Runs
    BY <1>2, <1>4, SameShapes
<1> USE <1>1, <1>2, <1>3
<1>5. ASSUME NEW upto \in Rows, Begins(upto)
      PROVE  ImportTypes'
    <2>1. run' \in Runs
        BY <1>5, NextRow DEF Begins
    <2> QED  BY <1>4, <1>5, <2>1 DEF Begins, ImportTypes, ghl, disk
<1>6. CASE SkipsRow
    BY <1>4, <1>6, NextRow DEF SkipsRow, Onward, ImportTypes, ghl, disk, counts
<1>7. CASE PutsContact
    <2>1. AtJob' \/ TRUE
        OBVIOUS
    <2>2. run' \in Runs
        <3>1. CASE Onward
            BY <3>1, NextRow DEF Onward
        <3>2. CASE run' = [run EXCEPT !.at = "contact", !.first = Key(run.row) \notin run.seen,
                                      !.seen = IF HasPhone(run.row) THEN @ \cup {Key(run.row)} ELSE @]
            <4>1. run.row \in Rows
                BY <1>7 DEF PutsContact, RunInv, Rows, Runs
            <4>2. Key(run.row) \in Keys
                BY <4>1, ExportFacts
            <4> QED  BY <3>2, <4>2 DEF Runs
        <3> QED  BY <1>7, <3>1, <3>2 DEF PutsContact
    <2>3. said' \in SUBSET Rows
        BY <1>7 DEF PutsContact, RunInv, Rows, Says, ImportTypes
    <2> QED  BY <1>4, <1>7, <2>2, <2>3 DEF PutsContact, ImportTypes, ghl, disk
<1>8. CASE PutsCard
    <2>1. run.row \in Rows /\ Key(run.row) \in Keys /\ run.row \in 0..Len(sheet)
        BY <1>8, ExportFacts DEF PutsCard, RunInv, AtJob, Rows
    <2>2. CASE UNCHANGED cards
        <3>1. run' \in Runs
            <4>1. CASE Onward
                BY <4>1, NextRow DEF Onward
            <4>2. CASE run' = [run EXCEPT !.at = "refused"]
                BY <4>2 DEF Runs
            <4>3. ~(cards' = Append(cards, [key |-> Key(run.row), of |-> run.row, value |-> Value]))
                BY <2>2, NoneAdded, Zenon DEF ImportTypes
            <4> QED  BY <1>8, <4>1, <4>2, <4>3 DEF PutsCard
        <3> QED  BY <1>4, <1>8, <2>1, <2>2, <3>1 DEF PutsCard, Says, ImportTypes, disk
    <2>3. CASE /\ cards' = Append(cards, [key |-> Key(run.row), of |-> run.row, value |-> Value])
               /\ run' = [run EXCEPT !.at = "put", !.card = Len(cards) + 1]
               /\ UNCHANGED <<said, spoils>>
        <3>1. Value \in Nat
            BY <1>8, <2>1, ValueIs DEF PutsCard, AtJob
        <3>2. [key |-> Key(run.row), of |-> run.row, value |-> Value] \in Cards
            BY <2>1, <3>1 DEF Cards
        <3>3. /\ cards' \in Seq(Cards)' /\ Len(cards') = Len(cards) + 1 /\ Len(cards) \in Nat
              /\ ledger \in Seq(Lines') /\ Runs \subseteq Runs'
            BY <2>3, <3>2, CardsCome
        <3>4. run' \in Runs'
            <4>1. run \in Runs' /\ Len(cards) + 1 \in 0..Len(cards')
                BY <3>3
            <4> QED  BY <2>3, <4>1 DEF Runs
        <3> QED  BY <1>8, <2>3, <3>3, <3>4 DEF PutsCard, ImportTypes, disk
    <2> QED  BY <1>8, <2>2, <2>3 DEF PutsCard
<1>9. CASE PutsNote
    <2>1. run.row \in Rows
        BY <1>9 DEF PutsNote, RunInv, AtJob
    <2>2. run' \in Runs
        BY <1>9 DEF PutsNote, Runs
    <2>3. notes' \in [Rows -> Nat] /\ said' \in SUBSET Rows
        <3>1. notes \in [Rows -> Nat] /\ said \in SUBSET Rows
            BY DEF ImportTypes
        <3>2. CASE notes' = [notes EXCEPT ![run.row] = @ + 1] /\ UNCHANGED said
            BY <2>1, <3>1, <3>2
        <3>3. CASE Says(run.row) /\ UNCHANGED notes
            BY <2>1, <3>1, <3>3 DEF Says
        <3> QED  BY <1>9, <3>2, <3>3 DEF PutsNote
    <2> QED  BY <1>4, <1>9, <2>2, <2>3 DEF PutsNote, ImportTypes, disk
<1>10. CASE Books
    <2>1. run.row \in Rows
        BY <1>10 DEF Books, RunInv, AtJob
    <2>2. run' \in Runs
        BY <1>10 DEF Books, Runs
    <2>3. booked' \in [Rows -> Nat]
        <3>1. booked \in [Rows -> Nat]
            BY DEF ImportTypes
        <3>2. CASE booked' = [booked EXCEPT ![run.row] = @ + 1]
            BY <2>1, <3>1, <3>2
        <3> QED  BY <1>10, <3>1, <3>2 DEF Books
    <2> QED  BY <1>4, <1>10, <2>2, <2>3 DEF Books, ImportTypes, disk
<1>11. CASE Appends
    <2>1. run.row \in Rows /\ AtJob
        BY <1>11 DEF Appends, RunInv, AtJob
    <2>2. run' \in Runs
        BY <1>11, NextRow DEF Appends, Onward
    <2>3. Entry \in Lines
        BY <2>1, ValueIs DEF Entry, Stranded, Lines
    <2>4. ledger' \in Seq(Lines) /\ torn' \in BOOLEAN /\ halves' \in Nat
        <3>1. ledger \in Seq(Lines) /\ torn \in BOOLEAN /\ halves \in Nat
            BY DEF ImportTypes
        <3>2. CASE torn
            <4>1. torn' = FALSE /\ halves' = halves + 1 /\ ledger' = ledger
                BY <1>11, <3>2, Zenon DEF Appends
            <4>2. torn' \in BOOLEAN
                BY <4>1, Zenon
            <4> QED  BY <3>1, <4>1, <4>2
        <3>3. CASE ~torn
            BY <1>11, <2>3, <3>1, <3>3 DEF Appends
        <3> QED  BY <3>2, <3>3
    <2> QED  BY <1>4, <1>11, <2>2, <2>4 DEF Appends, ImportTypes, ghl, counts
<1>12. CASE EndsRun
    BY <1>4, <1>12, NextRow DEF EndsRun, ImportTypes, ghl, disk, counts
<1>13. CASE Killed
    <2>1. run' \in Runs /\ torn' \in BOOLEAN /\ kills' \in Nat
        <3>1. torn \in BOOLEAN /\ kills \in Nat
            BY DEF ImportTypes
        <3>2. run' = NoRun /\ kills' = kills + 1 /\ (torn' = torn \/ torn' = TRUE)
            <4>1. run' = NoRun /\ kills' = kills + 1
                BY <1>13, Zenon DEF Killed
            <4>2. torn' = torn \/ torn' = TRUE
                BY <1>13, Zenon DEF Killed
            <4> QED  BY <4>1, <4>2
        <3>3. torn' \in BOOLEAN
            BY <3>1, <3>2, Zenon
        <3> QED  BY <3>1, <3>2, <3>3, NextRow
    <2> QED  BY <1>4, <1>13, <2>1 DEF Killed, ImportTypes, ghl
<1>14. ASSUME NEW r \in Rows, RelayOpens(r)
       PROVE  ImportTypes'
    <2>1. [key |-> Key(r), of |-> 0, value |-> 0] \in Cards
        BY ExportFacts DEF Cards
    <2>2. cards' \in Seq(Cards)' /\ ledger \in Seq(Lines') /\ Runs \subseteq Runs'
        BY <1>14, <2>1, CardsCome DEF RelayOpens
    <2> QED  BY <1>14, <2>2 DEF RelayOpens, ImportTypes, disk
<1>15. CASE FixBegins
    <2>1. Ledgered \subseteq Rows
        BY EntryFacts
    <2> QED  BY <1>4, <1>15, <2>1 DEF FixBegins, ImportTypes, ghl, disk, counts
<1>16. ASSUME NEW r \in Rows, FixesValue(r)
       PROVE  ImportTypes'
    <2>1. cards' \in Seq(Cards) /\ Len(cards') = Len(cards)
        <3>1. CASE UNCHANGED cards
            BY <3>1 DEF ImportTypes
        <3>2. CASE ~UNCHANGED cards
            BY <1>16, <3>2, CardFixed DEF FixesValue
        <3> QED  BY <3>1, <3>2
    <2>2. Cards' = Cards /\ Lines' = Lines /\ Runs' = Runs
        BY <2>1, SameShapes
    <2>3. fix' \in [at : {"new", "values", "appts", "done"}, todo : SUBSET Rows]
        BY <1>16 DEF FixesValue, ImportTypes
    <2> QED  BY <1>16, <2>1, <2>2, <2>3 DEF FixesValue, ImportTypes, disk
<1>17. CASE FixTurns
    <2>1. Ledgered \subseteq Rows
        BY EntryFacts
    <2> QED  BY <1>4, <1>17, <2>1 DEF FixTurns, ImportTypes, ghl, disk, counts
<1>18. ASSUME NEW r \in Rows, FixBooks(r)
       PROVE  ImportTypes'
    <2>1. booked \in [Rows -> Nat] /\ fix \in [at : {"new", "values", "appts", "done"}, todo : SUBSET Rows]
        BY DEF ImportTypes
    <2>2. booked' \in [Rows -> Nat]
        <3>1. CASE booked' = [booked EXCEPT ![r] = @ + 1]
            BY <2>1, <3>1
        <3> QED  BY <1>18, <2>1, <3>1 DEF FixBooks
    <2>3. fix' \in [at : {"new", "values", "appts", "done"}, todo : SUBSET Rows]
        BY <1>18, <2>1 DEF FixBooks
    <2> QED  BY <1>4, <1>18, <2>2, <2>3 DEF FixBooks, ImportTypes, disk
<1>19. CASE FixEnds
    BY <1>4, <1>19 DEF FixEnds, ImportTypes, ghl, disk, counts
<1> QED  BY <1>5, <1>6, <1>7, <1>8, <1>9, <1>10, <1>11, <1>12, <1>13, <1>14, <1>15, <1>16,
            <1>17, <1>18, <1>19 DEF ImportNext

(* Cards stay where and whose they are; a new one of the import's is of the row at work. *)
LEMMA CardsGrow ==
    ASSUME SheetsAreWhole, ImportTypes, CardsInv, LinesInv, RunInv, ImportNext
    PROVE  /\ \A d \in DOMAIN cards : /\ d \in DOMAIN cards' /\ cards'[d].of = cards[d].of
                                      /\ cards'[d].key = cards[d].key
           /\ \A d \in DOMAIN cards' : d \notin DOMAIN cards /\ cards'[d].of # 0 =>
                                          cards'[d].key = Key(cards'[d].of)
<1>1. sheet' = sheet
    BY SetupStays DEF setup
<1>2. CASE UNCHANGED cards
    BY <1>2
<1>3. CASE PutsCard /\ ~UNCHANGED cards
    <2>1. cards' = Append(cards, [key |-> Key(run.row), of |-> run.row, value |-> Value])
        BY <1>3 DEF PutsCard
    <2>2. run.row \in Rows /\ Key(run.row) \in Keys /\ run.row \in 0..Len(sheet) /\ Value \in Nat
        BY <1>3, ExportFacts, ValueIs DEF PutsCard, RunInv, AtJob, Rows
    <2>3. [key |-> Key(run.row), of |-> run.row, value |-> Value] \in Cards
        BY <2>2 DEF Cards
    <2> QED  BY <1>1, <2>1, <2>3, CardsCome
<1>4. ASSUME NEW r \in Rows, RelayOpens(r)
      PROVE  /\ \A d \in DOMAIN cards : /\ d \in DOMAIN cards' /\ cards'[d].of = cards[d].of
                                        /\ cards'[d].key = cards[d].key
             /\ \A d \in DOMAIN cards' : d \notin DOMAIN cards /\ cards'[d].of # 0 =>
                                            cards'[d].key = Key(cards'[d].of)
    <2>1. [key |-> Key(r), of |-> 0, value |-> 0] \in Cards
        BY ExportFacts DEF Cards
    <2> QED  BY <1>1, <1>4, <2>1, CardsCome DEF RelayOpens
<1>5. ASSUME NEW r \in Rows, FixesValue(r), ~UNCHANGED cards
      PROVE  /\ \A d \in DOMAIN cards : /\ d \in DOMAIN cards' /\ cards'[d].of = cards[d].of
                                        /\ cards'[d].key = cards[d].key
             /\ \A d \in DOMAIN cards' : d \notin DOMAIN cards /\ cards'[d].of # 0 =>
                                            cards'[d].key = Key(cards'[d].of)
    BY <1>5, CardFixed DEF FixesValue
<1>6. \/ UNCHANGED cards \/ PutsCard \/ \E r \in Rows : RelayOpens(r) \/ FixesValue(r)
    BY DEF ImportNext, Begins, SkipsRow, PutsContact, PutsNote, Books, Appends, EndsRun, Killed,
           FixBegins, FixTurns, FixBooks, FixEnds, ghl
<1> QED  BY <1>2, <1>3, <1>4, <1>5, <1>6

(* A card of the import's stays with the client of its job. *)
LEMMA CardsGoOn ==
    ASSUME SheetsAreWhole, ImportTypes, CardsInv, LinesInv, RunInv, ImportNext
    PROVE  CardsInv'
<1>1. \A r : Key(r)' = Key(r)
    BY SetupStays, ExportStays DEF setup
<1>2. \A d \in DOMAIN cards : /\ d \in DOMAIN cards' /\ cards'[d].of = cards[d].of
                              /\ cards'[d].key = cards[d].key
    BY CardsGrow
<1>3. \A d \in DOMAIN cards' : d \notin DOMAIN cards /\ cards'[d].of # 0 => cards'[d].key = Key(cards'[d].of)
    BY CardsGrow
<1>4. ASSUME NEW d \in DOMAIN cards', cards'[d].of # 0
      PROVE  cards'[d].key = Key(cards'[d].of)
    BY <1>2, <1>3, <1>4 DEF CardsInv
<1> QED  BY <1>1, <1>4 DEF CardsInv

(* Only Appends writes the ledger. *)
LEMMA LedgerStep ==
    ASSUME ImportNext
    PROVE  UNCHANGED ledger \/ (Appends /\ ~torn /\ ledger' = Append(ledger, Entry))
<1>1. CASE Appends
    BY <1>1 DEF Appends
<1>2. CASE ~Appends
    BY <1>2 DEF ImportNext, Begins, SkipsRow, PutsContact, PutsCard, PutsNote, Books, EndsRun,
                Killed,
           RelayOpens, FixBegins, FixesValue, FixTurns, FixBooks, FixEnds, disk
<1> QED  BY <1>1, <1>2

(* What was printed stays printed. *)
LEMMA SaidStays == ASSUME ImportNext PROVE said \subseteq said'
<1>1. ASSUME PutsContact \/ PutsCard \/ PutsNote
      PROVE  said \subseteq said'
    BY <1>1 DEF PutsContact, PutsCard, PutsNote, Says
<1>2. ASSUME ~(PutsContact \/ PutsCard \/ PutsNote)
      PROVE  said \subseteq said'
    BY <1>2 DEF ImportNext, Begins, SkipsRow, Books, Appends, EndsRun, Killed,
           RelayOpens, FixBegins, FixesValue, FixTurns, FixBooks, FixEnds
<1> QED  BY <1>1, <1>2

(* The line of the row in hand tells what the run did. *)
LEMMA EntryTells ==
    ASSUME SheetsAreWhole, ImportTypes, RunInv, run.at = "booked"
    PROVE  /\ Entry.row = run.row /\ Entry.card = run.card /\ Entry.note = run.note /\ Entry.appt = run.appt
           /\ Entry.stranded = Stranded /\ run.row \in Rows /\ run.row \notin Ledgered
           /\ ToldOf(Entry) /\ (Entry.card # 0 => Entry.stranded = 0)
           /\ Stranded \in Nat
<1>1. /\ Entry.row = run.row /\ Entry.card = run.card /\ Entry.note = run.note /\ Entry.appt = run.appt
      /\ Entry.stranded = Stranded
    BY DEF Entry
<1>2. ToldOf(run) /\ run.row \in Rows /\ run.row \notin Ledgered
    BY DEF RunInv, InHand, AtJob
<1>3. ToldOf(Entry)
    BY <1>1, <1>2 DEF ToldOf
<1>4. run.card # 0 => ~run.note
    BY <1>2 DEF ToldOf
<1>5. Stranded \in Nat /\ (run.card # 0 => Stranded = 0)
    BY <1>2, <1>4, ValueIs DEF Stranded, AtJob
<1> QED  BY <1>1, <1>2, <1>3, <1>5

(* The ledger keeps one line a job, and each line stays true of the cards. *)
LEMMA LinesGoOn ==
    ASSUME SheetsAreWhole, ImportTypes, CardsInv, LinesInv, RunInv, ImportNext
    PROVE  LinesInv'
<1>2. \A l \in DOMAIN ledger : ledger[l].card # 0 => ledger[l].card \in DOMAIN cards
    <2>1. \A l \in DOMAIN ledger : ledger[l] \in Lines
        BY DEF ImportTypes
    <2>2. DOMAIN cards = 1..Len(cards) /\ Len(cards) \in Nat
        BY DEF ImportTypes
    <2> QED  BY <2>1, <2>2 DEF Lines
<1>3. CASE UNCHANGED ledger
    <2>1. ASSUME NEW l \in DOMAIN ledger
          PROVE  ToldOf(ledger[l])'
        <3>1. ToldOf(ledger[l])
            BY DEF LinesInv
        <3> DEFINE line == ledger[l]
        <3>2. line.card # 0 => line.card \in DOMAIN cards
            BY <1>2
        <3>3. line.card # 0 => cards'[line.card].of = cards[line.card].of
            BY <3>2, CardsGrow
        <3>4. line.row \in said => line.row \in said'
            BY SaidStays
        <3>5. ledger'[l] = line
            BY <1>3
        <3> HIDE DEF line
        <3> QED  BY <3>1, <3>3, <3>4, <3>5 DEF ToldOf, line
    <2> QED  BY <1>3, <2>1 DEF LinesInv
<1>4. CASE Appends /\ ~torn /\ ledger' = Append(ledger, Entry)
    <2>1. UNCHANGED <<cards, said>> /\ run.at = "booked"
        BY <1>4 DEF Appends, ghl
    <2>2. /\ Entry.row \notin Ledgered /\ ToldOf(Entry) /\ (Entry.card # 0 => Entry.stranded = 0)
        BY <2>1, EntryTells
    <2>3. /\ \A k, l \in DOMAIN ledger' : ledger'[k].row = ledger'[l].row => k = l
          /\ \A l \in DOMAIN ledger' : (l \in DOMAIN ledger /\ ledger'[l] = ledger[l]) \/ ledger'[l] = Entry
        BY <1>4, <2>2, LedgerGrows DEF LinesInv
    <2>4. ASSUME NEW l \in DOMAIN ledger'
          PROVE  /\ ledger'[l].card # 0 => cards[ledger'[l].card].of = ledger'[l].row /\ ~ledger'[l].note
                 /\ ledger'[l].card = 0 => ledger'[l].note \/ ledger'[l].row \in said
                 /\ ledger'[l].card # 0 => ledger'[l].stranded = 0
        BY <2>2, <2>3 DEF LinesInv, ToldOf
    <2> QED  BY <2>1, <2>3, <2>4 DEF LinesInv, ToldOf
<1> QED  BY <1>3, <1>4, LedgerStep

(* What the run knows at its steps. *)
LEMMA RunGoesOn ==
    ASSUME SheetsAreWhole, ImportTypes, CardsInv, LinesInv, RunInv, ImportNext
    PROVE  RunInv'
<1>1. /\ Rows' = Rows /\ by' = by /\ \A r : HasPhone(r)' = HasPhone(r) /\ Key(r)' = Key(r)
      /\ Len(sheet) \in Nat /\ Rows = 1..Len(sheet) /\ run \in Runs
    BY SetupStays, ExportStays, ExportFacts DEF setup, ImportTypes, Rows
<1>2. run.row \in Nat /\ run.upto \in 0..Len(sheet)
    BY <1>1 DEF Runs
<1>3. ASSUME NEW n \in 1..(run.upto + 1), run' = RunAt("row", n, run.upto, run.seen)
      PROVE  RunInv'
    BY <1>3 DEF RunAt, RunInv, AtJob, InHand
<1>4. ASSUME run' = NoRun
      PROVE  RunInv'
    BY <1>4 DEF NoRun, RunAt, RunInv, AtJob, InHand
<1>5. ASSUME run.at # "off", run.row =< run.upto, Onward
      PROVE  RunInv'
    BY <1>2, <1>3, <1>5 DEF RunInv, Onward
<1>6. ASSUME run' = run, ledger' = ledger
      PROVE  RunInv'
    <2>1. ASSUME InHand
          PROVE  ToldOf(run)'
        <3>1. ToldOf(run)
            BY <2>1 DEF RunInv
        <3>2. DOMAIN cards = 1..Len(cards) /\ Len(cards) \in Nat /\ run.card \in 0..Len(cards)
            BY <1>1 DEF ImportTypes, Runs
        <3>3. run.card # 0 => cards'[run.card].of = cards[run.card].of
            BY <3>2, CardsGrow
        <3>4. run.row \in said => run.row \in said'
            BY SaidStays
        <3> QED  BY <1>6, <3>1, <3>3, <3>4 DEF ToldOf
    <2>2. Ledgered' = Ledgered
        BY <1>6, LedgerStays
    <2> QED  BY <1>1, <1>6, <2>1, <2>2 DEF RunInv, AtJob, InHand, Included
<1>7. ASSUME NEW upto \in Rows, Begins(upto)
      PROVE  RunInv'
    <2>1. run' = RunAt("row", 1, upto, {})
        BY <1>7 DEF Begins
    <2> QED  BY <1>1, <2>1 DEF RunAt, RunInv, AtJob, InHand
<1>8. CASE SkipsRow
    BY <1>5, <1>8 DEF SkipsRow
<1>9. CASE PutsContact
    <2>1. run.at = "row" /\ run.row =< run.upto /\ run.row \notin Ledgered /\ run.row \in Rows
        BY <1>1, <1>2, <1>9 DEF PutsContact, Resumed, RunInv
    <2>2. CASE Onward
        BY <1>5, <2>1, <2>2
    <2>3. CASE run' = [run EXCEPT !.at = "contact", !.first = Key(run.row) \notin run.seen,
                                  !.seen = IF HasPhone(run.row) THEN @ \cup {Key(run.row)} ELSE @]
        <3>1. /\ run'.at = "contact" /\ run'.row = run.row /\ run'.upto = run.upto /\ run'.card = run.card
              /\ run'.note = run.note /\ run'.appt = run.appt
              /\ HasPhone(run.row) => Key(run.row) \in run'.seen
            BY <1>1, <2>3 DEF Runs
        <3>2. Ledgered' = Ledgered
            BY <1>9, LedgerStays DEF PutsContact, disk
        <3> QED  BY <1>1, <2>1, <3>1, <3>2 DEF RunInv, AtJob, InHand
    <2> QED  BY <1>9, <2>2, <2>3 DEF PutsContact
<1>10. CASE PutsCard
    <2>1. /\ run.at = "contact" /\ ~Included /\ run.row \in Rows /\ run.row =< run.upto /\ run.row \notin Ledgered
          /\ run.card = 0 /\ ~run.note /\ ~run.appt
        BY <1>10 DEF PutsCard, RunInv, AtJob, InHand
    <2>2. Ledgered' = Ledgered
        BY <1>10, LedgerStays DEF PutsCard, disk
    <2>3. CASE Onward
        BY <1>5, <2>1, <2>3
    <2>4. CASE run' = [run EXCEPT !.at = "refused"]
        <3>1. /\ run'.at = "refused" /\ run'.row = run.row /\ run'.upto = run.upto /\ run'.card = run.card
              /\ run'.note = run.note /\ run'.appt = run.appt /\ run'.first = run.first /\ run'.seen = run.seen
            BY <1>1, <2>4 DEF Runs
        <3>2. Included' = Included
            BY <1>1, <3>1 DEF Included
        <3> QED  BY <1>1, <2>1, <2>2, <3>1, <3>2 DEF RunInv, AtJob, InHand
    <2>5. CASE /\ cards' = Append(cards, [key |-> Key(run.row), of |-> run.row, value |-> Value])
               /\ run' = [run EXCEPT !.at = "put", !.card = Len(cards) + 1]
        <3>1. /\ run'.at = "put" /\ run'.row = run.row /\ run'.upto = run.upto /\ run'.card = Len(cards) + 1
              /\ run'.note = run.note /\ run'.appt = run.appt /\ run'.first = run.first /\ run'.seen = run.seen
            BY <1>1, <2>5 DEF Runs
        <3>2. Included' = Included
            BY <1>1, <3>1 DEF Included
        <3>3. cards'[Len(cards) + 1].of = run.row /\ Len(cards) \in Nat
            BY <2>5 DEF ImportTypes
        <3>4. ToldOf(run)'
            BY <2>1, <3>1, <3>3 DEF ToldOf
        <3> QED  BY <1>1, <2>1, <2>2, <3>1, <3>2, <3>3, <3>4 DEF RunInv, AtJob, InHand
    <2> QED  BY <1>10, <2>3, <2>4, <2>5 DEF PutsCard
<1>11. CASE PutsNote
    <2>1. /\ run.at \in {"refused", "contact"} /\ run.row \in Rows /\ run.row =< run.upto /\ run.row \notin Ledgered
          /\ run.card = 0 /\ ~run.note /\ ~run.appt
        BY <1>11 DEF PutsNote, RunInv, AtJob, InHand
    <2>2. Ledgered' = Ledgered
        BY <1>11, LedgerStays DEF PutsNote, disk
    <2>3. /\ run'.at = "put" /\ run'.row = run.row /\ run'.upto = run.upto /\ run'.card = run.card
          /\ run'.appt = run.appt /\ run'.first = run.first /\ run'.seen = run.seen
          /\ run'.note \/ run.row \in said'
        BY <1>1, <1>11 DEF PutsNote, Says, Runs
    <2>4. ToldOf(run)'
        BY <2>1, <2>3 DEF ToldOf
    <2> QED  BY <1>1, <2>1, <2>2, <2>3, <2>4 DEF RunInv, AtJob, InHand
<1>12. CASE Books
    <2>1. /\ run.at = "put" /\ run.row \in Rows /\ run.row =< run.upto /\ run.row \notin Ledgered /\ ToldOf(run)
        BY <1>12 DEF Books, RunInv, AtJob, InHand
    <2>2. Ledgered' = Ledgered
        BY <1>12, LedgerStays DEF Books, disk
    <2>3. /\ run'.at = "booked" /\ run'.row = run.row /\ run'.upto = run.upto /\ run'.card = run.card
          /\ run'.note = run.note /\ run'.first = run.first /\ run'.seen = run.seen
        BY <1>1, <1>12 DEF Books, Runs
    <2>4. ToldOf(run)'
        BY <1>12, <2>1, <2>3 DEF ToldOf, Books
    <2>5. Included' = Included
        BY <1>1, <2>3 DEF Included
    <2> QED  BY <1>1, <2>1, <2>2, <2>3, <2>4, <2>5 DEF RunInv, AtJob, InHand
<1>13. CASE Appends
    <2>1. run.row =< run.upto /\ run.at = "booked"
        BY <1>13 DEF Appends, RunInv, AtJob
    <2> QED  BY <1>5, <1>13, <2>1 DEF Appends
<1>14. CASE EndsRun \/ Killed
    BY <1>4, <1>14 DEF EndsRun, Killed
<1>15. ASSUME NEW r \in Rows, RelayOpens(r) \/ FixesValue(r) \/ FixBooks(r)
       PROVE  RunInv'
    BY <1>6, <1>15 DEF RelayOpens, FixesValue, FixBooks, disk
<1>16. CASE FixBegins \/ FixTurns \/ FixEnds
    BY <1>6, <1>16 DEF FixBegins, FixTurns, FixEnds, disk
<1> QED  BY <1>7, <1>8, <1>9, <1>10, <1>11, <1>12, <1>13, <1>14, <1>15, <1>16 DEF ImportNext

(* The repair works while no run does, on lines it found. *)
LEMMA FixGoesOn ==
    ASSUME SheetsAreWhole, ImportTypes, CardsInv, LinesInv, RunInv, FixInv, ImportNext
    PROVE  FixInv'
<1>1. CASE UNCHANGED fix /\ UNCHANGED ledger
    <2>1. Ledgered' = Ledgered /\ \A r : EntryOf(r)' = EntryOf(r)
        BY <1>1, LedgerStays
    <2>2. fix.at \in {"values", "appts"} => run'.at = "off"
        <3>1. fix.at \in {"values", "appts"} => run.at = "off"
            BY DEF FixInv
        <3>2. run.at = "off" => run' = run \/ \E upto \in Rows : Begins(upto)
            BY DEF ImportNext, SkipsRow, PutsContact, PutsCard, PutsNote, Books, Appends,
                   EndsRun, Killed,
                   RelayOpens, FixBegins, FixesValue, FixTurns, FixBooks, FixEnds
        <3>3. (\E upto \in Rows : Begins(upto)) => fix.at \notin {"values", "appts"}
            BY DEF Begins
        <3> QED  BY <3>1, <3>2, <3>3
    <2> QED  BY <1>1, <2>1, <2>2 DEF FixInv
<1>2. CASE Appends
    <2>1. fix.at \notin {"values", "appts"} /\ fix' = fix
        BY <1>2 DEF Appends, FixInv
    <2> QED  BY <2>1 DEF FixInv
<1>3. CASE FixBegins
    <2>1. /\ run'.at = "off" /\ ledger' = ledger /\ fix'.at = "values"
          /\ fix'.todo = {r \in Ledgered : EntryOf(r).stranded > 0}
        BY <1>3 DEF FixBegins, disk
    <2>2. Ledgered' = Ledgered /\ \A r : EntryOf(r)' = EntryOf(r)
        BY <2>1, LedgerStays
    <2> QED  BY <2>1, <2>2 DEF FixInv
<1>4. ASSUME NEW r \in Rows, FixesValue(r) \/ FixBooks(r)
      PROVE  FixInv'
    <2>1. fix'.at = fix.at /\ fix'.todo \subseteq fix.todo /\ run' = run /\ ledger' = ledger
        BY <1>4 DEF FixesValue, FixBooks, disk, ImportTypes
    <2>2. Ledgered' = Ledgered /\ \A x : EntryOf(x)' = EntryOf(x)
        BY <2>1, LedgerStays
    <2> QED  BY <2>1, <2>2 DEF FixInv
<1>5. CASE FixTurns
    <2>1. /\ run' = run /\ ledger' = ledger /\ fix.at = "values" /\ fix'.at = "appts"
          /\ fix'.todo = {r \in Ledgered : ~EntryOf(r).appt}
        BY <1>5 DEF FixTurns, disk
    <2>2. Ledgered' = Ledgered
        BY <2>1, LedgerStays
    <2> QED  BY <2>1, <2>2 DEF FixInv
<1>6. CASE FixEnds
    BY <1>6 DEF FixEnds, FixInv, ImportTypes
<1>7. \/ UNCHANGED fix /\ UNCHANGED ledger
      \/ Appends \/ FixBegins \/ FixTurns \/ FixEnds
      \/ \E r \in Rows : FixesValue(r) \/ FixBooks(r)
    BY DEF ImportNext, Begins, SkipsRow, PutsContact, PutsCard, PutsNote, Books, EndsRun, Killed,
           RelayOpens, disk
<1> QED  BY <1>1, <1>2, <1>3, <1>4, <1>5, <1>6, <1>7

(* A half line takes runs to come about. *)
LEMMA TornGoesOn ==
    ASSUME SheetsAreWhole, ImportTypes, RunInv, TornInv, ImportNext
    PROVE  TornInv'
<1>1. runs \in Nat /\ halves \in Nat
    BY DEF ImportTypes
<1>2. ASSUME NEW upto \in Rows, Begins(upto)
      PROVE  TornInv'
    <2>1. runs' = runs + 1 /\ torn' = torn /\ halves' = halves
        BY <1>2, Zenon DEF Begins, disk
    <2> QED  BY <1>1, <2>1 DEF TornInv
<1>3. CASE Appends
    <2>1. /\ run.at # "off" /\ runs' = runs
          /\ \/ torn /\ ~torn' /\ halves' = halves + 1
             \/ ~torn /\ torn' = torn /\ halves' = halves
        BY <1>3, Zenon DEF Appends, counts
    <2> QED  BY <1>1, <2>1 DEF TornInv
<1>4. CASE Killed
    <2>1. run.at # "off" /\ runs' = runs /\ run' = NoRun /\ halves' = halves
        BY <1>4, Zenon DEF Killed
    <2>2. run'.at = "off"
        BY <2>1 DEF NoRun, RunAt
    <2> QED  BY <1>1, <2>1, <2>2 DEF TornInv
<1>5. CASE /\ runs' = runs /\ torn' = torn /\ halves' = halves
           /\ (run.at = "off" => run' = run)
    BY <1>1, <1>5 DEF TornInv
<1>6. \/ \E upto \in Rows : Begins(upto)
      \/ Appends \/ Killed
      \/ /\ runs' = runs /\ torn' = torn /\ halves' = halves
         /\ (run.at = "off" => run' = run)
    BY DEF ImportNext, SkipsRow, PutsContact, PutsCard, PutsNote, Books, EndsRun,
           RelayOpens, FixBegins, FixesValue, FixTurns, FixBooks, FixEnds, disk, counts
<1> QED  BY <1>2, <1>3, <1>4, <1>5, <1>6

(* Sets of jobs, counted. *)
LEMMA CountOfPart ==
    ASSUME NEW S, IsFiniteSet(S), NEW T, T \subseteq S
    PROVE  Cardinality(T) \in Nat /\ Cardinality(S) \in Nat /\ Cardinality(T) =< Cardinality(S)
<1> QED  BY FS_Subset, FS_CardinalityType

(* One more element counts one more at most. *)
LEMMA CountWithOne ==
    ASSUME NEW S, IsFiniteSet(S), NEW x, NEW T, T \subseteq S \cup {x}
    PROVE  Cardinality(T) \in Nat /\ Cardinality(S) \in Nat /\ Cardinality(T) =< Cardinality(S) + 1
<1> DEFINE U == S \cup {x}
<1>1. IsFiniteSet(U) /\ Cardinality(U) =< Cardinality(S) + 1 /\ Cardinality(S) \in Nat
    BY FS_AddElement, FS_CardinalityType
<1>2. T \subseteq U
    OBVIOUS
<1> HIDE DEF U
<1>3. Cardinality(T) \in Nat /\ Cardinality(U) \in Nat /\ Cardinality(T) =< Cardinality(U)
    BY <1>1, <1>2, CountOfPart
<1> QED  BY <1>1, <1>3

(* One element less counts one less at least. *)
LEMMA CountWithoutOne ==
    ASSUME NEW S, IsFiniteSet(S), NEW x \in S, NEW T, T \subseteq S \ {x}
    PROVE  Cardinality(T) \in Nat /\ Cardinality(S) \in Nat /\ Cardinality(T) + 1 =< Cardinality(S)
<1> DEFINE U == S \ {x}
<1>1. IsFiniteSet(U) /\ Cardinality(U) = Cardinality(S) - 1 /\ Cardinality(S) \in Nat
    BY FS_RemoveElement, FS_CardinalityType
<1>2. T \subseteq U
    OBVIOUS
<1> HIDE DEF U
<1>3. Cardinality(T) \in Nat /\ Cardinality(U) \in Nat /\ Cardinality(T) =< Cardinality(U)
    BY <1>1, <1>2, CountOfPart
<1> QED  BY <1>1, <1>3

(* Something is done to one job once more: either it was not done before, or the job
   was among those that may be done again, and no longer is. *)
LEMMA OnceMore ==
    ASSUME IsFiniteSet(Rows), NEW f \in [Rows -> Nat], NEW g \in [Rows -> Nat],
           NEW x \in Rows, g[x] = f[x] + 1, \A y \in Rows : y # x => g[y] = f[y],
           NEW S, NEW T, S \subseteq Rows, f[x] > 0 => x \in S, T \subseteq S \ {x}
    PROVE  Repeats(g) + Cardinality(T) =< Repeats(f) + Cardinality(S)
<1> DEFINE F == [r \in Rows |-> Again(f[r])]
           G == [r \in Rows |-> Again(g[r])]
<1>1. \A r \in Rows : F[r] \in Nat /\ G[r] \in Nat
    BY DEF Again
<1>2. \A y \in Rows \ {x} : F[y] = G[y]
    OBVIOUS
<1>3. (f[x] = 0 => F[x] = 0 /\ G[x] = 0) /\ (f[x] > 0 => G[x] = F[x] + 1)
    BY DEF Again
<1>4. Repeats(f) = SumFunctionOnSet(F, Rows) /\ Repeats(g) = SumFunctionOnSet(G, Rows)
    BY DEF Repeats
<1>5. IsFiniteSet(S) /\ IsFiniteSet(Rows \ {x})
    BY FS_Subset
<1>6. f[x] \in Nat
    OBVIOUS
<1> HIDE DEF F, G
<1>7. SumFunctionOnSet(F, Rows) = F[x] + SumFunctionOnSet(F, Rows \ {x})
    BY <1>1, SumTakes
<1>8. SumFunctionOnSet(G, Rows) = G[x] + SumFunctionOnSet(G, Rows \ {x})
    BY <1>1, SumTakes
<1>9. SumFunctionOnSet(F, Rows \ {x}) = SumFunctionOnSet(G, Rows \ {x})
    BY <1>2, <1>5, SumAgrees
<1>10. SumFunctionOnSet(F, Rows \ {x}) \in Nat
    BY <1>1, <1>5, SumIsNat
<1>11. CASE f[x] = 0
    <2>1. Cardinality(T) \in Nat /\ Cardinality(S) \in Nat /\ Cardinality(T) =< Cardinality(S)
        BY <1>5, CountOfPart
    <2> QED  BY <1>3, <1>4, <1>7, <1>8, <1>9, <1>10, <1>11, <2>1
<1>12. CASE f[x] > 0
    <2>1. Cardinality(T) \in Nat /\ Cardinality(S) \in Nat /\ Cardinality(T) + 1 =< Cardinality(S)
        BY <1>5, <1>12, CountWithoutOne
    <2> QED  BY <1>1, <1>3, <1>4, <1>7, <1>8, <1>9, <1>10, <1>12, <2>1
<1> QED  BY <1>6, <1>11, <1>12

(* Repeats are a number. *)
LEMMA RepeatsAre ==
    ASSUME IsFiniteSet(Rows), NEW f \in [Rows -> Nat]
    PROVE  Repeats(f) \in Nat
<1> DEFINE F == [r \in Rows |-> Again(f[r])]
<1>1. \A r \in Rows : F[r] \in Nat
    BY DEF Again
<1>2. Repeats(f) = SumFunctionOnSet(F, Rows)
    BY DEF Repeats
<1> HIDE DEF F
<1> QED  BY <1>1, <1>2, SumIsNat

(* How often a job was put into GoHighLevel. *)
LEMMA CopiesAre ==
    ASSUME SheetsAreWhole, ImportTypes
    PROVE  /\ CopiesOf \in [Rows -> Nat]
           /\ \A r \in Rows : IsFiniteSet({i \in DOMAIN cards : cards[i].of = r})
<1>1. IsFiniteSet(DOMAIN cards)
    BY FS_Interval DEF ImportTypes
<1>2. ASSUME NEW r \in Rows
      PROVE  IsFiniteSet({i \in DOMAIN cards : cards[i].of = r}) /\ Copies(r) \in Nat
    <2> DEFINE S == {i \in DOMAIN cards : cards[i].of = r}
    <2>1. IsFiniteSet(S) /\ Cardinality(S) \in Nat
        BY <1>1, FS_Subset, FS_CardinalityType
    <2>2. notes[r] \in Nat
        BY DEF ImportTypes
    <2> HIDE DEF S
    <2>3. Cardinality(S) + notes[r] \in Nat
        BY <2>1, <2>2
    <2> QED  BY <2>1, <2>3 DEF Copies, S
<1> QED  BY <1>2 DEF CopiesOf

(* A card for the row at work, a card of the relay's, and a corrected one. *)
LEMMA CopiesStep ==
    ASSUME SheetsAreWhole, ImportTypes, CardsInv, LinesInv, RunInv, ImportNext
    PROVE  \/ \A r \in Rows : Copies(r)' = Copies(r)
           \/ /\ AtJob /\ ~InHand /\ InHand' /\ run'.row = run.row
              /\ UNCHANGED <<ledger, kills, halves>>
              /\ Copies(run.row)' = Copies(run.row) + 1
              /\ \A r \in Rows : r # run.row => Copies(r)' = Copies(r)
<1>1. sheet' = sheet /\ Rows' = Rows
    BY SetupStays, ExportStays DEF setup
<1>2. DOMAIN cards = 1..Len(cards) /\ Len(cards) \in Nat /\ notes \in [Rows -> Nat] /\ run \in Runs
    BY DEF ImportTypes
<1>3. \A r \in Rows : /\ IsFiniteSet({i \in DOMAIN cards : cards[i].of = r})
                      /\ Cardinality({i \in DOMAIN cards : cards[i].of = r}) \in Nat
    BY CopiesAre, FS_CardinalityType
<1>4. CASE UNCHANGED <<cards, notes>>
    BY <1>4 DEF Copies
<1>5. CASE PutsCard /\ ~UNCHANGED cards
    <2>1. /\ cards' = Append(cards, [key |-> Key(run.row), of |-> run.row, value |-> Value])
          /\ run' = [run EXCEPT !.at = "put", !.card = Len(cards) + 1]
          /\ UNCHANGED <<notes, ledger, kills, halves>> /\ run.at = "contact"
        BY <1>5 DEF PutsCard, disk
    <2>2. run'.at = "put" /\ run'.row = run.row
        BY <1>2, <2>1 DEF Runs
    <2>3. /\ DOMAIN cards' = 1..(Len(cards) + 1) /\ cards'[Len(cards) + 1].of = run.row
          /\ \A d \in DOMAIN cards : cards'[d] = cards[d]
        BY <1>2, <2>1 DEF ImportTypes
    <2>4. ASSUME NEW r \in Rows, r # run.row
          PROVE  {i \in DOMAIN cards' : cards'[i].of = r} = {i \in DOMAIN cards : cards[i].of = r}
        BY <1>2, <2>3, <2>4
    <2>5. run.row \in Rows
        BY <2>1 DEF RunInv, AtJob
    <2> DEFINE S == {i \in DOMAIN cards : cards[i].of = run.row}
               n == Len(cards) + 1
    <2>6. {i \in DOMAIN cards' : cards'[i].of = run.row} = S \cup {n} /\ n \notin S
        BY <1>2, <2>3
    <2>7. IsFiniteSet(S) /\ Cardinality(S) \in Nat
        BY <1>3, <2>5
    <2> HIDE DEF S, n
    <2>8. Cardinality(S \cup {n}) = Cardinality(S) + 1
        BY <2>6, <2>7, FS_AddElement
    <2>9. notes[run.row] \in Nat
        BY <1>2, <2>5
    <2>10. Copies(run.row)' = Cardinality(S \cup {n}) + notes[run.row]
        BY <2>1, <2>2, <2>6 DEF Copies
    <2>11. Copies(run.row) = Cardinality(S) + notes[run.row]
        BY DEF Copies, S
    <2>12. Copies(run.row)' = Copies(run.row) + 1
        BY <2>7, <2>8, <2>9, <2>10, <2>11
    <2>13. \A r \in Rows : r # run.row => Copies(r)' = Copies(r)
        BY <2>1, <2>4 DEF Copies
    <2> QED  BY <2>1, <2>2, <2>12, <2>13 DEF AtJob, InHand
<1>6. CASE PutsNote /\ ~UNCHANGED notes
    <2>1. /\ notes' = [notes EXCEPT ![run.row] = @ + 1]
          /\ run' = [run EXCEPT !.at = "put", !.note = TRUE]
          /\ UNCHANGED <<cards, ledger, kills, halves>> /\ run.at \in {"contact", "refused"}
        BY <1>6 DEF PutsNote, disk
    <2>2. run'.at = "put" /\ run'.row = run.row
        BY <1>2, <2>1 DEF Runs
    <2>3. run.row \in Rows
        BY <2>1 DEF RunInv, AtJob
    <2>4. /\ notes'[run.row] = notes[run.row] + 1 /\ notes[run.row] \in Nat
          /\ \A r \in Rows : r # run.row => notes'[r] = notes[r]
        BY <1>2, <2>1, <2>3
    <2>5. \A r \in Rows : r # run.row => Copies(r)' = Copies(r)
        BY <2>1, <2>4 DEF Copies
    <2> DEFINE S == {i \in DOMAIN cards : cards[i].of = run.row}
    <2>6. Copies(run.row) = Cardinality(S) + notes[run.row]
        BY DEF Copies
    <2>7. Copies(run.row)' = Cardinality(S) + notes'[run.row]
        BY <2>1, <2>2 DEF Copies
    <2>8. Cardinality(S) \in Nat
        BY <1>3, <2>3
    <2> HIDE DEF S
    <2>9. Copies(run.row)' = Copies(run.row) + 1
        BY <2>4, <2>6, <2>7, <2>8
    <2> QED  BY <2>1, <2>2, <2>5, <2>9 DEF AtJob, InHand
<1>7. ASSUME NEW x \in Rows, RelayOpens(x)
      PROVE  \A r \in Rows : Copies(r)' = Copies(r)
    <2>1. cards' = Append(cards, [key |-> Key(x), of |-> 0, value |-> 0]) /\ UNCHANGED notes
        BY <1>7 DEF RelayOpens
    <2>2. /\ DOMAIN cards' = 1..(Len(cards) + 1) /\ cards'[Len(cards) + 1].of = 0
          /\ \A d \in DOMAIN cards : cards'[d] = cards[d]
        BY <1>2, <2>1 DEF ImportTypes
    <2>3. 0 \notin Rows
        BY DEF Rows
    <2>4. ASSUME NEW r \in Rows
          PROVE  {i \in DOMAIN cards' : cards'[i].of = r} = {i \in DOMAIN cards : cards[i].of = r}
        BY <1>2, <2>2, <2>3
    <2> QED  BY <2>1, <2>4 DEF Copies
<1>8. ASSUME NEW x \in Rows, FixesValue(x), ~UNCHANGED cards
      PROVE  \A r \in Rows : Copies(r)' = Copies(r)
    <2>1. DOMAIN cards' = DOMAIN cards /\ (\A d \in DOMAIN cards : cards'[d].of = cards[d].of) /\ UNCHANGED notes
        BY <1>8, CardFixed DEF FixesValue
    <2>2. ASSUME NEW r \in Rows
          PROVE  {i \in DOMAIN cards' : cards'[i].of = r} = {i \in DOMAIN cards : cards[i].of = r}
        BY <2>1
    <2> QED  BY <2>1, <2>2 DEF Copies
<1>9. \/ UNCHANGED <<cards, notes>>
      \/ PutsCard /\ UNCHANGED notes
      \/ PutsNote /\ UNCHANGED cards
      \/ \E r \in Rows : (RelayOpens(r) \/ FixesValue(r)) /\ UNCHANGED notes
    BY DEF ImportNext, Begins, SkipsRow, PutsContact, PutsCard, PutsNote, Books, Appends,
           EndsRun, Killed,
           RelayOpens, FixBegins, FixesValue, FixTurns, FixBooks, FixEnds, ghl
<1> QED  BY <1>4, <1>5, <1>6, <1>7, <1>8, <1>9

(* A row in hand stays in hand, or gets its line, unless the run dies or half a line
   hides it. *)
LEMMA HandStep ==
    ASSUME SheetsAreWhole, ImportTypes, RunInv, ImportNext, InHand
    PROVE  \/ Killed \/ (Appends /\ torn)
           \/ Appends /\ ~torn /\ run.row \in Ledgered'
           \/ InHand' /\ run'.row = run.row /\ (run.appt => run'.appt)
<1>1. CASE Appends /\ ~torn
    <2>1. run.at = "booked" /\ ledger' = Append(ledger, Entry) /\ ledger \in Seq(Lines)
        BY <1>1 DEF Appends, ImportTypes
    <2>2. Entry.row = run.row
        BY DEF Entry
    <2>3. Len(ledger) + 1 \in DOMAIN ledger' /\ ledger'[Len(ledger) + 1] = Entry
        BY <2>1
    <2>4. run.row \in Ledgered'
        BY <2>2, <2>3 DEF Ledgered
    <2> QED  BY <1>1, <2>4
<1>2. CASE Books
    <2>1. run \in Runs
        BY DEF ImportTypes
    <2>2. run'.at = "booked" /\ run'.row = run.row /\ run.at = "put"
        BY <1>2, <2>1 DEF Books, Runs
    <2> QED  BY <2>2 DEF InHand, RunInv
<1>3. CASE run' = run
    BY <1>3 DEF InHand
<1>4. Appends \/ Books \/ Killed \/ run' = run
    BY DEF InHand, ImportNext, Begins, SkipsRow, PutsContact, PutsCard, PutsNote, EndsRun,
           RelayOpens, FixBegins, FixesValue, FixTurns, FixBooks, FixEnds
<1> QED  BY <1>1, <1>2, <1>3, <1>4

(* What is repeated is paid for by a kill or a half line. *)
LEMMA CopiesGoOn ==
    ASSUME SheetsAreWhole, ImportTypes, CardsInv, LinesInv, RunInv, CopiesInv, ImportNext, ImportTypes'
    PROVE  CopiesInv'
<1>1. Rows' = Rows /\ IsFiniteSet(Rows) /\ kills \in Nat /\ halves \in Nat
    BY SetupStays, ExportStays, ExportFacts DEF setup, ImportTypes
<1>2. CopiesOf \in [Rows -> Nat] /\ Redone \subseteq Rows /\ \A r \in Rows : CopiesOf[r] = Copies(r)
    BY CopiesAre DEF Redone, CopiesOf
<1>3. /\ CopiesOf' = [r \in Rows |-> Copies(r)'] /\ Redone' \subseteq Rows
      /\ Redone' = {r \in Rows : Copies(r)' > 0 /\ r \notin Ledgered' /\ ~(InHand' /\ run'.row = r)}
    BY <1>1 DEF CopiesOf, Redone
<1>4. Repeats(CopiesOf) \in Nat /\ IsFiniteSet(Redone)
    BY <1>1, <1>2, RepeatsAre, FS_Subset
<1>5. Ledgered \subseteq Ledgered'
    <2>1. CASE UNCHANGED ledger
        BY <2>1 DEF Ledgered
    <2>2. CASE ledger' = Append(ledger, Entry)
        <3>1. ledger \in Seq(Lines)
            BY DEF ImportTypes
        <3>2. \A l \in DOMAIN ledger : l \in DOMAIN ledger' /\ ledger'[l] = ledger[l]
            BY <2>2, <3>1
        <3> QED  BY <3>2 DEF Ledgered
    <2> QED  BY <2>1, <2>2, LedgerStep
<1>6. ASSUME \A r \in Rows : Copies(r)' = Copies(r)
      PROVE  CopiesInv'
    <2>1. CopiesOf' = CopiesOf
        BY <1>3, <1>6 DEF CopiesOf
    <2>2. Repeats(CopiesOf)' = Repeats(CopiesOf)
        BY <1>1, <2>1 DEF Repeats
    <2>3. CASE Killed
        <3>1. kills' = kills + 1 /\ halves' = halves /\ Ledgered' = Ledgered
            BY <2>3, Zenon DEF Killed, Ledgered
        <3>2. Redone' \subseteq Redone \cup {run.row}
            BY <1>3, <1>6, <3>1 DEF Redone
        <3>3. /\ Cardinality(Redone') \in Nat /\ Cardinality(Redone) \in Nat
              /\ Cardinality(Redone') =< Cardinality(Redone) + 1
            BY <1>4, <3>2, CountWithOne
        <3> QED  BY <1>1, <1>4, <2>2, <3>1, <3>3 DEF CopiesInv
    <2>4. CASE Appends /\ torn
        <3>1. kills' = kills /\ halves' = halves + 1 /\ Ledgered' = Ledgered
            BY <2>4, Zenon DEF Appends, Ledgered, counts
        <3>2. Redone' \subseteq Redone \cup {run.row}
            BY <1>3, <1>6, <3>1 DEF Redone
        <3>3. /\ Cardinality(Redone') \in Nat /\ Cardinality(Redone) \in Nat
              /\ Cardinality(Redone') =< Cardinality(Redone) + 1
            BY <1>4, <3>2, CountWithOne
        <3> QED  BY <1>1, <1>4, <2>2, <3>1, <3>3 DEF CopiesInv
    <2>5. CASE ~Killed /\ ~(Appends /\ torn)
        <3>1. kills' = kills /\ halves' = halves
            <4>1. CASE Appends
                BY <2>5, <4>1, Zenon DEF Appends, counts
            <4>2. CASE ~Appends
                BY <2>5, <4>2 DEF ImportNext, Begins, SkipsRow, PutsContact, PutsCard,
                                  PutsNote, Books, EndsRun,
                       RelayOpens, FixBegins, FixesValue, FixTurns, FixBooks, FixEnds, counts,
                       disk
            <4> QED  BY <4>1, <4>2
        <3>2. Redone' \subseteq Redone
            <4>1. ASSUME NEW r \in Redone'
                  PROVE  r \in Redone
                <5>1. r \in Rows /\ Copies(r) > 0 /\ r \notin Ledgered /\ ~(InHand' /\ run'.row = r) /\ r \notin Ledgered'
                    BY <1>3, <1>5, <1>6
                <5>2. ~(InHand /\ run.row = r)
                    BY <2>5, <5>1, HandStep
                <5> QED  BY <5>1, <5>2 DEF Redone
            <4> QED  BY <4>1
        <3>3. Cardinality(Redone') \in Nat /\ Cardinality(Redone) \in Nat /\ Cardinality(Redone') =< Cardinality(Redone)
            BY <1>4, <3>2, CountOfPart
        <3> QED  BY <1>1, <1>4, <2>2, <3>1, <3>3 DEF CopiesInv
    <2> QED  BY <2>3, <2>4, <2>5
<1>7. ASSUME /\ AtJob /\ ~InHand /\ InHand' /\ run'.row = run.row
             /\ UNCHANGED <<ledger, kills, halves>>
             /\ Copies(run.row)' = Copies(run.row) + 1
             /\ \A r \in Rows : r # run.row => Copies(r)' = Copies(r)
      PROVE  CopiesInv'
    <2>1. run.row \in Rows /\ run.row \notin Ledgered
        BY <1>7 DEF RunInv
    <2>2. Ledgered' = Ledgered
        BY <1>7, LedgerStays
    <2>3. Redone' \subseteq Redone \ {run.row}
        BY <1>3, <1>7, <2>2 DEF Redone
    <2>4. CopiesOf[run.row] > 0 => run.row \in Redone
        BY <1>2, <1>7, <2>1 DEF Redone
    <2>5. CopiesOf' \in [Rows -> Nat]
        <3>1. \A r \in Rows : Copies(r) \in Nat
            BY <1>2
        <3>2. \A r \in Rows : Copies(r)' \in Nat
            BY <1>7, <3>1
        <3> QED  BY <1>3, <3>2
    <2>6. /\ CopiesOf'[run.row] = CopiesOf[run.row] + 1
          /\ \A y \in Rows : y # run.row => CopiesOf'[y] = CopiesOf[y]
        BY <1>2, <1>3, <1>7, <2>1
    <2>7. Repeats(CopiesOf') + Cardinality(Redone') =< Repeats(CopiesOf) + Cardinality(Redone)
        BY <1>1, <1>2, <2>1, <2>3, <2>4, <2>5, <2>6, OnceMore
    <2>8. Repeats(CopiesOf)' = Repeats(CopiesOf')
        BY <1>1 DEF Repeats
    <2>9. Repeats(CopiesOf') \in Nat /\ Cardinality(Redone') \in Nat /\ Cardinality(Redone) \in Nat
        <3>1. Repeats(CopiesOf') \in Nat
            BY <1>1, <2>5, RepeatsAre
        <3>2. Redone' \subseteq Redone
            BY <2>3
        <3> QED  BY <1>4, <3>1, <3>2, CountOfPart
    <2> QED  BY <1>1, <1>4, <1>7, <2>7, <2>8, <2>9 DEF CopiesInv
<1> QED  BY <1>6, <1>7, CopiesStep

(* The same of the appointments, the ones the repair books included. *)
LEMMA BookedGoOn ==
    ASSUME SheetsAreWhole, ImportTypes, CardsInv, LinesInv, RunInv, FixInv, BookedInv, ImportNext, ImportTypes'
    PROVE  BookedInv'
<1>1. /\ Rows' = Rows /\ IsFiniteSet(Rows) /\ kills \in Nat /\ halves \in Nat
      /\ booked \in [Rows -> Nat] /\ booked' \in [Rows -> Nat]
    BY SetupStays, ExportStays, ExportFacts DEF setup, ImportTypes
<1>2. Rebooked \subseteq Rows /\ Rebooked' \subseteq Rows
    BY <1>1 DEF Rebooked
<1>3. IsFiniteSet(Rebooked) /\ Repeats(booked) \in Nat /\ Repeats(booked') \in Nat
    BY <1>1, <1>2, RepeatsAre, FS_Subset
<1>4. Repeats(booked)' = Repeats(booked')
    BY <1>1 DEF Repeats
<1>5. ASSUME booked' = booked, kills' = kills, halves' = halves, Rebooked' \subseteq Rebooked
      PROVE  BookedInv'
    <2>1. Cardinality(Rebooked') \in Nat /\ Cardinality(Rebooked) \in Nat /\ Cardinality(Rebooked') =< Cardinality(Rebooked)
        BY <1>3, <1>5, CountOfPart
    <2> QED  BY <1>1, <1>3, <1>4, <1>5, <2>1 DEF BookedInv
<1>6. ASSUME booked' = booked, kills' + halves' = kills + halves + 1, NEW x, Rebooked' \subseteq Rebooked \cup {x}
      PROVE  BookedInv'
    <2>1. /\ Cardinality(Rebooked') \in Nat /\ Cardinality(Rebooked) \in Nat
          /\ Cardinality(Rebooked') =< Cardinality(Rebooked) + 1
        BY <1>3, <1>6, CountWithOne
    <2> QED  BY <1>1, <1>3, <1>4, <1>6, <2>1 DEF BookedInv
<1>7. ASSUME NEW x \in Rows, booked' = [booked EXCEPT ![x] = @ + 1], kills' = kills, halves' = halves,
             booked[x] > 0 => x \in Rebooked, Rebooked' \subseteq Rebooked \ {x}
      PROVE  BookedInv'
    <2>1. booked'[x] = booked[x] + 1 /\ \A y \in Rows : y # x => booked'[y] = booked[y]
        BY <1>1, <1>7
    <2>2. Repeats(booked') + Cardinality(Rebooked') =< Repeats(booked) + Cardinality(Rebooked)
        BY <1>1, <1>2, <1>7, <2>1, OnceMore
    <2>3. Rebooked' \subseteq Rebooked
        BY <1>7
    <2>4. Cardinality(Rebooked') \in Nat /\ Cardinality(Rebooked) \in Nat
        BY <1>3, <2>3, CountOfPart
    <2> QED  BY <1>1, <1>3, <1>4, <1>7, <2>2, <2>4 DEF BookedInv
<1>8. CASE Killed
    <2>1. kills' = kills + 1 /\ UNCHANGED <<booked, ledger, halves, fix>>
        BY <1>8, Zenon DEF Killed, ghl
    <2>2. Ledgered' = Ledgered /\ \A r : EntryOf(r)' = EntryOf(r)
        BY <2>1, LedgerStays
    <2>3. Rebooked' \subseteq Rebooked \cup {run.row}
        BY <1>1, <2>1, <2>2 DEF Rebooked
    <2> QED  BY <1>1, <1>6, <2>1, <2>3
<1>9. CASE Appends /\ torn
    <2>1. halves' = halves + 1 /\ UNCHANGED <<booked, ledger, kills, fix>>
        BY <1>9, Zenon DEF Appends, ghl, counts
    <2>2. Ledgered' = Ledgered /\ \A r : EntryOf(r)' = EntryOf(r)
        BY <2>1, LedgerStays
    <2>3. Rebooked' \subseteq Rebooked \cup {run.row}
        BY <1>1, <2>1, <2>2 DEF Rebooked
    <2> QED  BY <1>1, <1>6, <2>1, <2>3
<1>10. CASE Appends /\ ~torn
    <2>1. run.at = "booked" /\ ledger' = Append(ledger, Entry) /\ UNCHANGED <<booked, halves, kills, fix>>
        BY <1>10, Zenon DEF Appends, ghl, counts
    <2>2. Entry.row = run.row /\ Entry.appt = run.appt /\ run.row \in Rows /\ run.row \notin Ledgered
        BY <2>1, EntryTells
    <2>3. /\ Ledgered' = Ledgered \cup {run.row} /\ (\A r \in Ledgered : EntryOf(r)' = EntryOf(r))
          /\ \A r : r = run.row => EntryOf(r)' = Entry
        <3>1. \A e : /\ ledger' = Append(ledger, e) /\ e.row \notin Ledgered
                     => /\ Ledgered' = Ledgered \cup {e.row} /\ (\A r \in Ledgered : EntryOf(r)' = EntryOf(r))
                        /\ \A r : r = e.row => EntryOf(r)' = e
            BY LedgerGrows DEF LinesInv
        <3> QED  BY <2>1, <2>2, <3>1
    <2>4. fix.at # "appts"
        BY <2>1 DEF FixInv
    <2>5. ASSUME NEW r \in Rebooked'
          PROVE  r \in Rebooked
        <3>1. CASE r = run.row
            BY <1>1, <2>1, <2>2, <2>3, <2>4, <3>1 DEF Rebooked
        <3>2. CASE r # run.row
            BY <1>1, <2>1, <2>2, <2>3, <2>4, <3>2 DEF Rebooked
        <3> QED  BY <3>1, <3>2
    <2> QED  BY <1>5, <2>1, <2>5
<1>11. CASE Books /\ ~UNCHANGED booked
    <2>1. /\ booked' = [booked EXCEPT ![run.row] = @ + 1]
          /\ run' = [run EXCEPT !.at = "booked", !.appt = TRUE]
          /\ UNCHANGED <<ledger, halves, kills, fix>> /\ run.at = "put"
        BY <1>11 DEF Books, disk
    <2>2. run'.row = run.row /\ run'.appt /\ ~run.appt /\ run.row \in Rows /\ run.row \notin Ledgered
        BY <2>1 DEF RunInv, AtJob, ImportTypes, Runs
    <2>3. fix.at # "appts"
        BY <2>1 DEF FixInv
    <2>4. Ledgered' = Ledgered /\ \A r : EntryOf(r)' = EntryOf(r)
        BY <2>1, LedgerStays
    <2>5. booked[run.row] > 0 => run.row \in Rebooked
        BY <2>2 DEF Rebooked
    <2>6. Rebooked' \subseteq Rebooked \ {run.row}
        <3>1. \A r \in Rows : r # run.row => booked'[r] = booked[r]
            BY <1>1, <2>1, <2>2
        <3>2. run.row \notin Rebooked'
            BY <2>1, <2>2, <2>3, <2>4 DEF Rebooked
        <3>3. ASSUME NEW r \in Rebooked'
              PROVE  r \in Rebooked
            BY <1>1, <2>1, <2>2, <2>4, <3>1, <3>2, <3>3 DEF Rebooked
        <3> QED  BY <3>2, <3>3
    <2> QED  BY <1>7, <2>1, <2>2, <2>5, <2>6
<1>12. ASSUME NEW x \in Rows, FixBooks(x)
       PROVE  BookedInv'
    <2>1. /\ UNCHANGED <<ledger, halves, kills, run>> /\ fix.at = "appts" /\ x \in fix.todo
          /\ fix' = [fix EXCEPT !.todo = @ \ {x}]
        BY <1>12 DEF FixBooks, disk
    <2>2. fix'.at = "appts" /\ fix'.todo = fix.todo \ {x} /\ x \in Ledgered
        BY <2>1 DEF FixInv, ImportTypes
    <2>3. Ledgered' = Ledgered /\ \A r : EntryOf(r)' = EntryOf(r)
        BY <2>1, LedgerStays
    <2>4. CASE booked' = booked
        <3>1. Rebooked' \subseteq Rebooked
            BY <1>1, <2>1, <2>2, <2>3, <2>4 DEF Rebooked
        <3> QED  BY <1>5, <2>1, <2>4, <3>1
    <2>5. CASE booked' = [booked EXCEPT ![x] = @ + 1]
        <3>1. booked[x] > 0 => x \in Rebooked
            BY <2>1 DEF Rebooked
        <3>2. \A r \in Rows : r # x => booked'[r] = booked[r]
            BY <1>1, <2>5
        <3>3. x \notin Rebooked'
            BY <2>1, <2>2, <2>3 DEF Rebooked
        <3>4. ASSUME NEW r \in Rebooked'
              PROVE  r \in Rebooked
            BY <1>1, <2>1, <2>2, <2>3, <3>2, <3>3, <3>4 DEF Rebooked
        <3> QED  BY <1>7, <2>1, <2>5, <3>1, <3>3, <3>4
    <2> QED  BY <1>12, <2>4, <2>5 DEF FixBooks
<1>13. CASE FixBegins \/ FixTurns \/ FixEnds
    <2>1. UNCHANGED <<booked, ledger, halves, kills, run>>
        BY <1>13 DEF FixBegins, FixTurns, FixEnds, ghl, disk, counts
    <2>2. Ledgered' = Ledgered /\ \A r : EntryOf(r)' = EntryOf(r)
        BY <2>1, LedgerStays
    <2>3. \/ fix.at = "new" /\ fix'.at = "values"
          \/ fix.at = "values" /\ fix'.at = "appts" /\ fix'.todo = {r \in Ledgered : ~EntryOf(r).appt}
          \/ fix'.at = "done"
        BY <1>13 DEF FixBegins, FixTurns, FixEnds, ImportTypes
    <2>4. Rebooked' \subseteq Rebooked
        BY <1>1, <2>1, <2>2, <2>3 DEF Rebooked
    <2> QED  BY <1>5, <2>1, <2>4
<1>14. ASSUME NEW r \in Rows, FixesValue(r)
       PROVE  BookedInv'
    <2>1. UNCHANGED <<booked, ledger, halves, kills, run>> /\ fix'.at = "values" /\ fix.at = "values"
        BY <1>14 DEF FixesValue, disk, ImportTypes
    <2>2. Ledgered' = Ledgered /\ \A x : EntryOf(x)' = EntryOf(x)
        BY <2>1, LedgerStays
    <2>3. Rebooked' \subseteq Rebooked
        BY <1>1, <2>1, <2>2 DEF Rebooked
    <2> QED  BY <1>5, <2>1, <2>3
<1>15. CASE /\ UNCHANGED <<booked, ledger, halves, kills, fix>> /\ ~Appends /\ ~Killed
    <2>1. Ledgered' = Ledgered /\ \A x : EntryOf(x)' = EntryOf(x)
        BY <1>15, LedgerStays
    <2>2. run.appt => run'.appt /\ run'.row = run.row
        <3>1. run.appt => InHand
            BY DEF RunInv, InHand
        <3> QED  BY <1>15, <3>1, HandStep
    <2>3. Rebooked' \subseteq Rebooked
        BY <1>1, <1>15, <2>1, <2>2 DEF Rebooked
    <2> QED  BY <1>5, <1>15, <2>3
<1>16. \/ Appends \/ Killed \/ FixBegins \/ FixTurns \/ FixEnds
       \/ \E r \in Rows : FixesValue(r) \/ FixBooks(r)
       \/ Books /\ ~UNCHANGED booked
       \/ UNCHANGED <<booked, ledger, halves, kills, fix>>
    BY DEF ImportNext, Begins, SkipsRow, PutsContact, PutsCard, PutsNote, Books, EndsRun,
           RelayOpens, ghl, disk, counts
<1> QED  BY <1>8, <1>9, <1>10, <1>11, <1>12, <1>13, <1>14, <1>15, <1>16

(* What is on a client's cards. *)
LEMMA OnCardsIs ==
    ASSUME ImportTypes, NEW key
    PROVE  /\ IsFiniteSet(OursOn(key)) /\ OursOn(key) \subseteq DOMAIN cards /\ OnCards(key) \in Nat
           /\ \A c \in DOMAIN cards : cards[c] \in Cards /\ cards[c].value \in Nat
           /\ \A c \in OursOn(key) : cards[c].value =< OnCards(key)
           /\ OursOn(key) = {} => OnCards(key) = 0
           /\ \A c \in OursOn(key) : (\A d \in OursOn(key) : d = c) => OnCards(key) = cards[c].value
<1> DEFINE f == [i \in DOMAIN cards |-> cards[i].value]
<1>1. cards \in Seq(Cards) /\ DOMAIN cards = 1..Len(cards) /\ Len(cards) \in Nat
    BY DEF ImportTypes
<1>2. \A c \in DOMAIN cards : cards[c] \in Cards /\ cards[c].value \in Nat
    <2>1. ASSUME NEW c \in DOMAIN cards
          PROVE  cards[c] \in Cards
        BY <1>1
    <2>2. \A x \in Cards : x.value \in Nat
        BY DEF Cards
    <2> QED  BY <2>1, <2>2
<1>3. OursOn(key) \subseteq DOMAIN cards
    BY DEF OursOn
<1>4. IsFiniteSet(OursOn(key))
    <2>1. IsFiniteSet(DOMAIN cards)
        <3>1. IsFiniteSet(1..Len(cards))
            BY <1>1, FS_Interval
        <3> QED  BY <1>1, <3>1
    <2> QED  BY <1>3, <2>1, FS_Subset
<1>5. \A c \in OursOn(key) : f[c] = cards[c].value /\ f[c] \in Nat
    BY <1>2, <1>3
<1>6. OnCards(key) = SumFunctionOnSet(f, OursOn(key))
    BY DEF OnCards
<1> HIDE DEF f
<1>7. OnCards(key) \in Nat
    BY <1>4, <1>5, <1>6, SumIsNat
<1>8. ASSUME NEW c \in OursOn(key)
      PROVE  /\ cards[c].value =< OnCards(key)
             /\ (\A d \in OursOn(key) : d = c) => OnCards(key) = cards[c].value
    <2>1. OnCards(key) = f[c] + SumFunctionOnSet(f, OursOn(key) \ {c})
        BY <1>4, <1>5, <1>6, SumTakes
    <2>2. SumFunctionOnSet(f, OursOn(key) \ {c}) \in Nat
        BY <1>4, <1>5, FS_Subset, SumIsNat
    <2>3. (\A d \in OursOn(key) : d = c) => OursOn(key) \ {c} = {}
        OBVIOUS
    <2>4. SumFunctionOnSet(f, {}) = 0
        BY SumOfNone
    <2> QED  BY <1>5, <2>1, <2>2, <2>3, <2>4
<1>9. OursOn(key) = {} => OnCards(key) = 0
    BY <1>6, SumOfNone
<1> QED  BY <1>2, <1>3, <1>4, <1>7, <1>8, <1>9

(* A new card adds its value to its client's, and to nobody else's. *)
LEMMA OnCardsGrow ==
    ASSUME SheetsAreWhole, ImportTypes, sheet' = sheet, NEW c, c \in Cards, cards' = Append(cards, c), NEW key
    PROVE  /\ c.of # 0 /\ c.key = key =>
                 OnCards(key)' = OnCards(key) + c.value /\ OursOn(key)' = OursOn(key) \cup {Len(cards) + 1}
           /\ ~(c.of # 0 /\ c.key = key) => OnCards(key)' = OnCards(key) /\ OursOn(key)' = OursOn(key)
<1> DEFINE f == [i \in DOMAIN cards |-> cards[i].value]
           g == [i \in DOMAIN cards' |-> cards'[i].value]
           n == Len(cards) + 1
<1>1. /\ DOMAIN cards = 1..Len(cards) /\ DOMAIN cards' = 1..n /\ Len(cards) \in Nat
      /\ cards'[n] = c /\ \A d \in DOMAIN cards : cards'[d] = cards[d]
    BY CardsCome
<1>2. n \notin OursOn(key) /\ OursOn(key) \subseteq DOMAIN cards /\ n \in DOMAIN cards'
    BY <1>1 DEF OursOn
<1>3. \A d \in DOMAIN cards' : d \in DOMAIN cards \/ d = n
    BY <1>1
<1>4. \A d \in DOMAIN cards : d \in DOMAIN cards'
    BY <1>1
<1>5. \A d \in OursOn(key) : f[d] = cards[d].value /\ g[d] = f[d] /\ f[d] \in Nat
    BY <1>1, <1>2, <1>4, OnCardsIs
<1>6. g[n] = c.value /\ c.value \in Nat
    BY <1>1, <1>2 DEF Cards
<1>7. OnCards(key) = SumFunctionOnSet(f, OursOn(key)) /\ OnCards(key)' = SumFunctionOnSet(g, OursOn(key)')
    BY DEF OnCards
<1>8. IsFiniteSet(OursOn(key))
    BY OnCardsIs
<1> HIDE DEF f, g, n
<1>9. SumFunctionOnSet(g, OursOn(key)) = SumFunctionOnSet(f, OursOn(key))
    BY <1>5, <1>8, SumAgrees
<1>10. CASE c.of # 0 /\ c.key = key
    <2>1. OursOn(key)' = OursOn(key) \cup {n}
        BY <1>1, <1>2, <1>3, <1>4, <1>10 DEF OursOn
    <2>2. \A y \in OursOn(key) \cup {n} : g[y] \in Nat
        BY <1>5, <1>6
    <2>3. SumFunctionOnSet(g, OursOn(key) \cup {n}) = g[n] + SumFunctionOnSet(g, OursOn(key))
        BY <1>2, <1>8, <2>2, SumWithOne
    <2>4. OnCards(key) \in Nat
        BY OnCardsIs
    <2>5. OnCards(key)' = OnCards(key) + c.value
        BY <1>6, <1>7, <1>9, <2>1, <2>3, <2>4
    <2> QED  BY <1>10, <2>1, <2>5 DEF n
<1>11. CASE ~(c.of # 0 /\ c.key = key)
    <2>1. OursOn(key)' = OursOn(key)
        BY <1>1, <1>2, <1>3, <1>4, <1>11 DEF OursOn
    <2> QED  BY <1>7, <1>9, <1>11, <2>1
<1> QED  BY <1>10, <1>11

(* The repair touches no other client's cards. *)
LEMMA OnCardsFixed ==
    ASSUME SheetsAreWhole, ImportTypes, CardsInv, LinesInv, NEW r \in Rows, SibsOf(r) # {},
           cards' = [cards EXCEPT ![ledger[Min(SibsOf(r))].card] =
                                       [@ EXCEPT !.value = WonOf(Key(r), Len(sheet))]],
           NEW key
    PROVE  /\ OursOn(key)' = OursOn(key)
           /\ key # Key(r) => OnCards(key)' = OnCards(key)
<1> DEFINE f == [i \in DOMAIN cards |-> cards[i].value]
           g == [i \in DOMAIN cards' |-> cards'[i].value]
           c == ledger[Min(SibsOf(r))].card
<1>1. /\ DOMAIN cards' = DOMAIN cards
      /\ \A d \in DOMAIN cards : cards'[d].key = cards[d].key /\ cards'[d].of = cards[d].of
      /\ \A d \in DOMAIN cards : d # c => cards'[d] = cards[d]
      /\ cards[c].key = Key(r)
    BY CardFixed
<1>2. OursOn(key)' = OursOn(key)
    BY <1>1 DEF OursOn
<1>3. OnCards(key) = SumFunctionOnSet(f, OursOn(key)) /\ OnCards(key)' = SumFunctionOnSet(g, OursOn(key)')
    BY DEF OnCards
<1>4. ASSUME key # Key(r)
      PROVE  OnCards(key)' = OnCards(key)
    <2>1. \A d \in OursOn(key) : d \in DOMAIN cards /\ d # c
        BY <1>1, <1>4 DEF OursOn
    <2>2. \A d \in OursOn(key) : g[d] = f[d]
        BY <1>1, <2>1
    <2>3. IsFiniteSet(OursOn(key))
        BY OnCardsIs
    <2> HIDE DEF f, g
    <2> QED  BY <1>2, <1>3, <2>2, <2>3, SumAgrees
<1> QED  BY <1>2, <1>4

(* The only steps that change a card. *)
LEMMA CardsStep ==
    ASSUME SheetsAreWhole, ImportTypes, CardsInv, LinesInv, RunInv, ImportNext
    PROVE  \/ UNCHANGED cards
           \/ /\ PutsCard /\ run.at = "contact" /\ ~Included /\ Free(Key(run.row)) /\ run.row \in Rows
              /\ cards' = Append(cards, [key |-> Key(run.row), of |-> run.row, value |-> Value])
              /\ [key |-> Key(run.row), of |-> run.row, value |-> Value] \in Cards
              /\ run' = [run EXCEPT !.at = "put", !.card = Len(cards) + 1]
              /\ UNCHANGED <<said, spoils>>
           \/ \E r \in Rows : /\ RelayOpens(r) /\ Free(Key(r))
                              /\ cards' = Append(cards, [key |-> Key(r), of |-> 0, value |-> 0])
                              /\ [key |-> Key(r), of |-> 0, value |-> 0] \in Cards
           \/ \E r \in Rows :
                 /\ FixesValue(r) /\ SibsOf(r) # {}
                 /\ fix.at = "values" /\ r \in fix.todo
                 /\ cards' = [cards EXCEPT ![ledger[Min(SibsOf(r))].card] =
                                 [@ EXCEPT !.value = WonOf(Key(r), Len(sheet))]]
<1>1. CASE PutsCard /\ ~UNCHANGED cards
    <2>1. /\ cards' = Append(cards, [key |-> Key(run.row), of |-> run.row, value |-> Value])
          /\ run' = [run EXCEPT !.at = "put", !.card = Len(cards) + 1]
          /\ UNCHANGED <<said, spoils>> /\ Free(Key(run.row)) /\ run.at = "contact" /\ ~Included
        BY <1>1 DEF PutsCard
    <2>2. run.row \in Rows /\ Key(run.row) \in Keys /\ run.row \in 0..Len(sheet) /\ Value \in Nat
        BY <2>1, ExportFacts, ValueIs DEF RunInv, AtJob, Rows
    <2>3. [key |-> Key(run.row), of |-> run.row, value |-> Value] \in Cards
        BY <2>2 DEF Cards
    <2> QED  BY <1>1, <2>1, <2>2, <2>3
<1>2. ASSUME NEW r \in Rows, RelayOpens(r)
      PROVE  /\ RelayOpens(r) /\ Free(Key(r))
             /\ cards' = Append(cards, [key |-> Key(r), of |-> 0, value |-> 0])
             /\ [key |-> Key(r), of |-> 0, value |-> 0] \in Cards
    BY <1>2, ExportFacts DEF RelayOpens, Cards
<1>3. ASSUME NEW r \in Rows, FixesValue(r), ~UNCHANGED cards
      PROVE  /\ SibsOf(r) # {} /\ fix.at = "values" /\ r \in fix.todo
             /\ cards' = [cards EXCEPT ![ledger[Min(SibsOf(r))].card] =
                             [@ EXCEPT !.value = WonOf(Key(r), Len(sheet))]]
    BY <1>3 DEF FixesValue
<1>6. \/ UNCHANGED cards \/ PutsCard \/ \E r \in Rows : RelayOpens(r) \/ FixesValue(r)
    BY DEF ImportNext, Begins, SkipsRow, PutsContact, PutsNote, Books, Appends, EndsRun, Killed,
           FixBegins, FixTurns, FixBooks, FixEnds, ghl
<1> QED  BY <1>1, <1>2, <1>3, <1>6

(* Cards keep to what their client's jobs are worth, and to GoHighLevel's rule. *)
LEMMA WorthGoesOn ==
    ASSUME SheetsAreWhole, ImportTypes, CardsInv, LinesInv, RunInv, WorthInv, OneInv, ImportNext
    PROVE  WorthInv' /\ OneInv'
<1>1. sheet' = sheet /\ rule' = rule /\ (\A key : WorthOf(key)' = WorthOf(key)) /\ Len(sheet) \in Nat
    BY SetupStays, ExportStays, ExportFacts DEF setup
<1>2. CASE UNCHANGED cards
    BY <1>1, <1>2 DEF WorthInv, OneInv
<1>3. ASSUME NEW c \in Cards, cards' = Append(cards, c), c.value =< WorthOf(c.key), Free(c.key)
      PROVE  WorthInv' /\ OneInv'
    <2>1. /\ DOMAIN cards' = 1..(Len(cards) + 1) /\ DOMAIN cards = 1..Len(cards) /\ Len(cards) \in Nat
          /\ cards'[Len(cards) + 1] = c /\ \A d \in DOMAIN cards : cards'[d] = cards[d]
        BY <1>1, <1>3, CardsCome
    <2>2. \A d \in DOMAIN cards' : (d \in DOMAIN cards /\ cards'[d] = cards[d]) \/ (d = Len(cards) + 1 /\ cards'[d] = c)
        BY <2>1
    <2>3. \A d \in DOMAIN cards' : cards'[d].value =< WorthOf(cards'[d].key)
        BY <1>3, <2>2 DEF WorthInv
    <2>4. rule = "one" => \A d \in DOMAIN cards : cards[d].key # c.key
        BY <1>3 DEF Free
    <2>5. rule = "one" => \A d, e \in DOMAIN cards' : cards'[d].key = cards'[e].key => d = e
        BY <2>2, <2>4 DEF OneInv
    <2> QED  BY <1>1, <2>3, <2>5 DEF WorthInv, OneInv
<1>4. ASSUME Free(Key(run.row)), run.at = "contact", run.row \in Rows,
             [key |-> Key(run.row), of |-> run.row, value |-> Value] \in Cards,
             cards' = Append(cards, [key |-> Key(run.row), of |-> run.row, value |-> Value])
      PROVE  WorthInv' /\ OneInv'
    <2>1. Value =< WorthOf(Key(run.row))
        BY <1>4, ValueIs DEF AtJob
    <2> QED  BY <1>3, <1>4, <2>1
<1>5. ASSUME NEW r \in Rows, Free(Key(r)),
             [key |-> Key(r), of |-> 0, value |-> 0] \in Cards,
             cards' = Append(cards, [key |-> Key(r), of |-> 0, value |-> 0])
      PROVE  WorthInv' /\ OneInv'
    <2>1. WorthOf(Key(r)) \in Nat
        BY JobFacts
    <2>2. 0 =< WorthOf(Key(r))
        BY <2>1
    <2> QED  BY <1>3, <1>5, <2>2
<1>6. ASSUME NEW r \in Rows, SibsOf(r) # {},
             cards' = [cards EXCEPT ![ledger[Min(SibsOf(r))].card] =
                           [@ EXCEPT !.value = WonOf(Key(r), Len(sheet))]]
      PROVE  WorthInv' /\ OneInv'
    <2> DEFINE c == ledger[Min(SibsOf(r))].card
    <2>1. /\ DOMAIN cards' = DOMAIN cards
          /\ \A d \in DOMAIN cards : cards'[d].key = cards[d].key /\ cards'[d].of = cards[d].of
          /\ \A d \in DOMAIN cards : d # c => cards'[d] = cards[d]
          /\ c \in DOMAIN cards /\ cards'[c].value = WonOf(Key(r), Len(sheet))
          /\ cards[c].key = Key(r)
        BY <1>6, CardFixed
    <2>2. WonOf(Key(r), Len(sheet)) =< WorthOf(Key(r))
        BY <1>1, WonFacts
    <2> HIDE DEF c
    <2>3. \A d \in DOMAIN cards' : cards'[d].value =< WorthOf(cards'[d].key)
        BY <2>1, <2>2 DEF WorthInv
    <2> QED  BY <1>1, <2>1, <2>3 DEF WorthInv, OneInv
<1> QED  BY <1>2, <1>4, <1>5, <1>6, CardsStep

(* How a run turns from row to row. *)
LEMMA RunTurns ==
    ASSUME ImportTypes
    PROVE  /\ Onward => /\ run'.at = "row" /\ run'.row = run.row + 1 /\ run'.upto = run.upto
                        /\ run'.seen = run.seen /\ ~run'.note /\ run'.card = 0 /\ ~run'.first
           /\ run' = NoRun => run'.at = "off"
           /\ \A upto : run' = RunAt("row", 1, upto, {}) =>
                 run'.at = "row" /\ run'.row = 1 /\ run'.upto = upto /\ run'.seen = {}
    BY DEF Onward, NoRun, RunAt

(* The steps of a run, by what they make of it. *)
LEMMA RunSteps ==
    ASSUME ImportTypes, ImportNext
    PROVE  \/ run' = run \/ run' = NoRun \/ (Onward /\ run.at # "off")
           \/ PutsContact \/ PutsCard \/ PutsNote \/ Books
           \/ \E upto \in Rows : Begins(upto)
    BY DEF ImportNext, SkipsRow, Appends, EndsRun, Killed, RelayOpens, FixBegins, FixesValue,
           FixTurns,
           FixBooks, FixEnds

(* Where a contact may hold several cards, none is refused, and no revenue is
   left without one. *)
LEMMA ManyGoesOn ==
    ASSUME SheetsAreWhole, ImportTypes, LinesInv, RunInv, rule = "many", ManyInv, ImportNext
    PROVE  ManyInv'
<1>1. UNCHANGED setup /\ (\A r : HasPhone(r)' = HasPhone(r)) /\ run \in Runs
    BY SetupStays, ExportStays DEF setup, ImportTypes
<1>2. \A l \in DOMAIN ledger' : ledger'[l].stranded = 0
    <2>1. CASE UNCHANGED ledger
        BY <2>1 DEF ManyInv
    <2>2. CASE Appends /\ ~torn /\ ledger' = Append(ledger, Entry)
        <3>1. run.at = "booked" /\ ledger \in Seq(Lines)
            BY <2>2 DEF Appends, ImportTypes
        <3>2. run.note => Included
            BY <3>1 DEF ManyInv, InHand
        <3>3. Entry.stranded = 0
            BY <3>2 DEF Entry, Stranded
        <3>4. \A l \in DOMAIN ledger' : (l \in DOMAIN ledger /\ ledger'[l] = ledger[l]) \/ ledger'[l] = Entry
            BY <2>2, <3>1
        <3> QED  BY <3>3, <3>4 DEF ManyInv
    <2> QED  BY <2>1, <2>2, LedgerStep
<1>5. \/ run' = run \/ run' = NoRun \/ Onward
      \/ PutsContact \/ PutsCard \/ PutsNote \/ Books
      \/ \E upto \in Rows : Begins(upto)
    BY RunSteps
<1>6. /\ run' = NoRun => run'.at = "off"
      /\ Onward => run'.at = "row"
      /\ PutsContact => run'.at \in {"row", "contact"}
      /\ PutsCard => run'.at \in {"row", "put"} /\ (run'.at = "put" => ~run'.note)
      /\ \A upto \in Rows : Begins(upto) => run'.at = "row"
    <2>1. PutsContact => run'.at \in {"row", "contact"}
        BY <1>1, RunTurns DEF PutsContact, Runs
    <2>2. PutsCard => run'.at \in {"row", "put"} /\ (run'.at = "put" => ~run'.note)
        <3>1. Free(Key(run.row))
            BY DEF Free
        <3>2. run.at = "contact" => ~run.note
            BY DEF RunInv, InHand
        <3> QED  BY <1>1, <3>1, <3>2, RunTurns DEF PutsCard, Runs
    <2>3. \A upto \in Rows : Begins(upto) => run'.at = "row"
        BY RunTurns DEF Begins
    <2> QED  BY <2>1, <2>2, <2>3, RunTurns
<1>3. run'.at # "refused"
    <2>1. PutsNote \/ Books => run'.at # "refused"
        BY <1>1 DEF PutsNote, Books, Runs
    <2> QED  BY <1>5, <1>6, <2>1 DEF ManyInv
<1>4. ASSUME InHand', run'.note
      PROVE  Included'
    <2>1. CASE run' = run
        <3>1. InHand /\ run.note
            BY <1>4, <2>1 DEF InHand
        <3>2. Included
            BY <3>1 DEF ManyInv
        <3> QED  BY <1>1, <2>1, <3>2 DEF Included, setup
    <2>2. CASE PutsNote
        <3>1. Included /\ run'.row = run.row /\ run'.first = run.first
            BY <1>1, <1>4, <2>2 DEF PutsNote, ManyInv, Runs
        <3> QED  BY <1>1, <3>1 DEF Included, setup
    <2>3. CASE Books
        <3>1. InHand /\ run.note /\ run'.row = run.row /\ run'.first = run.first
            BY <1>1, <1>4, <2>3 DEF Books, InHand, Runs
        <3>2. Included
            BY <3>1 DEF ManyInv
        <3> QED  BY <1>1, <3>1, <3>2 DEF Included, setup
    <2>4. CASE ~PutsNote /\ ~Books /\ run' # run
        <3>1. run'.at \in {"put", "booked"}
            BY <1>4 DEF InHand
        <3>2. PutsCard
            BY <1>5, <1>6, <2>4, <3>1
        <3> QED  BY <1>4, <1>6, <3>1, <3>2
    <2> QED  BY <2>1, <2>2, <2>3, <2>4
<1> QED  BY <1>2, <1>3, <1>4 DEF ManyInv

(* The runs and the kills are counted. *)
LEMMA CountsGrow ==
    ASSUME ImportTypes, ImportNext
    PROVE  /\ kills' = kills \/ (Killed /\ kills' = kills + 1)
           /\ runs' = runs \/ (runs' = runs + 1 /\ \E upto \in Rows : Begins(upto))
           /\ \A upto \in Rows : Begins(upto) => runs' = runs + 1
<1>1. kills' = kills \/ (Killed /\ kills' = kills + 1)
    BY DEF ImportNext, Begins, SkipsRow, PutsContact, PutsCard, PutsNote, Books, Appends,
           EndsRun, Killed,
           RelayOpens, FixBegins, FixesValue, FixTurns, FixBooks, FixEnds, counts
<1>2. runs' = runs \/ (runs' = runs + 1 /\ \E upto \in Rows : Begins(upto))
    BY DEF ImportNext, Begins, SkipsRow, PutsContact, PutsCard, PutsNote, Books, Appends,
           EndsRun, Killed,
           RelayOpens, FixBegins, FixesValue, FixTurns, FixBooks, FixEnds, counts
<1>3. \A upto \in Rows : Begins(upto) => runs' = runs + 1
    BY DEF Begins
<1> QED  BY <1>1, <1>2, <1>3

(* In its only run, the import does not take a row twice. *)
LEMMA HandledStays ==
    ASSUME SheetsAreWhole, ImportTypes, RunInv, ImportNext, runs' =< 1, NEW r \in Rows, Handled(r)
    PROVE  Handled(r)' /\ runs' = runs
<1>1. run \in Runs /\ runs \in Nat /\ runs > 0 /\ r \in Nat /\ run.row \in Nat
    BY ExportFacts DEF ImportTypes, Runs, Handled
<1>2. ~\E upto \in Rows : Begins(upto)
    BY <1>1, CountsGrow
<1>3. runs' = runs
    BY <1>2, CountsGrow
<1>4. CASE run' = run
    BY <1>3, <1>4 DEF Handled, InHand
<1>5. CASE run' = NoRun
    BY <1>1, <1>3, <1>5, RunTurns DEF Handled
<1>6. CASE Onward /\ run.at # "off"
    <2>1. run'.row = run.row + 1 /\ r =< run.row
        BY <1>1, <1>6, RunTurns DEF Handled
    <2> QED  BY <1>1, <1>3, <2>1 DEF Handled
<1>7. CASE PutsContact \/ PutsCard \/ PutsNote \/ Books
    <2>1. Onward \/ (run'.row = run.row /\ (InHand => InHand'))
        <3>1. PutsContact => Onward \/ (run'.row = run.row /\ ~InHand)
            BY <1>1 DEF PutsContact, Runs, InHand
        <3>2. PutsCard => Onward \/ (run'.row = run.row /\ ~InHand)
            BY <1>1 DEF PutsCard, Runs, InHand
        <3>3. PutsNote => run'.row = run.row /\ ~InHand
            BY <1>1 DEF PutsNote, Runs, InHand
        <3>4. Books => run'.row = run.row /\ InHand'
            BY <1>1 DEF Books, Runs, InHand
        <3> QED  BY <1>7, <3>1, <3>2, <3>3, <3>4
    <2>2. run.at # "off"
        BY <1>7 DEF PutsContact, PutsCard, PutsNote, Books
    <2>3. r < run.row \/ (InHand /\ r = run.row)
        BY <2>2 DEF Handled
    <2>4. CASE Onward
        BY <1>6, <2>2, <2>4
    <2>5. CASE run'.row = run.row /\ (InHand => InHand')
        <3>1. r < run'.row \/ (InHand' /\ r = run'.row)
            BY <2>3, <2>5
        <3> QED  BY <1>1, <1>3, <3>1 DEF Handled
    <2> QED  BY <2>1, <2>4, <2>5
<1> QED  BY <1>2, <1>3, <1>4, <1>5, <1>6, <1>7, RunSteps

(* A job of a client with a phone number is of that client's key; all jobs of the
   key have the number. *)
LEMMA PhonesAgree ==
    ASSUME NEW r \in Rows, NEW q \in Rows, Key(r) = Key(q)
    PROVE  HasPhone(r) <=> HasPhone(q)
<1>1. sheet[r].client = sheet[q].client
    BY DEF Key, Contact
<1> QED  BY <1>1 DEF HasPhone

(* A job without a phone number is in no sum. *)
LEMMA NoPhoneNoSum ==
    ASSUME SheetsAreWhole, ImportTypes, NEW r \in Rows, ~HasPhone(r), NEW u \in 0..Len(sheet)
    PROVE  WonOf(Key(r), u) = 0
<1>1. \A q \in 1..u : q \in Rows
    BY ExportFacts DEF Rows
<1>2. WonJobs(Key(r), u) = {}
    BY <1>1, PhonesAgree DEF WonJobs
<1> QED  BY <1>2, SumOfNone DEF WonOf

(* In its only run, the import puts no job on two cards and no sum beside a card. *)
LEMMA OnceGoesOn ==
    ASSUME SheetsAreWhole, ImportTypes, CardsInv, LinesInv, RunInv, FixInv, TornInv, CapInv, ImportNext
    PROVE  OnceInv'
<1>1. /\ UNCHANGED setup /\ sheet' = sheet /\ Rows' = Rows /\ Keys' = Keys /\ Worth' = Worth
      /\ (\A r : HasPhone(r)' = HasPhone(r) /\ Key(r)' = Key(r))
      /\ \A key : JobsOf(key)' = JobsOf(key)
    BY SetupStays, ExportStays DEF setup
<1>2. \A key : Summed(key)' <=> Summed(key)
    BY <1>1 DEF Summed, setup
<1>3. run \in Runs /\ runs \in Nat /\ kills \in Nat /\ runs' \in Nat
    BY CountsGrow DEF ImportTypes
<1>4. SUFFICES ASSUME OneRun', NEW key \in Keys
               PROVE  IF Summed(key)
                      THEN (\A c, d \in OursOn(key)' : c = d) /\ (OursOn(key)' # {} => Opened(key)')
                      ELSE OnCards(key)' =< SumFunctionOnSet(Worth, Done(key)')
    BY <1>1, <1>2 DEF OnceInv
<1>5. runs' =< 1 /\ runs =< 1 /\ kills = 0 /\ ~Killed /\ rule = "many"
    <2>1. rule' = "many" /\ kills' = 0 /\ runs' =< 1
        BY <1>4 DEF OneRun
    <2>2. Killed => kills' = kills + 1
        BY DEF Killed
    <2>3. kills' = kills \/ kills' = kills + 1
        BY CountsGrow
    <2>4. runs' = runs \/ runs' = runs + 1
        BY CountsGrow
    <2> QED  BY <1>1, <1>3, <2>1, <2>2, <2>3, <2>4 DEF setup
<1>6. ManyInv /\ IF Summed(key)
                 THEN (\A c, d \in OursOn(key) : c = d) /\ (OursOn(key) # {} => Opened(key))
                 ELSE OnCards(key) =< SumFunctionOnSet(Worth, Done(key))
    BY <1>5 DEF CapInv, OnceInv, OneRun
<1>7. \A r : ~(r \in fix.todo /\ fix.at = "values")
    <2>1. \A r \in Ledgered : EntryOf(r).stranded = 0
        BY <1>6, EntryFacts DEF ManyInv
    <2> QED  BY <2>1 DEF FixInv
<1>8. \/ OursOn(key)' = OursOn(key) /\ OnCards(key)' = OnCards(key)
      \/ /\ PutsCard /\ run.at = "contact" /\ ~Included /\ run.row \in Rows /\ key = Key(run.row)
         /\ run' = [run EXCEPT !.at = "put", !.card = Len(cards) + 1]
         /\ OursOn(key)' = OursOn(key) \cup {Len(cards) + 1} /\ OnCards(key)' = OnCards(key) + Value
    <2>1. CASE UNCHANGED cards
        BY <2>1 DEF OursOn, OnCards
    <2>2. CASE /\ PutsCard /\ run.at = "contact" /\ ~Included /\ run.row \in Rows
               /\ cards' = Append(cards, [key |-> Key(run.row), of |-> run.row, value |-> Value])
               /\ [key |-> Key(run.row), of |-> run.row, value |-> Value] \in Cards
               /\ run' = [run EXCEPT !.at = "put", !.card = Len(cards) + 1]
        <3>1. run.row # 0
            BY <2>2, ExportFacts DEF Rows
        <3>2. \A c \in Cards : cards' = Append(cards, c) =>
                 /\ c.of # 0 /\ c.key = key =>
                       OnCards(key)' = OnCards(key) + c.value /\ OursOn(key)' = OursOn(key) \cup {Len(cards) + 1}
                 /\ ~(c.of # 0 /\ c.key = key) => OnCards(key)' = OnCards(key) /\ OursOn(key)' = OursOn(key)
            BY <1>1, OnCardsGrow
        <3> QED  BY <2>2, <3>1, <3>2
    <2>3. ASSUME NEW r \in Rows, cards' = Append(cards, [key |-> Key(r), of |-> 0, value |-> 0]),
                 [key |-> Key(r), of |-> 0, value |-> 0] \in Cards
          PROVE  OursOn(key)' = OursOn(key) /\ OnCards(key)' = OnCards(key)
        <3>2. \A c \in Cards : cards' = Append(cards, c) /\
                 ~(c.of # 0 /\ c.key = key) => OnCards(key)' = OnCards(key) /\ OursOn(key)' = OursOn(key)
            BY <1>1, OnCardsGrow
        <3> QED  BY <2>3, <3>2
    <2> QED  BY <1>7, <2>1, <2>2, <2>3, CardsStep
<1>9. CASE Summed(key)
    <2>1. CASE OursOn(key)' = OursOn(key)
        <3>1. SUFFICES ASSUME OursOn(key) # {}
                       PROVE  Opened(key)'
            BY <1>6, <1>9, <2>1
        <3>2. runs = 1 /\ Opened(key)
            BY <1>6, <1>9, <3>1 DEF Opened
        <3>3. runs' = 1 /\ ~\E upto \in Rows : Begins(upto)
            BY <1>3, <1>5, <3>2, CountsGrow
        <3>4. CASE run' = run
            BY <1>1, <3>2, <3>3, <3>4 DEF Opened
        <3>5. CASE run' = NoRun
            BY <3>3, <3>5, RunTurns DEF Opened
        <3>6. CASE Onward /\ run.at # "off"
            BY <3>2, <3>3, <3>6, RunTurns DEF Opened
        <3>7. CASE PutsContact /\ ~Onward
            <4>1. run'.at = "contact" /\ run'.row = run.row /\ run.at = "row" /\ run.seen \subseteq run'.seen
                  /\ (run'.first => Key(run.row) \notin run.seen)
                <5>1. /\ run.at = "row"
                      /\ run' = [run EXCEPT !.at = "contact",
                                           !.first = Key(run.row) \notin run.seen,
                                           !.seen = IF HasPhone(run.row) THEN @ \cup {Key(run.row)} ELSE @]
                    BY <3>7 DEF PutsContact
                <5>2. run.seen \subseteq IF HasPhone(run.row) THEN run.seen \cup {Key(run.row)} ELSE run.seen
                    BY Zenon
                <5>3. /\ run'.at = "contact" /\ run'.row = run.row /\ run'.first = (Key(run.row) \notin run.seen)
                      /\ run'.seen = IF HasPhone(run.row) THEN run.seen \cup {Key(run.row)} ELSE run.seen
                    BY <1>3, <5>1 DEF Runs
                <5> QED  BY <5>1, <5>2, <5>3
            <4>2. key \in run.seen
                BY <3>2, <4>1 DEF Opened
            <4> QED  BY <1>1, <3>3, <4>1, <4>2 DEF Opened
        <3>8. CASE (PutsCard \/ PutsNote \/ Books) /\ ~Onward
            <4>1. run.at # "off" /\ run'.at # "contact" /\ run'.seen = run.seen
                <5>1. PutsCard => run.at # "off" /\ run'.at # "contact" /\ run'.seen = run.seen
                    BY <1>3, <3>8 DEF PutsCard, Runs
                <5>2. PutsNote \/ Books => run.at # "off" /\ run'.at # "contact" /\ run'.seen = run.seen
                    BY <1>3 DEF PutsNote, Books, Runs
                <5> QED  BY <3>8, <5>1, <5>2
            <4> QED  BY <3>2, <3>3, <4>1 DEF Opened
        <3>9. Onward => (Onward /\ run.at # "off") \/ run' = run \/ run' = NoRun
            BY <3>3, RunSteps DEF PutsContact, PutsCard, PutsNote, Books
        <3> QED  BY <3>3, <3>4, <3>5, <3>6, <3>7, <3>8, <3>9, RunSteps
    <2>2. CASE /\ PutsCard /\ run.at = "contact" /\ ~Included /\ run.row \in Rows /\ key = Key(run.row)
               /\ run' = [run EXCEPT !.at = "put", !.card = Len(cards) + 1]
               /\ OursOn(key)' = OursOn(key) \cup {Len(cards) + 1}
        <3>1. HasPhone(run.row) /\ by = "sum"
            BY <1>9, <2>2, PhonesAgree DEF Summed, JobsOf
        <3>2. run.first
            BY <2>2, <3>1 DEF Included
        <3>3. OursOn(key) = {}
            BY <1>6, <1>9, <2>2, <3>2 DEF Opened
        <3>4. key \in run.seen
            BY <2>2, <3>1 DEF RunInv, AtJob
        <3>5. run'.at = "put" /\ run'.seen = run.seen
            BY <1>3, <2>2 DEF Runs
        <3>6. runs' = 1
            <4>1. runs >= 1
                BY <2>2 DEF TornInv
            <4>2. runs' = runs \/ runs' = runs + 1
                BY CountsGrow
            <4> QED  BY <1>3, <1>5, <4>1, <4>2
        <3> QED  BY <1>9, <2>2, <3>3, <3>4, <3>5, <3>6 DEF Opened
    <2> QED  BY <1>8, <1>9, <2>1, <2>2
<1>10. CASE ~Summed(key)
    <2>1. Done(key) \subseteq Done(key)'
        BY <1>1, <1>5, HandledStays DEF Done, JobsOf
    <2>2. /\ IsFiniteSet(JobsOf(key)) /\ \A x \in JobsOf(key) : Worth[x] \in Nat
        BY JobFacts
    <2>3. Done(key) \subseteq JobsOf(key) /\ Done(key)' \subseteq JobsOf(key)
        BY <1>1 DEF Done
    <2>4. IsFiniteSet(Done(key)) /\ IsFiniteSet(Done(key)')
        BY <2>2, <2>3, FS_Subset
    <2>5. /\ SumFunctionOnSet(Worth, Done(key)) \in Nat /\ SumFunctionOnSet(Worth, Done(key)') \in Nat
          /\ OnCards(key) \in Nat /\ OnCards(key) =< SumFunctionOnSet(Worth, Done(key))
        BY <1>6, <1>10, <2>2, <2>3, <2>4, SumIsNat, OnCardsIs
    <2>6. CASE OnCards(key)' = OnCards(key)
        <3>1. SumFunctionOnSet(Worth, Done(key)) =< SumFunctionOnSet(Worth, Done(key)')
            BY <2>1, <2>2, <2>3, <2>4, SumOfPart
        <3> QED  BY <1>10, <2>5, <2>6, <3>1
    <2>7. CASE /\ PutsCard /\ run.at = "contact" /\ run.row \in Rows /\ key = Key(run.row)
               /\ run' = [run EXCEPT !.at = "put", !.card = Len(cards) + 1]
               /\ OnCards(key)' = OnCards(key) + Value
        <3>1. run.row \in JobsOf(key)
            BY <2>7 DEF JobsOf
        <3>2. Value = Worth[run.row] /\ Value \in Nat
            <4>1. by = "allow" \/ ~HasPhone(run.row)
                BY <1>10, <3>1 DEF Summed, ImportTypes
            <4> QED  BY <2>7, <4>1, ValueIs DEF AtJob
        <3>3. run.row \notin Done(key)
            <4>1. run.row \in Nat
                BY <1>3 DEF Runs
            <4> QED  BY <2>7, <4>1 DEF Done, Handled, InHand
        <3>4. runs' > 0
            <4>1. runs >= 1
                BY <2>7 DEF TornInv
            <4> QED  BY <1>3, <4>1, CountsGrow
        <3>5. run.row \in Done(key)'
            <4>1. run'.at = "put" /\ run'.row = run.row
                BY <1>3, <2>7 DEF Runs
            <4> QED  BY <1>1, <3>1, <3>4, <4>1 DEF Done, Handled, InHand
        <3>6. SumFunctionOnSet(Worth, Done(key) \cup {run.row}) = Worth[run.row] + SumFunctionOnSet(Worth, Done(key))
            <4>1. \A y \in Done(key) \cup {run.row} : Worth[y] \in Nat
                BY <2>2, <2>3, <3>1
            <4> QED  BY <2>4, <3>3, <4>1, SumWithOne
        <3>7. SumFunctionOnSet(Worth, Done(key) \cup {run.row}) =< SumFunctionOnSet(Worth, Done(key)')
            <4>1. Done(key) \cup {run.row} \subseteq Done(key)'
                BY <2>1, <3>5
            <4> QED  BY <2>2, <2>3, <2>4, <4>1, SumOfPart
        <3> QED  BY <1>10, <2>5, <2>7, <3>2, <3>6, <3>7
    <2> QED  BY <1>8, <1>10, <2>6, <2>7
<1> QED  BY <1>9, <1>10

(* What was said of a client's job stays said. *)
LEMMA FlaggedStays ==
    ASSUME SheetsAreWhole, ImportTypes, LinesInv, RunInv, ImportNext, NEW key
    PROVE  /\ Flagged(key) => Flagged(key)'
           /\ Ledgered \subseteq Ledgered' /\ \A r \in Ledgered : EntryOf(r)' = EntryOf(r)
<1>1. /\ \A r \in Ledgered : EntryOf(r)' = EntryOf(r)
      /\ Ledgered \subseteq Ledgered'
    <2>1. CASE UNCHANGED ledger
        BY <2>1, LedgerStays
    <2>2. CASE Appends /\ ~torn /\ ledger' = Append(ledger, Entry)
        <3>1. run.at = "booked"
            BY <2>2 DEF Appends
        <3>2. Entry.row \notin Ledgered
            BY <3>1, EntryTells
        <3> QED  BY <2>2, <3>2, LedgerGrows DEF LinesInv
    <2> QED  BY <2>1, <2>2, LedgerStep
<1>2. JobsOf(key)' = JobsOf(key) /\ said \subseteq said'
    BY SetupStays, ExportStays, SaidStays DEF setup
<1> QED  BY <1>1, <1>2 DEF Flagged

(* What the line appended says. *)
LEMMA LineAppended ==
    ASSUME SheetsAreWhole, ImportTypes, LinesInv, RunInv, Appends, ~torn
    PROVE  /\ Ledgered' = Ledgered \cup {run.row} /\ run.row \in Rows /\ run.row \notin Ledgered
           /\ \A r : r = run.row => EntryOf(r)' = Entry
           /\ Entry.stranded = Stranded /\ Entry.row = run.row
<1>1. run.at = "booked" /\ ledger' = Append(ledger, Entry)
    BY Zenon DEF Appends
<1>2. Entry.row = run.row /\ run.row \in Rows /\ run.row \notin Ledgered /\ Entry.stranded = Stranded
    BY <1>1, EntryTells
<1>3. \A e : /\ ledger' = Append(ledger, e) /\ e.row \notin Ledgered
             => Ledgered' = Ledgered \cup {e.row} /\ \A r : r = e.row => EntryOf(r)' = e
    BY LedgerGrows DEF LinesInv
<1> QED  BY <1>1, <1>2, <1>3

(* Where every job has a card of its own, each is on a card or its line says not. *)
LEMMA EachGoesOn ==
    ASSUME SheetsAreWhole, ImportTypes, CardsInv, LinesInv, RunInv, FixInv, EachInv, ImportNext
    PROVE  EachInv'
<1>1. /\ UNCHANGED setup /\ sheet' = sheet /\ Rows' = Rows /\ Keys' = Keys /\ Worth' = Worth
      /\ (\A r : HasPhone(r)' = HasPhone(r) /\ Key(r)' = Key(r))
      /\ \A k : JobsOf(k)' = JobsOf(k)
    BY SetupStays, ExportStays DEF setup
<1>2. SUFFICES ASSUME by = "allow", NEW key \in Keys, ~Flagged(key)'
               PROVE  SumFunctionOnSet(Worth, Carried(key)') =< OnCards(key)'
    BY <1>1 DEF EachInv, setup
<1>3. /\ ~Flagged(key) /\ SumFunctionOnSet(Worth, Carried(key)) =< OnCards(key)
      /\ Ledgered \subseteq Ledgered' /\ \A r \in Ledgered : EntryOf(r)' = EntryOf(r)
    BY <1>2, FlaggedStays DEF EachInv
<1>4. /\ run \in Runs /\ ~Included /\ IsFiniteSet(JobsOf(key)) /\ JobsOf(key) \subseteq Rows
      /\ \A x \in JobsOf(key) : Worth[x] \in Nat
    BY <1>2, JobFacts DEF ImportTypes, Included
<1>5. Carried(key) \subseteq JobsOf(key) /\ Carried(key)' \subseteq JobsOf(key)
    BY <1>1 DEF Carried
<1>6. /\ IsFiniteSet(Carried(key)) /\ IsFiniteSet(Carried(key)') /\ OnCards(key) \in Nat
      /\ SumFunctionOnSet(Worth, Carried(key)) \in Nat /\ SumFunctionOnSet(Worth, Carried(key)') \in Nat
    BY <1>4, <1>5, FS_Subset, SumIsNat, OnCardsIs
<1>7. Carried(key)' = {r \in JobsOf(key) : r \in Ledgered' \/ (InHand' /\ run'.row = r /\ (run'.note => Worth[r] = 0))}
    BY <1>1 DEF Carried
(* No job is carried that was not. *)
<1>8. ASSUME Carried(key)' \subseteq Carried(key), OnCards(key)' = OnCards(key)
      PROVE  SumFunctionOnSet(Worth, Carried(key)') =< OnCards(key)'
    <2>1. SumFunctionOnSet(Worth, Carried(key)') =< SumFunctionOnSet(Worth, Carried(key))
        BY <1>4, <1>5, <1>6, <1>8, SumOfPart
    <2> QED  BY <1>3, <1>6, <1>8, <2>1
(* One more is, and what it is worth is on a card. *)
<1>9. ASSUME NEW x \in JobsOf(key), Carried(key)' \subseteq Carried(key) \cup {x},
             OnCards(key)' = OnCards(key) + Worth[x]
      PROVE  SumFunctionOnSet(Worth, Carried(key)') =< OnCards(key)'
    <2>1. SumFunctionOnSet(Worth, Carried(key)') =< SumFunctionOnSet(Worth, Carried(key) \cup {x})
        <3>1. IsFiniteSet(Carried(key) \cup {x})
            BY <1>6, FS_AddElement
        <3> QED  BY <1>4, <1>5, <1>9, <3>1, SumOfPart
    <2>2. CASE x \in Carried(key)
        <3>1. Carried(key) \cup {x} = Carried(key)
            BY <2>2
        <3>2. SumFunctionOnSet(Worth, Carried(key)') =< SumFunctionOnSet(Worth, Carried(key))
            BY <2>1, <3>1
        <3>3. Worth[x] \in Nat
            BY <1>4
        <3> QED  BY <1>3, <1>6, <1>9, <3>2, <3>3
    <2>3. CASE x \notin Carried(key)
        <3>1. \A y \in Carried(key) \cup {x} : Worth[y] \in Nat
            BY <1>4, <1>5
        <3>2. SumFunctionOnSet(Worth, Carried(key) \cup {x}) = Worth[x] + SumFunctionOnSet(Worth, Carried(key))
            BY <1>6, <2>3, <3>1, SumWithOne
        <3> QED  BY <1>3, <1>4, <1>6, <1>9, <2>1, <3>2
    <2> QED  BY <2>2, <2>3
<1>10. CASE OnCards(key)' = OnCards(key)
    <2>1. CASE UNCHANGED ledger /\ (InHand' => InHand /\ run'.row = run.row /\ run'.note = run.note)
        <3>1. Ledgered' = Ledgered
            BY <2>1, LedgerStays
        <3>2. Carried(key)' \subseteq Carried(key)
            BY <1>7, <2>1, <3>1 DEF Carried
        <3> QED  BY <1>8, <1>10, <3>2
    <2>2. CASE PutsNote
        <3>1. UNCHANGED ledger /\ run.at = "refused" /\ run'.row = run.row /\ run.row \in Rows
            BY <1>4, <2>2 DEF PutsNote, disk, Runs, RunInv, AtJob
        <3>2. Ledgered' = Ledgered
            BY <3>1, LedgerStays
        <3>3. CASE run.row \in JobsOf(key)
            <4>1. run.row \notin said'
                BY <1>1, <1>2, <3>3 DEF Flagged
            <4>2. run'.note
                BY <1>4, <2>2, <4>1 DEF PutsNote, Says, Runs
            <4>3. CASE Worth[run.row] = 0
                <5>1. Carried(key)' \subseteq Carried(key) \cup {run.row}
                    BY <1>7, <3>1, <3>2 DEF Carried
                <5>2. OnCards(key)' = OnCards(key) + Worth[run.row]
                    BY <1>6, <1>10, <4>3
                <5> QED  BY <1>9, <3>3, <5>1, <5>2
            <4>4. CASE Worth[run.row] # 0
                <5>1. Carried(key)' \subseteq Carried(key)
                    BY <1>7, <3>1, <3>2, <4>2, <4>4 DEF Carried
                <5> QED  BY <1>8, <1>10, <5>1
            <4> QED  BY <4>3, <4>4
        <3>4. CASE run.row \notin JobsOf(key)
            <4>1. Carried(key)' \subseteq Carried(key)
                BY <1>7, <3>1, <3>2, <3>4 DEF Carried
            <4> QED  BY <1>8, <1>10, <4>1
        <3> QED  BY <3>3, <3>4
    <2>3. CASE Appends /\ ~torn
        <3>1. /\ Ledgered' = Ledgered \cup {run.row} /\ run.row \in Rows /\ InHand
            BY <2>3, LineAppended DEF Appends, InHand
        <3>2. \A r : r = run.row => EntryOf(r)' = Entry /\ Entry.stranded = Stranded
            BY <2>3, LineAppended
        <3>3. ~InHand'
            BY <2>3, RunTurns DEF Appends, InHand
        <3>4. CASE run.row \in JobsOf(key)
            <4>1. ~(Stranded > 0)
                BY <1>1, <1>2, <3>1, <3>2, <3>4 DEF Flagged
            <4>2. Value = Worth[run.row] /\ Worth[run.row] \in Nat
                BY <1>2, <1>4, <2>3, <3>1, <3>4, ValueIs DEF Appends, AtJob
            <4>3. run.note => Worth[run.row] = 0
                BY <1>4, <4>1, <4>2 DEF Stranded
            <4>4. Carried(key)' \subseteq Carried(key)
                BY <1>7, <3>1, <3>3, <4>3 DEF Carried
            <4> QED  BY <1>8, <1>10, <4>4
        <3>5. CASE run.row \notin JobsOf(key)
            <4>1. Carried(key)' \subseteq Carried(key)
                BY <1>7, <3>1, <3>3, <3>5 DEF Carried
            <4> QED  BY <1>8, <1>10, <4>1
        <3> QED  BY <3>4, <3>5
    <2>4. CASE PutsCard /\ InHand'
        <3>1. run'.row = run.row /\ ~run'.note /\ UNCHANGED ledger /\ run.row \in Rows
            BY <1>4, <2>4, RunTurns DEF PutsCard, disk, Runs, RunInv, InHand, AtJob
        <3>2. Ledgered' = Ledgered
            BY <3>1, LedgerStays
        <3>3. cards' = Append(cards, [key |-> Key(run.row), of |-> run.row, value |-> Value]) /\ Value \in Nat
            BY <1>4, <2>4, <3>1, RunTurns, ValueIs DEF PutsCard, InHand, Runs, AtJob
        <3>4. [key |-> Key(run.row), of |-> run.row, value |-> Value] \in Cards /\ run.row # 0
            BY <3>1, <3>3, ExportFacts DEF Cards, Rows
        <3>5. \A c \in Cards : cards' = Append(cards, c) /\ c.of # 0 /\ c.key = key =>
                                  OnCards(key)' = OnCards(key) + c.value
            BY <1>1, OnCardsGrow
        <3>6. Key(run.row) = key => OnCards(key)' = OnCards(key) + Value
            BY <3>3, <3>4, <3>5
        <3>7. CASE run.row \in JobsOf(key)
            <4>1. Value = Worth[run.row]
                BY <1>2, <2>4, <3>1, ValueIs DEF PutsCard, AtJob
            <4>2. OnCards(key)' = OnCards(key) + Worth[run.row]
                BY <3>6, <3>7, <4>1 DEF JobsOf
            <4>3. Carried(key)' \subseteq Carried(key) \cup {run.row}
                BY <1>7, <3>1, <3>2 DEF Carried
            <4> QED  BY <1>9, <3>7, <4>2, <4>3
        <3>8. CASE run.row \notin JobsOf(key)
            <4>1. Carried(key)' \subseteq Carried(key)
                BY <1>7, <3>1, <3>2, <3>8 DEF Carried
            <4> QED  BY <1>8, <1>10, <4>1
        <3> QED  BY <3>7, <3>8
    <2>5. CASE (Appends /\ torn) \/ ~(PutsNote \/ Appends \/ (PutsCard /\ InHand'))
        <3>1. UNCHANGED ledger
            BY <2>5, LedgerStep
        <3>2. Appends => ~InHand'
            BY RunTurns DEF Appends, InHand
        <3>3. Books => InHand /\ run'.row = run.row /\ run'.note = run.note
            BY <1>4 DEF Books, InHand, Runs
        <3>4. PutsContact => ~InHand'
            BY <1>4, RunTurns DEF PutsContact, InHand, Runs
        <3>5. (\E upto \in Rows : Begins(upto)) => ~InHand'
            BY RunTurns DEF Begins, InHand
        <3>6. run' = NoRun \/ Onward => ~InHand'
            BY RunTurns DEF InHand
        <3>7. run' = run => (InHand' => InHand /\ run'.row = run.row /\ run'.note = run.note)
            BY DEF InHand
        <3>8. InHand' => InHand /\ run'.row = run.row /\ run'.note = run.note
            BY <2>5, <3>2, <3>3, <3>4, <3>5, <3>6, <3>7, RunSteps
        <3> QED  BY <2>1, <3>1, <3>8
    <2> QED  BY <2>2, <2>3, <2>4, <2>5
<1>11. CASE OnCards(key)' # OnCards(key)
    <2>1. ~UNCHANGED cards
        BY <1>11 DEF OnCards, OursOn
    <2>2. ASSUME NEW r \in Rows, cards' = Append(cards, [key |-> Key(r), of |-> 0, value |-> 0]),
                 [key |-> Key(r), of |-> 0, value |-> 0] \in Cards
          PROVE  FALSE
        <3>2. \A c \in Cards : cards' = Append(cards, c) /\
                 ~(c.of # 0 /\ c.key = key) => OnCards(key)' = OnCards(key)
            BY <1>1, OnCardsGrow
        <3> QED  BY <1>11, <2>2, <3>2
    <2>3. ASSUME NEW r \in Rows, SibsOf(r) # {}, fix.at = "values", r \in fix.todo,
                 cards' = [cards EXCEPT ![ledger[Min(SibsOf(r))].card] =
                                 [@ EXCEPT !.value = WonOf(Key(r), Len(sheet))]]
          PROVE  FALSE
        <3>1. key # Key(r) => OnCards(key)' = OnCards(key)
            BY <2>3, OnCardsFixed
        <3>2. r \in Ledgered /\ EntryOf(r).stranded > 0 /\ r \in JobsOf(key)
            BY <1>11, <2>3, <3>1 DEF FixInv, JobsOf
        <3> QED  BY <1>3, <3>2 DEF Flagged
    <2>4. /\ PutsCard /\ run.at = "contact" /\ run.row \in Rows
          /\ cards' = Append(cards, [key |-> Key(run.row), of |-> run.row, value |-> Value])
          /\ [key |-> Key(run.row), of |-> run.row, value |-> Value] \in Cards
          /\ run' = [run EXCEPT !.at = "put", !.card = Len(cards) + 1]
        BY <2>1, <2>2, <2>3, CardsStep
    <2>5. Key(run.row) = key /\ OnCards(key)' = OnCards(key) + Value
        <3>1. \A c \in Cards : cards' = Append(cards, c) =>
                 /\ c.of # 0 /\ c.key = key => OnCards(key)' = OnCards(key) + c.value
                 /\ ~(c.of # 0 /\ c.key = key) => OnCards(key)' = OnCards(key)
            BY <1>1, OnCardsGrow
        <3> QED  BY <1>11, <2>4, <3>1
    <2>6. Value = Worth[run.row] /\ run.row \in JobsOf(key)
        BY <1>2, <2>4, <2>5, ValueIs DEF AtJob, JobsOf
    <2>7. Ledgered' = Ledgered
        BY <2>4, LedgerStays DEF PutsCard, disk
    <2>8. Carried(key)' \subseteq Carried(key) \cup {run.row}
        <3>1. run'.row = run.row
            BY <1>4, <2>4 DEF Runs
        <3> QED  BY <1>7, <2>7, <3>1 DEF Carried
    <2> QED  BY <1>9, <2>5, <2>6, <2>8
<1> QED  BY <1>10, <1>11

(* A card that holds a client's sum goes on holding it. *)
LEMMA EnoughStays ==
    ASSUME SheetsAreWhole, ImportTypes, CardsInv, LinesInv, RunInv, ImportNext,
           NEW key, NEW u \in 0..Len(sheet), Enough(key, u)
    PROVE  Enough(key, u)'
<1>1. sheet' = sheet /\ WonOf(key, u)' = WonOf(key, u) /\ WonOf(key, u) \in Nat /\ Len(sheet) \in Nat
    BY SetupStays, ExportStays, WonFacts, ExportFacts DEF setup
<1>2. SUFFICES ASSUME NEW c \in OursOn(key), WonOf(key, u) =< cards[c].value
               PROVE  c \in OursOn(key)' /\ WonOf(key, u) =< cards'[c].value
    BY <1>1 DEF Enough
<1>3. c \in OursOn(key)'
    BY CardsGrow DEF OursOn
<1>4. c \in DOMAIN cards /\ cards[c].key = key
    BY DEF OursOn
<1>5. CASE cards'[c] = cards[c]
    BY <1>2, <1>3, <1>5
<1>6. ASSUME NEW e \in Cards, cards' = Append(cards, e)
      PROVE  cards'[c] = cards[c]
    BY <1>1, <1>4, <1>6, CardsCome
<1>7. ASSUME NEW r \in Rows, SibsOf(r) # {}, cards'[c] # cards[c],
             cards' = [cards EXCEPT ![ledger[Min(SibsOf(r))].card] =
                           [@ EXCEPT !.value = WonOf(Key(r), Len(sheet))]]
      PROVE  WonOf(key, u) =< cards'[c].value
    <2> DEFINE d == ledger[Min(SibsOf(r))].card
    <2>1. /\ \A x \in DOMAIN cards : x # d => cards'[x] = cards[x]
          /\ cards'[d].value = WonOf(Key(r), Len(sheet)) /\ cards[d].key = Key(r)
        BY <1>7, CardFixed
    <2> HIDE DEF d
    <2>2. c = d
        BY <1>4, <1>7, <2>1
    <2>3. \A v \in u..Len(sheet) : WonOf(key, u) =< WonOf(key, v)
        BY WonFacts
    <2>4. Len(sheet) \in u..Len(sheet)
        BY <1>1
    <2> QED  BY <1>4, <2>1, <2>2, <2>3, <2>4
<1>8. cards'[c] = cards[c] \/ WonOf(key, u) =< cards'[c].value
    BY <1>6, <1>7, CardsStep
<1> QED  BY <1>3, <1>5, <1>8

(* What half a line has hidden, the run under way has left behind. *)
LEMMA HiddenStays ==
    ASSUME SheetsAreWhole, ImportTypes, LinesInv, RunInv, TornInv, ImportNext, NEW key, Hidden(key)
    PROVE  Hidden(key)'
<1>1. JobsOf(key)' = JobsOf(key) /\ JobsOf(key) \subseteq Rows /\ Rows \subseteq Nat
    BY SetupStays, ExportStays, JobFacts, ExportFacts DEF setup
<1>2. run \in Runs /\ run.row \in Nat /\ runs \in Nat /\ halves \in Nat /\ halves > 0 /\ runs >= 2
    BY DEF ImportTypes, Runs, Hidden, TornInv
<1>3. halves' > 0
    <2>1. halves' = halves \/ halves' = halves + 1
        <3>1. CASE Appends
            BY <3>1, Zenon DEF Appends
        <3>2. CASE ~Appends
            BY <3>2 DEF ImportNext, Begins, SkipsRow, PutsContact, PutsCard, PutsNote, Books,
                        EndsRun, Killed,
               RelayOpens, FixBegins, FixesValue, FixTurns, FixBooks, FixEnds, disk
        <3> QED  BY <3>1, <3>2
    <2> QED  BY <1>2, <2>1
<1>4. runs' = runs \/ (runs' = runs + 1 /\ \E upto \in Rows : Begins(upto))
    BY CountsGrow
<1>5. CASE runs > 2
    <2>1. runs' > 2
        BY <1>2, <1>4, <1>5
    <2> QED  BY <1>3, <2>1 DEF Hidden
<1>6. CASE \E upto \in Rows : Begins(upto)
    <2>1. runs' = runs + 1
        BY <1>6, CountsGrow
    <2>2. runs' > 2
        BY <1>2, <2>1
    <2> QED  BY <1>3, <2>2 DEF Hidden
<1>7. ASSUME NEW r \in JobsOf(key), r \notin Ledgered, run.at = "off" \/ r < run.row,
             ~\E upto \in Rows : Begins(upto)
      PROVE  Hidden(key)'
    <2>1. r \in Nat
        BY <1>1, <1>7
    <2>2. run'.at = "off" \/ r < run'.row
        <3>1. CASE run' = run \/ run' = NoRun
            BY <1>7, <3>1, RunTurns
        <3>2. CASE Onward /\ run.at # "off"
            BY <1>2, <1>7, <2>1, <3>2, RunTurns
        <3>3. CASE (PutsContact \/ PutsCard \/ PutsNote \/ Books) /\ ~Onward
            <4>1. run'.row = run.row /\ run.at # "off"
                <5>1. PutsContact => run'.row = run.row /\ run.at # "off"
                    BY <1>2, <3>3 DEF PutsContact, Runs
                <5>2. PutsCard => run'.row = run.row /\ run.at # "off"
                    BY <1>2, <3>3 DEF PutsCard, Runs
                <5>3. PutsNote \/ Books => run'.row = run.row /\ run.at # "off"
                    BY <1>2, <3>3 DEF PutsNote, Books, Runs
                <5> QED  BY <3>3, <5>1, <5>2, <5>3
            <4> QED  BY <1>7, <4>1
        <3>4. Onward /\ run.at = "off" => run' = run \/ run' = NoRun
            BY <1>7, RunSteps DEF PutsContact, PutsCard, PutsNote, Books
        <3> QED  BY <1>7, <3>1, <3>2, <3>3, <3>4, RunSteps
    <2>3. r \notin Ledgered'
        <3>1. CASE UNCHANGED ledger
            BY <1>7, <3>1, LedgerStays
        <3>2. CASE Appends /\ ~torn
            <4>1. Ledgered' = Ledgered \cup {run.row} /\ run.at # "off"
                BY <3>2, LineAppended DEF Appends
            <4>2. r # run.row
                BY <1>2, <1>7, <2>1, <4>1
            <4> QED  BY <1>7, <4>1, <4>2
        <3> QED  BY <3>1, <3>2, LedgerStep
    <2> QED  BY <1>1, <1>3, <1>7, <2>2, <2>3 DEF Hidden
<1> QED  BY <1>2, <1>5, <1>6, <1>7 DEF Hidden

(* When the job that stands for its client gets its line: the line says what is
   missing, or half a line hides it. *)
LEMMA StandingEnds ==
    ASSUME SheetsAreWhole, ImportTypes, CardsInv, LinesInv, RunInv, TornInv, by = "sum", Appends, ImportNext,
           NEW key, Standing(key), NEW u, u = run.upto
    PROVE  Flagged(key)' \/ Hidden(key)' \/ Enough(key, u)'
<1>1. /\ (\A k : JobsOf(k)' = JobsOf(k)) /\ run \in Runs /\ u \in 0..Len(sheet) /\ run.row \in Nat
      /\ WonOf(key, u) \in Nat
    BY SetupStays, ExportStays, WonFacts DEF setup, ImportTypes, Runs
<1>2. run.at = "booked" /\ run.note /\ run.first /\ Key(run.row) = key /\ Onward
    BY Zenon DEF Standing, Appends, InHand
<1>3. run.row \in JobsOf(key) /\ run.row \in Rows /\ run.row \notin Ledgered
    BY <1>2 DEF RunInv, AtJob, JobsOf
<1>4. CASE torn
    <2>1. halves' = halves + 1 /\ ledger' = ledger
        BY <1>4, Zenon DEF Appends
    <2>2. halves \in Nat /\ run.row < run'.row
        BY <1>1, <1>2, RunTurns DEF ImportTypes
    <2>3. run.row \notin Ledgered' /\ halves' > 0
        BY <1>3, <2>1, <2>2, LedgerStays
    <2> QED  BY <1>1, <1>3, <2>2, <2>3 DEF Hidden
<1>5. CASE ~torn
    <2>1. Ledgered' = Ledgered \cup {run.row} /\ (\A r : r = run.row => EntryOf(r)' = Entry) /\ Entry.stranded = Stranded
        BY <1>5, LineAppended
    <2>2. Stranded = Value
        BY <1>2 DEF Stranded, Included
    <2>3. CASE WonOf(key, u) = 0
        <3>1. Enough(key, u)
            BY <2>3 DEF Enough
        <3> QED  BY <1>1, <3>1, EnoughStays
    <2>4. CASE WonOf(key, u) # 0
        <3>1. HasPhone(run.row)
            BY <1>1, <1>2, <1>3, <2>4, NoPhoneNoSum
        <3>2. Value = WonOf(key, u)
            BY <1>2, <1>3, <2>4, <3>1, ValueIs DEF AtJob
        <3>3. Stranded > 0
            BY <1>1, <2>2, <2>4, <3>2
        <3> QED  BY <1>1, <1>3, <2>1, <3>3 DEF Flagged
    <2> QED  BY <2>3, <2>4
<1> QED  BY <1>4, <1>5

(* Where a client's first card of a run stands for all its jobs, the others count on one that is there. *)
LEMMA SumGoesOn ==
    ASSUME SheetsAreWhole, ImportTypes, CardsInv, LinesInv, RunInv, FixInv, TornInv, SumInv, ImportNext
    PROVE  SumInv'
<1>1. /\ UNCHANGED setup /\ sheet' = sheet /\ Rows' = Rows /\ Len(sheet) \in Nat /\ Rows \subseteq Nat
      /\ (\A r : HasPhone(r)' = HasPhone(r) /\ Key(r)' = Key(r))
      /\ \A k : JobsOf(k)' = JobsOf(k)
    BY SetupStays, ExportStays, ExportFacts DEF setup
<1>2. SUFFICES ASSUME by = "sum"
               PROVE  /\ \A r \in Ledgered' :
                            HasPhone(r) =>
                                \A key : key = Key(r) =>
                                    \/ Flagged(key)' \/ Hidden(key)'
                                    \/ \E upto \in r..Len(sheet) : Enough(key, upto)'
                      /\ run'.at # "off" =>
                            \A u : u = run'.upto =>
                                \A key \in run'.seen :
                                    Flagged(key)' \/ Hidden(key)' \/ Enough(key, u)' \/ Standing(key)'
    BY <1>1 DEF SumInv, setup
<1>3. run \in Runs /\ run.upto \in 0..Len(sheet) /\ run.row \in Nat /\ run.upto \in Nat
    BY DEF ImportTypes, Runs
<1>4. \A key : /\ Flagged(key) => Flagged(key)'
               /\ Hidden(key) => Hidden(key)'
               /\ \A u \in 0..Len(sheet) : Enough(key, u) => Enough(key, u)'
    BY FlaggedStays, HiddenStays, EnoughStays
<1>5. /\ \A r \in Ledgered :
            HasPhone(r) => \/ Flagged(Key(r)) \/ Hidden(Key(r))
                           \/ \E upto \in r..Len(sheet) : Enough(Key(r), upto)
      /\ run.at # "off" =>
            \A key \in run.seen : Flagged(key) \/ Hidden(key) \/ Enough(key, run.upto) \/ Standing(key)
    BY <1>2 DEF SumInv
(* What the run has seen to and is not at work on. *)
<1>6. ASSUME NEW key \in run.seen, run.at # "off", ~Standing(key), NEW u, u = run.upto
      PROVE  Flagged(key)' \/ Hidden(key)' \/ Enough(key, u)'
    BY <1>3, <1>4, <1>5, <1>6
<1>7. ASSUME NEW r \in Ledgered', HasPhone(r), NEW key, key = Key(r)
      PROVE  \/ Flagged(key)' \/ Hidden(key)'
             \/ \E upto \in r..Len(sheet) : Enough(key, upto)'
    <2>1. CASE r \in Ledgered
        <3>1. r \in Nat
            BY <1>1, <2>1, EntryFacts
        <3>2. r..Len(sheet) \subseteq 0..Len(sheet)
            BY <1>1, <3>1
        <3> QED  BY <1>4, <1>5, <1>7, <2>1, <3>2
    <2>2. CASE r \notin Ledgered
        <3>1. Appends /\ ~torn
            BY <1>7, <2>2, LedgerStep, LedgerStays
        <3>2. r = run.row /\ run.at = "booked"
            BY <1>7, <2>2, <3>1, LineAppended DEF Appends
        <3>3. key \in run.seen /\ run.upto \in r..Len(sheet)
            BY <1>3, <1>7, <3>2 DEF RunInv, AtJob
        <3>4. \A u : u = run.upto => Flagged(key)' \/ Hidden(key)' \/ Enough(key, u)'
            <4>1. CASE Standing(key)
                BY <1>2, <3>1, <4>1, StandingEnds
            <4>2. CASE ~Standing(key)
                BY <1>6, <3>2, <3>3, <4>2
            <4> QED  BY <4>1, <4>2
        <3> QED  BY <3>3, <3>4
    <2> QED  BY <2>1, <2>2
<1>8. ASSUME NEW key \in run'.seen, run'.at # "off", NEW u, u = run'.upto
      PROVE  Flagged(key)' \/ Hidden(key)' \/ Enough(key, u)' \/ Standing(key)'
    <2>1. ASSUME run' = run
          PROVE  Flagged(key)' \/ Hidden(key)' \/ Enough(key, u)' \/ Standing(key)'
        <3>1. CASE Standing(key)
            BY <1>1, <2>1, <3>1 DEF Standing, AtJob, InHand
        <3>2. CASE ~Standing(key)
            BY <1>6, <1>8, <2>1, <3>2
        <3> QED  BY <3>1, <3>2
    <2>2. ASSUME Onward, run.at # "off"
          PROVE  Flagged(key)' \/ Hidden(key)' \/ Enough(key, u)' \/ Standing(key)'
        <3>1. run'.seen = run.seen /\ run'.upto = run.upto /\ run'.at = "row" /\ run'.row = run.row + 1
            BY <2>2, RunTurns
        <3>2. CASE ~Standing(key)
            BY <1>6, <1>8, <2>2, <3>1, <3>2
        <3>3. CASE Standing(key) /\ Appends
            BY <1>2, <1>8, <3>1, <3>3, StandingEnds
        <3>4. CASE Standing(key) /\ ~Appends
            <4>1. run.row \in said'
                <5>1. run.at \notin {"off", "row"} /\ Key(run.row) = key
                    BY <3>4 DEF Standing, AtJob
                <5>2. PutsCard => run.row \in said'
                    BY <1>3, <3>1 DEF PutsCard, Says, Runs
                <5>3. PutsNote => run'.at = "put"
                    BY <1>3 DEF PutsNote, Runs
                <5>4. Books => run'.at = "booked"
                    BY <1>3 DEF Books, Runs
                <5>5. run' # run
                    BY <1>3, <3>1
                <5>6. \/ PutsCard \/ PutsNote \/ Books \/ Appends
                      \/ run.at \in {"off", "row"} \/ run' = run \/ run' = NoRun
                    BY DEF ImportNext, Begins, SkipsRow, PutsContact, EndsRun, Killed,
                           RelayOpens, FixBegins, FixesValue, FixTurns, FixBooks, FixEnds
                <5> QED  BY <3>1, <3>4, <5>1, <5>2, <5>3, <5>4, <5>5, <5>6, RunTurns
            <4>2. run.row \in JobsOf(key)
                BY <3>4 DEF Standing, RunInv, JobsOf
            <4> QED  BY <1>1, <4>1, <4>2 DEF Flagged
        <3> QED  BY <3>2, <3>3, <3>4
    <2>3. ASSUME PutsContact, ~Onward
          PROVE  Flagged(key)' \/ Hidden(key)' \/ Enough(key, u)' \/ Standing(key)'
        <3>1. /\ run.at = "row"
              /\ run' = [run EXCEPT !.at = "contact",
                                   !.first = Key(run.row) \notin run.seen,
                                   !.seen = IF HasPhone(run.row) THEN @ \cup {Key(run.row)} ELSE @]
            BY <2>3 DEF PutsContact
        <3>2. /\ run'.at = "contact" /\ run'.row = run.row /\ run'.first = (Key(run.row) \notin run.seen)
              /\ run'.seen = (IF HasPhone(run.row) THEN run.seen \cup {Key(run.row)} ELSE run.seen)
              /\ run'.upto = run.upto
            BY <1>3, <3>1 DEF Runs
        <3>3. CASE key \in run.seen
            <4>1. ~Standing(key)
                BY <3>1 DEF Standing, AtJob
            <4> QED  BY <1>6, <1>8, <3>1, <3>2, <3>3, <4>1
        <3>4. CASE key \notin run.seen
            <4>1. key = Key(run.row)
                BY <1>8, <3>2, <3>4
            <4>2. run'.first
                BY <3>2, <3>4, <4>1
            <4> QED  BY <1>1, <3>2, <4>1, <4>2 DEF Standing, AtJob, InHand
        <3> QED  BY <3>3, <3>4
    <2>4. ASSUME PutsCard, ~Onward
          PROVE  Flagged(key)' \/ Hidden(key)' \/ Enough(key, u)' \/ Standing(key)'
        <3>1. run.at = "contact" /\ ~Included /\ run'.row = run.row /\ run'.seen = run.seen /\ run'.upto = run.upto
              /\ run'.first = run.first /\ run'.at \in {"put", "refused"}
            BY <1>3, <2>4 DEF PutsCard, Runs
        <3>2. CASE ~Standing(key)
            BY <1>6, <1>8, <3>1, <3>2
        <3>3. CASE Standing(key) /\ run'.at = "refused"
            BY <1>1, <3>1, <3>3 DEF Standing, AtJob, InHand
        <3>4. CASE Standing(key) /\ run'.at = "put"
            <4>1. cards' = Append(cards, [key |-> Key(run.row), of |-> run.row, value |-> Value])
                BY <1>3, <2>4, <3>4 DEF PutsCard, Runs
            <4>2. run.row \in Rows /\ Key(run.row) = key /\ run.first
                BY <3>4 DEF Standing, RunInv
            <4>3. Value \in Nat /\ WonOf(key, u) \in Nat
                BY <1>3, <1>8, <3>1, <4>2, ValueIs, WonFacts DEF AtJob
            <4>4. WonOf(key, u) = 0 \/ Value = WonOf(key, u)
                <5>1. CASE HasPhone(run.row)
                    BY <1>2, <1>8, <3>1, <4>2, <5>1, ValueIs DEF AtJob
                <5>2. CASE ~HasPhone(run.row)
                    BY <1>3, <1>8, <3>1, <4>2, <5>2, NoPhoneNoSum
                <5> QED  BY <5>1, <5>2
            <4>5. [key |-> Key(run.row), of |-> run.row, value |-> Value] \in Cards /\ run.row # 0
                BY <4>2, <4>3, ExportFacts DEF Cards, Rows
            <4>6. /\ Len(cards) + 1 \in DOMAIN cards'
                  /\ cards'[Len(cards) + 1] = [key |-> Key(run.row), of |-> run.row, value |-> Value]
                <5>1. \A c \in Cards : cards' = Append(cards, c) =>
                         /\ DOMAIN cards' = 1..(Len(cards) + 1) /\ Len(cards) \in Nat
                         /\ cards'[Len(cards) + 1] = c
                    BY <1>1, CardsCome
                <5> QED  BY <4>1, <4>5, <5>1
            <4>7. Len(cards) + 1 \in OursOn(key)' /\ cards'[Len(cards) + 1].value = Value
                BY <4>2, <4>5, <4>6 DEF OursOn
            <4>8. WonOf(key, u)' = WonOf(key, u)
                BY <1>1, ExportStays
            <4>9. WonOf(key, u) = 0 \/ WonOf(key, u) =< cards'[Len(cards) + 1].value
                BY <4>3, <4>4, <4>7
            <4>10. Enough(key, u)'
                BY <4>7, <4>8, <4>9 DEF Enough
            <4> QED  BY <4>10
        <3> QED  BY <3>1, <3>2, <3>3, <3>4
    <2>5. ASSUME PutsNote
          PROVE  Flagged(key)' \/ Hidden(key)' \/ Enough(key, u)' \/ Standing(key)'
        <3>1. /\ run'.row = run.row /\ run'.seen = run.seen /\ run'.upto = run.upto /\ run.at \in {"contact", "refused"}
              /\ run'.first = run.first /\ run'.at = "put" /\ (run.at = "contact" => ~run.first)
            BY <1>3, <2>5 DEF PutsNote, Runs, Included
        <3>2. CASE ~Standing(key)
            BY <1>6, <1>8, <3>1, <3>2
        <3>3. CASE Standing(key) /\ run'.note
            BY <1>1, <3>1, <3>3 DEF Standing, AtJob, InHand
        <3>4. CASE Standing(key) /\ ~run'.note
            <4>1. run.row \in said'
                BY <1>3, <2>5, <3>4 DEF PutsNote, Says, Runs
            <4>2. run.row \in JobsOf(key)
                BY <3>4 DEF Standing, RunInv, JobsOf
            <4> QED  BY <1>1, <4>1, <4>2 DEF Flagged
        <3> QED  BY <3>2, <3>3, <3>4
    <2>6. ASSUME Books
          PROVE  Flagged(key)' \/ Hidden(key)' \/ Enough(key, u)' \/ Standing(key)'
        <3>1. /\ run'.row = run.row /\ run'.seen = run.seen /\ run'.upto = run.upto /\ run.at = "put"
              /\ run'.first = run.first /\ run'.at = "booked" /\ run'.note = run.note
            BY <1>3, <2>6 DEF Books, Runs
        <3>2. CASE ~Standing(key)
            BY <1>6, <1>8, <3>1, <3>2
        <3>3. CASE Standing(key)
            BY <1>1, <3>1, <3>3 DEF Standing, AtJob, InHand
        <3> QED  BY <3>2, <3>3
    <2>7. ~(run' = NoRun) /\ ~\E upto \in Rows : Begins(upto)
        <3>1. run' # NoRun
            BY <1>8, RunTurns
        <3>2. ASSUME NEW upto \in Rows, Begins(upto)
              PROVE  FALSE
            <4>1. run'.seen = {}
                BY <3>2, RunTurns DEF Begins
            <4> QED  BY <1>8, <4>1
        <3> QED  BY <3>1, <3>2
    <2>8. Onward => run.at # "off" \/ run' = run
        BY <2>7, RunSteps DEF PutsContact, PutsCard, PutsNote, Books
    <2> QED  BY <2>1, <2>2, <2>3, <2>4, <2>5, <2>6, <2>7, <2>8, RunSteps
<1> QED  BY <1>7, <1>8

(* Before the first run nothing is owed to any client. *)
LEMMA MoneyStarts ==
    ASSUME SheetsAreWhole, ImportInit
    PROVE  MoneyInv
<1>1. /\ cards = <<>> /\ ledger = <<>> /\ torn = FALSE /\ halves = 0 /\ run = NoRun
      /\ fix = [at |-> "new", todo |-> {}] /\ said = {} /\ runs = 0 /\ kills = 0
      /\ sheet \in Sheets /\ rule \in {"one", "many"} /\ by \in {"sum", "allow"}
      /\ notes = [r \in Rows |-> 0] /\ booked = [r \in Rows |-> 0]
    BY DEF ImportInit
<1>2. DOMAIN cards = {} /\ DOMAIN ledger = {} /\ Len(cards) = 0
    BY <1>1
<1>3. run.at = "off" /\ run.row = 0 /\ run.upto = 0 /\ run.seen = {} /\ run.card = 0 /\ ~run.note /\ ~run.appt /\ ~run.first
    BY <1>1 DEF NoRun, RunAt
<1>4. Len(sheet) \in Nat
    BY <1>1 DEF SheetsAreWhole
<1>5. ImportTypes
    <2>1. run \in Runs
        BY <1>1, <1>2, <1>4 DEF NoRun, RunAt, Runs
    <2>2. cards \in Seq(Cards) /\ ledger \in Seq(Lines)
        BY <1>1
    <2> QED  BY <1>1, <2>1, <2>2 DEF ImportTypes
<1>6. CardsInv /\ LinesInv /\ RunInv /\ FixInv /\ TornInv
    BY <1>1, <1>2, <1>3 DEF CardsInv, LinesInv, RunInv, FixInv, TornInv, InHand, AtJob
<1>7. Ledgered = {} /\ ~InHand /\ ~AtJob
    BY <1>2, <1>3 DEF Ledgered, InHand, AtJob
<1>8. \A key : OursOn(key) = {} /\ OnCards(key) = 0
    BY <1>2, SumOfNone DEF OursOn, OnCards
<1>9. CopiesInv /\ BookedInv
    <2>1. \A f \in [Rows -> Nat] : (\A r \in Rows : f[r] = 0) => Repeats(f) = 0
        <3>1. SUFFICES ASSUME NEW f \in [Rows -> Nat], \A r \in Rows : f[r] = 0
                       PROVE  Repeats(f) = 0
            OBVIOUS
        <3> DEFINE g == [r \in Rows |-> Again(f[r])]
        <3>2. \A r \in Rows : g[r] = 0
            BY <3>1 DEF Again
        <3>3. IsFiniteSet(Rows)
            BY <1>5, ExportFacts
        <3> HIDE DEF g
        <3>4. SumFunctionOnSet(g, Rows) = SumFunctionOnSet(g, {})
            BY <3>2, <3>3, SumSkips
        <3>5. SumFunctionOnSet(g, {}) = 0
            BY SumOfNone
        <3> QED  BY <3>4, <3>5 DEF Repeats, g
    <2>2. \A r \in Rows : Copies(r) = 0
        <3>1. \A r \in Rows : {i \in DOMAIN cards : cards[i].of = r} = {} /\ notes[r] = 0
            BY <1>1, <1>2
        <3> QED  BY <3>1, FS_EmptySet DEF Copies
    <2>3. CopiesOf \in [Rows -> Nat] /\ booked \in [Rows -> Nat]
        BY <1>5, CopiesAre DEF ImportTypes
    <2>4. Repeats(CopiesOf) = 0 /\ Repeats(booked) = 0
        <3>1. \A r \in Rows : CopiesOf[r] = 0 /\ booked[r] = 0
            BY <1>1, <2>2 DEF CopiesOf
        <3> QED  BY <2>1, <2>3, <3>1
    <2>5. Redone = {} /\ Rebooked = {}
        <3>1. \A r \in Rows : booked[r] = 0
            BY <1>1
        <3> QED  BY <2>2, <3>1 DEF Redone, Rebooked
    <2> QED  BY <1>1, <2>4, <2>5, FS_EmptySet DEF CopiesInv, BookedInv
<1>10. CapInv
    <2>1. \A key : ~Summed(key) => OnCards(key) =< SumFunctionOnSet(Worth, Done(key))
        <3>1. \A key : Done(key) = {}
            BY <1>1 DEF Done, Handled
        <3> QED  BY <1>8, <3>1, SumOfNone
    <2>2. WorthInv /\ OneInv /\ ManyInv
        BY <1>2, <1>3, <1>7 DEF WorthInv, OneInv, ManyInv
    <2>3. OnceInv
        BY <1>8, <2>1 DEF OnceInv
    <2> QED  BY <2>2, <2>3 DEF CapInv
<1>11. EachInv
    <2>1. \A key : Carried(key) = {}
        BY <1>7 DEF Carried
    <2> QED  BY <1>8, <2>1, SumOfNone DEF EachInv
<1>12. SumInv
    BY <1>3, <1>7 DEF SumInv
<1> QED  BY <1>5, <1>6, <1>9, <1>10, <1>11, <1>12 DEF MoneyInv

(* Every step of the import, the repair and the relay keeps it so. *)
LEMMA MoneyGoesOn ==
    ASSUME SheetsAreWhole, MoneyInv, ImportNext
    PROVE  MoneyInv'
<1>1. /\ ImportTypes /\ CardsInv /\ LinesInv /\ RunInv /\ FixInv /\ TornInv
      /\ CopiesInv /\ BookedInv /\ CapInv /\ EachInv /\ SumInv
    BY DEF MoneyInv
<1>2. ImportTypes' /\ CardsInv' /\ LinesInv' /\ RunInv' /\ FixInv' /\ TornInv'
    BY <1>1, ImportTypesGoOn, CardsGoOn, LinesGoOn, RunGoesOn, FixGoesOn, TornGoesOn
<1>3. CopiesInv' /\ BookedInv'
    BY <1>1, <1>2, CopiesGoOn, BookedGoOn
<1>4. CapInv'
    <2>1. WorthInv' /\ OneInv' /\ OnceInv'
        BY <1>1, WorthGoesOn, OnceGoesOn DEF CapInv
    <2>2. rule' = "many" => ManyInv'
        BY <1>1, ManyGoesOn, SetupStays DEF CapInv, setup
    <2> QED  BY <2>1, <2>2 DEF CapInv
<1>5. EachInv' /\ SumInv'
    BY <1>1, EachGoesOn, SumGoesOn
<1> QED  BY <1>2, <1>3, <1>4, <1>5 DEF MoneyInv

(* And so does what happens elsewhere. *)
LEMMA MoneyRests ==
    ASSUME MoneyInv, UNCHANGED importVars
    PROVE  MoneyInv'
<1>1. /\ UNCHANGED <<sheet, rule, by, cards, notes, booked, ledger, torn, halves, run, fix, said>>
      /\ UNCHANGED <<runs, kills>>
    BY DEF importVars, setup, ghl, disk, counts
<1>2. /\ Rows' = Rows /\ Keys' = Keys /\ Worth' = Worth
      /\ (\A r : HasPhone(r)' = HasPhone(r) /\ Key(r)' = Key(r))
      /\ (\A key : JobsOf(key)' = JobsOf(key) /\ WorthOf(key)' = WorthOf(key))
      /\ (\A key, u : WonOf(key, u)' = WonOf(key, u))
      /\ Ledgered' = Ledgered /\ (\A r : EntryOf(r)' = EntryOf(r))
      /\ Cards' = Cards /\ Lines' = Lines /\ Runs' = Runs
    BY <1>1, ExportStays, LedgerStays, SameShapes
<1>3. InHand' = InHand /\ AtJob' = AtJob /\ Included' = Included
    BY <1>1, <1>2 DEF InHand, AtJob, Included
<1>4. \A key : /\ OursOn(key)' = OursOn(key) /\ OnCards(key)' = OnCards(key) /\ Flagged(key)' = Flagged(key)
               /\ Carried(key)' = Carried(key) /\ Hidden(key)' = Hidden(key) /\ Standing(key)' = Standing(key)
    BY <1>1, <1>2, <1>3 DEF OursOn, OnCards, Flagged, Carried, Hidden, Standing
<1>5. ImportTypes'
    BY <1>1, <1>2 DEF MoneyInv, ImportTypes
<1>6. CardsInv' /\ LinesInv' /\ RunInv' /\ FixInv' /\ TornInv'
    BY <1>1, <1>2, <1>3 DEF MoneyInv, CardsInv, LinesInv, RunInv, FixInv, TornInv, ToldOf
<1>7. CopiesInv' /\ BookedInv'
    <2>1. \A r : Copies(r)' = Copies(r)
        BY <1>1 DEF Copies
    <2>2. CopiesOf' = CopiesOf /\ Redone' = Redone /\ Rebooked' = Rebooked
        BY <1>1, <1>2, <1>3, <2>1 DEF CopiesOf, Redone, Rebooked
    <2>3. Repeats(CopiesOf)' = Repeats(CopiesOf) /\ Repeats(booked)' = Repeats(booked)
        BY <1>1, <1>2, <2>2 DEF Repeats
    <2> QED  BY <1>1, <2>2, <2>3 DEF MoneyInv, CopiesInv, BookedInv
<1>8. CapInv'
    <2>1. WorthInv' /\ OneInv' /\ (rule' = "many" => ManyInv')
        BY <1>1, <1>2, <1>3 DEF MoneyInv, CapInv, WorthInv, OneInv, ManyInv
    <2>2. \A key : Done(key)' = Done(key) /\ Summed(key)' = Summed(key) /\ Opened(key)' = Opened(key)
        BY <1>1, <1>2, <1>3 DEF Done, Handled, Summed, Opened
    <2>3. OnceInv'
        BY <1>1, <1>2, <1>4, <2>2 DEF MoneyInv, CapInv, OnceInv, OneRun
    <2> QED  BY <2>1, <2>3 DEF CapInv
<1>9. EachInv'
    BY <1>1, <1>2, <1>4 DEF MoneyInv, EachInv
<1>10. SumInv'
    <2>1. \A key, u : Enough(key, u)' = Enough(key, u)
        BY <1>1, <1>2, <1>4 DEF Enough
    <2> QED  BY <1>1, <1>2, <1>4, <2>1 DEF MoneyInv, SumInv
<1> QED  BY <1>5, <1>6, <1>7, <1>8, <1>9, <1>10 DEF MoneyInv

(* What the invariant says of revenue. *)
LEMMA LastOf ==
    ASSUME SheetsAreWhole, ImportTypes, NEW key, JobsOf(key) # {}
    PROVE  \E m \in JobsOf(key) : \A y \in JobsOf(key) : y =< m
<1> DEFINE S == JobsOf(key)
           Above(m) == {y \in S : y >= m}
           Bad == {Above(m) : m \in S}
<1>1. S \subseteq Nat /\ IsFiniteSet(S)
    BY JobFacts, ExportFacts
<1>2. Bad \subseteq SUBSET S /\ Bad # {}
    OBVIOUS
<1>3. PICK u \in Bad : \A v \in SUBSET u : v # u => v \notin Bad
    <2> HIDE DEF Bad, S
    <2> QED  BY <1>1, <1>2, LeastSubset
<1>4. PICK m \in S : u = Above(m)
    OBVIOUS
<1>5. ASSUME NEW y \in S
      PROVE  y =< m
    <2>1. SUFFICES ASSUME m < y
                   PROVE  FALSE
        BY <1>1
    <2>2. Above(y) \subseteq u /\ m \in u /\ m \notin Above(y)
        BY <1>1, <1>4, <2>1
    <2>3. Above(y) \in Bad
        OBVIOUS
    <2> QED  BY <1>3, <2>2, <2>3
<1> QED  BY <1>5

(* Once all jobs of a client are in the ledger, the last of them has its sum. *)
LEMMA InvNothingMissing ==
    ASSUME SheetsAreWhole, MoneyInv
    PROVE  NothingMissing
<1>1. ImportTypes /\ LinesInv /\ EachInv /\ SumInv /\ by \in {"sum", "allow"}
    BY DEF MoneyInv, ImportTypes
<1>2. SUFFICES ASSUME NEW key \in Keys, JobsOf(key) \subseteq Ledgered, ~Flagged(key),
                      ~(by = "sum" /\ halves > 0 /\ runs > 2)
               PROVE  OnCards(key) >= WonOf(key, Len(sheet))
    BY DEF NothingMissing, Flagged
<1>3. /\ Len(sheet) \in Nat /\ Len(sheet) \in 0..Len(sheet) /\ Rows \subseteq Nat
      /\ WonOf(key, Len(sheet)) \in Nat /\ WonOf(key, Len(sheet)) =< WorthOf(key) /\ WorthOf(key) \in Nat
      /\ OnCards(key) \in Nat
    BY <1>1, ExportFacts, WonFacts, JobFacts, OnCardsIs
<1>4. CASE by = "allow"
    <2>1. Carried(key) = JobsOf(key)
        BY <1>2 DEF Carried
    <2>2. WorthOf(key) =< OnCards(key)
        BY <1>1, <1>2, <1>4, <2>1 DEF EachInv, WorthOf
    <2> QED  BY <1>3, <2>2
<1>5. CASE by = "sum"
    <2>1. JobsOf(key) # {} /\ JobsOf(key) \subseteq Rows
        BY DEF Keys, JobsOf
    <2>2. PICK m \in JobsOf(key) : \A y \in JobsOf(key) : y =< m
        BY <1>1, <2>1, LastOf
    <2>3. m \in Rows /\ Key(m) = key /\ m \in Ledgered
        BY <1>2, <2>1, <2>2 DEF JobsOf
    <2>4. CASE ~HasPhone(m)
        <3>1. WonOf(key, Len(sheet)) = 0
            BY <1>1, <1>3, <2>3, <2>4, NoPhoneNoSum
        <3> QED  BY <1>3, <3>1
    <2>5. CASE HasPhone(m)
        <3>1. ~Hidden(key)
            BY <1>2, <1>5 DEF Hidden
        <3>2. PICK upto \in m..Len(sheet) : Enough(key, upto)
            BY <1>1, <1>2, <1>5, <2>3, <2>5, <3>1 DEF SumInv
        <3>3. WonJobs(key, upto) = WonJobs(key, Len(sheet))
            <4>1. m \in Nat /\ upto \in Nat /\ m =< upto /\ upto =< Len(sheet)
                BY <1>3, <2>3, <3>2
            <4>2. \A y \in 1..Len(sheet) : HasPhone(y) /\ Key(y) = key => y =< m
                BY <2>2 DEF JobsOf, Rows
            <4>3. \A y \in 1..Len(sheet) : HasPhone(y) /\ Key(y) = key => y \in 1..upto
                BY <1>3, <4>1, <4>2
            <4>4. 1..upto \subseteq 1..Len(sheet)
                BY <1>3, <4>1
            <4> QED  BY <4>3, <4>4 DEF WonJobs
        <3>4. WonOf(key, upto) = WonOf(key, Len(sheet))
            BY <3>3 DEF WonOf
        <3>5. CASE WonOf(key, upto) = 0
            BY <1>3, <3>4, <3>5
        <3>6. CASE \E c \in OursOn(key) : WonOf(key, upto) =< cards[c].value
            <4>1. PICK c \in OursOn(key) : WonOf(key, upto) =< cards[c].value
                BY <3>6
            <4>2. cards[c].value =< OnCards(key) /\ cards[c].value \in Nat
                BY <1>1, OnCardsIs
            <4> QED  BY <1>3, <3>4, <4>1, <4>2
        <3> QED  BY <3>2, <3>5, <3>6 DEF Enough
    <2> QED  BY <2>4, <2>5
<1> QED  BY <1>1, <1>4, <1>5

(* The cards of a client carry no more than its jobs are worth. *)
LEMMA InvCountedOnce ==
    ASSUME SheetsAreWhole, MoneyInv
    PROVE  CountedOnce
<1>1. ImportTypes /\ WorthInv /\ OneInv /\ OnceInv /\ rule \in {"one", "many"}
    BY DEF MoneyInv, CapInv, ImportTypes
<1>2. SUFFICES ASSUME rule = "one" \/ (kills = 0 /\ runs =< 1), NEW key \in Keys
               PROVE  OnCards(key) =< WorthOf(key)
    BY DEF CountedOnce, WorthOf
<1>3. WorthOf(key) \in Nat /\ OnCards(key) \in Nat
    BY <1>1, JobFacts, OnCardsIs
(* One card at most. *)
<1>4. ASSUME \A c, d \in OursOn(key) : c = d
      PROVE  OnCards(key) =< WorthOf(key)
    <2>1. CASE OursOn(key) = {}
        BY <1>1, <1>3, <2>1, OnCardsIs
    <2>2. ASSUME NEW c \in OursOn(key)
          PROVE  OnCards(key) =< WorthOf(key)
        <3>1. OnCards(key) = cards[c].value
            BY <1>1, <1>4, OnCardsIs
        <3>2. cards[c].value =< WorthOf(key)
            BY <1>1 DEF WorthInv, OursOn
        <3> QED  BY <3>1, <3>2
    <2> QED  BY <2>1, <2>2
<1>5. CASE rule = "one"
    <2>1. \A c, d \in OursOn(key) : c = d
        BY <1>1, <1>5 DEF OneInv, OursOn
    <2> QED  BY <1>4, <2>1
<1>6. CASE rule = "many" /\ kills = 0 /\ runs =< 1
    <2>1. IF Summed(key) THEN \A c, d \in OursOn(key) : c = d
                         ELSE OnCards(key) =< SumFunctionOnSet(Worth, Done(key))
        BY <1>1, <1>6 DEF OnceInv, OneRun
    <2>2. CASE Summed(key)
        BY <1>4, <2>1, <2>2
    <2>3. CASE ~Summed(key)
        <3>1. Done(key) \subseteq JobsOf(key) /\ IsFiniteSet(JobsOf(key)) /\ \A x \in JobsOf(key) : Worth[x] \in Nat
            BY <1>1, JobFacts DEF Done
        <3>2. SumFunctionOnSet(Worth, Done(key)) =< WorthOf(key)
            BY <3>1, SumOfPart DEF WorthOf
        <3>3. SumFunctionOnSet(Worth, Done(key)) \in Nat
            BY <3>1, FS_Subset, SumIsNat
        <3> QED  BY <1>3, <2>1, <2>3, <3>2, <3>3
    <2> QED  BY <2>2, <2>3
<1> QED  BY <1>1, <1>2, <1>5, <1>6

(* What is done twice is paid for. *)
LEMMA InvOncePerRow ==
    ASSUME SheetsAreWhole, MoneyInv
    PROVE  OncePerRow
<1>1. ImportTypes /\ CopiesInv /\ BookedInv /\ kills \in Nat /\ halves \in Nat
    BY DEF MoneyInv, ImportTypes
<1>2. IsFiniteSet(Rows) /\ CopiesOf \in [Rows -> Nat] /\ booked \in [Rows -> Nat]
    BY <1>1, ExportFacts, CopiesAre DEF ImportTypes
<1>3. Redone \subseteq Rows /\ Rebooked \subseteq Rows
    BY DEF Redone, Rebooked
<1>4. Cardinality(Redone) \in Nat /\ Cardinality(Rebooked) \in Nat
    BY <1>2, <1>3, CountOfPart
<1>5. Repeats(CopiesOf) \in Nat /\ Repeats(booked) \in Nat
    BY <1>2, RepeatsAre
<1> QED  BY <1>1, <1>4, <1>5 DEF CopiesInv, BookedInv, OncePerRow, CopiesOf

(* The import can be resumed, repaired and raced by the relay without losing or
   inventing revenue in silence, whatever the export, the runs, the kills, the
   requests that fail and the cards the relay opens. *)
THEOREM MoneyIsCounted == ASSUME SheetsAreWhole PROVE ImportSpec => []MoneyIsAccounted
<1>1. ImportInit => MoneyInv
    BY MoneyStarts
<1>2. MoneyInv /\ [ImportNext]_importVars => MoneyInv'
    BY MoneyGoesOn, MoneyRests
<1>3. MoneyInv => MoneyIsAccounted
    BY InvNothingMissing, InvCountedOnce, InvOncePerRow DEF MoneyIsAccounted, MoneyInv
<1> QED  BY <1>1, <1>2, <1>3, PTL DEF ImportSpec
=============================================================================
