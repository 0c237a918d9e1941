---------------------------- MODULE CallProofs ------------------------------
(***************************************************************************)
(* What is proved of a call: in the books, in people's hands, and which    *)
(* flow and which version of an agent answer it.                           *)
(*                                                                         *)
(* In the books (Ingestion): a call's row is what its events say, for any  *)
(* events, any number of transactions, redeliveries and aborts.  The       *)
(* argument has four layers:                                               *)
(*   LockInv   one transaction at a time has written a call's row;         *)
(*   WriteInv  so what it is about to commit builds on the committed row;  *)
(*   RowInv    so a committed row keeps all that it was ever told;         *)
(*   CountInv  and the transaction that counts a call is the only one.     *)
(*                                                                         *)
(* In hands (Takeover): a seized call is the supervisor's, for any number  *)
(* of supervisors and of failed requests.  The invariant has three layers, *)
(* each inductive given the ones before it:                                *)
(*   TypeInv   the types, and that only Retell has a second session;       *)
(*   ClaimInv  the registry: who owns the call is whose job got past the   *)
(*             claim, and the flow that was told so does nothing more to   *)
(*             the caller;                                                 *)
(*   RoomInv   the bridges: what each step of the take-over that is under  *)
(*             way has achieved, whatever it knew of the session.          *)
(* CallerNotStranded needs the first two, SupervisorPrevails all three.    *)
(*                                                                         *)
(* Who answers (NumberAgents): the owner's flow comes back, for any number *)
(* of requests at once, except the overlaps that the property names:       *)
(*   OwnInv       where the owner's flow is, whatever runs now;            *)
(*   Current      a request that nobody overtook decides as it would now;  *)
(*   Late         what one was overtaken by leads to the same flow;        *)
(*   VersionsInv  a version is found, or its row goes behind all others.   *)
(***************************************************************************)
EXTENDS Ingestion, Takeover, NumberAgents, TLAPS

(***************************************************************************)
(* In the books: Ingestion                                                 *)
(***************************************************************************)

(* What a transaction can look like at each of its steps. *)
News == {TRUE, FALSE, Null}

Transactions ==
    [at : {"idle"}]
    \union [at : {"locked"}, evt : Events]
    \union [at : {"inserted"}, evt : Events, isNew : News, wrote : BOOLEAN, row : Rows]
    \union [at : {"projected"}, evt : Events, row : Rows, wrote : BOOLEAN,
            fresh : BOOLEAN, counts : BOOLEAN]

IngestTypeInv ==
    /\ IngestTypeOK
    /\ tx \in [Workers -> Transactions]
    /\ \A w \in Workers : Open(w) => tx[w].evt \in delivered

(* A call's row is locked by one transaction at a time. *)
LockInv ==
    \A c \in Calls : \A v, w \in Workers : HoldsCall(v, c) /\ HoldsCall(w, c) => v = w

(* What a row has been told it keeps, whatever is written to it next. *)
Keeps(old, new) ==
    /\ old.exists => new.exists
    /\ old.rank =< new.rank
    /\ old.number # Null => new.number # Null
    /\ old.rank = 4 => /\ old.duration => new.duration
                       /\ old.answered => new.answered

(* The row says what the event said. *)
Says(row, e) ==
    /\ row.exists
    /\ e.rank =< row.rank
    /\ e.number # Null => row.number # Null
    /\ e.rank = 4 => /\ e.duration => row.duration
                     /\ e.answered => row.answered

(* What a transaction has written, or found written, when it comes to commit. *)
InsertedWell(w) ==
    tx[w].at = "inserted" =>
        IF tx[w].wrote
        THEN ~calls[tx[w].evt.call].exists /\ tx[w].row.exists /\ tx[w].row.rank = tx[w].evt.rank
        ELSE calls[tx[w].evt.call].exists

ProjectedWell(w) ==
    tx[w].at = "projected" =>
        IF tx[w].wrote
        THEN /\ Says(tx[w].row, tx[w].evt)
             /\ Keeps(calls[tx[w].evt.call], tx[w].row)
             /\ tx[w].row.rank \in {tx[w].evt.rank, calls[tx[w].evt.call].rank}
        ELSE Says(calls[tx[w].evt.call], tx[w].evt)

LoggedWell(w) ==
    tx[w].at = "projected" /\ ~tx[w].fresh => LogRow(tx[w].evt) \in log

BlankRows == \A c \in Calls : ~calls[c].exists => calls[c] = NoRow

WriteInv ==
    /\ BlankRows
    /\ \A w \in Workers : InsertedWell(w) /\ ProjectedWell(w) /\ LoggedWell(w)

(* The row's rank is its log's, and what was ingested is said. *)
RowInv ==
    /\ \A c \in Calls :
        /\ \A r \in log : r.call = c => r.rank =< calls[c].rank
        /\ calls[c].rank > 0 => \E r \in log : r.call = c /\ r.rank = calls[c].rank
    /\ \A e \in ingested : Says(calls[e.call], e)

(* Who is about to count a call holds its row and counts it first. *)
CountInv ==
    /\ \A w \in Workers : tx[w].at = "projected" /\ tx[w].counts =>
                              tx[w].wrote /\ counted[tx[w].evt.call] = 0
    /\ \A c \in Calls : /\ counted[c] \in {0, 1}
                        /\ counted[c] = 1 => \E r \in log : r.call = c

BooksInv == IngestTypeInv /\ LockInv /\ WriteInv /\ RowInv /\ CountInv

-----------------------------------------------------------------------------
(* Lemmas about the projection of an event onto a row *)

(* The fields of an event and of a row have their types. *)
LEMMA EventFields ==
    ASSUME NEW e \in Events
    PROVE  /\ e.call \in Calls /\ e.rank \in 0..4
           /\ e.caller \in Callers \union {Null} /\ e.number \in Numbers \union {Null}
           /\ e.answered \in BOOLEAN /\ e.duration \in BOOLEAN /\ e.started \in BOOLEAN
           /\ Campaign(e) \in Campaigns \union {Null}
           /\ LogRow(e) \in LogRows
<1>1. e \in EventShape
    BY IngestionAssumption
<1>2. /\ e.call \in Calls /\ e.key \in STRING /\ e.rank \in 0..4
      /\ e.caller \in Callers \union {Null} /\ e.number \in Numbers \union {Null}
      /\ e.answered \in BOOLEAN /\ e.duration \in BOOLEAN /\ e.started \in BOOLEAN
    BY <1>1 DEF EventShape
<1>3. Campaign(e) \in Campaigns \union {Null}
    BY <1>2, IngestionAssumption DEF Campaign
<1>4. LogRow(e) \in LogRows
    BY <1>2 DEF LogRow, LogRows
<1> QED  BY <1>2, <1>3, <1>4

(* The new-caller flag is a Boolean or is not known. *)
LEMMA NewsTyped == ASSUME NEW e PROVE IsNew(e) \in News
<1>1. CASE e.caller = Null \/ Campaign(e) = Null
    BY <1>1 DEF IsNew, News
<1>2. CASE ~(e.caller = Null \/ Campaign(e) = Null)
    <2>1. IsNew(e) \in BOOLEAN
        BY <1>2 DEF IsNew
    <2> QED  BY <2>1 DEF News
<1> QED  BY <1>1, <1>2

(* The row of a first event. *)
LEMMA FirstRowTyped ==
    ASSUME NEW e \in Events, NEW isNew \in News
    PROVE  FirstRow(e, isNew) \in Rows
<1> QED  BY EventFields DEF FirstRow, Rows, News

(* The guarded UPDATE keeps the row a row. *)
LEMMA AdvanceTyped ==
    ASSUME NEW e \in Events, NEW row \in Rows
    PROVE  Advance(row, e) \in Rows
<1> DEFINE n == Or(e.number, row.number)
           c == Or(e.caller, row.caller)
           k == Or(Campaign(e), row.campaign)
           a == e.answered
           d == e.duration
           r == e.rank
<1>1. /\ n \in Numbers \union {Null} /\ c \in Callers \union {Null}
      /\ k \in Campaigns \union {Null}
    BY EventFields DEF Or, Rows
<1>2. a \in BOOLEAN /\ d \in BOOLEAN /\ r \in 0..4
    BY EventFields
<1>3. Advance(row, e) \in
          {row, [row EXCEPT !.rank = r, !.answered = a, !.duration = d, !.number = n,
                            !.caller = c, !.campaign = k]}
    BY DEF Advance
<1> HIDE DEF n, c, k, a, d, r
<1>4. [row EXCEPT !.rank = r, !.answered = a, !.duration = d, !.number = n,
                  !.caller = c, !.campaign = k] \in Rows
    BY <1>1, <1>2 DEF Rows
<1> QED  BY <1>3, <1>4

(* So does the back-fill of the answer time and the duration. *)
LEMMA BackfillTyped ==
    ASSUME NEW e \in Events, NEW row \in Rows
    PROVE  BackfillAnswer(row, e) \in Rows
<1> DEFINE x == row.answered \/ e.answered
           y == row.duration \/ e.duration
<1>1. x \in BOOLEAN /\ y \in BOOLEAN
    BY EventFields DEF Rows
<1>2. BackfillAnswer(row, e) = [row EXCEPT !.answered = x, !.duration = y]
    BY DEF BackfillAnswer
<1> HIDE DEF x, y
<1> QED  BY <1>1, <1>2 DEF Rows

(* So do all three UPDATEs. *)
LEMMA ProjectionTyped ==
    ASSUME NEW e \in Events, NEW row \in Rows, NEW isNew \in News
    PROVE  Projection(row, e, isNew) \in Rows
<1> DEFINE one == Advance(row, e)
           two == BackfillAnswer(one, e)
<1>1. one \in Rows
    BY AdvanceTyped
<1> HIDE DEF one
<1>2. two \in Rows
    BY <1>1, BackfillTyped
<1> HIDE DEF two
<1> DEFINE k == Or(Campaign(e), two.campaign)
           f == Or(isNew, two.isNew)
<1>3. k \in Campaigns \union {Null} /\ f \in News /\ e.number \in Numbers \union {Null}
    BY <1>2, EventFields DEF Or, Rows, News
<1>4. BackfillAttribution(two, e, isNew) \in
          {two, [two EXCEPT !.number = e.number, !.campaign = k, !.isNew = f]}
    BY DEF BackfillAttribution
<1> HIDE DEF k, f
<1>5. [two EXCEPT !.number = e.number, !.campaign = k, !.isNew = f] \in Rows
    BY <1>2, <1>3 DEF Rows, News
<1> QED  BY <1>2, <1>4, <1>5 DEF Projection, one, two

(* A projected row keeps what it was told, says what the event says, and is of
   the rank of one of the two. *)
LEMMA ProjectionMends ==
    ASSUME NEW e \in Events, NEW row \in Rows, NEW isNew \in News, row.exists
    PROVE  /\ Keeps(row, Projection(row, e, isNew))
           /\ Says(Projection(row, e, isNew), e)
           /\ Projection(row, e, isNew).rank \in {row.rank, e.rank}
<1> DEFINE one == Advance(row, e)
           two == BackfillAnswer(one, e)
           three == BackfillAttribution(two, e, isNew)
<1>1. /\ one.exists /\ one.rank \in {row.rank, e.rank}
      /\ row.rank =< one.rank /\ e.rank =< one.rank
      /\ row.number # Null => one.number # Null
      /\ row.rank = 4 => one = row
    BY EventFields DEF Advance, Rows, Or
<1>2. one \in Rows
    BY AdvanceTyped
<1> HIDE DEF one
<1>3. /\ two.exists /\ two.rank = one.rank /\ two.number = one.number
      /\ (one.duration \/ e.duration) = two.duration
      /\ (one.answered \/ e.answered) = two.answered
    BY <1>1, <1>2 DEF BackfillAnswer, Rows
<1>4. two \in Rows
    BY <1>2, BackfillTyped
<1> HIDE DEF two
<1>5. /\ three.exists /\ three.rank = two.rank
      /\ three.duration = two.duration /\ three.answered = two.answered
      /\ two.number # Null => three.number # Null
      /\ e.number # Null => three.number # Null
    BY <1>3, <1>4 DEF BackfillAttribution, Rows
<1>6. three = Projection(row, e, isNew)
    BY DEF Projection, one, two
<1> HIDE DEF three
<1>7. row.rank \in 0..4 /\ e.rank \in 0..4
    BY EventFields DEF Rows
<1>8. Keeps(row, three)
    BY <1>1, <1>3, <1>5, <1>7 DEF Keeps
<1>9. Says(three, e)
    BY <1>1, <1>3, <1>5, <1>7 DEF Says
<1> QED  BY <1>1, <1>3, <1>5, <1>6, <1>8, <1>9

(* What a row said it goes on saying. *)
LEMMA SaysOn ==
    ASSUME NEW e \in Events, NEW old \in Rows, NEW new \in Rows, Says(old, e), Keeps(old, new)
    PROVE  Says(new, e)
<1>1. e.rank \in 0..4 /\ old.rank \in 0..4 /\ new.rank \in 0..4
    BY EventFields DEF Rows
<1> QED  BY <1>1 DEF Says, Keeps

(* A row that is not written keeps everything. *)
LEMMA KeepsSelf == ASSUME NEW a \in Rows PROVE Keeps(a, a)
<1> QED  BY DEF Keeps, Rows

(* An empty row has nothing to keep. *)
LEMMA BlankKeeps ==
    ASSUME NEW row \in Rows
    PROVE  Keeps(NoRow, row) /\ NoRow \in Rows
<1>1. row.rank \in 0..4
    BY DEF Rows
<1> QED  BY <1>1 DEF Keeps, NoRow, Rows

-----------------------------------------------------------------------------
(* What the steps do, seen from the rows *)

(* An open transaction's record, by where it is. *)
LEMMA Opened ==
    ASSUME IngestTypeInv, NEW w \in Workers
    PROVE  /\ tx[w].at \in {"idle", "locked", "inserted", "projected"}
           /\ Open(w) => tx[w].evt \in Events /\ tx[w].evt.call \in Calls
           /\ tx[w].at = "inserted" =>
                  tx[w].row \in Rows /\ tx[w].wrote \in BOOLEAN /\ tx[w].isNew \in News
           /\ tx[w].at = "projected" =>
                  /\ tx[w].row \in Rows /\ tx[w].wrote \in BOOLEAN
                  /\ tx[w].fresh \in BOOLEAN /\ tx[w].counts \in BOOLEAN
<1>1. tx[w] \in Transactions
    BY DEF IngestTypeInv
<1>2. /\ tx[w].at \in {"idle", "locked", "inserted", "projected"}
      /\ Open(w) => tx[w].evt \in Events
      /\ tx[w].at = "inserted" =>
             tx[w].row \in Rows /\ tx[w].wrote \in BOOLEAN /\ tx[w].isNew \in News
      /\ tx[w].at = "projected" =>
             /\ tx[w].row \in Rows /\ tx[w].wrote \in BOOLEAN
             /\ tx[w].fresh \in BOOLEAN /\ tx[w].counts \in BOOLEAN
    BY <1>1 DEF Transactions, Open
<1> QED  BY <1>2, EventFields

(* The transaction after each step, and the others as they were. *)
LEMMA Begins ==
    ASSUME IngestTypeInv, NEW w \in Workers, NEW e \in Events, Begin(w, e)
    PROVE  /\ tx' \in [Workers -> Transactions]
           /\ tx'[w].at = "locked" /\ tx'[w].evt = e
           /\ \A v \in Workers \ {w} : tx'[v] = tx[v]
<1>1. [at |-> "locked", evt |-> e] \in Transactions
    BY DEF Transactions
<1> QED  BY <1>1 DEF Begin, IngestTypeInv

(* The row lock is waited for before the row is inserted. *)
LEMMA Inserts ==
    ASSUME IngestTypeInv, NEW w \in Workers, Insert(w)
    PROVE  LET e == tx[w].evt IN
           /\ tx[w].at = "locked" /\ e \in Events
           /\ tx' \in [Workers -> Transactions]
           /\ tx'[w].at = "inserted" /\ tx'[w].evt = e
           /\ tx'[w].wrote = ~calls[e.call].exists
           /\ tx'[w].wrote => tx'[w].row.exists /\ tx'[w].row.rank = e.rank
           /\ \A v \in Workers : HoldsCall(v, e.call) => calls[e.call].exists
           /\ \A v \in Workers \ {w} : tx'[v] = tx[v]
<1> DEFINE e == tx[w].evt
           row == IF calls[e.call].exists THEN calls[e.call] ELSE FirstRow(e, IsNew(e))
           t == [at |-> "inserted", evt |-> e, isNew |-> IsNew(e),
                 wrote |-> ~calls[e.call].exists, row |-> row]
<1>1. tx[w].at = "locked" /\ e \in Events /\ e.call \in Calls
    BY Opened DEF Insert, Open
<1>2. calls[e.call] \in Rows /\ calls[e.call].exists \in BOOLEAN
    BY <1>1 DEF IngestTypeInv, IngestTypeOK, Rows
<1>3. IsNew(e) \in News
    BY NewsTyped
<1>4. row \in Rows
    BY <1>1, <1>2, <1>3, FirstRowTyped
<1>5. ~calls[e.call].exists => row.exists /\ row.rank = e.rank
    BY DEF FirstRow
<1>6. tx' = [tx EXCEPT ![w] = t]
    BY DEF Insert
<1>7. \A v \in Workers : HoldsCall(v, e.call) => calls[e.call].exists
    BY DEF Insert
<1>8. t \in Transactions
    <2> HIDE DEF row
    <2>1. (~calls[e.call].exists) \in BOOLEAN
        OBVIOUS
    <2> QED  BY <1>1, <1>3, <1>4, <2>1 DEF Transactions
<1>9. /\ t.at = "inserted" /\ t.evt = e /\ t.wrote = ~calls[e.call].exists
      /\ t.row = row
    OBVIOUS
<1> HIDE DEF t, row
<1>10. tx \in [Workers -> Transactions]
    BY DEF IngestTypeInv
<1>11. tx' \in [Workers -> Transactions] /\ tx'[w] = t /\ \A v \in Workers \ {w} : tx'[v] = tx[v]
    BY <1>6, <1>8, <1>10
<1> QED  BY <1>1, <1>5, <1>7, <1>9, <1>11

(* The row an UPDATE starts from. *)
Before(w) == IF tx[w].wrote THEN tx[w].row ELSE calls[tx[w].evt.call]

(* An UPDATE that changes the row has waited for its lock. *)
LEMMA Projects ==
    ASSUME IngestTypeInv, WriteInv, NEW w \in Workers, Project(w)
    PROVE  LET e == tx[w].evt IN
           /\ tx[w].at = "inserted" /\ e \in Events
           /\ tx' \in [Workers -> Transactions]
           /\ tx'[w].at = "projected" /\ tx'[w].evt = e
           /\ tx'[w].row \in Rows
           /\ Keeps(Before(w), tx'[w].row) /\ Says(tx'[w].row, e)
           /\ tx'[w].row.rank \in {Before(w).rank, e.rank}
           /\ tx'[w].wrote = (tx[w].wrote \/ tx'[w].row # Before(w))
           /\ tx'[w].row # Before(w) => \A v \in Workers \ {w} : ~HoldsCall(v, e.call)
           /\ tx'[w].fresh = (LogRow(e) \notin log)
           /\ tx'[w].counts = Counts(e)
           /\ \A v \in Workers \ {w} : tx'[v] = tx[v]
<1> DEFINE e == tx[w].evt
           new == Projection(Before(w), e, tx[w].isNew)
           t == [at |-> "projected", evt |-> e, row |-> new,
                 wrote |-> tx[w].wrote \/ new # Before(w),
                 fresh |-> LogRow(e) \notin log, counts |-> Counts(e)]
<1>1. /\ tx[w].at = "inserted" /\ e \in Events /\ e.call \in Calls
      /\ tx[w].row \in Rows /\ tx[w].wrote \in BOOLEAN /\ tx[w].isNew \in News
    BY Opened DEF Project, Open
<1>2. Before(w) \in Rows /\ Before(w).exists
    BY <1>1 DEF WriteInv, InsertedWell, IngestTypeInv, IngestTypeOK, Before
<1>3. new \in Rows
    BY <1>1, <1>2, ProjectionTyped
<1>4. Keeps(Before(w), new) /\ Says(new, e) /\ new.rank \in {Before(w).rank, e.rank}
    BY <1>1, <1>2, ProjectionMends
<1>5. /\ tx' = [tx EXCEPT ![w] = t]
      /\ \A v \in Workers \ {w} : new # Before(w) => ~HoldsCall(v, e.call)
    BY DEF Project, Before
<1>6. t \in Transactions
    <2> HIDE DEF new
    <2>1. /\ (tx[w].wrote \/ new # Before(w)) \in BOOLEAN
          /\ (LogRow(e) \notin log) \in BOOLEAN /\ Counts(e) \in BOOLEAN
        BY <1>1 DEF Counts
    <2> QED  BY <1>1, <1>3, <2>1 DEF Transactions
<1>7. /\ t.at = "projected" /\ t.evt = e /\ t.row = new
      /\ t.wrote = (tx[w].wrote \/ new # Before(w))
      /\ t.fresh = (LogRow(e) \notin log) /\ t.counts = Counts(e)
    OBVIOUS
<1> HIDE DEF t, new
<1>8. tx \in [Workers -> Transactions]
    BY DEF IngestTypeInv
<1>9. tx' \in [Workers -> Transactions] /\ tx'[w] = t /\ \A v \in Workers \ {w} : tx'[v] = tx[v]
    BY <1>5, <1>6, <1>8
<1> QED  BY <1>1, <1>3, <1>4, <1>5, <1>7, <1>9

(* A transaction that is committed, or lost, leaves its place. *)
LEMMA TxEnds ==
    ASSUME IngestTypeInv, NEW w \in Workers, Commit(w) \/ Abort(w)
    PROVE  /\ tx' \in [Workers -> Transactions] /\ tx'[w].at = "idle"
           /\ \A v \in Workers \ {w} : tx'[v] = tx[v]
<1>1. [at |-> "idle"] \in Transactions
    BY DEF Transactions
<1>2. tx' = [tx EXCEPT ![w] = [at |-> "idle"]] /\ tx \in [Workers -> Transactions]
    BY DEF Commit, Abort, IngestTypeInv
<1> QED  BY <1>1, <1>2

(* The rows after a commit: one row, and only by who holds it. *)
LEMMA Commits ==
    ASSUME IngestTypeInv, NEW w \in Workers, Commit(w)
    PROVE  LET e == tx[w].evt IN
           /\ tx[w].at = "projected" /\ e \in Events /\ e.call \in Calls
           /\ calls' \in [Calls -> Rows]
           /\ \A c \in Calls : calls'[c] = IF c = e.call /\ tx[w].wrote THEN tx[w].row ELSE calls[c]
           /\ log' = IF tx[w].fresh THEN log \union {LogRow(e)} ELSE log
           /\ log' \subseteq LogRows
           /\ ingested' = ingested \union {e}
           /\ \A c \in Calls : counted'[c] = IF tx[w].counts /\ c = e.call
                                             THEN counted[c] + 1 ELSE counted[c]
<1> DEFINE e == tx[w].evt
<1>1. /\ tx[w].at = "projected" /\ e \in Events /\ e.call \in Calls
      /\ tx[w].row \in Rows /\ tx[w].wrote \in BOOLEAN /\ tx[w].fresh \in BOOLEAN
      /\ tx[w].counts \in BOOLEAN
    BY Opened DEF Commit, Open
<1>2. calls \in [Calls -> Rows] /\ counted \in [Calls -> Nat] /\ log \subseteq LogRows
    BY DEF IngestTypeInv, IngestTypeOK
<1>3. /\ calls' \in [Calls -> Rows]
      /\ \A c \in Calls : calls'[c] = IF c = e.call /\ tx[w].wrote THEN tx[w].row ELSE calls[c]
    BY <1>1, <1>2 DEF Commit
<1>4. log' = IF tx[w].fresh THEN log \union {LogRow(e)} ELSE log
    BY DEF Commit
<1>5. log' \subseteq LogRows
    BY <1>1, <1>2, <1>4, EventFields
<1>6. \A c \in Calls : counted'[c] = IF tx[w].counts /\ c = e.call
                                     THEN counted[c] + 1 ELSE counted[c]
    BY <1>1, <1>2 DEF Commit
<1>7. ingested' = ingested \union {e}
    BY DEF Commit
<1> QED  BY <1>1, <1>3, <1>4, <1>5, <1>6, <1>7

(* A recording's stub. *)
LEMMA Ensures ==
    ASSUME IngestTypeInv, NEW c \in Calls, EnsureCall(c)
    PROVE  /\ calls' \in [Calls -> Rows]
           /\ ~calls[c].exists /\ \A w \in Workers : ~HoldsCall(w, c)
           /\ calls'[c] = [NoRow EXCEPT !.exists = TRUE]
           /\ \A d \in Calls \ {c} : calls'[d] = calls[d]
<1>1. NoRow \in Rows
    BY DEF NoRow, Rows
<1>2. [NoRow EXCEPT !.exists = TRUE] \in Rows
    BY <1>1 DEF Rows
<1> QED  BY <1>2 DEF EnsureCall, IngestTypeInv, IngestTypeOK

-----------------------------------------------------------------------------
(* One writer of a row at a time *)

(* The types are kept. *)
LEMMA TypesKept == IngestTypeInv /\ WriteInv /\ [IngestNext]_ingestVars => IngestTypeInv'
<1> SUFFICES ASSUME IngestTypeInv, WriteInv, [IngestNext]_ingestVars PROVE IngestTypeInv'
    OBVIOUS
<1> DEFINE Shape == \A w \in Workers :
                /\ tx[w].at \in {"idle", "locked", "inserted", "projected"}
                /\ Open(w) => tx[w].evt \in Events
                /\ tx[w].at \in {"inserted", "projected"} =>
                       tx[w].row \in Rows /\ tx[w].wrote \in BOOLEAN
           Books == /\ calls \in [Calls -> Rows] /\ log \subseteq LogRows
           Counters == total \in [Callers -> Nat] /\ counted \in [Calls -> Nat]
           Deliveries == /\ ingested \subseteq delivered /\ delivered \subseteq Events
                         /\ again \in 0..MaxRedeliveries /\ aborts \in 0..MaxAborts
<1>1. Books /\ Counters /\ Deliveries /\ tx \in [Workers -> Transactions]
    BY DEF IngestTypeInv, IngestTypeOK
<1>2. MaxRedeliveries \in Nat /\ MaxAborts \in Nat
    BY IngestionAssumption
<1>3. ASSUME NEW w \in Workers, NEW e \in Events, Begin(w, e)
      PROVE  Books' /\ Counters' /\ Deliveries' /\ tx' \in [Workers -> Transactions]
    <2>1. tx' \in [Workers -> Transactions]
        BY <1>3, Begins
    <2>2. Deliveries'
        BY <1>1, <1>2, <1>3 DEF Begin
    <2> QED  BY <1>1, <1>3, <2>1, <2>2 DEF Begin
<1>4. ASSUME NEW w \in Workers, Insert(w)
      PROVE  Books' /\ Counters' /\ Deliveries' /\ tx' \in [Workers -> Transactions]
    <2>1. tx' \in [Workers -> Transactions]
        BY <1>4, Inserts
    <2> QED  BY <1>1, <1>4, <2>1 DEF Insert
<1>5. ASSUME NEW w \in Workers, Project(w)
      PROVE  Books' /\ Counters' /\ Deliveries' /\ tx' \in [Workers -> Transactions]
    <2>1. tx' \in [Workers -> Transactions]
        BY <1>5, Projects
    <2> QED  BY <1>1, <1>5, <2>1 DEF Project
<1>6. ASSUME NEW w \in Workers, Commit(w)
      PROVE  Books' /\ Counters' /\ Deliveries' /\ tx' \in [Workers -> Transactions]
    <2>1. tx' \in [Workers -> Transactions]
        BY <1>6, TxEnds
    <2>2. Books' /\ tx[w].evt \in Events
        BY <1>6, Commits
    <2>3. Counters'
        <3>1. CASE tx[w].counts
            BY <1>1, <1>6, <3>1 DEF Commit
        <3>2. CASE ~tx[w].counts
            BY <1>1, <1>6, <3>2 DEF Commit
        <3> QED  BY <3>1, <3>2
    <2>4. Deliveries'
        <3>1. tx[w].evt \in delivered
            BY <1>6 DEF IngestTypeInv, Commit, Open
        <3> QED  BY <1>1, <1>6, <3>1 DEF Commit
    <2> QED  BY <2>1, <2>2, <2>3, <2>4
<1>7. ASSUME NEW w \in Workers, Abort(w)
      PROVE  Books' /\ Counters' /\ Deliveries' /\ tx' \in [Workers -> Transactions]
    <2>1. tx' \in [Workers -> Transactions]
        BY <1>7, TxEnds
    <2>2. Deliveries'
        BY <1>1, <1>2, <1>7 DEF Abort
    <2> QED  BY <1>1, <1>7, <2>1, <2>2 DEF Abort
<1>8. ASSUME NEW c \in Calls, EnsureCall(c)
      PROVE  Books' /\ Counters' /\ Deliveries' /\ tx' \in [Workers -> Transactions]
    BY <1>1, <1>8, Ensures DEF EnsureCall
<1>9. ASSUME UNCHANGED ingestVars
      PROVE  Books' /\ Counters' /\ Deliveries' /\ tx' \in [Workers -> Transactions]
    BY <1>1, <1>9 DEF ingestVars
<1>10. Books' /\ Counters' /\ Deliveries' /\ tx' \in [Workers -> Transactions]
    BY <1>3, <1>4, <1>5, <1>6, <1>7, <1>8, <1>9 DEF IngestNext
<1>11. Shape'
    <2> SUFFICES ASSUME NEW w \in Workers
                 PROVE  /\ tx'[w].at \in {"idle", "locked", "inserted", "projected"}
                        /\ Open(w)' => tx'[w].evt \in Events
                        /\ tx'[w].at \in {"inserted", "projected"} =>
                               tx'[w].row \in Rows /\ tx'[w].wrote \in BOOLEAN
        OBVIOUS
    <2>1. tx'[w] \in Transactions
        BY <1>10
    <2> QED  BY <2>1 DEF Transactions, Open
<1>12. \A w \in Workers : Open(w)' => tx'[w].evt \in delivered'
    <2>1. ASSUME NEW w \in Workers, NEW e \in Events, Begin(w, e), NEW v \in Workers, Open(v)'
          PROVE  tx'[v].evt \in delivered'
        <3>1. CASE v = w
            BY <2>1, <3>1, Begins DEF Begin
        <3>2. CASE v # w
            BY <2>1, <3>2, Begins DEF Begin, IngestTypeInv, Open
        <3> QED  BY <3>1, <3>2
    <2>2. ASSUME NEW w \in Workers, Insert(w) \/ Project(w), NEW v \in Workers, Open(v)'
          PROVE  tx'[v].evt \in delivered'
        <3>1. tx'[w].evt = tx[w].evt /\ Open(w) /\ \A u \in Workers \ {w} : tx'[u] = tx[u]
            BY <2>2, Inserts, Projects DEF Open
        <3>2. delivered' = delivered
            BY <2>2 DEF Insert, Project
        <3> QED  BY <2>2, <3>1, <3>2 DEF IngestTypeInv, Open
    <2>3. ASSUME NEW w \in Workers, Commit(w) \/ Abort(w), NEW v \in Workers, Open(v)'
          PROVE  tx'[v].evt \in delivered'
        <3>1. v # w /\ tx'[v] = tx[v] /\ delivered' = delivered
            BY <2>3, TxEnds DEF Open, Commit, Abort
        <3> QED  BY <2>3, <3>1 DEF IngestTypeInv, Open
    <2>4. ASSUME UNCHANGED <<tx, delivered>>
          PROVE  \A w \in Workers : Open(w)' => tx'[w].evt \in delivered'
        BY <2>4 DEF IngestTypeInv, Open
    <2> QED  BY <2>1, <2>2, <2>3, <2>4 DEF IngestNext, ingestVars, EnsureCall
<1> QED  BY <1>10, <1>11, <1>12 DEF IngestTypeInv, IngestTypeOK

(* Who does not move holds what it held. *)
LEMMA HoldsOn ==
    ASSUME NEW v \in Workers, tx'[v] = tx[v], NEW c
    PROVE  HoldsCall(v, c)' <=> HoldsCall(v, c)
<1> QED  BY DEF HoldsCall

(* If whoever moves takes a row nobody else holds, one holds it at a time. *)
LEMMA LockedOnce ==
    ASSUME LockInv, NEW w \in Workers, \A v \in Workers \ {w} : tx'[v] = tx[v],
           \A c \in Calls : HoldsCall(w, c)' =>
               HoldsCall(w, c) \/ \A v \in Workers \ {w} : ~HoldsCall(v, c)
    PROVE  LockInv'
<1> SUFFICES ASSUME NEW c \in Calls, NEW u \in Workers, NEW v \in Workers,
                    HoldsCall(u, c)', HoldsCall(v, c)'
             PROVE  u = v
    BY DEF LockInv
<1>1. \A x \in Workers \ {w} : HoldsCall(x, c)' => HoldsCall(x, c)
    BY HoldsOn
<1>2. CASE u # w /\ v # w
    BY <1>1, <1>2 DEF LockInv
<1>3. CASE u = w \/ v = w
    BY <1>1, <1>3 DEF LockInv
<1> QED  BY <1>2, <1>3

(* Every step leaves each row to one writer. *)
LEMMA LocksKept == IngestTypeInv /\ LockInv /\ WriteInv /\ [IngestNext]_ingestVars => LockInv'
<1> SUFFICES ASSUME IngestTypeInv, LockInv, WriteInv, [IngestNext]_ingestVars PROVE LockInv'
    OBVIOUS
<1>1. ASSUME NEW w \in Workers, NEW e \in Events, Begin(w, e) PROVE LockInv'
    <2>1. \A v \in Workers \ {w} : tx'[v] = tx[v]
        BY <1>1, Begins
    <2>2. \A c \in Calls : ~HoldsCall(w, c)'
        BY <1>1, Begins DEF HoldsCall
    <2> QED  BY <2>1, <2>2, LockedOnce
<1>2. ASSUME NEW w \in Workers, Insert(w) PROVE LockInv'
    <2> DEFINE e == tx[w].evt
    <2>1. /\ tx'[w].evt = e /\ tx'[w].wrote = ~calls[e.call].exists
          /\ \A v \in Workers : HoldsCall(v, e.call) => calls[e.call].exists
          /\ \A v \in Workers \ {w} : tx'[v] = tx[v]
        BY <1>2, Inserts
    <2>2. \A c \in Calls : HoldsCall(w, c)' => \A v \in Workers \ {w} : ~HoldsCall(v, c)
        BY <2>1 DEF HoldsCall
    <2> QED  BY <2>1, <2>2, LockedOnce
<1>3. ASSUME NEW w \in Workers, Project(w) PROVE LockInv'
    <2> DEFINE e == tx[w].evt
    <2>1. /\ tx[w].at = "inserted" /\ tx'[w].evt = e
          /\ tx'[w].wrote = (tx[w].wrote \/ tx'[w].row # Before(w))
          /\ tx'[w].row # Before(w) => \A v \in Workers \ {w} : ~HoldsCall(v, e.call)
          /\ \A v \in Workers \ {w} : tx'[v] = tx[v]
        BY <1>3, Projects
    <2>2. ASSUME NEW c \in Calls, HoldsCall(w, c)'
          PROVE  HoldsCall(w, c) \/ \A v \in Workers \ {w} : ~HoldsCall(v, c)
        <3>1. c = e.call /\ tx'[w].wrote
            BY <2>1, <2>2 DEF HoldsCall
        <3>2. CASE tx[w].wrote
            BY <2>1, <3>1, <3>2 DEF HoldsCall
        <3>3. CASE ~tx[w].wrote
            BY <2>1, <3>1, <3>3
        <3> QED  BY <3>2, <3>3
    <2> QED  BY <2>1, <2>2, LockedOnce
<1>4. ASSUME NEW w \in Workers, Commit(w) \/ Abort(w) PROVE LockInv'
    <2>1. \A v \in Workers \ {w} : tx'[v] = tx[v]
        BY <1>4, TxEnds
    <2>2. \A c \in Calls : ~HoldsCall(w, c)'
        BY <1>4, TxEnds DEF HoldsCall
    <2> QED  BY <2>1, <2>2, LockedOnce
<1>5. CASE UNCHANGED tx
    BY <1>5 DEF LockInv, HoldsCall
<1> QED  BY <1>1, <1>2, <1>3, <1>4, <1>5 DEF IngestNext, ingestVars, EnsureCall

-----------------------------------------------------------------------------
(* What is written builds on what was there *)

(* A row is written by its holder, and never loses what it said. *)
LEMMA RowsGrow ==
    ASSUME IngestTypeInv, LockInv, WriteInv, [IngestNext]_ingestVars
    PROVE  \A c \in Calls :
               /\ Keeps(calls[c], calls'[c])
               /\ \A v \in Workers : HoldsCall(v, c) /\ tx'[v] = tx[v] => calls'[c] = calls[c]
<1>0. calls \in [Calls -> Rows]
    BY DEF IngestTypeInv, IngestTypeOK
<1>1. CASE UNCHANGED calls
    BY <1>0, <1>1, KeepsSelf
<1>2. ASSUME NEW w \in Workers, Commit(w), NEW c \in Calls
      PROVE  /\ Keeps(calls[c], calls'[c])
             /\ \A v \in Workers : HoldsCall(v, c) /\ tx'[v] = tx[v] => calls'[c] = calls[c]
    <2> DEFINE e == tx[w].evt
    <2>1. /\ tx[w].at = "projected" /\ tx'[w].at = "idle"
          /\ calls'[c] = IF c = e.call /\ tx[w].wrote THEN tx[w].row ELSE calls[c]
        BY <1>2, Commits, TxEnds
    <2>2. CASE c = e.call /\ tx[w].wrote
        <3>1. HoldsCall(w, c)
            BY <2>1, <2>2 DEF HoldsCall
        <3>2. Keeps(calls[c], calls'[c])
            BY <2>1, <2>2 DEF WriteInv, ProjectedWell
        <3>3. \A v \in Workers : HoldsCall(v, c) => v = w
            BY <3>1 DEF LockInv
        <3>4. tx'[w] # tx[w]
            BY <2>1
        <3> QED  BY <3>2, <3>3, <3>4
    <2>3. CASE ~(c = e.call /\ tx[w].wrote)
        BY <1>0, <2>1, <2>3, KeepsSelf
    <2> QED  BY <2>2, <2>3
<1>3. ASSUME NEW d \in Calls, EnsureCall(d), NEW c \in Calls
      PROVE  /\ Keeps(calls[c], calls'[c])
             /\ \A v \in Workers : HoldsCall(v, c) /\ tx'[v] = tx[v] => calls'[c] = calls[c]
    <2>1. CASE c = d
        <3>1. ~calls[c].exists /\ calls'[c] \in Rows /\ \A v \in Workers : ~HoldsCall(v, c)
            BY <1>3, <2>1, Ensures
        <3>2. calls[c] = NoRow
            BY <3>1 DEF WriteInv, BlankRows
        <3> QED  BY <3>1, <3>2, BlankKeeps
    <2>2. CASE c # d
        BY <1>0, <1>3, <2>2, Ensures, KeepsSelf
    <2> QED  BY <2>1, <2>2
<1>4. CASE \E w \in Workers : Commit(w)
    BY <1>2, <1>4
<1>5. CASE \E d \in Calls : EnsureCall(d)
    BY <1>3, <1>5
<1> QED  BY <1>1, <1>4, <1>5 DEF IngestNext, ingestVars, Begin, Insert, Project, Abort

(* Nothing is taken out of the log. *)
LEMMA LogGrows == ASSUME IngestTypeInv, [IngestNext]_ingestVars PROVE log \subseteq log'
<1>1. ASSUME NEW w \in Workers, Commit(w) PROVE log \subseteq log'
    BY <1>1 DEF Commit
<1>2. UNCHANGED log \/ \E w \in Workers : Commit(w)
    BY DEF IngestNext, ingestVars, Begin, Insert, Project, Abort, EnsureCall
<1> QED  BY <1>1, <1>2

(* What a transaction has prepared stays good while the others go on. *)
LEMMA Undisturbed ==
    ASSUME IngestTypeInv, LockInv, WriteInv, [IngestNext]_ingestVars, IngestTypeInv',
           NEW v \in Workers, tx'[v] = tx[v]
    PROVE  InsertedWell(v)' /\ ProjectedWell(v)' /\ LoggedWell(v)'
<1> DEFINE e == tx[v].evt
           c == tx[v].evt.call
<1>1. CASE tx[v].at \in {"idle", "locked"}
    BY <1>1 DEF InsertedWell, ProjectedWell, LoggedWell
<1>2. ASSUME tx[v].at \in {"inserted", "projected"}
      PROVE  InsertedWell(v)' /\ ProjectedWell(v)' /\ LoggedWell(v)'
    <2>1. e \in Events /\ c \in Calls
        BY <1>2, Opened DEF Open
    <2>2. calls[c] \in Rows /\ calls'[c] \in Rows
        BY <2>1 DEF IngestTypeInv, IngestTypeOK
    <2>3. Keeps(calls[c], calls'[c])
        BY <2>1, RowsGrow
    <2>4. tx[v].wrote => calls'[c] = calls[c]
        <3>1. tx[v].wrote => HoldsCall(v, c)
            BY <1>2 DEF HoldsCall
        <3> QED  BY <2>1, <3>1, RowsGrow
    <2>5. InsertedWell(v)'
        BY <2>3, <2>4 DEF WriteInv, InsertedWell, Keeps
    <2>6. ProjectedWell(v)'
        <3>1. CASE tx[v].wrote
            BY <2>4, <3>1 DEF WriteInv, ProjectedWell
        <3>2. CASE ~tx[v].wrote
            <4>1. tx[v].at = "projected" => Says(calls[c], e)
                BY <3>2 DEF WriteInv, ProjectedWell
            <4>2. tx[v].at = "projected" => Says(calls'[c], e)
                BY <2>1, <2>2, <2>3, <4>1, SaysOn
            <4> QED  BY <3>2, <4>2 DEF ProjectedWell
        <3> QED  BY <3>1, <3>2
    <2>7. LoggedWell(v)'
        BY LogGrows DEF WriteInv, LoggedWell, LogRow
    <2> QED  BY <2>5, <2>6, <2>7
<1> QED  BY <1>1, <1>2, Opened

(* So does what the one that moves has prepared. *)
LEMMA WritesKept == IngestTypeInv /\ LockInv /\ WriteInv /\ [IngestNext]_ingestVars => WriteInv'
<1> SUFFICES ASSUME IngestTypeInv, LockInv, WriteInv, [IngestNext]_ingestVars PROVE WriteInv'
    OBVIOUS
<1> DEFINE Well(v) == InsertedWell(v) /\ ProjectedWell(v) /\ LoggedWell(v)
<1>0. IngestTypeInv'
    BY TypesKept
<1>1. BlankRows'
    <2>1. ASSUME NEW w \in Workers, Commit(w) PROVE BlankRows'
        <3>1. tx[w].at = "projected"
              /\ \A c \in Calls : calls'[c] = IF c = tx[w].evt.call /\ tx[w].wrote
                                              THEN tx[w].row ELSE calls[c]
            BY <2>1, Commits
        <3>2. tx[w].wrote => tx[w].row.exists
            BY <3>1 DEF WriteInv, ProjectedWell, Says
        <3> QED  BY <3>1, <3>2 DEF WriteInv, BlankRows
    <2>2. ASSUME NEW c \in Calls, EnsureCall(c) PROVE BlankRows'
        <3>1. calls'[c].exists
            BY <2>2, Ensures DEF NoRow
        <3> QED  BY <2>2, <3>1, Ensures DEF WriteInv, BlankRows
    <2>3. CASE UNCHANGED calls
        BY <2>3 DEF WriteInv, BlankRows
    <2> QED  BY <2>1, <2>2, <2>3 DEF IngestNext, ingestVars, Begin, Insert, Project, Abort
<1>2. \A v \in Workers : tx'[v] = tx[v] => Well(v)'
    BY <1>0, Undisturbed
<1>3. ASSUME NEW w \in Workers, NEW e \in Events, Begin(w, e) PROVE \A v \in Workers : Well(v)'
    <2>1. Well(w)'
        BY <1>3, Begins DEF InsertedWell, ProjectedWell, LoggedWell
    <2> HIDE DEF Well
    <2> QED  BY <1>2, <1>3, <2>1, Begins
<1>4. ASSUME NEW w \in Workers, Insert(w) PROVE \A v \in Workers : Well(v)'
    <2>1. Well(w)'
        <3>1. /\ tx'[w].at = "inserted" /\ tx'[w].evt = tx[w].evt
              /\ tx'[w].wrote = ~calls[tx[w].evt.call].exists
              /\ tx'[w].wrote => tx'[w].row.exists /\ tx'[w].row.rank = tx[w].evt.rank
            BY <1>4, Inserts
        <3>2. calls' = calls
            BY <1>4 DEF Insert
        <3> QED  BY <3>1, <3>2 DEF InsertedWell, ProjectedWell, LoggedWell
    <2> HIDE DEF Well
    <2> QED  BY <1>2, <1>4, <2>1, Inserts
<1>5. ASSUME NEW w \in Workers, Project(w) PROVE \A v \in Workers : Well(v)'
    <2> DEFINE e == tx[w].evt
    <2>1. /\ tx[w].at = "inserted" /\ e \in Events /\ e.call \in Calls
          /\ tx[w].row \in Rows /\ tx[w].wrote \in BOOLEAN
        BY <1>5, Opened DEF Project, Open
    <2>2. /\ tx'[w].at = "projected" /\ tx'[w].evt = e /\ tx'[w].row \in Rows
          /\ Keeps(Before(w), tx'[w].row) /\ Says(tx'[w].row, e)
          /\ tx'[w].row.rank \in {Before(w).rank, e.rank}
          /\ tx'[w].wrote = (tx[w].wrote \/ tx'[w].row # Before(w))
          /\ tx'[w].fresh = (LogRow(e) \notin log)
          /\ \A v \in Workers \ {w} : tx'[v] = tx[v]
        BY <1>5, Projects
    <2>3. calls' = calls /\ log' = log
        BY <1>5 DEF Project
    <2>4. ProjectedWell(w)'
        <3>1. CASE tx[w].wrote
            <4>1. calls[e.call] = NoRow /\ Before(w).rank = e.rank
                BY <2>1, <3>1 DEF WriteInv, InsertedWell, BlankRows, Before
            <4>2. Keeps(calls[e.call], tx'[w].row)
                BY <2>2, <4>1, BlankKeeps
            <4> QED  BY <2>2, <2>3, <3>1, <4>1, <4>2 DEF ProjectedWell
        <3>2. CASE ~tx[w].wrote
            <4>1. Before(w) = calls[e.call]
                BY <3>2 DEF Before
            <4>2. tx'[w].wrote = (tx'[w].row # calls[e.call])
                BY <2>2, <3>2, <4>1
            <4>3. CASE tx'[w].row = calls[e.call]
                BY <2>2, <2>3, <4>2, <4>3 DEF ProjectedWell
            <4>4. CASE tx'[w].row # calls[e.call]
                BY <2>2, <2>3, <4>1, <4>2, <4>4 DEF ProjectedWell
            <4> QED  BY <4>3, <4>4
        <3> QED  BY <3>1, <3>2
    <2>5. Well(w)'
        BY <2>2, <2>3, <2>4 DEF InsertedWell, LoggedWell, LogRow
    <2> HIDE DEF Well
    <2> QED  BY <1>2, <2>2, <2>5
<1>6. ASSUME NEW w \in Workers, Commit(w) \/ Abort(w) PROVE \A v \in Workers : Well(v)'
    <2>1. Well(w)'
        BY <1>6, TxEnds DEF InsertedWell, ProjectedWell, LoggedWell
    <2> HIDE DEF Well
    <2> QED  BY <1>2, <1>6, <2>1, TxEnds
<1>7. ASSUME UNCHANGED tx PROVE \A v \in Workers : Well(v)'
    <2> HIDE DEF Well
    <2> QED  BY <1>2, <1>7
<1>8. \A v \in Workers : Well(v)'
    BY <1>3, <1>4, <1>5, <1>6, <1>7 DEF IngestNext, ingestVars, EnsureCall
<1> QED  BY <1>1, <1>8 DEF WriteInv

-----------------------------------------------------------------------------
(* A row is what its events say *)

(* In the new state too, whichever step was taken. *)
LEMMA RowsKept == IngestTypeInv /\ LockInv /\ WriteInv /\ RowInv /\ [IngestNext]_ingestVars => RowInv'
<1> SUFFICES ASSUME IngestTypeInv, LockInv, WriteInv, RowInv, [IngestNext]_ingestVars PROVE RowInv'
    OBVIOUS
<1> DEFINE Logged(c) ==
               /\ \A r \in log : r.call = c => r.rank =< calls[c].rank
               /\ calls[c].rank > 0 => \E r \in log : r.call = c /\ r.rank = calls[c].rank
<1>1. IngestTypeInv' /\ \A c \in Calls : Logged(c)
    BY TypesKept DEF RowInv
<1>2. \A c \in Calls : calls[c] \in Rows /\ calls'[c] \in Rows /\ Keeps(calls[c], calls'[c])
    BY <1>1, RowsGrow DEF IngestTypeInv, IngestTypeOK
<1>3. \A e \in ingested : e \in Events /\ e.call \in Calls /\ Says(calls[e.call], e)
    BY EventFields DEF IngestTypeInv, IngestTypeOK, RowInv
<1>4. \A e \in ingested : Says(calls'[e.call], e)
    BY <1>2, <1>3, SaysOn
<1>5. ASSUME NEW w \in Workers, Commit(w) PROVE RowInv'
    <2> DEFINE e == tx[w].evt
    <2>1. /\ tx[w].at = "projected" /\ e \in Events /\ e.call \in Calls
          /\ \A c \in Calls : calls'[c] = IF c = e.call /\ tx[w].wrote
                                          THEN tx[w].row ELSE calls[c]
          /\ log' = IF tx[w].fresh THEN log \union {LogRow(e)} ELSE log
          /\ ingested' = ingested \union {e}
        BY <1>5, Commits
    <2>2. tx[w].row \in Rows
        BY <2>1, Opened
    <2>3. Says(calls'[e.call], e) /\ calls'[e.call].rank \in {e.rank, calls[e.call].rank}
        BY <2>1 DEF WriteInv, ProjectedWell
    <2>4. LogRow(e) \in log' /\ log' \subseteq log \union {LogRow(e)} /\ log \subseteq log'
        BY <2>1 DEF WriteInv, LoggedWell
    <2>5. LogRow(e).call = e.call /\ LogRow(e).rank = e.rank
        BY DEF LogRow
    <2>6. /\ e.rank \in 0..4 /\ calls[e.call].rank \in 0..4 /\ calls'[e.call].rank \in 0..4
          /\ \A r \in log : r.rank \in 0..4
        BY <1>2, <2>1, EventFields DEF Rows, IngestTypeInv, IngestTypeOK, LogRows
    <2>7. e.rank =< calls'[e.call].rank /\ calls[e.call].rank =< calls'[e.call].rank
        BY <1>2, <2>1, <2>3 DEF Says, Keeps
    <2>8. ASSUME NEW c \in Calls PROVE Logged(c)'
        <3>1. CASE c # e.call
            <4>1. calls'[c] = calls[c]
                BY <2>1, <3>1
            <4>2. \A r \in log' : r.call = c => r \in log
                BY <2>4, <2>5, <3>1
            <4> QED  BY <1>1, <2>4, <4>1, <4>2
        <3>2. CASE c = e.call
            <4>1. \A r \in log' : r.call = c => r.rank =< calls'[c].rank
                BY <1>1, <2>4, <2>5, <2>6, <2>7, <3>2
            <4>2. CASE calls'[c].rank = e.rank
                BY <2>4, <2>5, <3>2, <4>1, <4>2
            <4>3. CASE calls'[c].rank = calls[c].rank
                BY <1>1, <2>4, <3>2, <4>1, <4>3
            <4> QED  BY <2>3, <3>2, <4>2, <4>3
        <3> QED  BY <3>1, <3>2
    <2>9. \A f \in ingested' : Says(calls[f.call], f)'
        BY <1>4, <2>1, <2>3 DEF Says
    <2> QED  BY <2>8, <2>9 DEF RowInv
<1>6. ASSUME NEW d \in Calls, EnsureCall(d) PROVE RowInv'
    <2>1. log' = log /\ ingested' = ingested
        BY <1>6 DEF EnsureCall
    <2>2. \A c \in Calls : calls'[c].rank = calls[c].rank
        <3>1. calls[d] = NoRow
            BY <1>6, Ensures DEF WriteInv, BlankRows
        <3>2. calls[d].rank = 0 /\ calls'[d].rank = 0
            BY <1>6, <3>1, Ensures DEF NoRow
        <3> QED  BY <1>6, <3>2, Ensures
    <2>3. \A c \in Calls : Logged(c)'
        BY <1>1, <2>1, <2>2
    <2>4. \A f \in ingested' : Says(calls[f.call], f)'
        BY <1>4, <2>1 DEF Says
    <2> QED  BY <2>3, <2>4 DEF RowInv
<1>7. CASE UNCHANGED <<calls, log, ingested>>
    BY <1>7 DEF RowInv, Says
<1> QED  BY <1>5, <1>6, <1>7 DEF IngestNext, ingestVars, Begin, Insert, Project, Abort

-----------------------------------------------------------------------------
(* A call is counted once *)

(* Who comes to count a call has written its row. *)
LEMMA CountsWrite ==
    ASSUME IngestTypeInv, WriteInv, RowInv, CountInv, NEW w \in Workers, Project(w), tx'[w].counts
    PROVE  tx'[w].wrote /\ counted[tx'[w].evt.call] = 0
<1> DEFINE e == tx[w].evt
<1>1. /\ tx[w].at = "inserted" /\ e \in Events /\ e.call \in Calls
      /\ tx[w].wrote \in BOOLEAN
    BY Opened DEF Project, Open
<1>2. /\ tx'[w].evt = e /\ Says(tx'[w].row, e) /\ Counts(e)
      /\ tx'[w].wrote = (tx[w].wrote \/ tx'[w].row # Before(w))
    BY Projects
<1>3. e.rank >= 1 /\ \A r \in log : r.call # e.call
    BY <1>2 DEF Counts, FirstEvent
<1>4. counted[e.call] = 0
    BY <1>1, <1>3 DEF CountInv
<1>5. CASE ~tx[w].wrote
    <2>1. Before(w) = calls[e.call] /\ calls[e.call].rank \in 0..4 /\ e.rank \in 0..4
        BY <1>1, <1>5, EventFields DEF Before, IngestTypeInv, IngestTypeOK, Rows
    <2>2. calls[e.call].rank = 0
        BY <1>1, <1>3, <2>1 DEF RowInv
    <2>3. tx'[w].row # Before(w)
        BY <1>2, <1>3, <2>1, <2>2 DEF Says
    <2> QED  BY <1>2, <1>4, <2>3
<1> QED  BY <1>1, <1>2, <1>4, <1>5

(* In the new state too, whichever step was taken. *)
LEMMA CountKept ==
    IngestTypeInv /\ LockInv /\ WriteInv /\ RowInv /\ CountInv /\ [IngestNext]_ingestVars => CountInv'
<1> SUFFICES ASSUME IngestTypeInv, LockInv, WriteInv, RowInv, CountInv, [IngestNext]_ingestVars PROVE CountInv'
    OBVIOUS
<1> DEFINE First(w) == tx[w].at = "projected" /\ tx[w].counts =>
                           tx[w].wrote /\ counted[tx[w].evt.call] = 0
           Once(c) == /\ counted[c] \in {0, 1}
                      /\ counted[c] = 1 => \E r \in log : r.call = c
<1>1. (\A w \in Workers : First(w)) /\ \A c \in Calls : Once(c)
    BY DEF CountInv
<1>2. ASSUME NEW w \in Workers, \A v \in Workers \ {w} : tx'[v] = tx[v],
             UNCHANGED <<counted, log>>, First(w)'
      PROVE  CountInv'
    BY <1>1, <1>2 DEF CountInv
<1>3. ASSUME NEW w \in Workers, NEW e \in Events, Begin(w, e) PROVE CountInv'
    BY <1>2, <1>3, Begins DEF Begin
<1>4. ASSUME NEW w \in Workers, Insert(w) PROVE CountInv'
    BY <1>2, <1>4, Inserts DEF Insert
<1>5. ASSUME NEW w \in Workers, Project(w) PROVE CountInv'
    <2>1. UNCHANGED <<counted, log>>
        BY <1>5 DEF Project
    <2>2. First(w)'
        BY <1>5, <2>1, CountsWrite
    <2> HIDE DEF First
    <2> QED  BY <1>2, <1>5, <2>1, <2>2, Projects
<1>6. ASSUME NEW w \in Workers, Commit(w) PROVE CountInv'
    <2> DEFINE e == tx[w].evt
    <2>1. /\ tx[w].at = "projected" /\ e \in Events /\ e.call \in Calls
          /\ log' = IF tx[w].fresh THEN log \union {LogRow(e)} ELSE log
          /\ \A c \in Calls : counted'[c] = IF tx[w].counts /\ c = e.call
                                            THEN counted[c] + 1 ELSE counted[c]
        BY <1>6, Commits
    <2>2. tx'[w].at = "idle" /\ \A v \in Workers \ {w} : tx'[v] = tx[v]
        BY <1>6, TxEnds
    <2>3. LogRow(e) \in log' /\ LogRow(e).call = e.call /\ log \subseteq log'
        BY <2>1 DEF WriteInv, LoggedWell, LogRow
    <2>4. ASSUME NEW c \in Calls PROVE Once(c)'
        <3>1. CASE tx[w].counts /\ c = e.call
            <4>1. counted[c] = 0
                BY <1>1, <2>1, <3>1
            <4> QED  BY <2>1, <2>3, <3>1, <4>1
        <3>2. CASE ~(tx[w].counts /\ c = e.call)
            BY <1>1, <2>1, <2>3, <3>2
        <3> QED  BY <3>1, <3>2
    <2>5. ASSUME NEW v \in Workers, tx'[v].at = "projected", tx'[v].counts
          PROVE  tx'[v].wrote /\ counted'[tx'[v].evt.call] = 0
        <3>1. v # w /\ tx'[v] = tx[v]
            BY <2>2, <2>5
        <3>2. tx[v].wrote /\ counted[tx[v].evt.call] = 0 /\ tx[v].evt.call \in Calls
            BY <1>1, <2>5, <3>1, Opened DEF Open
        <3>3. ~(tx[w].counts /\ tx[v].evt.call = e.call)
            <4> SUFFICES ASSUME tx[w].counts, tx[v].evt.call = e.call PROVE FALSE
                OBVIOUS
            <4>1. HoldsCall(v, e.call) /\ HoldsCall(w, e.call)
                BY <1>1, <2>1, <2>5, <3>1, <3>2 DEF HoldsCall
            <4> QED  BY <2>1, <3>1, <4>1 DEF LockInv
        <3> QED  BY <2>1, <3>1, <3>2, <3>3
    <2> QED  BY <2>4, <2>5 DEF CountInv
<1>7. ASSUME NEW w \in Workers, Abort(w) PROVE CountInv'
    BY <1>2, <1>7, TxEnds DEF Abort
<1>8. CASE UNCHANGED <<tx, counted, log>>
    BY <1>8 DEF CountInv
<1> QED  BY <1>3, <1>4, <1>5, <1>6, <1>7, <1>8 DEF IngestNext, ingestVars, EnsureCall

-----------------------------------------------------------------------------
(* At the start there is nothing to keep. *)
LEMMA BooksStart == IngestInit => BooksInv
<1> SUFFICES ASSUME IngestInit PROVE BooksInv
    OBVIOUS
<1>1. /\ tx \in [Workers -> Transactions]
      /\ \A w \in Workers : tx[w].at = "idle"
    BY DEF IngestInit, Transactions
<1>2. /\ calls \in [Calls -> Rows] /\ \A c \in Calls : calls[c] = NoRow
      /\ counted \in [Calls -> Nat] /\ \A c \in Calls : counted[c] = 0
    BY DEF IngestInit, NoRow, Rows
<1>3. /\ log = {} /\ ingested = {} /\ delivered = {} /\ total \in [Callers -> Nat]
      /\ again \in 0..MaxRedeliveries /\ aborts \in 0..MaxAborts
    BY IngestionAssumption DEF IngestInit
<1>4. IngestTypeInv
    BY <1>1, <1>2, <1>3 DEF IngestTypeInv, IngestTypeOK, Open
<1>5. LockInv /\ WriteInv
    BY <1>1, <1>2 DEF LockInv, HoldsCall, WriteInv, BlankRows, InsertedWell, ProjectedWell,
       LoggedWell
<1>6. RowInv /\ CountInv
    <2>1. \A c \in Calls : calls[c].rank = 0
        BY <1>2 DEF NoRow
    <2> QED  BY <1>1, <1>2, <1>3, <2>1 DEF RowInv, CountInv
<1> QED  BY <1>4, <1>5, <1>6 DEF BooksInv

(* The inductive invariant of ingestion: the four layers, for any set of events
   and any number of overlapping transactions, redeliveries and aborts. *)
THEOREM BooksInvariant == IngestSpec => []BooksInv
<1>1. IngestInit => BooksInv
    BY BooksStart
<1>2. BooksInv /\ [IngestNext]_ingestVars => BooksInv'
    BY TypesKept, LocksKept, WritesKept, RowsKept, CountKept DEF BooksInv
<1> QED  BY <1>1, <1>2, PTL DEF IngestSpec

(* Whatever the order, the retries and the overlap of ingestions, a call's
   committed row is what its committed events say: the highest status, a number
   once one of them had it, the duration and the answer time the ended call was
   reported with (services/ingestion.py ingest_status_event). *)
THEOREM RowsTellTheirEvents == IngestSpec => []RowTellsEvents
<1>1. BooksInv => RowTellsEvents
    <2> SUFFICES ASSUME BooksInv PROVE RowTellsEvents
        OBVIOUS
    <2>1. StatusIsHighestEvent
        BY DEF BooksInv, IngestTypeInv, RowInv, StatusIsHighestEvent
    <2>2. \A e \in ingested : e \in Events /\ e.call \in Calls /\ Says(calls[e.call], e)
        BY EventFields DEF BooksInv, IngestTypeInv, IngestTypeOK, RowInv
    <2>3. AttributionHeals
        BY <2>2 DEF AttributionHeals, Says
    <2>4. ReconciledIsComplete
        <3> SUFFICES ASSUME NEW e \in ingested, e.rank = 4, e.duration
                     PROVE  /\ calls[e.call].rank = 4 /\ calls[e.call].duration
                            /\ e.answered => calls[e.call].answered
            BY DEF ReconciledIsComplete
        <3>1. e.call \in Calls /\ Says(calls[e.call], e)
            BY <2>2
        <3>2. calls[e.call].rank \in 0..4
            BY <3>1 DEF BooksInv, IngestTypeInv, IngestTypeOK, Rows
        <3> QED  BY <3>1, <3>2 DEF Says
    <2> QED  BY <2>1, <2>3, <2>4 DEF RowTellsEvents, FactsHeal
<1> QED  BY <1>1, BooksInvariant, PTL

(* However many transactions ingest a call's first events at once, it is added to
   its caller's total_calls at most once. *)
THEOREM NoCallCountsTwice == IngestSpec => []CountedAtMostOnce
<1>1. BooksInv => CountedAtMostOnce
    BY DEF BooksInv, CountInv, CountedAtMostOnce
<1> QED  BY <1>1, BooksInvariant, PTL

-----------------------------------------------------------------------------
(***************************************************************************)
(* In hands: Takeover                                                      *)
(***************************************************************************)

Winning == {"eject", "open", "add", "join", "ok", "failed"}
Dialling == {"dial", "ringing", "joindesk", "undialed"}

(* The agent takes the caller back once, and only with Retell. *)
SecondSession ==
    /\ ~Retell => session = 1
    /\ flow \in Dialling => session = 1

OwnBridge == \A s \in Supervisors : job[s].at = "add" => job[s].bridge = "own"

TypeInv == TypeOK /\ SecondSession /\ OwnBridge

(* Who owns the call is whose job got past the claim, for good. *)
OwnersJob == \A s \in Supervisors : owner = s <=> job[s].at \in Winning

(* Only the owner has been put into a bridge. *)
OwnersRoom == \A s \in Supervisors : room[s] # "none" => owner = s

(* The flow that was told to stand down does: it was told by the claim, or by a
   take-over that is about to make it. *)
ToldToStop ==
    /\ port = "taken_over" => flow \in {"join", "store", "talking", "teardown", "unbridge",
                                        "route", "stood down"}
    /\ flow = "stood down" => port = "taken_over"
    /\ port = "taken_over" /\ owner = NoOne =>
           ~Retell /\ \E s \in Supervisors : job[s].at = "claim"

(* A flow that goes on after the call was seized has been told. *)
Untouched ==
    /\ owner = NoOne => trespass = "none" /\ ~seized
    /\ seized => IF Retell THEN flow \in {"teardown", "route", "stood down"} =>
                                port = "taken_over"
                 ELSE port = "taken_over"
    /\ seized /\ Retell => flow \in {"talking", "teardown", "route", "stood down"}
    /\ HungUpByNobody

Released == flow = "done" => ~Up(Caller) \/ owner # NoOne

ClaimInv == OwnersJob /\ OwnersRoom /\ ToldToStop /\ Untouched /\ StandsDown /\ Released

(* What a request was given when it was made stays true of the session. *)
Asked ==
    \A s \in Supervisors :
        /\ job[s].at = "open" => job[s].bridge = "none"
        /\ job[s].at = "add" => job[s].bridge = "own"
        /\ job[s].at = "join" => job[s].bridge # "none"
        /\ job[s].at \in {"idle", "queued", "claim", "eject"} =>
               job[s].bridge \in {"none", "talk1", "talk2"}
        /\ \A n \in 1..2 : job[s].bridge = Talk[n] => n =< session /\ job[s].leg = Leg[n]
        /\ ~Retell /\ job[s].at \in {"queued", "claim", "eject", "open", "add", "join"} =>
               job[s].leg = Leg[1]
        /\ job[s].bridge # "desk"

Offline == \A c \in Channels : ~Up(c) => room[c] = "none"

(* An agent's leg is only ever in the bridge of its own session. *)
LegsRoom == \A n \in 1..2 :
    /\ room[Leg[n]] \in {"none", Talk[n]}
    /\ n > session => room[Leg[n]] = "none"

(* A conversation nobody seized goes on in the bridge of its session. *)
TalkingTogether ==
    owner = NoOne /\ Retell /\ flow \in {"store", "talking"} =>
        /\ Talk[session] \in bridges
        /\ Up(Caller) => room[Caller] = Talk[session]

(* When the agent takes the caller back the first bridge has gone: a take-over
   asked for in the first session cannot join it. *)
OldBridgeGone ==
    \/ owner = NoOne /\ (session = 2 \/ flow \in Dialling \union {"route"})
    \/ seized /\ session = 2
    => Talk[1] \notin bridges

(* The agent's leg the request knew of is out before the operator comes in. *)
Ejected ==
    \A s \in Supervisors :
        seized /\ faults = 0 /\ job[s].at \in {"open", "add", "join"} /\ job[s].leg # "none"
            => room[job[s].leg] = "none"

OwenAgentGone ==
    ~Retell /\ seized /\ faults = 0 =>
        \A s \in Supervisors : job[s].at = "ok" => room[Leg[1]] = "none"

(* Where the caller waits for the operator: in a bridge of the take-over's own
   when it knew of none, else where the conversation was. *)
Moved(s) == IF job[s].bridge = "own" THEN "own" ELSE Talk[session]

Underway ==
    seized /\ Retell =>
        /\ Talk[session] \in bridges
        /\ \A s \in Supervisors :
               /\ job[s].at \in {"eject", "open", "add"} /\ Up(Caller) =>
                      room[Caller] = Talk[session]
               /\ job[s].at = "join" /\ Up(Caller) /\ faults = 0 => room[Caller] = Moved(s)

HandsOver ==
    \A s \in Supervisors : HandedOver(s) =>
        /\ \A n \in 1..2 : ~Together(Caller, Leg[n])
        /\ Retell /\ Up(Caller) /\ Up(s) => Together(Caller, s)

(* What the steps of a take-over achieve one after the other. *)
Progress == Ejected /\ OwenAgentGone /\ Underway /\ HandsOver

RoomInv == Asked /\ Offline /\ LegsRoom /\ TalkingTogether /\ OldBridgeGone /\ Progress

-----------------------------------------------------------------------------
(* Names, and what the operations on Asterisk leave behind *)

(* The names of channels and bridges. *)
LEMMA Names ==
    /\ Caller \in Channels /\ Desk \in Channels /\ Supervisors \subseteq Channels
    /\ \A n \in 1..2 : Leg[n] \in Channels /\ Talk[n] \in Bridges
    /\ {"desk", "own"} \subseteq Bridges
<1>1. \A n \in 1..2 : Leg[n] \in Channels /\ Talk[n] \in Bridges
    BY DEF Leg, Talk, Channels, Bridges
<1> QED  BY <1>1 DEF Channels, Bridges

(* A hangup, a bridge that goes and a move keep the types. *)
LEMMA MovesTyped ==
    ASSUME TypeOK, NEW b \in Bridges, NEW cs,
           \/ Drops(cs) /\ UNCHANGED bridges
           \/ Destroys(b, cs)
           \/ Adds(b, cs)
           \/ UNCHANGED asterisk
    PROVE  /\ line' \in [Channels -> {"none", "up", "gone"}]
           /\ room' \in [Channels -> Bridges \union {"none"}]
           /\ bridges' \subseteq Bridges
BY DEF TypeOK, Drops, Destroys, Adds, asterisk

(* So does a step of a request that only changes where it is. *)
LEMMA JobsTyped ==
    ASSUME TypeOK, NEW s \in Supervisors, NEW at \in JobStates,
           Goes(s, at) \/ Ends(s, at) \/ UNCHANGED job
    PROVE  job' \in [Supervisors -> Jobs]
<1>1. job \in [Supervisors -> Jobs]
    BY DEF TypeOK
<1>2. CASE Goes(s, at)
  <2>1. [job[s] EXCEPT !.at = at] \in Jobs
      BY <1>1 DEF Jobs
  <2> QED  BY <1>1, <1>2, <2>1 DEF Goes
<1>3. CASE Ends(s, at)
  <2>1. [NoJob EXCEPT !.at = at] \in Jobs
      BY DEF Jobs, NoJob, JobStates
  <2> QED  BY <1>1, <1>3, <2>1 DEF Ends
<1> QED  BY <1>1, <1>2, <1>3

(* Requests fail within the bound. *)
LEMMA FaultsTyped ==
    ASSUME TypeOK, Fault \/ NoFault
    PROVE  faults' \in 0..MaxFaults
<1>1. MaxFaults \in Nat
    BY TakeoverAssumption
<1>2. faults \in 0..MaxFaults
    BY DEF TypeOK
<1> QED BY <1>1, <1>2 DEF  Fault, NoFault

(* Every step of a take-over keeps the types. *)
LEMMA JobStepsTyped ==
    ASSUME TypeOK, OwnBridge, NEW s \in Supervisors, JobStep(s) \/ Asks(s)
    PROVE  TypeOK'
<1> USE DEF asterisk, agent, task, ownership
<1>a. UNCHANGED asterisk => /\ line' \in [Channels -> {"none", "up", "gone"}]
      /\ room' \in [Channels -> Bridges \union {"none"}]
      /\ bridges' \subseteq Bridges
   BY DEF TypeOK
<1>b. "own" \in Bridges /\ job[s].bridge \in Bridges \union {"none"}
    BY Names DEF TypeOK, Jobs
<1>s. /\ job[s] \in Jobs /\ bridges \subseteq Bridges
      /\ port \in {"none", "failed", "transfer", "complete", "default", "taken_over"}
      /\ owner \in Supervisors \union {NoOne} /\ seized \in BOOLEAN
    BY DEF TypeOK
<1> DEFINE Moves == /\ line' \in [Channels -> {"none", "up", "gone"}]
      /\ room' \in [Channels -> Bridges \union {"none"}]
      /\ bridges' \subseteq Bridges
     Rest == /\ UNCHANGED <<agent, flow, trespass>>
             /\ port' \in {"none", "failed", "transfer", "complete", "default", "taken_over"}
             /\ owner' \in Supervisors \union {NoOne} /\ seized' \in BOOLEAN
     Kept == job' \in [Supervisors -> Jobs] /\ Moves /\ Rest /\ (Fault \/ NoFault)
<1>1. ASSUME Asks(s) PROVE Kept
  <2>1. /\ Talk[session] \in {Talk[1], Talk[2]}
        /\ Leg[session] \in {Leg[1], Leg[2]}
    <3>1. session \in 1..2
        BY DEF TypeOK
    <3>2. session = 1 \/ session = 2
        BY <3>1
    <3> QED  BY <3>2
  <2> DEFINE b == IF known THEN Talk[session] ELSE "none"
             l == IF known \/ ~Retell THEN Leg[session] ELSE "none"
  <2>2. job' = [job EXCEPT ![s] = [at |-> "queued", bridge |-> b, leg |-> l]]
        BY <1>1 DEF Asks
  <2>3. [at |-> "queued", bridge |-> b, leg |-> l] \in Jobs
        BY <2>1, Zenon DEF Jobs, JobStates, Bridges
  <2>4. job' \in [Supervisors -> Jobs]
        BY <2>2, <2>3 DEF TypeOK
  <2>5. UNCHANGED <<asterisk, agent, task, ownership, trespass, faults>>
        BY <1>1 DEF Asks
  <2> QED BY <2>4, <2>5, <1>a, <1>s DEF NoFault
<1>2. ASSUME Stops(s) PROVE Kept
  <2>1. Goes(s, "claim")
      BY <1>2 DEF Stops
  <2>2. job' \in [Supervisors -> Jobs]
      BY <2>1, JobsTyped DEF JobStates
  <2>3. Rest
      BY <1>2, <1>s DEF Stops
  <2>4. Fault \/ NoFault
      BY <1>2 DEF Stops, NoFault
  <2> QED BY <1>2, <2>2, <2>3, <2>4, <1>a, <1>s DEF Stops
<1>3. ASSUME Claims(s) PROVE Kept
  <2>1. Goes(s, "eject")
      BY <1>3 DEF Claims
  <2>2. job' \in [Supervisors -> Jobs]
      BY <2>1, JobsTyped DEF JobStates
  <2>3. seized' \in BOOLEAN
      BY <1>3 DEF Claims, StandingDown
  <2> QED BY <1>3, <2>2, <2>3, <1>a, <1>s DEF Claims, NoFault
<1>4. ASSUME ClaimRefused(s) PROVE Kept
  <2>1. Ends(s, "refused")
      BY <1>4 DEF ClaimRefused
  <2>2. job' \in [Supervisors -> Jobs]
      BY <2>1, JobsTyped DEF JobStates
  <2> QED BY <1>4, <2>2, <1>a, <1>s DEF ClaimRefused, NoFault
<1>5. ASSUME Ejects(s) PROVE Kept
  <2>1. Goes(s, "open") \/ Goes(s, "join")
      BY <1>5 DEF Ejects
  <2>2. job' \in [Supervisors -> Jobs]
      BY <2>1, JobsTyped DEF JobStates
  <2>3. \/ UNCHANGED asterisk
        \/ Drops(ToEject(s)) /\ UNCHANGED bridges
      BY <1>5 DEF Ejects
  <2>4. Moves
      BY <2>3, <1>a, <1>b, MovesTyped
  <2> QED BY <1>5, <2>2, <2>4, <1>s DEF Ejects
<1>6. ASSUME Opens(s) PROVE Kept
  <2>1. [job[s] EXCEPT !.at = "add", !.bridge = "own"] \in Jobs
      BY <1>s, <1>b DEF Jobs, JobStates
  <2>2. [NoJob EXCEPT !.at = "failed"] \in Jobs
      BY DEF Jobs, NoJob, JobStates
  <2>3. \/ job' = [job EXCEPT ![s] = [job[s] EXCEPT !.at = "add", !.bridge = "own"]]
        \/ Ends(s, "failed")
       BY <1>6 DEF Opens
  <2>4. job' \in [Supervisors -> Jobs]
      BY <2>1, <2>2, <2>3 DEF TypeOK, Ends
  <2>5. Moves
      BY <1>6, <1>b DEF Opens, TypeOK
  <2> QED BY <1>6, <2>4, <2>5, <1>s DEF Opens
<1>7. ASSUME AddsCaller(s) PROVE Kept
  <2>1. Goes(s, "join")
      BY <1>7 DEF AddsCaller
  <2>2. job' \in [Supervisors -> Jobs]
      BY <2>1, JobsTyped DEF JobStates
  <2>3. UNCHANGED asterisk \/ Adds(job[s].bridge, {Caller})
      BY <1>7 DEF AddsCaller
  <2>4. Moves
      BY <1>7, <2>3, <1>a, <1>b, MovesTyped DEF AddsCaller, OwnBridge
  <2>5. Fault \/ NoFault
      BY <1>7 DEF AddsCaller, Refused
  <2> QED BY <1>7, <2>2, <2>4, <2>5, <1>s DEF AddsCaller
<1>8. ASSUME AddsOperator(s) PROVE Kept
  <2>1. Ends(s, "ok")
      BY <1>8 DEF AddsOperator
  <2>2. job' \in [Supervisors -> Jobs]
      BY <2>1, JobsTyped DEF JobStates
  <2>4. Moves
      BY <1>8, <1>a, <1>s, MovesTyped DEF AddsOperator
  <2> QED BY <1>8, <2>2, <2>4, <1>s DEF AddsOperator, NoFault
<1>9. ASSUME OperatorRefused(s) PROVE Kept
  <2>1. Ends(s, "failed")
      BY <1>9 DEF OperatorRefused
  <2>2. job' \in [Supervisors -> Jobs]
      BY <2>1, JobsTyped DEF JobStates
  <2>4. Fault \/ NoFault
      BY <1>9 DEF OperatorRefused, Refused
  <2> QED BY <1>9, <2>2, <2>4, <1>a, <1>s DEF OperatorRefused
<1>10. Kept => TypeOK'
  BY FaultsTyped DEF TypeOK
<1> QED BY <1>1, <1>2, <1>3, <1>4, <1>5, <1>6, <1>7, <1>8, <1>9, <1>10 DEF JobStep

(* Every step of the flow keeps the types and the sessions. *)
LEMMA FlowTyped ==
    ASSUME TypeInv, FlowStep
    PROVE  TypeInv'
<1>0. UNCHANGED job
    BY DEF FlowStep, Connects, ConnectFails, Joins, JoinFails, Stores, SessionEnds,
           AsksToLeave, GraceEnds, TearsDown, Unbridges, Routes, Dials, DeskAnswers, DialFails,
           JoinsDesk, JoinDeskFails, DeskTalkEnds, Returns, GivesUp, FollowsEdge, Greets, Plays,
           Records, MessageEnds, HangsUp
<1>a. OwnBridge'
    BY <1>0 DEF TypeInv, OwnBridge
<1> SUFFICES (TypeOK /\ SecondSession)'
    BY <1>a DEF TypeInv
<1> USE TakeoverAssumption DEF TypeInv, TypeOK, SecondSession, Dialling, asterisk, agent,
    task, ownership, Up, Retell, Owned, Fault, NoFault, Refused, Touches
<1>1. CASE Connects
    BY <1>1, Names, MovesTyped DEF Connects
<1>2. CASE ConnectFails
    BY <1>2 DEF ConnectFails
<1>3. CASE Joins
    BY <1>3, Names, MovesTyped DEF Joins
<1>4. CASE JoinFails
    BY <1>4, Names, MovesTyped DEF JoinFails
<1>5. CASE Stores
    BY <1>5 DEF Stores
<1>6. CASE SessionEnds
    BY <1>6 DEF SessionEnds, Overwrites, PortOf
<1>7. CASE TearsDown
    BY <1>7, Names, MovesTyped, ZenonT(30) DEF TearsDown
<1>8. CASE Unbridges
    BY <1>8, Names, MovesTyped DEF Unbridges
<1>9. CASE Routes
    BY <1>9 DEF Routes, MayTransfer
<1>10. CASE Dials
    BY <1>10 DEF Dials
<1>11. CASE DeskAnswers
    BY <1>11, Names, MovesTyped DEF DeskAnswers
<1>12. CASE DialFails
    BY <1>12 DEF DialFails
<1>13. CASE JoinsDesk
    BY <1>13, Names, MovesTyped DEF JoinsDesk
<1>14. CASE JoinDeskFails
    BY <1>14, Names, MovesTyped DEF JoinDeskFails
<1>15. CASE DeskTalkEnds
    BY <1>15, Names, MovesTyped DEF DeskTalkEnds
<1>16. CASE Returns
    BY <1>16 DEF Returns
<1>17. CASE GivesUp
    BY <1>17 DEF GivesUp
<1>18. CASE FollowsEdge
    BY <1>18, Names, MovesTyped, ZenonT(30) DEF FollowsEdge
<1>19. CASE Greets
    BY <1>19 DEF Greets
<1>20. CASE Plays
    BY <1>20 DEF Plays
<1>21. CASE Records
  <2>1. faults' \in 0..MaxFaults
      BY <1>21, FaultsTyped DEF Records
  <2>2. trespass' \in {"none", "bridge", "play", "record", "hangup"}
      BY <1>21 DEF Records
  <2>3. flow' \in {"message", "hangup"} /\ UNCHANGED <<asterisk, agent, port, job, ownership>>
      BY <1>21 DEF Records
  <2> QED  BY <2>1, <2>2, <2>3
<1>22. CASE MessageEnds
    BY <1>22 DEF MessageEnds
<1>23. CASE HangsUp
    BY <1>23, Names, MovesTyped, ZenonT(30) DEF HangsUp
<1>24. CASE AsksToLeave
    BY <1>24 DEF AsksToLeave, PortOf
<1>25. CASE GraceEnds
    BY <1>25 DEF GraceEnds
<1> QED
    BY <1>1, <1>2, <1>3, <1>4, <1>5, <1>6, <1>7, <1>8, <1>9, <1>10, <1>11, <1>12, <1>13,
        <1>14, <1>15, <1>16, <1>17, <1>18, <1>19, <1>20, <1>21, <1>22, <1>23, <1>24,
                                                                                           <1>25 DEF FlowStep

(* No two names are those of one thing. *)
LEMMA Apart ==
    /\ Caller # Desk /\ \A n \in 1..2 : Leg[n] # Caller /\ Leg[n] # Desk
    /\ \A s \in Supervisors : s # Caller /\ s # Desk /\ s # NoOne /\ \A n \in 1..2 : s # Leg[n]
    /\ Leg[1] # Leg[2] /\ Talk[1] # Talk[2]
    /\ \A n \in 1..2 : Talk[n] \notin {"none", "own", "desk"}
BY TakeoverAssumption DEF Caller, Desk, Leg, Talk

(* The fields of a request after a step of it. *)
LEMMA JobEffects ==
    ASSUME TypeOK, NEW s \in Supervisors
    PROVE  /\ \A at \in JobStates : Goes(s, at) =>
                 /\ job'[s].at = at /\ job'[s].bridge = job[s].bridge /\ job'[s].leg = job[s].leg
                 /\ \A p \in Supervisors \ {s} : job'[p] = job[p]
           /\ \A at \in JobStates : Ends(s, at) =>
                 /\ job'[s].at = at /\ job'[s].bridge = "none" /\ job'[s].leg = "none"
                 /\ \A p \in Supervisors \ {s} : job'[p] = job[p]
<1>1. job \in [Supervisors -> Jobs] /\ job[s] \in Jobs
    BY DEF TypeOK
<1> QED  BY <1>1 DEF Goes, Ends, NoJob, Jobs

(* A bridge of the take-over's own, or its failure. *)
LEMMA OpensEffect ==
    ASSUME TypeOK, NEW s \in Supervisors, Opens(s)
    PROVE  /\ \A p \in Supervisors \ {s} : job'[p] = job[p]
           /\ \/ job'[s].at = "add" /\ job'[s].bridge = "own" /\ job'[s].leg = job[s].leg
              \/ job'[s].at = "failed" /\ job'[s].bridge = "none" /\ job'[s].leg = "none" /\ Fault
<1>1. job \in [Supervisors -> Jobs] /\ job[s] \in Jobs
    BY DEF TypeOK
<1>2. \/ job' = [job EXCEPT ![s] = [job[s] EXCEPT !.at = "add", !.bridge = "own"]]
      \/ Ends(s, "failed") /\ Fault
    BY DEF Opens
<1>3. CASE Ends(s, "failed") /\ Fault
    BY <1>3, JobEffects DEF JobStates
<1>4. CASE job' = [job EXCEPT ![s] = [job[s] EXCEPT !.at = "add", !.bridge = "own"]]
  <2>1. job'[s] = [job[s] EXCEPT !.at = "add", !.bridge = "own"]
      BY <1>1, <1>4
  <2>2. \A p \in Supervisors \ {s} : job'[p] = job[p]
      BY <1>1, <1>4
  <2> QED  BY <1>1, <2>1, <2>2 DEF Jobs
<1> QED  BY <1>2, <1>3, <1>4

(* A hangup, seen from one channel. *)
LEMMA DropsEffect ==
    ASSUME NEW cs, Drops(cs), NEW c \in Channels
    PROVE  /\ room'[c] = IF c \in cs THEN "none" ELSE room[c]
           /\ line'[c] = IF c \in cs /\ Up(c) THEN "gone" ELSE line[c]
BY DEF Drops

(* A bridge that goes, seen from one channel. *)
LEMMA DestroysEffect ==
    ASSUME NEW b, NEW cs, Destroys(b, cs), NEW c \in Channels
    PROVE  /\ room'[c] = IF c \in cs \/ room[c] = b THEN "none" ELSE room[c]
           /\ line'[c] = IF c \in cs /\ Up(c) THEN "gone" ELSE line[c]
BY DEF Destroys

(* A move, seen from one channel. *)
LEMMA AddsEffect ==
    ASSUME NEW b, NEW cs, Adds(b, cs), NEW c \in Channels
    PROVE  /\ room'[c] = IF c \in cs THEN b ELSE room[c]
           /\ line'[c] = line[c]
           /\ c \in cs => Up(c)
BY DEF Adds, CanAdd

(* The flow keeps ClaimInv: of a call that is seized it touches nothing, and it
   never finishes with a caller on the line whom nobody owns. *)
LEMMA FlowKeepsClaims ==
    ASSUME TypeInv, ClaimInv, FlowStep
    PROVE  ClaimInv'
<1> USE Names, Apart DEF ClaimInv, OwnersJob, OwnersRoom, ToldToStop, Untouched,
                         HungUpByNobody, StandsDown,
    Released, asterisk, agent, task, ownership, Up, Retell, Owned
<1>1. CASE Connects
    BY <1>1 DEF Connects
<1>2. CASE ConnectFails
    BY <1>2 DEF ConnectFails
<1>3. CASE Joins
  <2>1. \A s \in Supervisors : s # Leg[session]
      BY DEF TypeInv, TypeOK
  <2> QED  BY <1>3, <2>1 DEF Joins, Adds, Touches
<1>4. CASE JoinFails
    BY <1>4 DEF JoinFails, Refused, Drops, Touches
<1>5. CASE Stores
    BY <1>5 DEF Stores
<1>6. CASE SessionEnds
    BY <1>6 DEF SessionEnds, Overwrites, PortOf
<1>7. CASE TearsDown
    BY <1>7 DEF TearsDown, Spared, Drops
<1>8. CASE Unbridges
    BY <1>8 DEF Unbridges, Destroys
<1>9. CASE Routes
    BY <1>9 DEF Routes, MayTransfer
<1>10. CASE Dials
    BY <1>10 DEF Dials, Touches
<1>11. CASE DeskAnswers
    BY <1>11 DEF DeskAnswers
<1>12. CASE DialFails
    BY <1>12 DEF DialFails
<1>13. CASE JoinsDesk
    BY <1>13 DEF JoinsDesk, Adds, Touches
<1>14. CASE JoinDeskFails
    BY <1>14 DEF JoinDeskFails, Drops
<1>15. CASE DeskTalkEnds
    BY <1>15 DEF DeskTalkEnds, Destroys
<1>16. CASE Returns
    BY <1>16 DEF Returns
<1>17. CASE GivesUp
    BY <1>17 DEF GivesUp
<1>18. CASE FollowsEdge
    BY <1>18 DEF FollowsEdge
<1>19. CASE Greets
    BY <1>19 DEF Greets
<1>20. CASE Plays
    BY <1>20 DEF Plays, Touches
<1>21. CASE Records
    BY <1>21 DEF Records, Touches
<1>22. CASE MessageEnds
    BY <1>22 DEF MessageEnds
<1>23. CASE HangsUp
  <2>1. \A s \in Supervisors : room'[s] # "none" => room[s] # "none"
      BY <1>23 DEF HangsUp, Drops
  <2>2. owner = NoOne => line'[Caller] # "up"
    <3>1. owner = NoOne => Drops({Caller})
        BY <1>23 DEF HangsUp, ReleasesCaller
    <3>2. Drops({Caller}) => line'[Caller] # "up"
        BY DropsEffect, ZenonT(30)
    <3> QED  BY <3>1, <3>2
  <2>3. flow' = "done" /\ UNCHANGED <<agent, port, job, ownership, trespass>>
      BY <1>23 DEF HangsUp, ReleasesCaller, Touches
  <2>4. ~seized
      BY <1>23 DEF HangsUp
  <2>5. port # "taken_over"
      BY <1>23 DEF HangsUp
  <2> QED  BY <2>1, <2>2, <2>3, <2>4, <2>5
<1>24. CASE AsksToLeave
    BY <1>24 DEF AsksToLeave, PortOf
<1>25. CASE GraceEnds
    BY <1>25 DEF GraceEnds
<1> QED
    BY <1>1, <1>2, <1>3, <1>4, <1>5, <1>6, <1>7, <1>8, <1>9, <1>10, <1>11, <1>12, <1>13,
        <1>14, <1>15, <1>16, <1>17, <1>18, <1>19, <1>20, <1>21, <1>22, <1>23, <1>24,
                                                                                           <1>25 DEF FlowStep

(* So do the take-overs: one of them owns the call, the others stop before they
   reach the caller. *)
LEMMA JobsKeepClaims ==
    ASSUME TypeInv, ClaimInv, NEW s \in Supervisors, JobStep(s) \/ Asks(s)
    PROVE  ClaimInv'
<1> USE DEF asterisk, agent, task, ownership, Retell
<1> USE DEF ClaimInv, OwnersJob, OwnersRoom, ToldToStop, Untouched, HungUpByNobody, StandsDown,
            Released,
    Winning, JobStates
<1>1. CASE Asks(s)
  <2>1. /\ job[s].at = "idle" /\ job'[s].at = "queued"
        /\ \A p \in Supervisors \ {s} : job'[p] = job[p]
      BY <1>1 DEF Asks, TypeInv, TypeOK
  <2>2. UNCHANGED <<asterisk, agent, task, ownership, trespass, faults>>
      BY <1>1 DEF Asks
  <2> QED BY <2>1, <2>2 DEF Up
<1>2. CASE Stops(s)
  <2>1. Goes(s, "claim") /\ job[s].at = "queued"
      BY <1>2 DEF Stops
  <2>2. job'[s].at = "claim" /\ \A p \in Supervisors \ {s} : job'[p] = job[p]
    BY <2>1, JobEffects DEF TypeInv
  <2>3. UNCHANGED <<asterisk, agent, flow, ownership, trespass>>
      BY <1>2 DEF Stops
  <2>4. \/ UNCHANGED port
        \/ port' = "taken_over" /\ ~Retell /\ flow \in {"join", "store", "talking"}
      BY <1>2 DEF Stops
  <2> QED BY <2>1, <2>2, <2>3, <2>4 DEF Up
<1>3. CASE Claims(s)
  <2>1. Goes(s, "eject") /\ job[s].at = "claim"
      BY <1>3 DEF Claims
  <2>2. job'[s].at = "eject" /\ \A p \in Supervisors \ {s} : job'[p] = job[p]
    BY <2>1, JobEffects DEF TypeInv
  <2>3. UNCHANGED <<asterisk, agent, task, trespass>> /\ owner' = s /\ seized' = StandingDown
      BY <1>3 DEF Claims
  <2>4. owner = NoOne
     BY <1>3, <2>1 DEF Claims, MayClaim
  <2> QED BY <2>1, <2>2, <2>3, <2>4, Apart DEF Up, StandingDown
<1>4. CASE ClaimRefused(s)
  <2>1. Ends(s, "refused") /\ job[s].at = "claim"
      BY <1>4 DEF ClaimRefused
  <2>2. job'[s].at = "refused" /\ \A p \in Supervisors \ {s} : job'[p] = job[p]
    BY <2>1, JobEffects DEF TypeInv
  <2>3. UNCHANGED <<asterisk, agent, task, ownership, trespass, faults>>
      BY <1>4 DEF ClaimRefused
  <2>4. owner # NoOne /\ owner # s
     BY <1>4 DEF ClaimRefused, MayClaim
  <2> QED BY <2>1, <2>2, <2>3, <2>4 DEF Up
<1>5. CASE Ejects(s) \/ Opens(s) \/ AddsCaller(s) \/ AddsOperator(s) \/ OperatorRefused(s)
  <2>1. job[s].at \in {"eject", "open", "add", "join"} /\ UNCHANGED <<agent, task, ownership, trespass>>
     BY <1>5 DEF Ejects, Opens, AddsCaller, AddsOperator, OperatorRefused
  <2>2. job'[s].at \in Winning /\ \A p \in Supervisors \ {s} : job'[p] = job[p]
    <3>1. CASE Opens(s)
        BY <3>1, OpensEffect DEF TypeInv
    <3>2. CASE ~Opens(s)
        BY <1>5, <3>2, JobEffects DEF Ejects, AddsCaller, AddsOperator, OperatorRefused,
            TypeInv
    <3> QED BY <3>1, <3>2
  <2>3. owner = s
     BY <2>1
  <2>4. \A p \in Supervisors \ {s} : room'[p] \in {room[p], "none"}
    <3>1. CASE Ejects(s)
      BY <3>1, Names DEF Ejects, Drops
    <3>2. CASE AddsCaller(s)
      BY <3>2, Names, Apart DEF AddsCaller, Adds
    <3>3. CASE AddsOperator(s)
      BY <3>3, Names, Apart DEF AddsOperator, Adds
    <3>4. CASE Opens(s) \/ OperatorRefused(s)
      BY <3>4 DEF Opens, OperatorRefused
    <3> QED BY <1>5, <3>1, <3>2, <3>3, <3>4
  <2> QED BY <2>1, <2>2, <2>3, <2>4, Apart
<1> QED BY <1>1, <1>2, <1>3, <1>4, <1>5 DEF JobStep

(* The caller is only ever moved into a bridge of the take-over's own. *)
LEMMA OwnersAddToTheirOwn ==
    ASSUME TypeInv, NEW s \in Supervisors, JobStep(s) \/ Asks(s)
    PROVE  OwnBridge'
<1> SUFFICES /\ job'[s].at = "add" => job'[s].bridge = "own"
             /\ \A p \in Supervisors \ {s} : job'[p] = job[p]
    BY DEF TypeInv, OwnBridge
<1>1. CASE Asks(s)
    BY <1>1 DEF Asks, TypeInv, TypeOK
<1>2. CASE Opens(s)
    BY <1>2, OpensEffect DEF TypeInv
<1>3. CASE ~Asks(s) /\ ~Opens(s)
  <2>1. \/ \E at \in JobStates \ {"add"} : Goes(s, at)
        \/ \E at \in JobStates \ {"add"} : Ends(s, at)
      BY <1>3 DEF JobStep, JobStates, Stops, Claims, ClaimRefused, Ejects, AddsCaller,
                  AddsOperator, OperatorRefused
  <2> QED  BY <2>1, JobEffects DEF TypeInv
<1> QED  BY <1>1, <1>2, <1>3

(* A party who hangs up keeps the types *)
LEMMA LeavingIsTyped ==
    ASSUME TypeInv, NEW c \in Channels, PartyLeaves(c)
    PROVE  TypeInv'
<1>1. Drops({c}) /\ UNCHANGED <<bridges, agent, task, job, ownership, trespass, faults>>
    BY DEF PartyLeaves
<1>2. /\ line' \in [Channels -> {"none", "up", "gone"}]
      /\ room' \in [Channels -> Bridges \union {"none"}]
    BY <1>1, MovesTyped, Names DEF TypeInv
<1>3. UNCHANGED <<bridges, engine, session, known, flow, port, job, owner, seized, trespass, faults>>
    BY <1>1 DEF agent, task, ownership
<1>4. TypeOK'
  <2>1. /\ bridges' \subseteq Bridges /\ engine' \in {"retell", "owen_voice"}
        /\ session' \in 1..2 /\ known' \in BOOLEAN /\ faults' \in 0..MaxFaults
      BY <1>3 DEF TypeInv, TypeOK
  <2>2. /\ job' \in [Supervisors -> Jobs]
        /\ owner' \in Supervisors \union {NoOne} /\ seized' \in BOOLEAN
      BY <1>3 DEF TypeInv, TypeOK
  <2> QED  BY <1>2, <1>3, <2>1, <2>2 DEF TypeInv, TypeOK
<1>5. SecondSession' /\ OwnBridge'
    BY <1>3 DEF TypeInv, SecondSession, OwnBridge, Retell
<1> QED
    BY <1>4, <1>5 DEF TypeInv

(* and the claims. *)
LEMMA LeavingKeepsClaims ==
    ASSUME ClaimInv, NEW c \in Channels, PartyLeaves(c)
    PROVE  ClaimInv'
<1>1. Drops({c}) /\ UNCHANGED <<bridges, agent, task, job, ownership, trespass, faults>>
    BY DEF PartyLeaves
<1>2. /\ \A s \in Supervisors : room'[s] # "none" => room[s] # "none"
      /\ line'[Caller] = "up" => line[Caller] = "up"
    BY <1>1, Names DEF Drops
<1> QED
    BY <1>1, <1>2 DEF ClaimInv, OwnersJob, OwnersRoom, ToldToStop, Untouched, HungUpByNobody,
                      StandsDown,
        Released,
                      Retell, Up, agent, task, ownership

(* A step that changes nothing keeps both. *)
LEMMA StutteringKeeps ==
    ASSUME TypeInv, ClaimInv, UNCHANGED vars
    PROVE  TypeInv' /\ ClaimInv'
<1>1. UNCHANGED <<line, room, bridges, engine, session, known, flow, port, job, owner, seized,
                  trespass, faults>>
    BY DEF vars, asterisk, agent, task, ownership
<1>2. TypeOK'
  <2>1. /\ bridges' \subseteq Bridges /\ engine' \in {"retell", "owen_voice"}
        /\ session' \in 1..2 /\ known' \in BOOLEAN /\ faults' \in 0..MaxFaults
      BY <1>1 DEF TypeInv, TypeOK
  <2>2. /\ job' \in [Supervisors -> Jobs]
        /\ owner' \in Supervisors \union {NoOne} /\ seized' \in BOOLEAN
      BY <1>1 DEF TypeInv, TypeOK
  <2> QED  BY <1>1, <2>1, <2>2 DEF TypeInv, TypeOK
<1>3. SecondSession' /\ OwnBridge'
    BY <1>1 DEF TypeInv, SecondSession, OwnBridge, Retell
<1>4. ClaimInv'
    BY <1>1 DEF ClaimInv, OwnersJob, OwnersRoom, ToldToStop, Untouched, HungUpByNobody,
                StandsDown,
        Released,
                Retell, Up
<1> QED
    BY <1>2, <1>3, <1>4 DEF TypeInv

(* Both hold at first. *)
LEMMA StartsWell ==
    Init => TypeInv /\ ClaimInv
<1> SUFFICES ASSUME Init PROVE TypeInv /\ ClaimInv
    OBVIOUS
<1>1. TypeOK
  <2>1. MaxFaults \in Nat
      BY TakeoverAssumption
  <2>2. job \in [Supervisors -> Jobs]
      BY DEF Init, NoJob, Jobs, JobStates
  <2>3. line \in [Channels -> {"none", "up", "gone"}]
      BY DEF Init
  <2>4. session \in 1..2 /\ faults \in 0..MaxFaults
      BY <2>1 DEF Init
  <2> QED  BY <2>2, <2>3, <2>4 DEF Init, TypeOK
<1>2. \A s \in Supervisors : job[s].at = "idle" /\ room[s] = "none"
    BY Names DEF Init, NoJob
<1> QED
    BY <1>1, <1>2, Apart DEF Init, TypeInv, ClaimInv, SecondSession, OwnBridge, OwnersJob,
        OwnersRoom, ToldToStop, Untouched, HungUpByNobody, StandsDown, Released,
                      Retell, Dialling, Winning

(* Types and claims hold in every state: the ownership registry
   (telephony/ownership.py) keeps flow and take-overs out of each other's way. *)
THEOREM ClaimsHold == Spec => [](TypeInv /\ ClaimInv)
<1>1. Init => TypeInv /\ ClaimInv
    BY StartsWell
<1>2. TypeInv /\ ClaimInv /\ [Next]_vars => (TypeInv /\ ClaimInv)'
  <2> SUFFICES ASSUME TypeInv, ClaimInv, [Next]_vars
               PROVE  (TypeInv /\ ClaimInv)'
      OBVIOUS
  <2>1. CASE FlowStep
      BY <2>1, FlowTyped, FlowKeepsClaims
  <2>2. CASE \E s \in Supervisors : JobStep(s) \/ Asks(s)
    <3>1. PICK s \in Supervisors : JobStep(s) \/ Asks(s)
        BY <2>2
    <3>2. TypeOK'
        BY <3>1, JobStepsTyped DEF TypeInv
    <3>3. SecondSession'
      <4>1. UNCHANGED <<agent, flow>>
          BY <3>1 DEF JobStep, Asks, Stops, Claims, ClaimRefused, Ejects, Opens, AddsCaller,
                      AddsOperator, OperatorRefused, task
      <4> QED  BY <4>1 DEF TypeInv, SecondSession, Retell, agent
    <3>4. OwnBridge'
        BY <3>1, OwnersAddToTheirOwn
    <3>5. ClaimInv'
        BY <3>1, JobsKeepClaims
    <3> QED  BY <3>2, <3>3, <3>4, <3>5 DEF TypeInv
  <2>3. CASE \E c \in Channels : PartyLeaves(c)
      BY <2>3, LeavingIsTyped, LeavingKeepsClaims
  <2>4. CASE UNCHANGED vars
      BY <2>4, StutteringKeeps
  <2> QED  BY <2>1, <2>2, <2>3, <2>4 DEF Next
<1> QED  BY <1>1, <1>2, PTL DEF Spec

(* A call nobody owns is not forgotten (flows/runtime.py, telephony/supervision.py):
   a flow that is over has released the caller's line, or a human has it. *)
THEOREM NobodyStranded == Spec => []CallerNotStranded
<1>1. TypeInv /\ ClaimInv => CallerNotStranded
    BY DEF ClaimInv, CallerNotStranded, TakeoverComing, ToldToStop, Released, Owned
<1> QED  BY <1>1, ClaimsHold, PTL

(* The last hangup puts nobody into a bridge. *)
LEMMA HangsUpEffect ==
    ASSUME HangsUp, NEW c \in Channels
    PROVE  room'[c] \in {room[c], "none"}
BY DEF HangsUp, Drops

(* There are two sessions at most. *)
LEMMA Sessions ==
    ASSUME TypeInv
    PROVE  session = 1 \/ session = 2
<1>1. session \in 1..2
    BY DEF TypeInv, TypeOK
<1> QED  BY <1>1

(* The flow leaves the requests and the claim alone. *)
LEMMA FlowFrame ==
    ASSUME TypeInv, FlowStep
    PROVE  /\ UNCHANGED <<engine, job, owner>>
           /\ seized' => seized
           /\ \/ session' = session
              \/ flow = "undialed" /\ session = 1 /\ session' = 2
<1>1. UNCHANGED <<engine, job, owner>>
    BY DEF FlowStep, Connects, ConnectFails, Joins, JoinFails, Stores, SessionEnds,
           AsksToLeave, GraceEnds, TearsDown, Unbridges, Routes, Dials, DeskAnswers, DialFails,
           JoinsDesk, JoinDeskFails, DeskTalkEnds, Returns, GivesUp, FollowsEdge, Greets, Plays,
           Records, MessageEnds, HangsUp, agent, ownership
<1>4. seized' => seized
  <2>1. CASE SessionEnds
      BY <2>1 DEF SessionEnds, Overwrites
  <2>2. CASE ~SessionEnds
    <3>1. UNCHANGED seized
        BY <2>2 DEF FlowStep, Connects, ConnectFails, Joins, JoinFails, Stores,
           AsksToLeave, GraceEnds, TearsDown, Unbridges, Routes, Dials, DeskAnswers, DialFails,
           JoinsDesk, JoinDeskFails, DeskTalkEnds, Returns, GivesUp, FollowsEdge, Greets, Plays,
           Records, MessageEnds, HangsUp, ownership
    <3> QED  BY <3>1
  <2> QED  BY <2>1, <2>2
<1>2. CASE Returns
    BY <1>1, <1>2, <1>4 DEF Returns, TypeInv, SecondSession, Dialling
<1>3. CASE ~Returns
  <2>1. UNCHANGED session
      BY <1>3 DEF FlowStep, Connects, ConnectFails, Joins, JoinFails, Stores, SessionEnds,
           AsksToLeave, GraceEnds, TearsDown, Unbridges, Routes, Dials, DeskAnswers, DialFails,
           JoinsDesk, JoinDeskFails, DeskTalkEnds, GivesUp, FollowsEdge, Greets, Plays,
           Records, MessageEnds, HangsUp, agent
  <2> QED  BY <1>1, <1>4, <2>1
<1> QED  BY <1>2, <1>3

(* Once the call is seized the flow only lets go of what is its own, and with
   Retell of nothing at all. *)
LEMMA SeizedFlow ==
    ASSUME TypeInv, ClaimInv, seized, FlowStep
    PROVE  /\ UNCHANGED session
           /\ faults' = 0 => faults = 0
           /\ Retell => UNCHANGED asterisk
           /\ \A c \in Channels : /\ room'[c] \in {room[c], "none"}
                                  /\ line'[c] = "up" => line[c] = "up"
<1> USE Names DEF asterisk, agent, task, ownership, Up
<1>0. /\ flow \in {"store", "talking", "teardown", "unbridge", "route", "stood down"}
      /\ Retell => flow \in {"talking", "teardown", "route", "stood down"}
      /\ owner # NoOne
    BY DEF ClaimInv, StandsDown, Untouched
<1>1. CASE Stores \/ SessionEnds \/ AsksToLeave
    BY <1>1 DEF Stores, SessionEnds, AsksToLeave
<1>2. CASE TearsDown
    BY <1>0, <1>2 DEF TearsDown, Spared, Drops
<1>3. CASE Unbridges
    BY <1>0, <1>3 DEF Unbridges, Destroys
<1>4. CASE Routes
    BY <1>4 DEF Routes
<1>5. CASE GraceEnds \/ ConnectFails \/ Connects \/ Joins \/ JoinFails \/ Dials \/ DeskAnswers \/ DialFails
    BY <1>0, <1>5 DEF GraceEnds, ConnectFails, Connects, Joins, JoinFails, Dials, DeskAnswers,
        DialFails
<1>6. CASE JoinsDesk \/ JoinDeskFails \/ DeskTalkEnds \/ Returns \/ GivesUp \/ FollowsEdge
           \/ Greets \/ Plays \/ Records \/ MessageEnds \/ HangsUp
    BY <1>0, <1>6 DEF JoinsDesk, JoinDeskFails, DeskTalkEnds, Returns, GivesUp, FollowsEdge,
           Greets, Plays, Records, MessageEnds, HangsUp
<1> QED  BY <1>1, <1>2, <1>3, <1>4, <1>5, <1>6 DEF FlowStep

(* The flow puts nobody into a bridge whose line is down. *)
LEMMA FlowKeepsOffline ==
    ASSUME TypeInv, Offline, FlowStep
    PROVE  Offline'
<1> USE Names DEF Offline, asterisk, Up
<1>1. CASE Connects
    BY <1>1 DEF Connects
<1>2. CASE ConnectFails
    BY <1>2 DEF ConnectFails
<1>3. CASE Joins
    BY <1>3 DEF Joins, Drops, Destroys, Adds, CanAdd, Refused
<1>4. CASE JoinFails
    BY <1>4 DEF JoinFails, Drops, Destroys, Adds, CanAdd, Refused
<1>5. CASE Stores
    BY <1>5 DEF Stores
<1>6. CASE SessionEnds
    BY <1>6 DEF SessionEnds, Overwrites
<1>7. CASE TearsDown
    BY <1>7 DEF TearsDown, Drops, Destroys, Adds, CanAdd, Refused
<1>8. CASE Unbridges
    BY <1>8 DEF Unbridges, Drops, Destroys, Adds, CanAdd, Refused
<1>9. CASE Routes
    BY <1>9 DEF Routes
<1>10. CASE Dials
    BY <1>10 DEF Dials
<1>11. CASE DeskAnswers
    BY <1>11 DEF DeskAnswers
<1>12. CASE DialFails
    BY <1>12 DEF DialFails
<1>13. CASE JoinsDesk
    BY <1>13 DEF JoinsDesk, Drops, Destroys, Adds, CanAdd, Refused
<1>14. CASE JoinDeskFails
    BY <1>14 DEF JoinDeskFails, Drops, Destroys, Adds, CanAdd, Refused
<1>15. CASE DeskTalkEnds
    BY <1>15 DEF DeskTalkEnds, Drops, Destroys, Adds, CanAdd, Refused
<1>16. CASE Returns
    BY <1>16 DEF Returns
<1>17. CASE GivesUp
    BY <1>17 DEF GivesUp
<1>18. CASE FollowsEdge
    BY <1>18 DEF FollowsEdge
<1>19. CASE Greets
    BY <1>19 DEF Greets
<1>20. CASE Plays
    BY <1>20 DEF Plays
<1>21. CASE Records
    BY <1>21 DEF Records
<1>22. CASE MessageEnds
    BY <1>22 DEF MessageEnds
<1>23. CASE HangsUp
    BY <1>23 DEF HangsUp, Drops, Destroys, Adds, CanAdd, Refused
<1>24. CASE AsksToLeave
    BY <1>24 DEF AsksToLeave
<1>25. CASE GraceEnds
    BY <1>25 DEF GraceEnds
<1> QED
    BY <1>1, <1>2, <1>3, <1>4, <1>5, <1>6, <1>7, <1>8, <1>9, <1>10, <1>11, <1>12, <1>13,
        <1>14, <1>15, <1>16, <1>17, <1>18, <1>19, <1>20, <1>21, <1>22, <1>23, <1>24,
                                                                                           <1>25 DEF FlowStep

(* It keeps each agent's leg to its own bridge. *)
LEMMA FlowKeepsLegs ==
    ASSUME TypeInv, LegsRoom, FlowStep
    PROVE  LegsRoom'
<1> USE Names, Apart DEF LegsRoom, TypeInv, TypeOK, asterisk, agent, Up
<1>1. CASE Connects
    BY <1>1 DEF Connects
<1>2. CASE ConnectFails
    BY <1>2 DEF ConnectFails
<1>3. CASE Joins
    BY <1>3 DEF Joins, Drops, Destroys, Adds, CanAdd, Refused
<1>4. CASE JoinFails
    BY <1>4 DEF JoinFails, Drops, Destroys, Adds, CanAdd, Refused
<1>5. CASE Stores
    BY <1>5 DEF Stores
<1>6. CASE SessionEnds
    BY <1>6 DEF SessionEnds, Overwrites
<1>7. CASE TearsDown
    BY <1>7 DEF TearsDown, Drops, Destroys, Adds, CanAdd, Refused
<1>8. CASE Unbridges
    BY <1>8 DEF Unbridges, Drops, Destroys, Adds, CanAdd, Refused
<1>9. CASE Routes
    BY <1>9 DEF Routes
<1>10. CASE Dials
    BY <1>10 DEF Dials
<1>11. CASE DeskAnswers
    BY <1>11 DEF DeskAnswers
<1>12. CASE DialFails
    BY <1>12 DEF DialFails
<1>13. CASE JoinsDesk
    BY <1>13 DEF JoinsDesk, Drops, Destroys, Adds, CanAdd, Refused
<1>14. CASE JoinDeskFails
    BY <1>14 DEF JoinDeskFails, Drops, Destroys, Adds, CanAdd, Refused
<1>15. CASE DeskTalkEnds
    BY <1>15 DEF DeskTalkEnds, Drops, Destroys, Adds, CanAdd, Refused
<1>16. CASE Returns
    BY <1>16 DEF Returns
<1>17. CASE GivesUp
    BY <1>17 DEF GivesUp
<1>18. CASE FollowsEdge
    BY <1>18 DEF FollowsEdge
<1>19. CASE Greets
    BY <1>19 DEF Greets
<1>20. CASE Plays
    BY <1>20 DEF Plays
<1>21. CASE Records
    BY <1>21 DEF Records
<1>22. CASE MessageEnds
    BY <1>22 DEF MessageEnds
<1>23. CASE HangsUp
    BY <1>23, HangsUpEffect DEF HangsUp
<1>24. CASE AsksToLeave
    BY <1>24 DEF AsksToLeave
<1>25. CASE GraceEnds
    BY <1>25 DEF GraceEnds
<1> QED
    BY <1>1, <1>2, <1>3, <1>4, <1>5, <1>6, <1>7, <1>8, <1>9, <1>10, <1>11, <1>12, <1>13,
        <1>14, <1>15, <1>16, <1>17, <1>18, <1>19, <1>20, <1>21, <1>22, <1>23, <1>24,
                                                                                           <1>25 DEF FlowStep

(* It keeps caller and agent together while they talk. *)
LEMMA FlowKeepsTalking ==
    ASSUME TypeInv, TalkingTogether, FlowStep
    PROVE  TalkingTogether'
<1> USE Names, Apart DEF TalkingTogether, TypeInv, asterisk, agent, task, ownership, Up,
    Retell
<1>1. CASE Connects
    BY <1>1 DEF Connects
<1>2. CASE ConnectFails
    BY <1>2 DEF ConnectFails
<1>3. CASE Joins
    BY <1>3 DEF Joins, Drops, Destroys, Adds, CanAdd, Refused
<1>4. CASE JoinFails
    BY <1>4 DEF JoinFails, Drops, Destroys, Adds, CanAdd, Refused
<1>5. CASE Stores
    BY <1>5 DEF Stores
<1>6. CASE SessionEnds
    BY <1>6 DEF SessionEnds, Overwrites
<1>7. CASE TearsDown
    BY <1>7 DEF TearsDown, Drops, Destroys, Adds, CanAdd, Refused
<1>8. CASE Unbridges
    BY <1>8 DEF Unbridges, Drops, Destroys, Adds, CanAdd, Refused
<1>9. CASE Routes
    BY <1>9 DEF Routes
<1>10. CASE Dials
    BY <1>10 DEF Dials
<1>11. CASE DeskAnswers
    BY <1>11 DEF DeskAnswers
<1>12. CASE DialFails
    BY <1>12 DEF DialFails
<1>13. CASE JoinsDesk
    BY <1>13 DEF JoinsDesk, Drops, Destroys, Adds, CanAdd, Refused
<1>14. CASE JoinDeskFails
    BY <1>14 DEF JoinDeskFails, Drops, Destroys, Adds, CanAdd, Refused
<1>15. CASE DeskTalkEnds
    BY <1>15 DEF DeskTalkEnds, Drops, Destroys, Adds, CanAdd, Refused
<1>16. CASE Returns
    BY <1>16 DEF Returns
<1>17. CASE GivesUp
    BY <1>17 DEF GivesUp
<1>18. CASE FollowsEdge
    BY <1>18 DEF FollowsEdge
<1>19. CASE Greets
    BY <1>19 DEF Greets
<1>20. CASE Plays
    BY <1>20 DEF Plays
<1>21. CASE Records
    BY <1>21 DEF Records
<1>22. CASE MessageEnds
    BY <1>22 DEF MessageEnds
<1>23. CASE HangsUp
    BY <1>23 DEF HangsUp, Drops, Destroys, Adds, CanAdd, Refused
<1>24. CASE AsksToLeave
    BY <1>24 DEF AsksToLeave
<1>25. CASE GraceEnds
    BY <1>25 DEF GraceEnds
<1> QED
    BY <1>1, <1>2, <1>3, <1>4, <1>5, <1>6, <1>7, <1>8, <1>9, <1>10, <1>11, <1>12, <1>13,
        <1>14, <1>15, <1>16, <1>17, <1>18, <1>19, <1>20, <1>21, <1>22, <1>23, <1>24,
                                                                                           <1>25 DEF FlowStep

(* It takes the first bridge down before it transfers the call. *)
LEMMA FlowKeepsOldBridge ==
    ASSUME TypeInv, ClaimInv, OldBridgeGone, FlowStep
    PROVE  OldBridgeGone'
<1> USE Names, Apart DEF OldBridgeGone, Dialling, ClaimInv, StandsDown, asterisk, agent,
    task, ownership, Up, Retell
<1>1. CASE Connects
    BY <1>1 DEF Connects
<1>2. CASE ConnectFails
    BY <1>2 DEF ConnectFails
<1>3. CASE Joins
    BY <1>3 DEF Joins, Drops, Destroys, Adds, CanAdd, Refused
<1>4. CASE JoinFails
    BY <1>4 DEF JoinFails, Drops, Destroys, Adds, CanAdd, Refused
<1>5. CASE Stores
    BY <1>5 DEF Stores
<1>6. CASE SessionEnds
    BY <1>6 DEF SessionEnds, Overwrites
<1>7. CASE TearsDown
    BY <1>7 DEF TearsDown, Spared, Drops
<1>8. CASE Unbridges
    BY <1>8, Sessions DEF Unbridges, Destroys
<1>9. CASE Routes
    BY <1>9 DEF Routes
<1>10. CASE Dials
    BY <1>10 DEF Dials
<1>11. CASE DeskAnswers
    BY <1>11 DEF DeskAnswers
<1>12. CASE DialFails
    BY <1>12 DEF DialFails
<1>13. CASE JoinsDesk
    BY <1>13 DEF JoinsDesk, Drops, Destroys, Adds, CanAdd, Refused
<1>14. CASE JoinDeskFails
    BY <1>14 DEF JoinDeskFails, Drops, Destroys, Adds, CanAdd, Refused
<1>15. CASE DeskTalkEnds
    BY <1>15 DEF DeskTalkEnds, Drops, Destroys, Adds, CanAdd, Refused
<1>16. CASE Returns
    BY <1>16 DEF Returns
<1>17. CASE GivesUp
    BY <1>17 DEF GivesUp
<1>18. CASE FollowsEdge
    BY <1>18 DEF FollowsEdge
<1>19. CASE Greets
    BY <1>19 DEF Greets
<1>20. CASE Plays
    BY <1>20 DEF Plays
<1>21. CASE Records
    BY <1>21 DEF Records
<1>22. CASE MessageEnds
    BY <1>22 DEF MessageEnds
<1>23. CASE HangsUp
    BY <1>23 DEF HangsUp, Drops, Destroys, Adds, CanAdd, Refused
<1>24. CASE AsksToLeave
    BY <1>24 DEF AsksToLeave
<1>25. CASE GraceEnds
    BY <1>25 DEF GraceEnds
<1> QED
    BY <1>1, <1>2, <1>3, <1>4, <1>5, <1>6, <1>7, <1>8, <1>9, <1>10, <1>11, <1>12, <1>13,
        <1>14, <1>15, <1>16, <1>17, <1>18, <1>19, <1>20, <1>21, <1>22, <1>23, <1>24,
                                                                                           <1>25 DEF FlowStep

(* A fault is never forgotten. *)
LEMMA FaultCounts ==
    ASSUME TypeInv
    PROVE  /\ Fault => faults' # 0
           /\ faults # 0 /\ (Fault \/ NoFault) => faults' # 0
<1>1. faults \in Nat
  <2>1. faults \in 0..MaxFaults /\ MaxFaults \in Nat
      BY TakeoverAssumption DEF TypeInv, TypeOK
  <2> QED  BY <2>1
<1> QED  BY <1>1 DEF Fault, NoFault

Same(s) == job'[s].bridge = job[s].bridge /\ job'[s].leg = job[s].leg
Cleared(s) == job'[s].bridge = "none" /\ job'[s].leg = "none"

(* What each step of a take-over does to its own request. *)
LEMMA JobMoves ==
    ASSUME TypeInv, NEW s \in Supervisors
    PROVE  /\ Asks(s) => job[s].at = "idle" /\ job'[s].at = "queued"
                         /\ job'[s].bridge = (IF known THEN Talk[session] ELSE "none")
                         /\ job'[s].leg = (IF known \/ ~Retell THEN Leg[session] ELSE "none")
           /\ Stops(s) => job[s].at = "queued" /\ job'[s].at = "claim" /\ Same(s)
           /\ Claims(s) => job[s].at = "claim" /\ job'[s].at = "eject" /\ Same(s)
           /\ ClaimRefused(s) => job[s].at = "claim" /\ job'[s].at = "refused" /\ Cleared(s)
           /\ Ejects(s) => job[s].at = "eject" /\ Same(s)
                           /\ job'[s].at = (IF job[s].bridge = "none" THEN "open" ELSE "join")
           /\ Opens(s) => job[s].at = "open"
                          /\ \/ job'[s].at = "add" /\ job'[s].bridge = "own" /\ job'[s].leg = job[s].leg
                             \/ job'[s].at = "failed" /\ Cleared(s)
           /\ AddsCaller(s) => job[s].at = "add" /\ job'[s].at = "join" /\ Same(s)
           /\ AddsOperator(s) => job[s].at = "join" /\ job'[s].at = "ok" /\ Cleared(s)
           /\ OperatorRefused(s) => job[s].at = "join" /\ job'[s].at = "failed" /\ Cleared(s)
<1> USE DEF Same, Cleared
<1>1. Asks(s) => job[s].at = "idle" /\ job'[s].at = "queued"
                         /\ job'[s].bridge = (IF known THEN Talk[session] ELSE "none")
                         /\ job'[s].leg = (IF known \/ ~Retell THEN Leg[session] ELSE "none")
  <2> DEFINE b == IF known THEN Talk[session] ELSE "none"
             l == IF known \/ ~Retell THEN Leg[session] ELSE "none"
  <2>1. ASSUME Asks(s)
        PROVE  job[s].at = "idle" /\ job' = [job EXCEPT ![s] = [at |-> "queued", bridge |-> b, leg |-> l]]
      BY <2>1 DEF Asks
  <2>2. s \in DOMAIN job
      BY DEF TypeInv, TypeOK
  <2> HIDE DEF b, l
  <2>3. Asks(s) => job[s].at = "idle" /\ job'[s] = [at |-> "queued", bridge |-> b, leg |-> l]
      BY <2>1, <2>2
  <2>4. Asks(s) => job[s].at = "idle" /\ job'[s].at = "queued" /\ job'[s].bridge = b /\ job'[s].leg = l
      BY <2>3
  <2> QED  BY <2>4 DEF b, l
<1>2. Stops(s) => job[s].at = "queued" /\ job'[s].at = "claim" /\ Same(s)
    BY JobEffects DEF Stops, TypeInv, JobStates
<1>3. Claims(s) => job[s].at = "claim" /\ job'[s].at = "eject" /\ Same(s)
    BY JobEffects DEF Claims, TypeInv, JobStates
<1>4. ClaimRefused(s) => job[s].at = "claim" /\ job'[s].at = "refused" /\ Cleared(s)
    BY JobEffects DEF ClaimRefused, TypeInv, JobStates
<1>5. Ejects(s) => job[s].at = "eject" /\ Same(s)
                           /\ job'[s].at = (IF job[s].bridge = "none" THEN "open" ELSE "join")
    BY JobEffects DEF Ejects, TypeInv, JobStates
<1>6. ASSUME Opens(s)
      PROVE  job[s].at = "open"
             /\ \/ job'[s].at = "add" /\ job'[s].bridge = "own" /\ job'[s].leg = job[s].leg
                \/ job'[s].at = "failed" /\ Cleared(s)
  <2>1. job[s].at = "open"
      BY <1>6 DEF Opens
  <2> QED  BY <2>1, <1>6, OpensEffect DEF TypeInv
<1>7. AddsCaller(s) => job[s].at = "add" /\ job'[s].at = "join" /\ Same(s)
    BY JobEffects DEF AddsCaller, TypeInv, JobStates
<1>8. AddsOperator(s) => job[s].at = "join" /\ job'[s].at = "ok" /\ Cleared(s)
    BY JobEffects DEF AddsOperator, TypeInv, JobStates
<1>9. OperatorRefused(s) => job[s].at = "join" /\ job'[s].at = "failed" /\ Cleared(s)
    BY JobEffects DEF OperatorRefused, TypeInv, JobStates
<1> QED  BY <1>1, <1>2, <1>3, <1>4, <1>5, <1>6, <1>7, <1>8, <1>9

Quiet == UNCHANGED <<line, room, bridges>>

(* What each step of a take-over does to the call. *)
LEMMA JobRooms ==
    ASSUME TypeInv, NEW s \in Supervisors
    PROVE  /\ Asks(s) \/ Stops(s) \/ Claims(s) \/ ClaimRefused(s) \/ OperatorRefused(s) => Quiet
           /\ Ejects(s) =>
                 /\ UNCHANGED bridges
                 /\ \/ UNCHANGED <<line, room>> /\ faults' # 0
                    \/ \A c \in Channels :
                          /\ room'[c] = IF c \in ToEject(s) THEN "none" ELSE room[c]
                          /\ line'[c] = IF c \in ToEject(s) /\ Up(c) THEN "gone" ELSE line[c]
           /\ Opens(s) => UNCHANGED <<line, room>> /\ bridges' \in {bridges, bridges \union {"own"}}
           /\ AddsCaller(s) =>
                 /\ UNCHANGED line
                 /\ \/ /\ \A c \in Channels : room'[c] = IF c = Caller THEN job[s].bridge ELSE room[c]
                       /\ bridges' = bridges \union {job[s].bridge}
                       /\ Up(Caller)
                    \/ Quiet /\ faults' # 0
                    \/ Quiet /\ (~Up(Caller) \/ flow = "message")
           /\ AddsOperator(s) =>
                 /\ UNCHANGED line /\ UNCHANGED bridges
                 /\ job[s].bridge \in bridges /\ Up(s)
                 /\ \A c \in Channels : room'[c] = IF c = s THEN job[s].bridge ELSE room[c]
<1> USE DEF asterisk, Quiet
<1>1. Asks(s) \/ Stops(s) \/ Claims(s) \/ ClaimRefused(s) \/ OperatorRefused(s) => Quiet
    BY DEF Asks, Stops, Claims, ClaimRefused, OperatorRefused
<1>2. ASSUME Ejects(s)
      PROVE  /\ UNCHANGED bridges
             /\ \/ UNCHANGED <<line, room>> /\ faults' # 0
                \/ \A c \in Channels :
                          /\ room'[c] = IF c \in ToEject(s) THEN "none" ELSE room[c]
                          /\ line'[c] = IF c \in ToEject(s) /\ Up(c) THEN "gone" ELSE line[c]
  <2>1. /\ UNCHANGED bridges
        /\ \/ Drops(ToEject(s))
           \/ UNCHANGED <<line, room>> /\ Fault
      BY <1>2 DEF Ejects
  <2>2. CASE Drops(ToEject(s))
      BY <2>1, <2>2, DropsEffect
  <2>3. CASE UNCHANGED <<line, room>> /\ Fault
      BY <2>1, <2>3, FaultCounts
  <2> QED  BY <2>1, <2>2, <2>3
<1>3. Opens(s) => UNCHANGED <<line, room>> /\ bridges' \in {bridges, bridges \union {"own"}}
    BY DEF Opens
<1>4. ASSUME AddsCaller(s)
      PROVE  /\ UNCHANGED line
             /\ \/ /\ \A c \in Channels : room'[c] = IF c = Caller THEN job[s].bridge ELSE room[c]
                   /\ bridges' = bridges \union {job[s].bridge}
                   /\ Up(Caller)
                \/ Quiet /\ faults' # 0
                \/ Quiet /\ (~Up(Caller) \/ flow = "message")
  <2>1. \/ Adds(job[s].bridge, {Caller})
        \/ Refused({Caller}) /\ UNCHANGED asterisk
      BY <1>4 DEF AddsCaller
  <2>2. CASE Adds(job[s].bridge, {Caller})
      BY <2>2, Names DEF Adds, CanAdd
  <2>3. CASE Refused({Caller}) /\ UNCHANGED asterisk
    <3>1. Fault => faults' # 0
        BY FaultCounts
    <3>2. ~CanAdd({Caller}) => ~Up(Caller) \/ flow = "message"
        BY DEF CanAdd
    <3>3. Fault \/ ~CanAdd({Caller})
        BY <2>3 DEF Refused
    <3> QED  BY <2>3, <3>1, <3>2, <3>3
  <2> QED  BY <2>1, <2>2, <2>3
<1>5. ASSUME AddsOperator(s)
      PROVE  /\ UNCHANGED line /\ UNCHANGED bridges
             /\ job[s].bridge \in bridges /\ Up(s)
             /\ \A c \in Channels : room'[c] = IF c = s THEN job[s].bridge ELSE room[c]
    BY <1>5, Names DEF AddsOperator, Adds, CanAdd
<1> QED  BY <1>1, <1>2, <1>3, <1>4, <1>5

(* What else a step of a take-over may change: the claim, nothing more. *)
LEMMA JobFrame ==
    ASSUME TypeInv, ClaimInv, NEW s \in Supervisors, JobStep(s) \/ Asks(s)
    PROVE  /\ UNCHANGED <<engine, session, flow, known>>
           /\ \A p \in Supervisors \ {s} : job'[p] = job[p]
           /\ faults' = 0 => faults = 0
           /\ IF Claims(s) THEN owner = NoOne /\ ~seized /\ owner' = s /\ seized' = StandingDown
              ELSE UNCHANGED <<owner, seized>>
<1>1. UNCHANGED <<engine, session, flow, known>>
    BY DEF JobStep, Asks, Stops, Claims, ClaimRefused, Ejects, Opens, AddsCaller,
        AddsOperator,
           OperatorRefused, agent, task
<1>2. \A p \in Supervisors \ {s} : job'[p] = job[p]
  <2>1. CASE Asks(s)
      BY <2>1 DEF Asks, TypeInv, TypeOK
  <2>2. CASE Opens(s)
      BY <2>2, OpensEffect DEF TypeInv
  <2>3. CASE ~Asks(s) /\ ~Opens(s)
    <3>1. \/ \E at \in JobStates : Goes(s, at)
          \/ \E at \in JobStates : Ends(s, at)
        BY <2>3 DEF JobStep, JobStates, Stops, Claims, ClaimRefused, Ejects, AddsCaller,
                    AddsOperator, OperatorRefused
    <3> QED  BY <3>1, JobEffects DEF TypeInv
  <2> QED  BY <2>1, <2>2, <2>3
<1>3. faults' = 0 => faults = 0
  <2>1. Fault \/ NoFault
      BY DEF JobStep, Asks, Stops, Claims, ClaimRefused, Ejects, Opens, AddsCaller,
          AddsOperator,
           OperatorRefused, NoFault, Refused
  <2> QED  BY <2>1, FaultCounts
<1>4. CASE Claims(s)
  <2>1. owner' = s /\ seized' = StandingDown /\ job[s].at = "claim" /\ owner \in {NoOne, s}
      BY <1>4 DEF Claims, MayClaim
  <2>2. owner = NoOne /\ ~seized
      BY <2>1 DEF ClaimInv, OwnersJob, Untouched, Winning
  <2> QED  BY <1>1, <1>2, <1>3, <1>4, <2>1, <2>2
<1>5. CASE ~Claims(s)
  <2>1. UNCHANGED <<owner, seized>>
      BY <1>5 DEF JobStep, Asks, Stops, ClaimRefused, Ejects, Opens, AddsCaller,
          AddsOperator,
           OperatorRefused, ownership
  <2> QED  BY <1>1, <1>2, <1>3, <1>5, <2>1
<1> QED  BY <1>4, <1>5

(* A request stays true of the session while it is carried out. *)
LEMMA JobsKeepAsked ==
    ASSUME TypeInv, ClaimInv, Asked, NEW s \in Supervisors, JobStep(s) \/ Asks(s)
    PROVE  Asked'
<1> DEFINE P(p) ==
        /\ job[p].at = "open" => job[p].bridge = "none"
        /\ job[p].at = "add" => job[p].bridge = "own"
        /\ job[p].at = "join" => job[p].bridge # "none"
        /\ job[p].at \in {"idle", "queued", "claim", "eject"} => job[p].bridge \in {"none", "talk1", "talk2"}
        /\ \A n \in 1..2 : job[p].bridge = Talk[n] => n =< session /\ job[p].leg = Leg[n]
        /\ ~Retell /\ job[p].at \in {"queued", "claim", "eject", "open", "add", "join"} =>
               job[p].leg = Leg[1]
        /\ job[p].bridge # "desk"
<1>1. UNCHANGED <<engine, session>> /\ \A p \in Supervisors \ {s} : job'[p] = job[p]
    BY JobFrame
<1>2. \A p \in Supervisors \ {s} : P(p)'
    BY <1>1 DEF Asked, Retell
<1>3. P(s)
    BY DEF Asked
<1>4. P(s)'
  <2>1. CASE Asks(s)
    <3>1. CASE session = 1
        BY <1>1, <2>1, <3>1, JobMoves, Apart DEF Talk, Leg, Retell
    <3>2. CASE session = 2
        BY <1>1, <2>1, <3>2, JobMoves, Apart DEF Talk, Leg, Retell, TypeInv, SecondSession
    <3> QED  BY <3>1, <3>2, Sessions
  <2>2. CASE Opens(s)
      BY <1>1, <1>3, <2>2, JobMoves, Apart DEF Cleared, Retell
  <2>3. CASE Stops(s) \/ Claims(s)
      BY <1>1, <1>3, <2>3, JobMoves, Apart DEF Same, Retell
  <2>4. CASE ClaimRefused(s) \/ AddsOperator(s) \/ OperatorRefused(s)
      BY <1>1, <2>4, JobMoves, Apart DEF Cleared, Retell
  <2>5. CASE Ejects(s)
      BY <1>1, <1>3, <2>5, JobMoves, Apart DEF Same, Retell
  <2>6. CASE AddsCaller(s)
      BY <1>1, <1>3, <2>6, JobMoves, Apart DEF Same, Retell
  <2> QED  BY <2>1, <2>2, <2>3, <2>4, <2>5, <2>6 DEF JobStep
<1> QED  BY <1>2, <1>4 DEF Asked

(* A take-over moves nobody who is not on the line, and no agent. *)
LEMMA JobsKeepPlaces ==
    ASSUME TypeInv, Offline, LegsRoom, NEW s \in Supervisors, JobStep(s) \/ Asks(s)
    PROVE  Offline' /\ LegsRoom'
<1>1. UNCHANGED session
    BY DEF JobStep, Asks, Stops, Claims, ClaimRefused, Ejects, Opens, AddsCaller,
        AddsOperator,
           OperatorRefused, agent
<1>2. \A c \in Channels : ~Up(c)' => room'[c] = "none"
  <2> USE DEF Offline, Up
  <2>1. CASE Asks(s) \/ Stops(s) \/ Claims(s) \/ ClaimRefused(s) \/ OperatorRefused(s) \/ Opens(s)
      BY <2>1, JobRooms DEF Quiet
  <2>2. CASE Ejects(s)
      BY <2>2, JobRooms
  <2>3. CASE AddsCaller(s)
      BY <2>3, JobRooms DEF Quiet
  <2>4. CASE AddsOperator(s)
      BY <2>4, JobRooms
  <2> QED  BY <2>1, <2>2, <2>3, <2>4 DEF JobStep
<1>3. \A n \in 1..2 : room'[Leg[n]] \in {room[Leg[n]], "none"}
  <2>1. CASE Asks(s) \/ Stops(s) \/ Claims(s) \/ ClaimRefused(s) \/ OperatorRefused(s) \/ Opens(s)
      BY <2>1, JobRooms DEF Quiet
  <2>2. CASE Ejects(s)
      BY <2>2, JobRooms, Names
  <2>3. CASE AddsCaller(s)
      BY <2>3, JobRooms, Names, Apart DEF Quiet
  <2>4. CASE AddsOperator(s)
      BY <2>4, JobRooms, Names, Apart
  <2> QED  BY <2>1, <2>2, <2>3, <2>4 DEF JobStep
<1>4. Offline'
    BY <1>2 DEF Offline
<1>5. LegsRoom'
    BY <1>1, <1>3 DEF LegsRoom
<1> QED  BY <1>4, <1>5

(* Before the claim it moves nobody at all. *)
LEMMA JobsKeepTalking ==
    ASSUME TypeInv, ClaimInv, TalkingTogether, NEW s \in Supervisors, JobStep(s) \/ Asks(s)
    PROVE  TalkingTogether'
<1> SUFFICES ASSUME owner' = NoOne
             PROVE  TalkingTogether'
    BY DEF TalkingTogether
<1>1. ~Claims(s) /\ owner = NoOne /\ UNCHANGED <<engine, session, flow>>
    BY JobFrame, Apart
<1>2. job[s].at \notin Winning
    BY <1>1, Apart DEF ClaimInv, OwnersJob
<1>3. Quiet
    BY <1>1, <1>2, JobMoves, JobRooms DEF JobStep, Winning
<1> QED  BY <1>1, <1>3 DEF TalkingTogether, Quiet, Retell, Up

(* It brings no bridge of the flow's back. *)
LEMMA JobsKeepOldBridge ==
    ASSUME TypeInv, ClaimInv, OldBridgeGone, NEW s \in Supervisors, JobStep(s) \/ Asks(s)
    PROVE  OldBridgeGone'
<1>1. UNCHANGED <<engine, session, flow>>
    BY JobFrame
<1>2. bridges' \subseteq bridges \union {"own"}
  <2>1. CASE AddsCaller(s)
      BY <2>1, JobRooms, JobMoves DEF TypeInv, OwnBridge, Quiet
  <2>2. CASE ~AddsCaller(s)
      BY <2>2, JobRooms DEF JobStep, Quiet
  <2> QED  BY <2>1, <2>2
<1>3. CASE Claims(s)
  <2>1. owner = NoOne /\ owner' = s
      BY <1>3, JobFrame
  <2> QED  BY <1>1, <1>2, <2>1, Apart DEF OldBridgeGone
<1>4. CASE ~Claims(s)
    BY <1>1, <1>2, <1>4, JobFrame, Apart DEF OldBridgeGone
<1> QED  BY <1>3, <1>4

(* A take-over that waits or is refused moves nobody. *)
LEMMA WaitingKeepsProgress ==
    ASSUME TypeInv, ClaimInv, Progress, NEW s \in Supervisors,
           Asks(s) \/ Stops(s) \/ ClaimRefused(s)
    PROVE  Progress'
<1>1. /\ UNCHANGED <<engine, session, flow, known, owner, seized>>
      /\ \A p \in Supervisors \ {s} : job'[p] = job[p]
      /\ faults' = 0 => faults = 0
    BY JobFrame, JobMoves DEF JobStep
<1>2. Quiet
    BY JobRooms
<1>3. job'[s].at \in {"queued", "claim", "refused"}
    BY JobMoves
<1> USE <1>1, <1>2, <1>3 DEF Progress, Quiet
<1>4. Ejected'
    BY DEF Ejected
<1>5. OwenAgentGone'
    BY DEF OwenAgentGone, Retell
<1>6. Underway'
    BY DEF Underway, Retell, Up, Moved
<1>7. HandsOver'
    BY DEF HandsOver, HandedOver, Retell, Up, Together
<1> QED  BY <1>4, <1>5, <1>6, <1>7

(* The claim finds the caller in the bridge of the conversation. *)
LEMMA ClaimingKeepsProgress ==
    ASSUME TypeInv, ClaimInv, TalkingTogether, NEW s \in Supervisors, Claims(s)
    PROVE  Progress'
<1>1. /\ UNCHANGED <<engine, session, flow>>
      /\ owner = NoOne /\ owner' = s /\ seized' = StandingDown
      /\ \A p \in Supervisors \ {s} : job'[p] = job[p]
    BY JobFrame DEF JobStep
<1>2. job'[s].at = "eject" /\ Quiet
    BY JobMoves, JobRooms
<1>3. \A p \in Supervisors \ {s} : job'[p].at \notin Winning
    BY <1>1, Apart DEF ClaimInv, OwnersJob
<1>4. seized' /\ Retell => /\ Talk[session] \in bridges
                           /\ Up(Caller) => room[Caller] = Talk[session]
    BY <1>1 DEF TalkingTogether, StandingDown
<1>5. Ejected' /\ OwenAgentGone' /\ HandsOver'
    BY <1>2, <1>3 DEF Ejected, OwenAgentGone, HandsOver, HandedOver, Winning
<1>6. Underway'
    BY <1>1, <1>2, <1>3, <1>4 DEF Underway, Winning, Quiet, Up, Retell
<1> QED  BY <1>5, <1>6 DEF Progress

(* The leg a request knows of is an agent's. *)
LEMMA LegOf ==
    ASSUME TypeInv, NEW s \in Supervisors
    PROVE  /\ job[s].leg \in {Leg[1], Leg[2], "none"}
           /\ Caller \notin ToEject(s)
           /\ job[s].leg # "none" => job[s].leg \in Channels /\ job[s].leg \in ToEject(s)
<1>1. job[s].leg \in {Leg[1], Leg[2], "none"}
    BY DEF TypeInv, TypeOK, Jobs
<1> QED  BY <1>1, Names, Apart DEF ToEject, Caller

(* Each step of the winner achieves its part. *)
LEMMA WinningKeepsProgress ==
    ASSUME TypeInv, ClaimInv, RoomInv, NEW s \in Supervisors,
           Ejects(s) \/ Opens(s) \/ AddsCaller(s) \/ AddsOperator(s) \/ OperatorRefused(s)
    PROVE  Progress'
<1>1. /\ UNCHANGED <<engine, session, flow>>
      /\ UNCHANGED <<owner, seized>>
      /\ \A p \in Supervisors \ {s} : job'[p] = job[p]
      /\ faults' = 0 => faults = 0
    BY JobFrame, JobMoves DEF JobStep
<1>2. owner = s /\ \A p \in Supervisors \ {s} : job[p].at \notin Winning
    BY JobMoves DEF ClaimInv, OwnersJob, Winning
<1>3. \A p \in Supervisors \ {s} : job'[p].at \notin Winning
    BY <1>1, <1>2
<1>4. flow # "message" \/ ~seized
    BY DEF ClaimInv, StandsDown
<1> USE DEF Winning, Up
<1>5. Ejected'
  <2> SUFFICES ASSUME seized, faults = 0, faults' = 0, job'[s].at \in {"open", "add", "join"},
                      job'[s].leg # "none"
               PROVE  room'[job'[s].leg] = "none"
      BY <1>1, <1>3 DEF Ejected
  <2>1. CASE Ejects(s)
      BY <2>1, JobMoves, JobRooms, LegOf DEF Same
  <2>2. CASE Opens(s)
      BY <2>2, JobMoves, JobRooms, LegOf DEF RoomInv, Progress, Ejected, Cleared
  <2>3. CASE AddsCaller(s)
      BY <2>3, JobMoves, JobRooms, LegOf, Apart DEF RoomInv, Progress, Ejected, Same, Quiet
  <2>4. CASE AddsOperator(s) \/ OperatorRefused(s)
      BY <2>4, JobMoves
  <2> QED  BY <2>1, <2>2, <2>3, <2>4
<1>6. OwenAgentGone'
  <2> SUFFICES ASSUME ~Retell, seized, faults = 0, job'[s].at = "ok"
               PROVE  room'[Leg[1]] = "none"
      BY <1>1, <1>3 DEF OwenAgentGone, Retell
  <2>1. AddsOperator(s) /\ job[s].at = "join"
      BY JobMoves
  <2>2. job[s].leg = Leg[1] /\ Leg[1] # "none"
      BY <2>1 DEF RoomInv, Progress, Asked, Leg
  <2>3. room[Leg[1]] = "none"
      BY <2>1, <2>2 DEF RoomInv, Progress, Ejected
  <2> QED  BY <2>1, <2>3, JobRooms, Names, Apart
<1>7. Underway'
  <2> SUFFICES ASSUME seized, Retell
               PROVE  /\ Talk[session] \in bridges'
                      /\ job'[s].at \in {"eject", "open", "add"} /\ line'[Caller] = "up" =>
                            room'[Caller] = Talk[session]
                      /\ job'[s].at = "join" /\ line'[Caller] = "up" /\ faults' = 0 =>
                           room'[Caller] = (IF job'[s].bridge = "own" THEN "own" ELSE Talk[session])
      BY <1>1, <1>3 DEF Underway, Retell, Moved
  <2>1. Talk[session] \in bridges'
      BY JobRooms DEF Quiet, RoomInv, Progress, Underway
  <2>2. CASE Ejects(s)
    <3>1. room'[Caller] = room[Caller] /\ line'[Caller] = line[Caller]
        BY <2>2, JobRooms, LegOf, Names
    <3>2. job[s].bridge # "own"
        BY <2>2, JobMoves DEF RoomInv, Progress, Asked
    <3> QED  BY <2>1, <2>2, <3>1, <3>2, JobMoves DEF Same, RoomInv, Progress, Underway
  <2>3. CASE Opens(s)
      BY <2>1, <2>3, JobMoves, JobRooms DEF RoomInv, Progress, Underway
  <2>4. CASE AddsCaller(s)
    <3>1. job[s].bridge = "own" /\ job'[s].at = "join" /\ job'[s].bridge = "own"
        BY <2>4, JobMoves DEF Same, TypeInv, OwnBridge
    <3> QED  BY <2>1, <2>4, <3>1, <1>4, JobRooms, Names DEF Quiet
  <2>5. CASE AddsOperator(s) \/ OperatorRefused(s)
      BY <2>1, <2>5, JobMoves
  <2> QED  BY <2>1, <2>2, <2>3, <2>4, <2>5
<1>8. HandsOver'
  <2> SUFFICES ASSUME job'[s].at = "ok", seized, faults = 0
               PROVE  /\ \A n \in 1..2 : room'[Caller] = room'[Leg[n]] => room'[Caller] = "none"
                      /\ Retell /\ line'[Caller] = "up" => room'[Caller] = room'[s] /\ room'[Caller] # "none"
      BY <1>1, <1>3 DEF HandsOver, HandedOver, Retell, Together
  <2>1. AddsOperator(s) /\ job[s].at = "join"
      BY JobMoves
  <2>2. /\ room'[Caller] = room[Caller] /\ line'[Caller] = line[Caller]
        /\ room'[s] = job[s].bridge /\ job[s].bridge \in bridges
        /\ \A n \in 1..2 : room'[Leg[n]] = room[Leg[n]]
      BY <2>1, JobRooms, Names, Apart
  <2>3. /\ job[s].bridge \notin {"none", "desk"}
        /\ \A n \in 1..2 : job[s].bridge = Talk[n] => job[s].leg = Leg[n]
        /\ job[s].bridge \in {"own", Talk[1], Talk[2]}
    <3>1. job[s].bridge \in {"own", "desk", "none", Talk[1], Talk[2]}
        BY DEF TypeInv, TypeOK, Jobs, Bridges
    <3> QED  BY <3>1, <2>1 DEF RoomInv, Progress, Asked
  <2>4. ~Up(Caller) => room[Caller] = "none"
      BY Names DEF RoomInv, Progress, Offline
  <2>5. \A n \in 1..2 : room[Leg[n]] \in {"none", Talk[n]} /\ (n > session => room[Leg[n]] = "none")
      BY DEF RoomInv, Progress, LegsRoom
  <2>6. job[s].leg # "none" => room[job[s].leg] = "none"
      BY <2>1 DEF RoomInv, Progress, Ejected
  <2>7. CASE ~Retell
    <3>1. job[s].leg = Leg[1] /\ Leg[1] # "none"
        BY <2>1, <2>7 DEF RoomInv, Progress, Asked, Leg
    <3>2. session = 1
        BY <2>7 DEF TypeInv, SecondSession
    <3> QED  BY <2>2, <2>5, <2>6, <2>7, <3>1, <3>2
  <2>8. CASE Retell
    <3>1. Up(Caller) => room[Caller] = IF job[s].bridge = "own" THEN "own" ELSE Talk[session]
        BY <2>1, <2>8 DEF RoomInv, Progress, Underway, Moved
    <3>2. session = 2 => Talk[1] \notin bridges
        BY DEF RoomInv, Progress, OldBridgeGone
    <3>3. job[s].bridge # "own" => job[s].bridge = Talk[session] /\ job[s].leg = Leg[session]
      <4>1. job[s].bridge = Talk[2] => session = 2
          BY Sessions DEF RoomInv, Progress, Asked
      <4> QED  BY <2>2, <2>3, <3>2, <4>1, Sessions
    <3>4. Leg[1] # "none" /\ Leg[2] # "none"
        BY DEF Leg
    <3> QED  BY <2>2, <2>3, <2>4, <2>5, <2>6, <3>1, <3>3, <3>4, Sessions, Apart
  <2> QED  BY <2>7, <2>8
<1> QED  BY <1>5, <1>6, <1>7, <1>8 DEF Progress

(* The flow does not belie what a request was given. *)
LEMMA FlowKeepsAsked ==
    ASSUME TypeInv, Asked, FlowStep
    PROVE  Asked'
<1>1. UNCHANGED <<engine, job>>
    BY FlowFrame
<1>2. \A n \in 1..2 : n =< session => n =< session'
    BY FlowFrame, Sessions
<1> QED  BY <1>1, <1>2 DEF Asked, Retell

(* The flow undoes nothing of a take-over: of a seized call it only lets go. *)
LEMMA FlowKeepsProgress ==
    ASSUME TypeInv, ClaimInv, Offline, Progress, FlowStep
    PROVE  Progress'
<1>1. UNCHANGED <<engine, job, owner>> /\ (seized' => seized)
    BY FlowFrame
<1>2. CASE ~seized'
    BY <1>1, <1>2 DEF Progress, Ejected, OwenAgentGone, Underway, HandsOver, HandedOver
<1>3. CASE seized'
  <2>1. /\ UNCHANGED session
        /\ faults' = 0 => faults = 0
        /\ Retell => UNCHANGED <<line, room, bridges>>
        /\ \A c \in Channels : /\ room'[c] \in {room[c], "none"}
                               /\ line'[c] = "up" => line[c] = "up"
      BY <1>1, <1>3, SeizedFlow DEF asterisk
  <2> USE <1>1, <1>3, <2>1, Names DEF Progress
  <2>2. Ejected'
    <3> SUFFICES ASSUME NEW p \in Supervisors, faults = 0, job[p].leg # "none",
                        job[p].at \in {"open", "add", "join"}
                 PROVE  room'[job[p].leg] = "none"
        BY DEF Ejected
    <3>1. job[p].leg \in Channels
        BY LegOf
    <3>2. room[job[p].leg] = "none"
        BY DEF Ejected
    <3> QED  BY <3>1, <3>2
  <2>3. OwenAgentGone'
      BY DEF OwenAgentGone, Retell
  <2>4. Underway'
      BY DEF Underway, Retell, Up, Moved
  <2>5. HandsOver'
    <3>1. CASE Retell
        BY <3>1 DEF HandsOver, HandedOver, Retell, Up, Together
    <3>2. CASE ~Retell
        BY <3>2 DEF HandsOver, HandedOver, Retell, Up, Together
    <3> QED  BY <3>1, <3>2
  <2> QED  BY <2>2, <2>3, <2>4, <2>5
<1> QED  BY <1>2, <1>3

(* A party who hangs up undoes nothing either. *)
LEMMA LeavingKeepsRooms ==
    ASSUME TypeInv, RoomInv, NEW c \in Channels, PartyLeaves(c)
    PROVE  RoomInv'
<1>1. /\ UNCHANGED <<bridges, engine, session, known, flow, port, job, owner, seized,
                     trespass, faults>>
      /\ Drops({c})
    BY DEF PartyLeaves, agent, task, ownership
<1>2. \A d \in Channels :
          /\ room'[d] = IF d = c THEN "none" ELSE room[d]
          /\ line'[d] = IF d = c /\ Up(d) THEN "gone" ELSE line[d]
    BY <1>1, DropsEffect
<1>3. Asked'
    BY <1>1 DEF RoomInv, Progress, Asked, Retell
<1>4. Offline'
    BY <1>2 DEF RoomInv, Progress, Offline, Up
<1>5. LegsRoom'
    BY <1>1, <1>2, Names DEF RoomInv, Progress, LegsRoom
<1>6. TalkingTogether'
    BY <1>1, <1>2, Names DEF RoomInv, Progress, TalkingTogether, Up, Retell
<1>7. OldBridgeGone'
    BY <1>1 DEF RoomInv, Progress, OldBridgeGone
<1>8. Ejected'
  <2> SUFFICES ASSUME NEW p \in Supervisors, seized, faults = 0, job[p].leg # "none",
                      job[p].at \in {"open", "add", "join"}
               PROVE  room'[job[p].leg] = "none"
      BY <1>1 DEF Ejected
  <2>1. job[p].leg \in Channels
      BY LegOf
  <2>2. room[job[p].leg] = "none"
      BY DEF RoomInv, Progress, Ejected
  <2> QED  BY <1>2, <2>1, <2>2
<1>9. OwenAgentGone'
    BY <1>1, <1>2, Names DEF RoomInv, Progress, OwenAgentGone, Retell
<1>10. Underway'
    BY <1>1, <1>2, Names DEF RoomInv, Progress, Underway, Retell, Up, Moved
<1>11. HandsOver'
    BY <1>1, <1>2, Names DEF RoomInv, Progress, HandsOver, HandedOver, Retell, Up, Together
<1> QED
    BY <1>3, <1>4, <1>5, <1>6, <1>7, <1>8, <1>9, <1>10, <1>11 DEF RoomInv, Progress

(* A step that changes nothing keeps the rooms. *)
LEMMA StutteringKeepsRooms ==
    ASSUME RoomInv, UNCHANGED vars
    PROVE  RoomInv'
<1>1. UNCHANGED <<line, room, bridges, engine, session, known, flow, port, job, owner, seized,
                  trespass, faults>>
    BY DEF vars, asterisk, agent, task, ownership
<1> QED
    BY <1>1 DEF RoomInv, Progress, Asked, Offline, LegsRoom, TalkingTogether, OldBridgeGone,
        Ejected,
                OwenAgentGone, Underway, HandsOver, HandedOver, Together, Moved, Retell, Up

(* At first nobody is in a bridge. *)
LEMMA StartsWithNobodyMoved ==
    Init => RoomInv
<1> SUFFICES ASSUME Init PROVE RoomInv
    OBVIOUS
<1>1. \A c \in Channels : room[c] = "none"
    BY DEF Init
<1>2. \A s \in Supervisors : job[s] = NoJob
    BY DEF Init
<1>3. /\ session = 1 /\ owner = NoOne /\ ~seized /\ flow = "connect" /\ bridges = {}
    BY DEF Init
<1>4. Asked
  <2>1. \A s \in Supervisors : job[s].at = "idle" /\ job[s].bridge = "none"
    <3>1. NoJob.at = "idle" /\ NoJob.bridge = "none"
        BY DEF NoJob
    <3> QED  BY <1>2, <3>1
  <2> QED  BY <2>1, Apart DEF Asked
<1>5. Offline /\ LegsRoom /\ TalkingTogether /\ OldBridgeGone
    BY <1>1, <1>3, Names DEF Offline, LegsRoom, TalkingTogether, OldBridgeGone, Dialling
<1>6. Ejected /\ OwenAgentGone /\ Underway /\ HandsOver
    BY <1>3 DEF Ejected, OwenAgentGone, Underway, HandsOver, HandedOver
<1> QED  BY <1>4, <1>5, <1>6 DEF RoomInv, Progress

(* The three layers hold in every state. *)
THEOREM RoomsHold == Spec => [](TypeInv /\ ClaimInv /\ RoomInv)
<1>1. Init => RoomInv
    BY StartsWithNobodyMoved
<1>2. TypeInv /\ ClaimInv /\ RoomInv /\ [Next]_vars => RoomInv'
  <2> SUFFICES ASSUME TypeInv, ClaimInv, RoomInv, [Next]_vars
               PROVE  RoomInv'
      OBVIOUS
  <2>0. /\ Asked /\ Offline /\ LegsRoom /\ TalkingTogether /\ OldBridgeGone /\ Progress
        /\ Asked' /\ Offline' /\ LegsRoom' /\ TalkingTogether' /\ OldBridgeGone' /\ Progress' => RoomInv'
      BY DEF RoomInv, Progress
  <2>1. CASE FlowStep
      BY <2>0, <2>1, FlowKeepsAsked, FlowKeepsOffline, FlowKeepsLegs, FlowKeepsTalking,
         FlowKeepsOldBridge, FlowKeepsProgress
  <2>2. CASE \E s \in Supervisors : JobStep(s) \/ Asks(s)
    <3>1. PICK s \in Supervisors : JobStep(s) \/ Asks(s)
        BY <2>2
    <3>2. Asked' /\ Offline' /\ LegsRoom' /\ TalkingTogether' /\ OldBridgeGone'
        BY <2>0, <3>1, JobsKeepAsked, JobsKeepPlaces, JobsKeepTalking, JobsKeepOldBridge
    <3>3. Progress'
        BY <2>0, <3>1, WaitingKeepsProgress, ClaimingKeepsProgress,
            WinningKeepsProgress DEF JobStep
    <3> QED  BY <2>0, <3>2, <3>3
  <2>3. CASE \E c \in Channels : PartyLeaves(c)
      BY <2>3, LeavingKeepsRooms
  <2>4. CASE UNCHANGED vars
      BY <2>4, StutteringKeepsRooms
  <2> QED  BY <2>1, <2>2, <2>3, <2>4 DEF Next
<1> QED  BY <1>1, <1>2, ClaimsHold, PTL DEF Spec

(* One supervisor has the caller: the take-over of a call in conversation whose
   session has not settled on its port (telephony/monitor.py, agents/retell.py) has
   parted the agent from the caller when it reports success, and no path of the flow
   touches the caller after it; the loser of two never gets in; and with Retell the
   flow hangs no claimed caller up, in the grace of an exit and the transfer either. *)
THEOREM OneSupervisorPrevails == Spec => []SupervisorPrevails
<1>1. TypeInv /\ ClaimInv /\ RoomInv => SupervisorPrevails
  <2> SUFFICES ASSUME TypeInv, ClaimInv, RoomInv
               PROVE  SupervisorPrevails
      OBVIOUS
  <2>1. HumanHasCaller
      BY DEF TypeInv, RoomInv, Progress, HandsOver, HumanHasCaller
  <2>2. OneOwner
      BY DEF ClaimInv, OwnersJob, OwnersRoom, OneOwner, Together, Winning
  <2>3. StandsDown
      BY DEF ClaimInv
  <2>4. HungUpByNobody
      BY DEF ClaimInv, Untouched
  <2> QED  BY <2>1, <2>2, <2>3, <2>4 DEF SupervisorPrevails, SeizedByOne
<1> QED  BY <1>1, RoomsHold, PTL

(***************************************************************************)
(* Who answers: NumberAgents                                               *)
(***************************************************************************)

(* The flow the CRM builds for a number is not one the owner built. *)
FlowsDiffer == Nobody \notin HandBuilt \union Built /\ HandBuilt \intersect Built = {}

Made == HandBuilt \union Built
Assignment == [at : {"assign"}, flow : Built, read : Flow, previous : Flow, new : BOOLEAN]
Removal == [at : {"unassign"}, flow : Made, read : Flow, restored : Flow, lost : BOOLEAN]
Version == [crm : Nat, body : {"good", "other", "bad"}]
Push == [at : {"publish"}, row : Version, read : Nat, index : Nat, append : BOOLEAN,
         activate : BOOLEAN, tries : {1, 2}]
Over == {Idle, [at |-> "refused"]}

RequestsTyped ==
    /\ NumbersTyped
    /\ rows \in Seq(Version) /\ overtaken \subseteq Requests /\ raced \in BOOLEAN
    /\ request \in [Requests -> Over \union Assignment \union Removal \union Push]
    /\ listed \in Statuses /\ poll.at \in {"idle", "fetched"}
    /\ poll.at = "fetched" => poll.record \in Statuses
    /\ memory.kept => memory.flow \in Built
    /\ ~memory.kept => memory = NoMemory

(* A flow somebody remembers has been made; a flow a request is about to make has not. *)
Known(f) == f = Nobody \/ flows[f] # "none"
NamesInv ==
    /\ Known(tn.flow) /\ Known(memory.flow) /\ Known(memory.previous) /\ Known(own)
    /\ \A r \in Requests : request[r].at = "unassign" =>
          Known(request[r].read) /\ Known(request[r].restored)
    /\ \A r \in Requests : request[r].at = "assign" =>
          /\ Known(request[r].read) /\ Known(request[r].previous)
          /\ request[r].new <=> flows[request[r].flow] = "none"
          /\ request[r].new => \A s \in Requests \ {r} :
                request[s].at = "assign" => request[s].flow # request[r].flow

(* The owner's flow is where the property looks for it, whatever runs now. *)
OwnInv ==
    /\ ~memory.kept => tn.flow = own
    /\ memory.kept =>
          /\ memory.previous # memory.flow
          /\ tn.flow \in {memory.flow, Nobody} => memory.previous = own
          /\ tn.flow \notin {memory.flow, Nobody} => tn.flow = own

(* What a request that no commit overtook has decided is what it would decide now. *)
Again == memory.kept /\ flows[memory.flow] = "kept"
Current(q) ==
    /\ q.read = tn.flow
    /\ q.at = "assign" => /\ q.previous = PreviousFlow
                          /\ q.new = ~Again /\ (Again => q.flow = memory.flow)
    /\ q.at = "unassign" =>
          /\ memory.kept /\ q.flow = memory.flow
          /\ q.restored = IF tn.flow = memory.flow THEN Restored(memory.previous) ELSE tn.flow
          /\ q.lost = (tn.flow = memory.flow /\ ~Runs(own))

(* What a request that one commit overtook has decided still leads to the owner's flow. *)
Late(q) ==
    /\ q.at = "assign" => /\ q.previous = own
                          /\ ~q.new => tn.flow = own /\ q.flow # own /\ q.read = q.flow
    /\ q.at = "unassign" /\ q.read = q.flow /\ ~q.lost => q.restored = own /\ own # q.read

OwnersInv == ~raced =>
    /\ OwnInv
    /\ \A r \in Pending : IF r \in overtaken THEN Late(request[r]) ELSE Current(request[r])

(* A request to publish will append its row behind rows of other versions, or has
   found it. *)
Planned(q) ==
    /\ q.row.crm # 0 /\ q.row.body # "bad"
    /\ q.append => /\ q.index \in 1..Len(rows) + 1
                   /\ \A i \in 1..q.index - 1 : rows[i].crm # q.row.crm
    /\ ~q.append => q.index \in 1..Len(rows) /\ rows[q.index] = q.row
VersionsInv ==
    /\ PublishedOnce
    /\ \A i \in 1..Len(rows) : rows[i].crm # 0 => rows[i].body # "bad"
    /\ \A r \in Requests : request[r].at = "publish" => Planned(request[r])

NumbersInv == RequestsTyped /\ NamesInv /\ OwnersInv /\ VersionsInv

(* A request that is served is of the kind its place says. *)
LEMMA RequestIs ==
    ASSUME RequestsTyped, NEW r \in Requests
    PROVE  /\ request[r].at = "assign" => request[r] \in Assignment
           /\ request[r].at = "unassign" => request[r] \in Removal
           /\ request[r].at = "publish" => request[r] \in Push
<1> QED  BY DEF RequestsTyped, Over, Idle, Assignment, Removal, Push

(* A step that ends or begins one request leaves the others as they are. *)
LEMMA OneRequest ==
    ASSUME RequestsTyped, NEW r \in Requests, NEW q, request' = [request EXCEPT ![r] = q]
    PROVE  /\ request'[r] = q
           /\ \A s \in Requests \ {r} : request'[s] = request[s]
           /\ q \in Over \union Assignment \union Removal \union Push =>
                 request' \in [Requests -> Over \union Assignment \union Removal \union Push]
<1> QED  BY DEF RequestsTyped

-----------------------------------------------------------------------------
(* The number. *)

(* A decision is as good as before while the flows, the memory and the owner's choice
   stay. *)
LEMMA StaysDecided ==
    ASSUME UNCHANGED <<flows, memory, own>>, tn'.flow = tn.flow
    PROVE  \A q : (Current(q) => Current(q)') /\ (Late(q) => Late(q)')
<1> QED  BY DEF Current, Late, PreviousFlow, HandBuiltNow, Again, Restored, Runs

(* Nor does a new decision disturb the others. *)
LEMMA OneMore ==
    ASSUME RequestsTyped, OwnersInv, NEW r \in Requests, NEW q, request'[r] = q,
           UNCHANGED <<flows, memory, own, raced, tn>>, overtaken' = overtaken \ {r},
           \A s \in Requests \ {r} : request'[s] = request[s],
           ~raced => Current(q)'
    PROVE  OwnersInv'
<1> SUFFICES ASSUME ~raced
             PROVE  /\ OwnInv'
                    /\ \A s \in Pending' : IF s \in overtaken' THEN Late(request[s])'
                                           ELSE Current(request[s])'
    BY DEF OwnersInv
<1>1. OwnInv'
    BY DEF OwnersInv, OwnInv
<1>2. \A p : (Current(p) => Current(p)') /\ (Late(p) => Late(p)')
    BY StaysDecided
<1>3. \A s \in Pending' \ {r} : s \in Pending /\ (s \in overtaken' <=> s \in overtaken)
    BY DEF Pending
<1>4. \A s \in Pending' \ {r} : s \in Requests /\ request'[s] = request[s]
    BY DEF Pending
<1>5. ASSUME NEW s \in Pending', s # r
      PROVE  IF s \in overtaken' THEN Late(request[s])' ELSE Current(request[s])'
    <2>1. IF s \in overtaken THEN Late(request[s]) ELSE Current(request[s])
        BY <1>3, <1>5 DEF OwnersInv
    <2> QED  BY <1>2, <1>3, <1>4, <1>5, <2>1
<1> QED  BY <1>1, <1>5

(* A step that leaves flows and the owner's choice alone, and asks nothing new of the
   number, disturbs neither names nor owners. *)
LEMMA QuietKeeps ==
    ASSUME RequestsTyped, NamesInv, OwnersInv,
           UNCHANGED <<flows, memory, own, raced, overtaken>>, tn'.flow = tn.flow,
           \A r \in Requests : request'[r].at \in {"assign", "unassign"} => request'[r] = request[r]
    PROVE  NamesInv' /\ OwnersInv'
<1>1. NamesInv'
    BY DEF NamesInv, Known
<1>2. \A r \in Pending' : r \in Pending /\ request'[r] = request[r]
    BY DEF Pending
<1>3. \A q : (Current(q) => Current(q)') /\ (Late(q) => Late(q)')
    BY StaysDecided
<1>4. OwnersInv'
    BY <1>2, <1>3 DEF OwnersInv, OwnInv
<1> QED  BY <1>1, <1>4

(* What the owner chose is what an assignment will remember. *)
LEMMA PreviousIsOwn ==
    ASSUME RequestsTyped, OwnInv
    PROVE  PreviousFlow = own
<1> QED  BY DEF RequestsTyped, OwnInv, PreviousFlow, HandBuiltNow, NoMemory

(* The assignment never is the owner's own flow. *)
LEMMA OwnIsAnother ==
    ASSUME RequestsTyped, OwnInv, memory.kept
    PROVE  own # memory.flow
<1> QED  BY DEF OwnInv

(* Who commits unraced either was alone or was not overtaken, nor was anybody else. *)
LEMMA OnlyTwo ==
    ASSUME NEW r \in Requests, NEW u, Overtakes(r, u), ~raced'
    PROVE  /\ ~raced /\ (u => r \notin overtaken /\ Pending \ {r} = {})
           /\ r \in overtaken => Pending \ {r} = {}
           /\ \A s \in Pending \ {r} : s \notin overtaken
<1> QED  BY DEF Overtakes, Overlaps

(* Who had read is overtaken, who commits is not. *)
LEMMA Overtaken ==
    ASSUME NEW r \in Requests, NEW u, Overtakes(r, u)
    PROVE  /\ r \notin overtaken'
           /\ \A s \in Pending \ {r} : s \in overtaken'
<1> QED  BY DEF Overtakes

(* At the start the flow that runs is the owner's. *)
LEMMA NumbersStart ==
    ASSUME FlowsDiffer, NumbersInit
    PROVE  NumbersInv
<1>1. /\ tn \in [known : BOOLEAN, ours : BOOLEAN, active : BOOLEAN, media : BOOLEAN,
                 status : Statuses, flow : Flow]
      /\ tn.flow \in {Nobody} \union HandBuilt /\ own = tn.flow
    BY DEF NumbersInit, Statuses, Flow
<1>2. /\ flows = [f \in HandBuilt \cup Built |-> IF f \in HandBuilt THEN "kept" ELSE "none"]
      /\ memory = NoMemory /\ rows = <<[crm |-> 0, body |-> "good"]>> /\ active = 1
      /\ request = [r \in Requests |-> Idle] /\ listed = "Active" /\ poll = Idle
      /\ raced = FALSE /\ overtaken = {}
    BY DEF NumbersInit
<1>3. rows \in Seq(Version) /\ Len(rows) = 1
    BY <1>2 DEF Version
<1>4. NumbersTyped
    BY <1>1, <1>2, <1>3 DEF NumbersTyped, NoMemory, Flow
<1>5. RequestsTyped
    BY <1>2, <1>3, <1>4 DEF RequestsTyped, NoMemory, Idle, Over, Statuses
<1>6. NamesInv
    BY <1>1, <1>2 DEF NamesInv, Known, NoMemory, Idle
<1>7. OwnersInv
    BY <1>1, <1>2 DEF OwnersInv, OwnInv, NoMemory, Pending, Idle
<1>8. VersionsInv
    BY <1>2, <1>3 DEF VersionsInv, PublishedOnce, Idle
<1> QED  BY <1>5, <1>6, <1>7, <1>8 DEF NumbersInv

(* An assignment is decided on what the number and the memory say. *)
LEMMA ReadsAssignKeeps ==
    ASSUME RequestsTyped, NamesInv, OwnersInv, FlowsDiffer,
           NEW r \in Requests, NEW replace \in BOOLEAN, ReadsAssign(r, replace)
    PROVE  RequestsTyped' /\ NamesInv' /\ OwnersInv'
<1>1. PICK f \in Built :
          /\ IF memory.kept /\ flows[memory.flow] = "kept" THEN f = memory.flow
             ELSE /\ flows[f] = "none"
                  /\ \A q \in Requests : request[q].at = "assign" => request[q].flow # f
          /\ request' = [request EXCEPT ![r] =
                [at |-> "assign", flow |-> f, read |-> tn.flow, previous |-> PreviousFlow,
                 new |-> flows[f] = "none"]]
    BY DEF ReadsAssign
<1>0. PICK q : q = [at |-> "assign", flow |-> f, read |-> tn.flow, previous |-> PreviousFlow,
                    new |-> flows[f] = "none"]
    OBVIOUS
<1>2. /\ UNCHANGED <<tn, flows, memory, own, raced, rows, active, listed, poll>>
      /\ overtaken' = overtaken \ {r}
    BY DEF ReadsAssign, Reads, agentVars
<1>3. tn.flow \in Flow /\ PreviousFlow \in Flow /\ (flows[f] = "none") \in BOOLEAN
    BY DEF RequestsTyped, NumbersTyped, PreviousFlow
<1>4. q \in Assignment
    BY <1>0, <1>3 DEF Assignment
<1>5. q.at = "assign" /\ q.flow = f /\ q.read = tn.flow /\ q.previous = PreviousFlow
      /\ q.new = (flows[f] = "none")
    BY <1>0
<1>6. /\ request'[r] = q /\ \A s \in Requests \ {r} : request'[s] = request[s]
      /\ request' \in [Requests -> Over \union Assignment \union Removal \union Push]
    BY <1>0, <1>1, <1>4, OneRequest
<1>7. RequestsTyped'
    BY <1>2, <1>6 DEF RequestsTyped, NumbersTyped
<1>8. NamesInv'
    <2>1. Known(tn.flow) /\ Known(PreviousFlow)
        BY DEF NamesInv, PreviousFlow
    <2>2. \A x : Known(x) = Known(x)'
        BY <1>2 DEF Known
    <2>3. ASSUME NEW s \in Requests, request'[s].at = "assign"
          PROVE  /\ Known(request'[s].read) /\ Known(request'[s].previous)
                 /\ request'[s].new <=> flows[request'[s].flow] = "none"
                 /\ request'[s].new => \A t \in Requests \ {s} :
                       request'[t].at = "assign" => request'[t].flow # request'[s].flow
        <3>1. CASE s = r
            BY <1>1, <1>5, <1>6, <2>1, <3>1
        <3>2. CASE s # r
            <4>1. request'[s] = request[s]
                BY <1>6, <3>2
            <4>2. request[s].new => request[s].flow # f
                <5>1. request[s].new <=> flows[request[s].flow] = "none"
                    BY <2>3, <4>1 DEF NamesInv
                <5> QED  BY <1>1, <2>3, <4>1, <5>1
            <4> QED  BY <1>5, <1>6, <2>3, <4>1, <4>2 DEF NamesInv
        <3> QED  BY <3>1, <3>2
    <2>4. \A s \in Requests : request'[s].at = "unassign" =>
              Known(request'[s].read) /\ Known(request'[s].restored)
        BY <1>5, <1>6 DEF NamesInv
    <2> QED  BY <1>2, <2>2, <2>3, <2>4 DEF NamesInv
<1>9. OwnersInv'
    <2>1. ASSUME ~raced
          PROVE  Current(q)
        <3>1. q.new = ~Again /\ (Again => q.flow = memory.flow)
            BY <1>1, <1>5 DEF Again
        <3> QED  BY <1>5, <3>1 DEF Current
    <2>2. \A p : Current(p) => Current(p)'
        BY <1>2, StaysDecided
    <2> QED  BY <1>2, <1>6, <2>1, <2>2, OneMore
<1> QED  BY <1>7, <1>8, <1>9

(* So is a removal. *)
LEMMA ReadsUnassignKeeps ==
    ASSUME RequestsTyped, NamesInv, OwnersInv, NEW r \in Requests, ReadsUnassign(r)
    PROVE  RequestsTyped' /\ NamesInv' /\ OwnersInv'
<1> DEFINE back == IF tn.flow = memory.flow THEN Restored(memory.previous) ELSE tn.flow
           none == tn.flow = memory.flow /\ ~Runs(own)
<1>0. PICK q : q = [at |-> "unassign", flow |-> memory.flow, read |-> tn.flow,
                    restored |-> back, lost |-> none]
    OBVIOUS
<1>1. memory.kept /\ request' = [request EXCEPT ![r] = q]
    BY <1>0 DEF ReadsUnassign
<1>2. /\ UNCHANGED <<tn, flows, memory, own, raced, rows, active, listed, poll>>
      /\ overtaken' = overtaken \ {r}
    BY DEF ReadsUnassign, Reads, agentVars
<1>3. q.at = "unassign" /\ q.flow = memory.flow /\ q.read = tn.flow /\ q.restored = back
      /\ q.lost = none
    BY <1>0
<1>4. q \in Removal
    <2>1. memory.flow \in Made /\ tn.flow \in Flow /\ back \in Flow
        BY <1>1 DEF RequestsTyped, NumbersTyped, Restored, Made, Flow
    <2>2. none \in BOOLEAN
        OBVIOUS
    <2> HIDE DEF back, none
    <2> QED  BY <1>0, <2>1, <2>2 DEF Removal
<1>5. Known(back)
    BY DEF NamesInv, Restored, Runs, Known
<1>6. Current(q)
    BY <1>1, <1>3 DEF Current
<1> HIDE DEF back, none
<1>7. /\ request'[r] = q /\ \A s \in Requests \ {r} : request'[s] = request[s]
      /\ request' \in [Requests -> Over \union Assignment \union Removal \union Push]
    BY <1>1, <1>4, OneRequest
<1>8. RequestsTyped'
    BY <1>2, <1>7 DEF RequestsTyped, NumbersTyped
<1>9. NamesInv'
    <2>1. ASSUME NEW s \in Requests
          PROVE  s = r \/ (s # r /\ request'[s] = request[s])
        BY <1>7
    <2> QED  BY <1>2, <1>3, <1>5, <1>7, <2>1 DEF NamesInv, Known
<1>10. OwnersInv'
    <2>1. \A p : Current(p) => Current(p)'
        BY <1>2, StaysDecided
    <2> QED  BY <1>2, <1>6, <1>7, <2>1, OneMore
<1> QED  BY <1>8, <1>9, <1>10

(* After a commit that did not race, those that still wait were as current as it was, or
   it was the last. *)
LEMMA WhoWaits ==
    ASSUME OwnersInv, NEW r \in Pending, NEW u, Overtakes(r, u), ~raced'
    PROVE  /\ OwnInv
           /\ \/ r \notin overtaken /\ Current(request[r])
              \/ r \in overtaken /\ Late(request[r]) /\ Pending \ {r} = {} /\ ~u
           /\ u => Pending \ {r} = {}
           /\ \A s \in Pending \ {r} : Current(request[s])
<1>1. /\ ~raced /\ (u => r \notin overtaken /\ Pending \ {r} = {})
      /\ r \in overtaken => Pending \ {r} = {}
      /\ \A s \in Pending \ {r} : s \notin overtaken
    BY OnlyTwo DEF Pending
<1> QED  BY <1>1 DEF OwnersInv

(* An assignment is committed: the number runs the CRM's flow, and the owner's is
   remembered. *)
LEMMA AssignsOwn ==
    ASSUME RequestsTyped, NamesInv, OwnInv, FlowsDiffer, NEW r \in Requests, Assigns(r),
           Current(request[r]) \/ Late(request[r])
    PROVE  OwnInv' /\ UNCHANGED own
<1> DEFINE q == request[r]
<1>1. /\ q.at = "assign" /\ q \in Assignment /\ own' = own
      /\ memory' = [flow |-> q.flow, previous |-> q.previous, kept |-> TRUE]
      /\ tn' = [tn EXCEPT !.flow = Written(@, q.read, q.flow)]
    BY RequestIs DEF Assigns
<1>2. q.flow \in Built /\ q.flow # Nobody /\ q.new \in BOOLEAN
    BY <1>1 DEF Assignment, FlowsDiffer
<1>3. memory'.kept /\ memory'.flow = q.flow /\ memory'.previous = q.previous
    BY <1>1
<1>4. tn'.flow = IF q.flow = q.read THEN tn.flow ELSE q.flow
    BY <1>1 DEF RequestsTyped, NumbersTyped, Written
<1>5. q.new => own # q.flow /\ q.read # q.flow
    BY <1>1, <1>2 DEF NamesInv, Known
<1> HIDE DEF q
<1>6. CASE Current(q)
    <2>1. q.read = tn.flow /\ q.previous = own
        BY <1>1, <1>6, PreviousIsOwn DEF Current
    <2>2. own # q.flow
        <3>1. CASE q.new
            BY <1>5, <3>1
        <3>2. CASE ~q.new
            <4>1. Again /\ q.flow = memory.flow
                BY <1>1, <1>6, <3>2 DEF Current
            <4> QED  BY <4>1, OwnIsAnother DEF Again
        <3> QED  BY <1>2, <3>1, <3>2
    <2> QED  BY <1>1, <1>2, <1>3, <1>4, <2>1, <2>2 DEF OwnInv
<1>7. CASE Late(q)
    <2>1. /\ q.previous = own
          /\ ~q.new => tn.flow = own /\ q.flow # own /\ q.read = q.flow
        BY <1>1, <1>7 DEF Late
    <2> QED  BY <1>1, <1>2, <1>3, <1>4, <1>5, <2>1 DEF OwnInv
<1> QED  BY <1>1, <1>6, <1>7 DEF q

(* What overlapped it will remember, or restore, the owner's flow as well. *)
LEMMA AssignsOthers ==
    ASSUME RequestsTyped, NamesInv, OwnInv, FlowsDiffer, NEW r \in Requests, Assigns(r),
           Current(request[r]), NEW s \in Pending', s # r, Current(request[s])
    PROVE  Late(request[s])'
<1> DEFINE q == request[r]
           p == request[s]
<1>1. /\ q.at = "assign" /\ q \in Assignment /\ own' = own
      /\ request' = [t \in Requests |->
                IF t = r THEN Idle
                ELSE IF request[t].at = "assign" /\ request[t].flow = q.flow
                     THEN [at |-> "refused"] ELSE request[t]]
    BY RequestIs DEF Assigns
<1>2. request'[s] = p /\ (p.at = "assign" => p.flow # q.flow) /\ s \in Requests
    BY <1>1 DEF Pending
<1>3. s \in Requests /\ p.at \in {"assign", "unassign"}
    BY <1>2 DEF Pending
<1>4. p.at = "assign" => p \in Assignment
    BY <1>3, RequestIs
<1> HIDE DEF p, q
<1>5. Current(p) /\ Current(q)
    BY DEF p, q
<1>6. p.at = "assign" => p.new /\ p.previous = own
    <2>1. p.at = "assign" => p.new \in BOOLEAN
        BY <1>4 DEF Assignment
    <2> QED  BY <1>1, <1>2, <1>5, <2>1, PreviousIsOwn DEF Current
<1>7. p.at = "unassign" /\ p.read = p.flow /\ ~p.lost => p.restored = own /\ own # p.read
    <2> SUFFICES ASSUME p.at = "unassign", p.read = p.flow, ~p.lost
                 PROVE  p.restored = own /\ own # p.read
        OBVIOUS
    <2>1. /\ memory.kept /\ p.flow = memory.flow /\ tn.flow = memory.flow
          /\ p.restored = Restored(memory.previous) /\ Runs(own)
        BY <1>5 DEF Current
    <2>2. memory.previous = own
        BY <2>1 DEF OwnInv
    <2> QED  BY <2>1, <2>2, OwnIsAnother DEF Restored
<1>8. request'[s] = p
    BY <1>2
<1> QED  BY <1>1, <1>6, <1>7, <1>8 DEF Late

(* So names, owners and types survive an assignment, *)
LEMMA AssignsKeeps ==
    ASSUME RequestsTyped, NamesInv, OwnersInv, FlowsDiffer, NEW r \in Requests, Assigns(r)
    PROVE  RequestsTyped' /\ NamesInv' /\ OwnersInv'
<1> DEFINE q == request[r]
<1>1. /\ q.at = "assign" /\ q \in Assignment /\ r \in Pending
      /\ q.new \/ ~Deleted(q.flow)
      /\ request' = [t \in Requests |->
                IF t = r THEN Idle
                ELSE IF request[t].at = "assign" /\ request[t].flow = q.flow
                     THEN [at |-> "refused"] ELSE request[t]]
      /\ flows' = IF q.new THEN [flows EXCEPT ![q.flow] = "kept"] ELSE flows
      /\ tn' = [tn EXCEPT !.flow = Written(@, q.read, q.flow)]
      /\ memory' = [flow |-> q.flow, previous |-> q.previous, kept |-> TRUE]
      /\ Overtakes(r, FALSE)
      /\ UNCHANGED <<rows, active, listed, poll, own>>
    BY RequestIs DEF Assigns, Pending, agentVars
<1>2. q.flow \in Built /\ q.read \in Flow /\ q.previous \in Flow /\ q.new \in BOOLEAN
    BY <1>1 DEF Assignment
<1>3. \A t \in Requests : t # r => request'[t] = request[t] \/ request'[t].at = "refused"
    BY <1>1
<1>4. request'[r].at = "idle"
    BY <1>1 DEF Idle
<1> HIDE DEF q
<1>5. RequestsTyped'
    <2>1. request' \in [Requests -> Over \union Assignment \union Removal \union Push]
        <3>1. Idle \in Over /\ [at |-> "refused"] \in Over
            BY DEF Over
        <3>2. \A t \in Requests : request[t] \in Over \union Assignment \union Removal \union Push
            BY DEF RequestsTyped
        <3> QED  BY <1>1, <3>1, <3>2, Zenon
    <2>2. Written(tn.flow, q.read, q.flow) \in Flow /\ tn.flow \in Flow
        BY <1>2 DEF Written, Flow, RequestsTyped, NumbersTyped
    <2>3. tn' \in [known : BOOLEAN, ours : BOOLEAN, active : BOOLEAN, media : BOOLEAN,
                   status : Statuses, flow : Flow]
        BY <1>1, <2>2 DEF RequestsTyped, NumbersTyped
    <2>4. memory' \in [flow : Flow, previous : Flow, kept : BOOLEAN]
          /\ memory'.kept /\ memory'.flow \in Built
        BY <1>1, <1>2 DEF Flow
    <2>5. flows' \in [HandBuilt \cup Built -> {"none", "kept", "archived", "deleted"}]
        BY <1>1, <1>2 DEF RequestsTyped, NumbersTyped
    <2>6. overtaken' \subseteq Requests /\ raced' \in BOOLEAN
        <3>1. overtaken' \subseteq Requests
            BY <1>1 DEF Overtakes, RequestsTyped, Pending
        <3>2. raced' = (raced \/ (FALSE /\ Overlaps(r)) \/ (r \in overtaken /\ Pending \ {r} # {})
                              \/ (Pending \ {r}) \intersect overtaken # {})
            BY <1>1 DEF Overtakes
        <3>3. raced' \in BOOLEAN
            BY <3>2, Zenon
        <3> QED  BY <3>1, <3>3
    <2> QED  BY <1>1, <2>1, <2>3, <2>4, <2>5, <2>6 DEF RequestsTyped, NumbersTyped
<1>6. NamesInv'
    <2>1. /\ Known(tn.flow) /\ Known(own) /\ Known(q.read) /\ Known(q.previous)
          /\ q.new <=> flows[q.flow] = "none"
          /\ q.new => \A s \in Requests \ {r} :
                request[s].at = "assign" => request[s].flow # q.flow
        BY <1>1 DEF NamesInv, q
    <2>2. \A f \in Flow : Known(f) => Known(f)'
        BY <1>1, <1>2 DEF Known, RequestsTyped, NumbersTyped, Flow
    <2>3. flows'[q.flow] # "none"
        BY <1>1, <1>2, <2>1 DEF RequestsTyped, NumbersTyped
    <2>4. tn'.flow \in {tn.flow, q.flow} /\ tn.flow \in Flow /\ own \in Flow
        BY <1>1 DEF RequestsTyped, NumbersTyped, Written
    <2>5. memory'.flow = q.flow /\ memory'.previous = q.previous
        BY <1>1
    <2>6. Known(tn.flow)' /\ Known(own)' /\ Known(memory.flow)' /\ Known(memory.previous)'
        <3>1. \A f \in Flow : Known(f) => f = Nobody \/ flows'[f] # "none"
            BY <2>2 DEF Known
        <3> QED  BY <1>1, <1>2, <2>1, <2>3, <2>4, <2>5, <3>1 DEF Known
    <2>7. ASSUME NEW s \in Requests, request'[s].at = "unassign"
          PROVE  Known(request[s].read)' /\ Known(request[s].restored)'
        <3>1. request'[s] = request[s] /\ request[s] \in Removal
            BY <1>3, <1>4, <2>7, RequestIs
        <3>2. Known(request[s].read) /\ Known(request[s].restored)
              /\ request[s].read \in Flow /\ request[s].restored \in Flow
            BY <2>7, <3>1 DEF NamesInv, Removal
        <3>3. \A f \in Flow : Known(f) => Known(f)'
            BY <2>2
        <3> QED  BY <3>1, <3>2, <3>3
    <2>8. ASSUME NEW s \in Requests, request'[s].at = "assign"
          PROVE  /\ Known(request[s].read)' /\ Known(request[s].previous)'
                 /\ (request[s].new <=> flows[request[s].flow] = "none")'
                 /\ request'[s].new => \A t \in Requests \ {s} :
                       request'[t].at = "assign" => request'[t].flow # request'[s].flow
        <3>1. /\ request'[s] = request[s] /\ request[s] \in Assignment /\ s # r
              /\ request[s].flow # q.flow
            BY <1>1, <1>3, <1>4, <2>8, RequestIs
        <3>2. Known(request[s].read) /\ Known(request[s].previous)
              /\ request[s].read \in Flow /\ request[s].previous \in Flow
            BY <2>8, <3>1 DEF NamesInv, Assignment
        <3>3. Known(request[s].read)' /\ Known(request[s].previous)'
            BY <2>2, <3>1, <3>2
        <3>4. flows'[request[s].flow] = flows[request[s].flow]
            BY <1>1, <3>1 DEF RequestsTyped, NumbersTyped, Assignment
        <3>5. request[s].new => \A t \in Requests \ {s} :
                 request[t].at = "assign" => request[t].flow # request[s].flow
            BY <2>8, <3>1 DEF NamesInv
        <3>6. request[s].new <=> flows[request[s].flow] = "none"
            BY <2>8, <3>1 DEF NamesInv
        <3>7. \A t \in Requests : request'[t].at = "assign" => request'[t] = request[t]
            BY <1>3, <1>4
        <3> QED  BY <3>1, <3>3, <3>4, <3>5, <3>6, <3>7
    <2> QED  BY <2>6, <2>7, <2>8 DEF NamesInv
<1>7. OwnersInv'
    <2> SUFFICES ASSUME ~raced'
                 PROVE  /\ OwnInv'
                        /\ \A s \in Pending' : IF s \in overtaken' THEN Late(request[s])'
                                               ELSE Current(request[s])'
        BY DEF OwnersInv
    <2>1. /\ OwnInv
          /\ \/ r \notin overtaken /\ Current(request[r])
             \/ r \in overtaken /\ Late(request[r]) /\ Pending \ {r} = {}
          /\ \A s \in Pending \ {r} : Current(request[s])
        BY <1>1, WhoWaits
    <2>2. OwnInv'
        BY <2>1, AssignsOwn
    <2>3. ASSUME NEW s \in Pending'
          PROVE  s \in overtaken' /\ Late(request[s])'
        <3>1. s \in Pending \ {r}
            BY <1>3, <1>4, <2>3 DEF Pending
        <3>2. s \in overtaken'
            BY <1>1, <3>1, Overtaken
        <3>3. Current(request[r]) /\ Current(request[s])
            BY <2>1, <3>1
        <3> QED  BY <2>1, <2>3, <3>1, <3>2, <3>3, AssignsOthers
    <2> QED  BY <2>2, <2>3
<1> QED  BY <1>5, <1>6, <1>7

(* A flow to re-version was deleted meanwhile: the request is refused. *)
LEMMA AssignFailsKeeps ==
    ASSUME RequestsTyped, NamesInv, OwnersInv, NEW r \in Requests, AssignFails(r)
    PROVE  RequestsTyped' /\ NamesInv' /\ OwnersInv'
<1>1. /\ request' = [request EXCEPT ![r] = [at |-> "refused"]]
      /\ UNCHANGED <<tn, flows, memory, own, raced, overtaken, rows, active, listed, poll>>
    BY DEF AssignFails, tnVars, agentVars
<1>2. /\ request'[r] = [at |-> "refused"] /\ \A s \in Requests \ {r} : request'[s] = request[s]
      /\ request' \in [Requests -> Over \union Assignment \union Removal \union Push]
    BY <1>1, OneRequest DEF Over
<1>3. RequestsTyped'
    BY <1>1, <1>2 DEF RequestsTyped, NumbersTyped
<1>4. \A s \in Requests : request'[s].at \in {"assign", "unassign"} => request'[s] = request[s]
    BY <1>2
<1> QED  BY <1>1, <1>3, <1>4, QuietKeeps

(* A removal is committed: the number runs the owner's flow again. *)
LEMMA UnassignsOwn ==
    ASSUME RequestsTyped, OwnInv, NEW r \in Requests, Unassigns(r),
           \/ Current(request[r])
           \/ Late(request[r]) /\ request[r].read = request[r].flow /\ ~request[r].lost
    PROVE  OwnInv'
<1> DEFINE q == request[r]
<1>1. q.at = "unassign" /\ q \in Removal
    BY RequestIs DEF Unassigns
<1>2. \/ /\ Deleted(q.restored) /\ q.read = q.flow
         /\ UNCHANGED <<tn, memory, own>>
      \/ /\ tn' = [tn EXCEPT !.flow = Written(@, q.read, q.restored)]
         /\ memory' = NoMemory
         /\ own' = IF q.read # q.flow THEN q.read ELSE IF q.lost THEN Nobody ELSE own
    BY DEF Unassigns
<1>3. q.lost \in BOOLEAN
    BY <1>1 DEF Removal
<1> HIDE DEF q
<1>4. CASE UNCHANGED <<tn, memory, own>>
    BY <1>4 DEF OwnInv
<1>5. CASE /\ tn' = [tn EXCEPT !.flow = Written(@, q.read, q.restored)]
           /\ memory' = NoMemory
           /\ own' = IF q.read # q.flow THEN q.read ELSE IF q.lost THEN Nobody ELSE own
    <2>1. tn'.flow = IF q.restored = q.read THEN tn.flow ELSE q.restored
        BY <1>5 DEF RequestsTyped, NumbersTyped, Written
    <2>2. ~memory'.kept
        BY <1>5 DEF NoMemory
    <2>3. CASE Current(q)
        <3>1. /\ q.read = tn.flow /\ memory.kept /\ q.flow = memory.flow
              /\ q.restored = IF tn.flow = memory.flow THEN Restored(memory.previous) ELSE tn.flow
              /\ q.lost = (tn.flow = memory.flow /\ ~Runs(own))
            BY <1>1, <2>3 DEF Current
        <3>2. tn.flow = memory.flow => memory.previous = own
            BY <3>1 DEF OwnInv
        <3>3. tn'.flow = q.restored
            BY <2>1, <3>1
        <3>4. q.restored = own'
            BY <1>5, <3>1, <3>2 DEF Restored
        <3> QED  BY <2>2, <3>3, <3>4 DEF OwnInv
    <2>4. CASE Late(q) /\ q.read = q.flow /\ ~q.lost
        BY <1>1, <1>5, <2>1, <2>2, <2>4 DEF Late, OwnInv
    <2> QED  BY <2>3, <2>4 DEF q
<1> QED  BY <1>2, <1>4, <1>5

(* What overlapped it will remember, or restore, the owner's flow as well. *)
LEMMA UnassignsOthers ==
    ASSUME RequestsTyped, OwnInv, NEW r \in Requests, Unassigns(r),
           Current(request[r]), request[r].read = request[r].flow, ~request[r].lost,
           NEW s \in Pending', s # r, Current(request[s])
    PROVE  Late(request[s])'
<1> DEFINE q == request[r]
           p == request[s]
<1>1. q.at = "unassign" /\ q \in Removal /\ request' = [request EXCEPT ![r] = Idle]
    BY RequestIs DEF Unassigns
<1>2. request'[s] = p /\ s \in Requests /\ p.at \in {"assign", "unassign"}
    BY <1>1, OneRequest DEF Pending
<1>3. p.at = "assign" => p \in Assignment
    BY <1>2, RequestIs
<1>4. /\ q.read = tn.flow /\ memory.kept /\ q.flow = memory.flow
      /\ q.restored = Restored(memory.previous) /\ tn.flow = memory.flow /\ Runs(own)
    BY <1>1 DEF Current
<1>5. memory.previous = own /\ q.restored = own /\ own # tn.flow /\ own # Nobody
    <2>1. memory.previous = own
        BY <1>4 DEF OwnInv
    <2> QED  BY <1>4, <2>1, OwnIsAnother DEF Restored, Runs
<1>6. tn'.flow = own /\ own' = own
    <2>1. ~Deleted(q.restored)
        BY <1>4, <1>5 DEF Deleted, Runs
    <2>2. tn' = [tn EXCEPT !.flow = Written(@, q.read, q.restored)] /\ own' = own
        BY <2>1 DEF Unassigns
    <2> QED  BY <1>4, <1>5, <2>2 DEF RequestsTyped, NumbersTyped, Written
<1> HIDE DEF p, q
<1>7. Current(p)
    BY DEF p
<1>8. p.at = "assign" =>
          p.previous = own /\ (~p.new => p.flow # own /\ p.read = p.flow)
    <2>1. p.at = "assign" => p.new \in BOOLEAN
        BY <1>3 DEF Assignment
    <2> QED  BY <1>4, <1>5, <1>7, <2>1, PreviousIsOwn DEF Current
<1>9. p.at = "unassign" => p.restored = own /\ own # p.read
    BY <1>4, <1>5, <1>7 DEF Current
<1> QED  BY <1>2, <1>6, <1>8, <1>9 DEF Late

(* and a removal. *)
LEMMA UnassignsKeeps ==
    ASSUME RequestsTyped, NamesInv, OwnersInv, NEW r \in Requests, Unassigns(r)
    PROVE  RequestsTyped' /\ NamesInv' /\ OwnersInv'
<1> DEFINE q == request[r]
           u == q.read # q.flow \/ q.lost
<1>1. /\ q.at = "unassign" /\ q \in Removal /\ r \in Pending
      /\ request' = [request EXCEPT ![r] = Idle]
      /\ Overtakes(r, u)
      /\ UNCHANGED <<rows, active, listed, poll>>
    BY RequestIs DEF Unassigns, Pending, agentVars
<1>2. \/ UNCHANGED <<tn, flows, memory, own>>
      \/ /\ tn' = [tn EXCEPT !.flow = Written(@, q.read, q.restored)]
         /\ flows' = IF flows[q.flow] = "kept"
                     THEN [flows EXCEPT ![q.flow] = "archived"] ELSE flows
         /\ memory' = NoMemory
         /\ own' = IF q.read # q.flow THEN q.read ELSE IF q.lost THEN Nobody ELSE own
    BY DEF Unassigns
<1>3. q.flow \in Made /\ q.read \in Flow /\ q.restored \in Flow /\ q.lost \in BOOLEAN
    BY <1>1 DEF Removal
<1>4. /\ request'[r] = Idle /\ \A s \in Requests \ {r} : request'[s] = request[s]
      /\ request' \in [Requests -> Over \union Assignment \union Removal \union Push]
    BY <1>1, OneRequest DEF Over
<1>5. Known(q.read) /\ Known(q.restored)
    BY <1>1 DEF NamesInv
<1> HIDE DEF q
<1>6. \A f \in Flow : Known(f) => f = Nobody \/ flows'[f] # "none"
    BY <1>2, <1>3 DEF Known, RequestsTyped, NumbersTyped, Flow, Made
<1>7. tn'.flow \in {tn.flow, q.restored} /\ tn.flow \in Flow /\ own \in Flow
      /\ own' \in {own, q.read, Nobody} /\ memory.flow \in Flow /\ memory.previous \in Flow
      /\ (memory' = memory \/ memory' = NoMemory) /\ (memory'.kept => memory' = memory)
    <2>1. NoMemory.kept = FALSE
        BY DEF NoMemory
    <2> QED  BY <1>2, <2>1 DEF RequestsTyped, NumbersTyped, Written
<1>8. RequestsTyped'
    <2>1. overtaken' \subseteq Requests /\ raced' \in BOOLEAN
        <3>1. overtaken' \subseteq Requests
            BY <1>1 DEF Overtakes, RequestsTyped, Pending
        <3>2. raced' = (raced \/ (u /\ Overlaps(r)) \/ (r \in overtaken /\ Pending \ {r} # {})
                              \/ (Pending \ {r}) \intersect overtaken # {})
            BY <1>1 DEF Overtakes
        <3>3. raced' \in BOOLEAN
            BY <3>2, Zenon
        <3> QED  BY <3>1, <3>3
    <2>2. tn' \in [known : BOOLEAN, ours : BOOLEAN, active : BOOLEAN, media : BOOLEAN,
                   status : Statuses, flow : Flow]
        <3>1. Written(tn.flow, q.read, q.restored) \in Flow
            BY <1>3, <1>7 DEF Written
        <3> QED  BY <1>2, <3>1 DEF RequestsTyped, NumbersTyped
    <2>3. flows' \in [HandBuilt \cup Built -> {"none", "kept", "archived", "deleted"}]
        BY <1>2, <1>3 DEF RequestsTyped, NumbersTyped, Made
    <2>4. memory' \in [flow : Flow, previous : Flow, kept : BOOLEAN] /\ own' \in Flow
          /\ (memory'.kept => memory'.flow \in Built) /\ (~memory'.kept => memory' = NoMemory)
        <3>1. /\ NoMemory \in [flow : Flow, previous : Flow, kept : BOOLEAN] /\ ~NoMemory.kept
              /\ Nobody \in Flow
            BY DEF NoMemory, Flow
        <3>2. own' \in Flow
            BY <1>3, <1>7, <3>1
        <3>3. memory' = memory \/ memory' = NoMemory
            BY <1>7
        <3> QED  BY <3>1, <3>2, <3>3 DEF RequestsTyped, NumbersTyped
    <2> QED  BY <1>1, <1>4, <2>1, <2>2, <2>3, <2>4 DEF RequestsTyped, NumbersTyped
<1>9. NamesInv'
    <2>1. Known(tn.flow)' /\ Known(own)' /\ Known(memory.flow)' /\ Known(memory.previous)'
        <3>1. NoMemory.flow = Nobody /\ NoMemory.previous = Nobody
            BY DEF NoMemory
        <3> QED  BY <1>3, <1>5, <1>6, <1>7, <3>1 DEF Known, NamesInv
    <2>2. ASSUME NEW s \in Requests, request'[s].at = "unassign"
          PROVE  Known(request[s].read)' /\ Known(request[s].restored)'
        <3>1. request'[s] = request[s] /\ request[s] \in Removal
            BY <1>4, <2>2, RequestIs DEF Idle
        <3>2. Known(request[s].read) /\ Known(request[s].restored)
              /\ request[s].read \in Flow /\ request[s].restored \in Flow
            BY <2>2, <3>1 DEF NamesInv, Removal
        <3> QED  BY <1>6, <3>1, <3>2 DEF Known
    <2>3. ASSUME NEW s \in Requests, request'[s].at = "assign"
          PROVE  /\ Known(request[s].read)' /\ Known(request[s].previous)'
                 /\ (request[s].new <=> flows[request[s].flow] = "none")'
                 /\ request'[s].new => \A t \in Requests \ {s} :
                       request'[t].at = "assign" => request'[t].flow # request'[s].flow
        <3>1. request'[s] = request[s] /\ request[s] \in Assignment
            BY <1>4, <2>3, RequestIs DEF Idle
        <3>2. Known(request[s].read) /\ Known(request[s].previous)
              /\ request[s].read \in Flow /\ request[s].previous \in Flow
            BY <2>3, <3>1 DEF NamesInv, Assignment
        <3>3. Known(request[s].read)' /\ Known(request[s].previous)'
            BY <1>6, <3>1, <3>2 DEF Known
        <3>4. flows'[request[s].flow] = "none" <=> flows[request[s].flow] = "none"
            BY <1>2, <1>3, <3>1 DEF RequestsTyped, NumbersTyped, Assignment, Made
        <3>5. /\ request[s].new <=> flows[request[s].flow] = "none"
              /\ request[s].new => \A t \in Requests \ {s} :
                    request[t].at = "assign" => request[t].flow # request[s].flow
            BY <2>3, <3>1 DEF NamesInv
        <3>6. \A t \in Requests : request'[t].at = "assign" => request'[t] = request[t]
            BY <1>4 DEF Idle
        <3> QED  BY <3>1, <3>3, <3>4, <3>5, <3>6
    <2> QED  BY <2>1, <2>2, <2>3 DEF NamesInv
<1>10. OwnersInv'
    <2> SUFFICES ASSUME ~raced'
                 PROVE  /\ OwnInv'
                        /\ \A s \in Pending' : IF s \in overtaken' THEN Late(request[s])'
                                               ELSE Current(request[s])'
        BY DEF OwnersInv
    <2>1. /\ OwnInv
          /\ Current(request[r]) \/ (Late(request[r]) /\ ~u)
          /\ u => Pending \ {r} = {}
          /\ r \in overtaken => Pending \ {r} = {}
          /\ ~(r \in overtaken) => Current(request[r])
          /\ \A s \in Pending \ {r} : Current(request[s])
        BY <1>1, WhoWaits
    <2>2. OwnInv'
        BY <2>1, UnassignsOwn DEF q
    <2>3. ASSUME NEW s \in Pending'
          PROVE  s \in overtaken' /\ Late(request[s])'
        <3>1. s \in Pending \ {r}
            BY <1>4, <2>3 DEF Pending, Idle
        <3>2. s \in overtaken'
            BY <1>1, <3>1, Overtaken
        <3>3. Current(request[r]) /\ Current(request[s]) /\ q.read = q.flow /\ ~q.lost
            BY <2>1, <3>1
        <3> QED  BY <2>1, <2>3, <3>1, <3>2, <3>3, UnassignsOthers DEF q
    <2> QED  BY <2>2, <2>3
<1> QED  BY <1>8, <1>9, <1>10

(* The owner gives the number another flow, or none. *)
LEMMA OperatorAssignsKeeps ==
    ASSUME RequestsTyped, NamesInv, OwnersInv, NEW f \in Flow, OperatorAssigns(f)
    PROVE  RequestsTyped' /\ NamesInv' /\ OwnersInv'
<1>1. /\ tn' = [tn EXCEPT !.flow = f]
      /\ own' = IF memory.kept /\ f \in {memory.flow, Nobody} THEN memory.previous ELSE f
      /\ raced' = (raced \/ Pending # {})
      /\ UNCHANGED <<flows, memory, overtaken, rows, active, request, listed, poll>>
      /\ f # Nobody => flows[f] \in {"kept", "archived"}
    BY DEF OperatorAssigns, agentVars
<1>2. /\ tn' \in [known : BOOLEAN, ours : BOOLEAN, active : BOOLEAN, media : BOOLEAN,
                  status : Statuses, flow : Flow]
      /\ tn'.flow = f /\ own' \in Flow
    BY <1>1 DEF RequestsTyped, NumbersTyped
<1>3. raced' \in BOOLEAN
    BY <1>1, Zenon
<1>4. RequestsTyped'
    BY <1>1, <1>2, <1>3 DEF RequestsTyped, NumbersTyped
<1>5. NamesInv'
    BY <1>1, <1>2 DEF NamesInv, Known
<1>6. ~raced' => ~raced /\ Pending' = {}
    BY <1>1 DEF Pending
<1>7. ~raced => OwnInv'
    BY <1>1, <1>2 DEF OwnersInv, OwnInv
<1> QED  BY <1>4, <1>5, <1>6, <1>7 DEF OwnersInv

(* The owner archives or deletes a flow that answers no number. *)
LEMMA OperatorDeletesKeeps ==
    ASSUME RequestsTyped, NamesInv, OwnersInv, NEW f \in Made, NEW to \in {"archived", "deleted"},
           OperatorDeletes(f, to)
    PROVE  RequestsTyped' /\ NamesInv' /\ OwnersInv'
<1>1. /\ flows[f] = "kept" /\ flows' = [flows EXCEPT ![f] = to]
      /\ raced' = (raced \/ Pending # {})
      /\ UNCHANGED <<tn, memory, own, overtaken, rows, active, request, listed, poll>>
    BY DEF OperatorDeletes, agentVars
<1>2. raced' \in BOOLEAN
    BY <1>1, Zenon
<1>3. flows' \in [HandBuilt \cup Built -> {"none", "kept", "archived", "deleted"}]
    BY <1>1 DEF RequestsTyped, NumbersTyped, Made
<1>4. RequestsTyped'
    BY <1>1, <1>2, <1>3 DEF RequestsTyped, NumbersTyped
<1>5. \A g : g \in Made => (flows'[g] = "none" <=> flows[g] = "none")
    BY <1>1 DEF RequestsTyped, NumbersTyped, Made
<1>6. \A g \in Flow : Known(g) => g = Nobody \/ flows'[g] # "none"
    BY <1>5 DEF Known, Flow, Made
<1>7. NamesInv'
    <2>1. Known(tn.flow)' /\ Known(own)' /\ Known(memory.flow)' /\ Known(memory.previous)'
        BY <1>1, <1>6 DEF NamesInv, Known, RequestsTyped, NumbersTyped
    <2>2. ASSUME NEW s \in Requests, request[s].at = "unassign"
          PROVE  Known(request[s].read)' /\ Known(request[s].restored)'
        <3>1. request[s] \in Removal
            BY <2>2, RequestIs
        <3> QED  BY <1>1, <1>6, <2>2, <3>1 DEF NamesInv, Known, Removal
    <2>3. ASSUME NEW s \in Requests, request[s].at = "assign"
          PROVE  /\ Known(request[s].read)' /\ Known(request[s].previous)'
                 /\ (request[s].new <=> flows[request[s].flow] = "none")'
        <3>1. request[s] \in Assignment
            BY <2>3, RequestIs
        <3> QED  BY <1>1, <1>5, <1>6, <2>3, <3>1 DEF NamesInv, Known, Assignment, Made
    <2> QED  BY <1>1, <2>1, <2>2, <2>3 DEF NamesInv
<1>8. ~raced' => ~raced /\ Pending' = {}
    BY <1>1 DEF Pending
<1>9. ~raced => OwnInv'
    BY <1>1 DEF OwnersInv, OwnInv
<1> QED  BY <1>4, <1>7, <1>8, <1>9 DEF OwnersInv

-----------------------------------------------------------------------------
(* The agent's versions. *)

(* Rows are found by their version, of which there is one. *)
LEMMA StoredIs ==
    ASSUME RequestsTyped, NEW v
    PROVE  /\ Len(rows) \in Nat
           /\ Stored(v) # {} => (CHOOSE i \in Stored(v) : TRUE) \in Stored(v)
           /\ \A i \in Stored(v) : i \in 1..Len(rows) /\ rows[i].crm = v /\ rows[i] \in Version
           /\ Stored(v) = {} => \A i \in 1..Len(rows) : rows[i].crm # v
           /\ VersionsInv => \A i, j \in Stored(v) : v # 0 => i = j
<1> QED  BY DEF RequestsTyped, Stored, VersionsInv, PublishedOnce

(* A plan for a version that may be published. *)
LEMMA PlanIs ==
    ASSUME RequestsTyped, VersionsInv, NEW row \in Version, row.crm # 0,
           IF Stored(row.crm) # {} THEN \E i \in Stored(row.crm) : rows[i].body = row.body
           ELSE row.body # "bad",
           NEW q, q.row = row, q.append = (Stored(row.crm) = {}),
           q.index = IF Stored(row.crm) # {} THEN CHOOSE i \in Stored(row.crm) : TRUE
                     ELSE Len(rows) + 1
    PROVE  Planned(q) /\ q.index \in Nat
<1>1. CASE Stored(row.crm) = {}
    <2>1. Len(rows) \in Nat /\ \A i \in 1..Len(rows) : rows[i].crm # row.crm
        BY <1>1, StoredIs
    <2>2. q.append /\ q.index = Len(rows) + 1 /\ row.body # "bad"
        BY <1>1
    <2>3. \A i \in 1..q.index - 1 : i \in 1..Len(rows)
        BY <2>1, <2>2
    <2>4. q.index \in 1..Len(rows) + 1
        BY <2>1, <2>2
    <2> QED  BY <2>1, <2>2, <2>3, <2>4 DEF Planned
<1>2. CASE Stored(row.crm) # {}
    <2>1. PICK i \in Stored(row.crm) : rows[i].body = row.body
        BY <1>2
    <2>2. q.index = i
        BY <1>2, StoredIs
    <2>3. rows[i] = row
        <3>1. rows[i] \in Version /\ rows[i].crm = row.crm
            BY StoredIs
        <3> QED  BY <2>1, <3>1 DEF Version
    <2>4. i \in 1..Len(rows) /\ row.body # "bad"
        <3>1. i \in 1..Len(rows)
            BY StoredIs
        <3> QED  BY <2>3, <3>1 DEF VersionsInv
    <2>5. q.index \in Nat
        BY <2>2, <2>4
    <2> QED  BY <1>2, <2>2, <2>3, <2>4, <2>5 DEF Planned
<1> QED  BY <1>1, <1>2

(* A row is appended: one of the CRM's only if it has none of that version. *)
LEMMA OneMoreRow ==
    ASSUME RequestsTyped, VersionsInv, NEW row \in Version, rows' = Append(rows, row),
           row.crm # 0 => row.body # "bad" /\ \A i \in 1..Len(rows) : rows[i].crm # row.crm
    PROVE  /\ rows' \in Seq(Version) /\ Len(rows') = Len(rows) + 1 /\ rows'[Len(rows) + 1] = row
           /\ \A i \in 1..Len(rows) : rows'[i] = rows[i]
           /\ \A i, j \in 1..Len(rows') : rows'[i].crm = rows'[j].crm /\ rows'[i].crm # 0 => i = j
           /\ \A i \in 1..Len(rows') : rows'[i].crm # 0 => rows'[i].body # "bad"
           /\ \A q : Planned(q) => Planned(q)'
<1>1. rows \in Seq(Version) /\ Len(rows) \in Nat
    BY DEF RequestsTyped
<1>2. /\ rows' \in Seq(Version) /\ Len(rows') = Len(rows) + 1 /\ rows'[Len(rows) + 1] = row
      /\ \A i \in 1..Len(rows) : rows'[i] = rows[i]
    BY <1>1
<1>3. \A i \in 1..Len(rows') : i \in 1..Len(rows) \/ i = Len(rows) + 1
    BY <1>1, <1>2
<1>4. \A i, j \in 1..Len(rows') : rows'[i].crm = rows'[j].crm /\ rows'[i].crm # 0 => i = j
    BY <1>1, <1>2, <1>3 DEF VersionsInv, PublishedOnce
<1>5. \A i \in 1..Len(rows') : rows'[i].crm # 0 => rows'[i].body # "bad"
    BY <1>2, <1>3 DEF VersionsInv
<1>6. ASSUME NEW q, Planned(q)
      PROVE  Planned(q)'
    <2>1. q.append => q.index \in 1..Len(rows') + 1
                      /\ \A i \in 1..q.index - 1 : rows'[i].crm # q.row.crm
        BY <1>1, <1>2, <1>6 DEF Planned
    <2> QED  BY <1>1, <1>2, <1>6, <2>1 DEF Planned
<1> QED  BY <1>2, <1>4, <1>5, <1>6

(* What is said of the versions concerns the agent only. *)
LEMMA NoPushKeeps ==
    ASSUME VersionsInv, UNCHANGED <<rows, active>>,
           \A r \in Requests : request'[r].at = "publish" => request'[r] = request[r]
    PROVE  VersionsInv'
<1>1. \A q : Planned(q) => Planned(q)'
    BY DEF Planned
<1> QED  BY <1>1 DEF VersionsInv, PublishedOnce

(* A push is planned. *)
LEMMA ReadsPublishKeeps ==
    ASSUME NumbersInv, NEW r \in Requests, NEW v \in CrmVersions,
           NEW body \in {"good", "other", "bad"}, NEW activate \in BOOLEAN,
           ReadsPublish(r, v, body, activate)
    PROVE  NumbersInv'
<1>1. RequestsTyped /\ NamesInv /\ OwnersInv /\ VersionsInv
    BY DEF NumbersInv
<1>2. PICK q : q = [at |-> "publish", row |-> [crm |-> v, body |-> body], read |-> active,
             index |-> IF Stored(v) # {} THEN CHOOSE i \in Stored(v) : TRUE ELSE Len(rows) + 1,
             append |-> Stored(v) = {}, activate |-> activate, tries |-> 1]
    OBVIOUS
<1>3. /\ request' = [request EXCEPT ![r] = q] /\ request[r].at = "idle"
      /\ UNCHANGED <<tn, flows, memory, own, raced, overtaken, rows, active, listed, poll>>
      /\ IF Stored(v) # {} THEN \E i \in Stored(v) : rows[i].body = body ELSE body # "bad"
    BY <1>2 DEF ReadsPublish, tnVars, agentVars
<1>4. PICK row : row = [crm |-> v, body |-> body]
    OBVIOUS
<1>5. row \in Version /\ row.crm = v /\ row.body = body /\ v # 0
    BY <1>4 DEF Version, CrmVersions
<1>6. /\ q.at = "publish" /\ q.row = row /\ q.read = active /\ q.append = (Stored(v) = {})
      /\ q.index = (IF Stored(v) # {} THEN CHOOSE i \in Stored(v) : TRUE ELSE Len(rows) + 1)
      /\ q.activate = activate /\ q.tries = 1
    BY <1>2, <1>4
<1>7. Planned(q) /\ q.index \in Nat
    <2>1. /\ IF Stored(row.crm) # {} THEN \E i \in Stored(row.crm) : rows[i].body = row.body
             ELSE row.body # "bad"
          /\ q.append = (Stored(row.crm) = {})
          /\ q.index = IF Stored(row.crm) # {} THEN CHOOSE i \in Stored(row.crm) : TRUE
                       ELSE Len(rows) + 1
        BY <1>3, <1>5, <1>6
    <2>2. row.crm # 0 /\ q.row = row
        BY <1>5, <1>6
    <2> QED  BY <1>1, <1>5, <2>1, <2>2, PlanIs
<1>8. q \in Push
    <2>1. PICK none \in BOOLEAN : none = (Stored(v) = {})
        OBVIOUS
    <2>2. q = [at |-> "publish", row |-> row, read |-> active, index |-> q.index,
               append |-> none, activate |-> activate, tries |-> 1]
        BY <1>2, <1>4, <1>6, <2>1
    <2>3. active \in Nat
        BY <1>1 DEF RequestsTyped, NumbersTyped
    <2> QED  BY <1>5, <1>7, <2>2, <2>3 DEF Push
<1>9. /\ request'[r] = q /\ \A s \in Requests \ {r} : request'[s] = request[s]
      /\ request' \in [Requests -> Over \union Assignment \union Removal \union Push]
    BY <1>1, <1>3, <1>8, OneRequest
<1>10. RequestsTyped'
    BY <1>1, <1>3, <1>9 DEF RequestsTyped, NumbersTyped
<1>11. NamesInv' /\ OwnersInv'
    <2>1. \A s \in Requests : request'[s].at \in {"assign", "unassign"} => request'[s] = request[s]
        BY <1>6, <1>9
    <2> QED  BY <1>1, <1>3, <2>1, QuietKeeps
<1>12. VersionsInv'
    <2>1. \A p : Planned(p) => Planned(p)'
        BY <1>3 DEF Planned
    <2>2. \A s \in Requests : request'[s].at = "publish" => Planned(request'[s])
        BY <1>1, <1>7, <1>9 DEF VersionsInv
    <2>3. \A s \in Requests : request'[s].at = "publish" => Planned(request[s])'
        BY <2>1, <2>2
    <2> QED  BY <1>1, <1>3, <2>3 DEF VersionsInv, PublishedOnce
<1> QED  BY <1>10, <1>11, <1>12 DEF NumbersInv

(* It is committed. *)
LEMMA PublishesKeeps ==
    ASSUME NumbersInv, NEW r \in Requests, Publishes(r)
    PROVE  NumbersInv'
<1>1. RequestsTyped /\ NamesInv /\ OwnersInv /\ VersionsInv
    BY DEF NumbersInv
<1> DEFINE q == request[r]
           i == IF q.append THEN Len(rows) + 1 ELSE q.index
<1>2. /\ q.at = "publish" /\ ~Taken(q)
      /\ rows' = IF q.append THEN Append(rows, q.row) ELSE rows
      /\ active' = IF q.activate THEN Written(active, q.read, i) ELSE active
      /\ request' = [request EXCEPT ![r] = Idle]
      /\ UNCHANGED <<tn, flows, memory, own, raced, overtaken, listed, poll>>
    BY DEF Publishes, tnVars
<1>3. q \in Push /\ Planned(q) /\ Len(rows) \in Nat
    BY <1>1, <1>2, RequestIs, StoredIs DEF VersionsInv
<1>4. q.row \in Version /\ q.append \in BOOLEAN /\ q.row.crm # 0 /\ q.row.body # "bad"
    BY <1>3 DEF Push, Planned
<1>5. /\ request'[r] = Idle /\ \A s \in Requests \ {r} : request'[s] = request[s]
      /\ request' \in [Requests -> Over \union Assignment \union Removal \union Push]
    BY <1>1, <1>2, OneRequest DEF Over
<1> HIDE DEF q
<1>6. q.append => \A j \in 1..Len(rows) : rows[j].crm # q.row.crm
    <2> SUFFICES ASSUME q.append
                 PROVE  \A j \in 1..Len(rows) : rows[j].crm # q.row.crm
        OBVIOUS
    <2>1. q.index = Len(rows) + 1
        BY <1>2, <1>3 DEF Planned, Taken
    <2> QED  BY <1>3, <2>1 DEF Planned
<1>7. /\ rows' \in Seq(Version) /\ Len(rows') >= Len(rows) /\ i \in 1..Len(rows')
      /\ \A j \in 1..Len(rows) : rows'[j] = rows[j]
      /\ rows'[i].body # "bad"
      /\ \A j, k \in 1..Len(rows') : rows'[j].crm = rows'[k].crm /\ rows'[j].crm # 0 => j = k
      /\ \A j \in 1..Len(rows') : rows'[j].crm # 0 => rows'[j].body # "bad"
      /\ \A p : Planned(p) => Planned(p)'
    <2>1. CASE q.append
        <3>1. rows' = Append(rows, q.row)
            BY <1>2, <2>1
        <3>2. /\ rows' \in Seq(Version) /\ Len(rows') = Len(rows) + 1 /\ rows'[Len(rows) + 1] = q.row
              /\ \A j \in 1..Len(rows) : rows'[j] = rows[j]
              /\ \A j, k \in 1..Len(rows') : rows'[j].crm = rows'[k].crm /\ rows'[j].crm # 0 => j = k
              /\ \A j \in 1..Len(rows') : rows'[j].crm # 0 => rows'[j].body # "bad"
              /\ \A p : Planned(p) => Planned(p)'
            BY <1>1, <1>4, <1>6, <2>1, <3>1, OneMoreRow
        <3> QED  BY <1>3, <1>4, <2>1, <3>2
    <2>2. CASE ~q.append
        <3>1. rows' = rows /\ i = q.index
            BY <1>2, <2>2
        <3>2. q.index \in 1..Len(rows) /\ rows[q.index] = q.row
            BY <1>3, <2>2 DEF Planned
        <3>3. \A p : Planned(p) => Planned(p)'
            BY <3>1 DEF Planned
        <3> QED  BY <1>1, <1>3, <1>4, <3>1, <3>2, <3>3
                 DEF RequestsTyped, VersionsInv, PublishedOnce
    <2> QED  BY <1>4, <2>1, <2>2
<1> HIDE DEF i
<1>8. active' \in {active, i} /\ active \in 0..Len(rows)
      /\ (active # 0 => rows[active].body # "bad")
    BY <1>1, <1>2 DEF Written, RequestsTyped, NumbersTyped, VersionsInv, PublishedOnce
<1>9. active' \in 0..Len(rows') /\ (active' # 0 => rows'[active'].body # "bad")
    BY <1>3, <1>7, <1>8
<1>10. RequestsTyped'
    BY <1>1, <1>2, <1>5, <1>7, <1>9 DEF RequestsTyped, NumbersTyped
<1>11. NamesInv' /\ OwnersInv'
    <2>1. \A s \in Requests : request'[s].at \in {"assign", "unassign"} => request'[s] = request[s]
        BY <1>5 DEF Idle
    <2> QED  BY <1>1, <1>2, <2>1, QuietKeeps
<1>12. VersionsInv'
    <2>1. \A s \in Requests : request'[s].at = "publish" =>
              request'[s] = request[s] /\ Planned(request[s])
        BY <1>1, <1>5 DEF VersionsInv, Idle
    <2>2. \A s \in Requests : request'[s].at = "publish" => Planned(request[s])'
        BY <1>7, <2>1
    <2> QED  BY <1>7, <1>9, <2>2 DEF VersionsInv, PublishedOnce
<1> QED  BY <1>10, <1>11, <1>12 DEF NumbersInv

(* The number it planned was taken: it is planned once more, or refused. *)
LEMMA CollidesKeeps ==
    ASSUME NumbersInv, NEW r \in Requests, Collides(r)
    PROVE  NumbersInv'
<1>1. RequestsTyped /\ NamesInv /\ OwnersInv /\ VersionsInv
    BY DEF NumbersInv
<1> DEFINE q == request[r]
<1>2. /\ q.at = "publish" /\ q \in Push /\ Planned(q)
      /\ UNCHANGED <<tn, flows, memory, own, raced, overtaken, rows, active, listed, poll>>
    BY <1>1, RequestIs DEF Collides, tnVars, agentVars, VersionsInv
<1>3. PICK p : /\ request' = [request EXCEPT ![r] = p]
               /\ \/ p = [at |-> "refused"]
                  \/ p = Replans(q) /\ \A i \in Stored(q.row.crm) : rows[i].body = q.row.body
    BY DEF Collides
<1> HIDE DEF q
<1>4. /\ p \in Over \union Push
      /\ p.at \in {"publish", "refused"} /\ (p.at = "publish" => Planned(p))
    <2>1. CASE p = [at |-> "refused"]
        BY <2>1 DEF Over
    <2>2. CASE p = Replans(q) /\ \A i \in Stored(q.row.crm) : rows[i].body = q.row.body
        <3>0. PICK n, none :
                /\ n = (IF Stored(q.row.crm) # {} THEN CHOOSE i \in Stored(q.row.crm) : TRUE
                        ELSE Len(rows) + 1)
                /\ none = (Stored(q.row.crm) = {})
            OBVIOUS
        <3>1. p = [q EXCEPT !.append = none, !.tries = 2, !.read = active, !.index = n]
            BY <2>2, <3>0 DEF Replans
        <3>2. /\ q.row \in Version /\ q.activate \in BOOLEAN
              /\ q = [at |-> "publish", row |-> q.row, read |-> q.read, index |-> q.index,
                      append |-> q.append, activate |-> q.activate, tries |-> q.tries]
            BY <1>2 DEF Push
        <3>3. none \in BOOLEAN /\ active \in Nat
            BY <1>1, <3>0 DEF RequestsTyped, NumbersTyped
        <3>4. p = [at |-> "publish", row |-> q.row, read |-> active, index |-> n,
                   append |-> none, activate |-> q.activate, tries |-> 2]
            <4>1. PICK row, read, index, append, activate, tries :
                      q = [at |-> "publish", row |-> row, read |-> read, index |-> index,
                           append |-> append, activate |-> activate, tries |-> tries]
                BY <3>2
            <4>2. p = [at |-> "publish", row |-> row, read |-> active, index |-> n,
                       append |-> none, activate |-> activate, tries |-> 2]
                BY <3>1, <4>1
            <4> QED  BY <4>1, <4>2
        <3>5. p.row = q.row /\ p.append = none /\ p.index = n /\ p.at = "publish"
            BY <3>4
        <3>6. IF Stored(q.row.crm) # {} THEN \E i \in Stored(q.row.crm) : rows[i].body = q.row.body
              ELSE q.row.body # "bad"
            BY <1>2, <2>2 DEF Planned
        <3>7. Planned(p) /\ p.index \in Nat
            BY <1>1, <1>2, <3>0, <3>2, <3>5, <3>6, PlanIs DEF Planned
        <3>8. p \in Push
            BY <3>2, <3>3, <3>4, <3>5, <3>7 DEF Push
        <3> QED  BY <3>5, <3>7, <3>8
    <2> QED  BY <1>3, <2>1, <2>2
<1>5. /\ request'[r] = p /\ \A s \in Requests \ {r} : request'[s] = request[s]
      /\ request' \in [Requests -> Over \union Assignment \union Removal \union Push]
    BY <1>1, <1>3, <1>4, OneRequest
<1>6. RequestsTyped'
    BY <1>1, <1>2, <1>5 DEF RequestsTyped, NumbersTyped
<1>7. NamesInv' /\ OwnersInv'
    <2>1. \A s \in Requests : request'[s].at \in {"assign", "unassign"} => request'[s] = request[s]
        BY <1>4, <1>5
    <2> QED  BY <1>1, <1>2, <2>1, QuietKeeps
<1>8. VersionsInv'
    <2>1. \A t : Planned(t) => Planned(t)'
        BY <1>2 DEF Planned
    <2>2. \A s \in Requests : request'[s].at = "publish" => Planned(request'[s])
        BY <1>1, <1>4, <1>5 DEF VersionsInv
    <2>3. \A s \in Requests : request'[s].at = "publish" => Planned(request[s])'
        BY <2>1, <2>2
    <2> QED  BY <1>1, <1>2, <2>3 DEF VersionsInv, PublishedOnce
<1> QED  BY <1>6, <1>7, <1>8 DEF NumbersInv

(* The operators save a draft, activate a row that is valid, or none. *)
LEMMA AgentEditsKeep ==
    ASSUME NumbersInv,
           \/ Deactivates
           \/ \E body \in {"good", "bad"} : OperatorSaves(body)
           \/ \E i \in 1..Len(rows) : OperatorActivates(i)
    PROVE  NumbersInv'
<1>1. RequestsTyped /\ NamesInv /\ OwnersInv /\ VersionsInv /\ Len(rows) \in Nat
    BY StoredIs DEF NumbersInv
<1>2. UNCHANGED <<tn, flows, memory, own, raced, overtaken, request, listed, poll>>
    BY DEF Deactivates, OperatorSaves, OperatorActivates, tnVars
<1>3. NamesInv' /\ OwnersInv'
    BY <1>1, <1>2, QuietKeeps
<1>4. CASE /\ rows' = rows
           /\ active' \in 0..Len(rows) /\ (active' # 0 => rows[active'].body # "bad")
    <2>1. RequestsTyped'
        BY <1>1, <1>2, <1>4 DEF RequestsTyped, NumbersTyped
    <2>2. \A p : Planned(p) => Planned(p)'
        BY <1>4 DEF Planned
    <2>3. VersionsInv'
        BY <1>1, <1>2, <1>4, <2>2 DEF VersionsInv, PublishedOnce
    <2> QED  BY <1>3, <2>1, <2>3 DEF NumbersInv
<1>5. CASE Deactivates \/ \E i \in 1..Len(rows) : OperatorActivates(i)
    BY <1>1, <1>4, <1>5 DEF Deactivates, OperatorActivates, Valid, tnVars
<1>6. CASE \E body \in {"good", "bad"} : OperatorSaves(body)
    <2>1. PICK body \in {"good", "bad"} : OperatorSaves(body)
        BY <1>6
    <2>2. PICK row : row = [crm |-> 0, body |-> body]
        OBVIOUS
    <2>3. row \in Version /\ row.crm = 0 /\ rows' = Append(rows, row) /\ active' = active
        BY <2>1, <2>2 DEF Version, OperatorSaves
    <2>4. /\ rows' \in Seq(Version) /\ Len(rows') = Len(rows) + 1
          /\ \A j \in 1..Len(rows) : rows'[j] = rows[j]
          /\ \A j, k \in 1..Len(rows') : rows'[j].crm = rows'[k].crm /\ rows'[j].crm # 0 => j = k
          /\ \A j \in 1..Len(rows') : rows'[j].crm # 0 => rows'[j].body # "bad"
          /\ \A p : Planned(p) => Planned(p)'
        BY <1>1, <2>3, OneMoreRow
    <2>5. active \in 0..Len(rows) /\ (active # 0 => rows[active].body # "bad")
        BY <1>1 DEF RequestsTyped, NumbersTyped, VersionsInv, PublishedOnce
    <2>6. active' \in 0..Len(rows') /\ (active' # 0 => rows'[active'].body # "bad")
        BY <1>1, <2>3, <2>4, <2>5
    <2>7. RequestsTyped'
        BY <1>1, <1>2, <2>4, <2>6 DEF RequestsTyped, NumbersTyped
    <2>8. VersionsInv'
        BY <1>1, <1>2, <2>4, <2>6 DEF VersionsInv, PublishedOnce
    <2> QED  BY <1>3, <2>7, <2>8 DEF NumbersInv
<1> QED  BY <1>5, <1>6

(* A request ends without a commit. *)
LEMMA EndsKeep ==
    ASSUME NumbersInv, NEW r \in Requests, Answers(r) \/ Dies(r)
    PROVE  NumbersInv'
<1>1. RequestsTyped /\ NamesInv /\ OwnersInv /\ VersionsInv
    BY DEF NumbersInv
<1>2. /\ request' = [request EXCEPT ![r] = Idle]
      /\ UNCHANGED <<tn, flows, memory, own, raced, overtaken, rows, active, listed, poll>>
    BY DEF Answers, Dies, tnVars, agentVars
<1>3. /\ request'[r] = Idle /\ \A s \in Requests \ {r} : request'[s] = request[s]
      /\ request' \in [Requests -> Over \union Assignment \union Removal \union Push]
    BY <1>1, <1>2, OneRequest DEF Over
<1>4. RequestsTyped'
    BY <1>1, <1>2, <1>3 DEF RequestsTyped, NumbersTyped
<1>5. \A s \in Requests : request'[s].at \in {"assign", "unassign", "publish"} =>
          request'[s] = request[s]
    BY <1>3 DEF Idle
<1>6. NamesInv' /\ OwnersInv'
    BY <1>1, <1>2, <1>5, QuietKeeps
<1>7. VersionsInv'
    BY <1>1, <1>2, <1>5, NoPushKeeps
<1> QED  BY <1>4, <1>6, <1>7 DEF NumbersInv

(* The carrier and its poll change how the number is kept, not its flow. *)
LEMMA CarrierKeeps ==
    ASSUME NumbersInv,
           (\E to \in Statuses : CarrierChanges(to)) \/ Fetches \/ FetchFails \/ Applies
           \/ UNCHANGED numberVars
    PROVE  NumbersInv'
<1>1. RequestsTyped /\ NamesInv /\ OwnersInv /\ VersionsInv
    BY DEF NumbersInv
<1>2. UNCHANGED <<flows, memory, own, raced, overtaken, rows, active, request>>
    BY DEF CarrierChanges, Fetches, FetchFails, Applies, tnVars, agentVars, numberVars
<1>3. /\ tn'.flow = tn.flow
      /\ tn' \in [known : BOOLEAN, ours : BOOLEAN, active : BOOLEAN, media : BOOLEAN,
                  status : Statuses, flow : Flow]
    <2>1. CASE tn' = tn
        BY <1>1, <2>1 DEF RequestsTyped, NumbersTyped
    <2>2. CASE Applies
        <3>1. poll.record \in Statuses /\ tn' = Synced(poll.record)
            BY <1>1, <2>2 DEF Applies, RequestsTyped
        <3>2. tn \in [known : BOOLEAN, ours : BOOLEAN, active : BOOLEAN, media : BOOLEAN,
                      status : Statuses, flow : Flow]
            BY <1>1 DEF RequestsTyped, NumbersTyped
        <3>3. \A s \in Statuses : Synced(s) \in {Inserted(s), InForce(s), Restatused(s), SoftReleased, tn}
            BY DEF Synced
        <3> QED  BY <3>1, <3>2, <3>3 DEF Inserted, InForce, Restatused, SoftReleased
    <2> QED  BY <2>1, <2>2 DEF CarrierChanges, Fetches, FetchFails, tnVars, numberVars
<1>4. /\ listed' \in Statuses /\ poll'.at \in {"idle", "fetched"}
      /\ poll'.at = "fetched" => poll'.record \in Statuses
    BY <1>1 DEF RequestsTyped, CarrierChanges, Fetches, FetchFails, Applies, Idle, numberVars
<1>5. RequestsTyped'
    BY <1>1, <1>2, <1>3, <1>4 DEF RequestsTyped, NumbersTyped
<1>6. NamesInv' /\ OwnersInv'
    BY <1>1, <1>2, <1>3, QuietKeeps
<1>7. VersionsInv'
    BY <1>1, <1>2, NoPushKeeps
<1> QED  BY <1>5, <1>6, <1>7 DEF NumbersInv

(* Requests about the number do not push versions. *)
LEMMA NumberStepKeeps ==
    ASSUME NumbersInv, FlowsDiffer,
           \/ \E r \in Requests :
                 \/ \E replace \in BOOLEAN : ReadsAssign(r, replace)
                 \/ ReadsUnassign(r) \/ Assigns(r) \/ AssignFails(r) \/ Unassigns(r)
           \/ \E f \in Flow : OperatorAssigns(f)
           \/ \E f \in HandBuilt \cup Built, to \in {"archived", "deleted"} : OperatorDeletes(f, to)
    PROVE  NumbersInv'
<1>1. RequestsTyped /\ NamesInv /\ OwnersInv /\ VersionsInv
    BY DEF NumbersInv
<1>2. RequestsTyped' /\ NamesInv' /\ OwnersInv'
    BY <1>1, ReadsAssignKeeps, ReadsUnassignKeeps, AssignsKeeps, AssignFailsKeeps, UnassignsKeeps,
       OperatorAssignsKeeps, OperatorDeletesKeeps DEF Made
<1>3. UNCHANGED <<rows, active>>
    BY DEF ReadsAssign, ReadsUnassign, Assigns, AssignFails, Unassigns, OperatorAssigns,
           OperatorDeletes, agentVars
<1>4. ASSUME NEW s \in Requests, request'[s].at = "publish"
      PROVE  request'[s] = request[s]
    <2>1. CASE request' = request
        BY <2>1
    <2>2. CASE \E r \in Requests : Assigns(r)
        BY <1>1, <1>4, <2>2 DEF Assigns, Idle
    <2>3. ASSUME NEW r \in Requests,
                 (\E replace \in BOOLEAN : ReadsAssign(r, replace)) \/ ReadsUnassign(r)
                 \/ AssignFails(r) \/ Unassigns(r)
          PROVE  request'[s] = request[s]
        <3>1. DOMAIN request = Requests
            BY <1>1 DEF RequestsTyped
        <3>2. request'[r].at # "publish" /\ \A t \in Requests \ {r} : request'[t] = request[t]
            BY <2>3, <3>1 DEF ReadsAssign, ReadsUnassign, AssignFails, Unassigns, Idle
        <3> QED  BY <1>4, <3>2
    <2> QED  BY <2>1, <2>2, <2>3 DEF OperatorAssigns, OperatorDeletes
<1> QED  BY <1>1, <1>2, <1>3, <1>4, NoPushKeeps DEF NumbersInv

(* Every step keeps the invariant. *)
LEMMA NumbersStep ==
    ASSUME NumbersInv, FlowsDiffer, [NumbersNext]_numberVars
    PROVE  NumbersInv'
<1>1. CASE \E r \in Requests, v \in CrmVersions, body \in {"good", "other", "bad"},
              activate \in BOOLEAN : ReadsPublish(r, v, body, activate)
    BY <1>1, ReadsPublishKeeps
<1>2. CASE \E r \in Requests : Publishes(r) \/ Collides(r)
    BY <1>2, PublishesKeeps, CollidesKeeps
<1>3. CASE \E r \in Requests : Answers(r) \/ Dies(r)
    BY <1>3, EndsKeep
<1> QED  BY <1>1, <1>2, <1>3, NumberStepKeeps, AgentEditsKeep, CarrierKeeps
         DEF NumbersNext, Serve, Operator

(* NumberAgents: names, owners and versions are as the parts of the invariant say. *)
THEOREM NumbersInvariant ==
    ASSUME FlowsDiffer
    PROVE  NumbersSpec => []NumbersInv
<1>1. NumbersInit => NumbersInv
    BY NumbersStart
<1>2. NumbersInv /\ [NumbersNext]_numberVars => NumbersInv'
    BY NumbersStep
<1> QED  BY <1>1, <1>2, PTL DEF NumbersSpec

(* integrations/crm/numbers.py, api/numbers.py: an assigned number remembers the flow its
   owner last gave it and a number taken back runs it, but for the overlaps the property
   names. *)
THEOREM TheOwnersFlowComesBack ==
    ASSUME FlowsDiffer
    PROVE  NumbersSpec => []OwnersFlowKept
<1>1. NumbersInv => OwnersFlowKept
    BY DEF NumbersInv, RequestsTyped, OwnersInv, OwnInv, OwnersFlowKept
<1> QED  BY <1>1, NumbersInvariant, PTL

(* integrations/crm/agent_versions.py: a version the CRM pushes has one row, however often
   and by however many requests at once it is pushed, and what answers was validated. *)
THEOREM OneRowPerVersion ==
    ASSUME FlowsDiffer
    PROVE  NumbersSpec => []PublishedOnce
<1>1. NumbersInv => PublishedOnce
    BY DEF NumbersInv, VersionsInv
<1> QED  BY <1>1, NumbersInvariant, PTL

(* Both together: what the runs check of the numbers. *)
THEOREM NumbersStayRight ==
    ASSUME FlowsDiffer
    PROVE  NumbersSpec => []NumbersAreRight
<1> QED  BY TheOwnersFlowComesBack, OneRowPerVersion, PTL DEF NumbersAreRight
=============================================================================
