------------------------------- MODULE Billing ------------------------------
(***************************************************************************)
(* What BulkVS charges for calls, mirrored: reconcile_charges fetches the  *)
(* carrier's own rated records of a recent window and writes one row per   *)
(* record and kind; the minutes cost what the record says, the caller-name *)
(* dip of an inbound call what OWEN's rate table says.  The worker scans   *)
(* every few minutes, an operator may scan beside it (manage.py cost-now). *)
(*                                                                         *)
(* A record may come without an amount, or at nothing, be restated, and    *)
(* leave the window.  Rows of an earlier design, estimated from Asterisk's *)
(* records, are there until purged.  Money is a small number; which call a *)
(* row belongs to, the monthly fees and the pages' filters are left out.   *)
(***************************************************************************)
EXTENDS Naturals, FiniteSets, FiniteSetsExt

CONSTANTS
    Inbound, Outbound,    \* the carrier's records of calls to and from a DID
    Silent,               \* not a number: a record without an amount
    Figures,              \* what a record may cost: numbers, 0 included
    Scanners,             \* who may run a scan: the worker, an operator
    MaxStates,            \* bound: times an inbound record is stated; others once
    MaxEdits              \* bound: changes to the rate table, the DID and the adjustments

VARIABLES
    stated,     \* record -> statements of it so far (0: the call is yet to be)
    amount,     \* record -> what the carrier says it costs, 0 included, or Silent
    free,       \* history: records it has said cost nothing
    named,      \* records that come with the caller's name
    aged,       \* records that have left the window
    cnam,       \* numbers.cnam_enabled of the DID
    offered,    \* history: cnam has been on
    rate,       \* billing_rates: what a dip costs, 0 included; Silent: no such row
    minutes,    \* call_charges of kind minutes: record -> row
    dips,       \* call_charges of kind cnam: record -> row
    estimates,  \* records with a row of the superseded estimate beside it
    adjusted,   \* billing_adjustments: their sum
    scan,       \* scanner -> what it fetched and read, while it writes
    edits

carrierVars == <<stated, amount, free, named, aged>>
ownVars     == <<cnam, offered, rate, adjusted, edits>>
billVars    == <<carrierVars, ownVars, minutes, dips, estimates, scan>>

Records == Inbound \union Outbound
NoRow   == [there |-> FALSE, amount |-> 0, unrated |-> FALSE]
NoScan  == [step |-> "none", got |-> <<>>, rate |-> 0, cnam |-> FALSE]

Off ==
    /\ stated = [r \in Records |-> 0] /\ amount = [r \in Records |-> Silent] /\ aged = {}
    /\ free = {} /\ offered = cnam
    /\ minutes = [r \in Records |-> NoRow] /\ dips = minutes
    /\ adjusted = 0 /\ scan = [s \in Scanners |-> NoScan]

BillInit ==
    /\ cnam \in BOOLEAN /\ named \in SUBSET Inbound /\ rate \in {Silent, 1}
    /\ edits = 0 /\ estimates = Inbound /\ Off

(* A behaviour that follows something else. *)
NoBill == cnam = FALSE /\ named = {} /\ rate = 0 /\ Off /\ edits = MaxEdits /\ estimates = {}

-----------------------------------------------------------------------------
(* The carrier *)

(* A record appears, with or without an amount, or is restated. *)
States(r) ==
    /\ edits < MaxEdits \/ stated[r] > 0
    /\ stated[r] < (IF r \in Inbound THEN MaxStates ELSE 1) /\ r \notin aged
    /\ stated' = [stated EXCEPT ![r] = @ + 1]
    /\ \E a \in Figures \union {Silent} : /\ amount' = [amount EXCEPT ![r] = a]
                                         /\ free' = IF a = 0 THEN free \union {r} ELSE free
    /\ UNCHANGED <<named, aged, ownVars, minutes, dips, estimates, scan>>

Ages(r) ==
    /\ stated[r] > 0 /\ r \notin aged
    /\ aged' = aged \union {r}
    /\ UNCHANGED <<stated, amount, free, named, ownVars, minutes, dips, estimates, scan>>

-----------------------------------------------------------------------------
(* A scan *)

Window == {r \in Records : stated[r] > 0 /\ r \notin aged}

(* The fetch, and the start of the transaction with our own numbers and rate.
   An outage of the carrier, and an empty window, end the scan here. *)
Fetches(s) ==
    /\ scan[s].step = "none" /\ Window # {}
    /\ scan' = [scan EXCEPT ![s] = [step |-> "writing", got |-> [r \in Window |-> amount[r]],
                                    rate |-> rate, cnam |-> cnam]]
    /\ UNCHANGED <<carrierVars, ownVars, minutes, dips, estimates>>

(* parse_voice_record: a record without an amount is flagged, never free; one
   at nothing is a price like any other. *)
Priced(n) == [there |-> TRUE, amount |-> n, unrated |-> FALSE]
FreeCharge(a) == Priced(IF a = Silent THEN 0 ELSE a)         \* mutant of Charge
Charge(a) == IF a = Silent THEN [there |-> TRUE, amount |-> 0, unrated |-> TRUE] ELSE Priced(a)

(* A dip goes with an inbound call of a DID that has CNAM on; where no DID is
   found, of its own or of the call's, a delivered name is the evidence. *)
DipFor(s, r, found) ==
    r \in Inbound /\ scan[s].rate # Silent /\ IF r \in found THEN scan[s].cnam ELSE r \in named

(* The upsert: the carrier's figure is definitive. *)
FirstStays(old, new) == IF old.there THEN old ELSE new       \* mutant of Upserted
Upserted(old, new) == new

(* Every row, and the commit; whose DID is found is for the records to say. *)
Writes(s) ==
    /\ scan[s].step = "writing"
    /\ \E found \in SUBSET Inbound : LET got == scan[s].got IN
        /\ minutes' = [r \in Records |->
                          IF r \in DOMAIN got THEN Upserted(minutes[r], Charge(got[r]))
                          ELSE minutes[r]]
        /\ dips' = [r \in Records |->
                          IF r \in DOMAIN got /\ DipFor(s, r, found)
                          THEN Upserted(dips[r], Priced(scan[s].rate)) ELSE dips[r]]
    /\ scan' = [scan EXCEPT ![s] = NoScan]
    /\ UNCHANGED <<carrierVars, ownVars, estimates>>

(* A statement fails or the process dies: the transaction is rolled back. *)
Breaks(s) ==
    /\ scan[s].step = "writing" /\ edits < MaxEdits
    /\ scan' = [scan EXCEPT ![s] = NoScan] /\ edits' = edits + 1
    /\ UNCHANGED <<carrierVars, cnam, offered, rate, adjusted, minutes, dips, estimates>>

-----------------------------------------------------------------------------
(* The operators *)

Edit == edits < MaxEdits /\ edits' = edits + 1
        /\ UNCHANGED <<carrierVars, minutes, scan>>

SetsRate == Edit /\ rate # Silent /\ rate' \in {0, rate + 1}
            /\ UNCHANGED <<cnam, offered, adjusted, dips, estimates>>

TogglesCnam == Edit /\ cnam' = ~cnam /\ offered' = TRUE
               /\ UNCHANGED <<rate, adjusted, dips, estimates>>

(* An adjustment is added, or deleted. *)
Adjusts == Edit /\ adjusted' \in {adjusted + 1, adjusted - 1} \intersect Nat
           /\ UNCHANGED <<cnam, offered, rate, dips, estimates>>

PurgedWithDips == [r \in Records |-> NoRow]     \* mutant of Purged: the dips go too
Purged == dips

(* purge_estimated_charges: by the codes of the estimate, which no row of a
   scan carries. *)
Purges == Edit /\ estimates' = {} /\ dips' = Purged /\ UNCHANGED <<cnam, offered, rate, adjusted>>

BillNext ==
    \/ \E r \in Records : States(r) \/ Ages(r)
    \/ \E s \in Scanners : Fetches(s) \/ Writes(s) \/ Breaks(s)
    \/ SetsRate \/ TogglesCnam \/ Adjusts \/ Purges

BillSpec == BillInit /\ [][BillNext]_billVars

(* Some scan goes on: the worker's schedule, or an operator. *)
BillFairness == WF_billVars(\E s \in Scanners : Fetches(s) \/ Writes(s) \/ Breaks(s))

-----------------------------------------------------------------------------
(* The summary page *)

RowsOf(rows, flags) == {r \in Records : rows[r].there /\ rows[r].unrated \in flags}
SumOf(rows, set) == SumFunctionOnSet([r \in Records |-> rows[r].amount], set)
Rated        == {FALSE}
Any          == BOOLEAN
UsageTotal   == SumOf(minutes, RowsOf(minutes, Rated)) + SumOf(dips, RowsOf(dips, Rated))
PerDayTotal  == SumOf(minutes, RowsOf(minutes, Any)) + SumOf(dips, RowsOf(dips, Any))
UnratedLegs  == {r \in Records : minutes[r].there /\ minutes[r].unrated}

(* The bill is honest: the totals of a page agree, because a leg without a
   price carries no money and is listed instead; a leg that is not listed is
   free only when the carrier said so of that very call; and a dip is charged
   only beside its inbound call, where CNAM was on or a name was delivered ("a
   bill that quietly under-reports is worse than one that admits ignorance"). *)
BillIsHonest ==
    /\ UsageTotal = PerDayTotal
    /\ \A r \in Records :
        /\ minutes[r].there => IF r \in UnratedLegs THEN minutes[r].amount = 0
                               ELSE minutes[r].amount > 0 \/ r \in free
        /\ dips[r].there => /\ minutes[r].there /\ r \in Inbound /\ ~dips[r].unrated
                            /\ offered \/ r \in named

(* Every record of the window is charged as the carrier last stated it ("their
   record wins over ours"): so it is in the end, however scans overlapped, broke
   off and were repeated. *)
Mirrored == \A r \in Window : minutes[r] = Charge(amount[r])

(* No row a scan wrote is ever lost: not to a later scan, nor to the purge of
   the estimates ("this deliberately does NOT delete CNAM rows any more"). *)
Forgets  == \E r \in Records : \/ minutes[r].there /\ ~minutes'[r].there
                               \/ dips[r].there /\ ~dips'[r].there
NothingForgotten == [][~Forgets]_billVars
=============================================================================
