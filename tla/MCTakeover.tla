----------------------------- MODULE MCTakeover -----------------------------
(* Instances of Takeover for TLC; and, beside it, of Spend, which decides whether
   an agent is let at a caller at all, and of Receipts.  `part` says which of the
   three a behaviour follows. *)
EXTENDS Takeover, TLC

CONSTANTS ana, bob, s1, s2, s3, s4, Percent, MaxSets, t1, t2, r1, r2, r3, hello, q1, q2

TwoSupervisors == {ana, bob}
Alike == Permutations(TwoSupervisors)

VARIABLES part, cap, talk, charged, kept, due, check, mark, today, said, late, peak, sets, lost

S == INSTANCE Spend WITH session <- talk, failures <- lost, MaxFailures <- MaxFaults,
                         Sessions <- {s1, s2, s3, s4}, Retell <- {s1, s2}, Again <- {s4},
                         Caps <- {1, 2}
spendVars == <<cap, talk, charged, kept, due, check, mark, today, said, late, peak, sets, lost>>

VARIABLES status, seen, inbox, posts, acked, old, doing, todo, marks, owing, runs, quiet, told,
          applied, overlaps, slips

(* Two texts of the same words, one of them the CRM's, the receipts of both, a
   receipt of a text nobody here sent, and a customer's text. *)
R == INSTANCE Receipts WITH
        Sent <- {t1, t2}, Ours <- {t1}, Echo <- (t1 :> "same" @@ t2 :> "same"),
        Receipts <- {r1, r2, r3}, About <- (r1 :> "same" @@ r2 :> "same" @@ r3 :> "else"),
        Stat <- (r1 :> "delivered" @@ r2 :> "failed" @@ r3 :> "delivered"),
        Others <- {hello}, Traffic <- {{r1, r2}, {r3, hello}},
        Servers <- {q1, q2}, MaxPosts <- 2, MaxRuns <- 2, MaxSlips <- MaxFaults,
        task <- doing
receiptVars == <<status, seen, inbox, posts, acked, old, doing, todo, marks, owing, runs, quiet,
                 told, applied, overlaps, slips>>

-----------------------------------------------------------------------------
(* where a behaviour follows one of the other two *)
NoCall == Init /\ Retell /\ \A s \in Supervisors : line[s] = "none"

ThreeInit ==
    \/ part = "takeover" /\ Init /\ S!Parked /\ R!NoReceipts
    \/ part = "spend" /\ NoCall /\ S!SpendInit /\ R!NoReceipts
    \/ part = "receipts" /\ NoCall /\ S!Parked /\ R!ReceiptsInit

ThreeNext ==
    \/ part = "takeover" /\ Next /\ UNCHANGED <<part, spendVars, receiptVars>>
    \/ part = "spend" /\ S!SpendNext /\ UNCHANGED <<part, vars, receiptVars>>
    \/ part = "receipts" /\ R!ReceiptsNext /\ UNCHANGED <<part, vars, spendVars>>

Three == ThreeInit /\ [][ThreeNext]_<<part, vars, spendVars, receiptVars>>

(* Spend's: the cap is passed by no more than the sessions under way, and who is
   turned away by it leaves word of it: OverspendIsBounded and RefusalIsSaid.
   Receipts': none is lost, shown as a customer's text or told twice. *)
CapAndReceiptsHold == S!OverspendIsBounded /\ S!RefusalIsSaid /\ R!ReceiptsAreKept
=============================================================================
