---------------------------- MODULE MCMailIntake ----------------------------
(* Instances of MailIntake for TLC: a work order, and one more message; and,
   beside it, of the two scripts that import into GoHighLevel and delete from it
   while MailIntake's relay writes there.  `part` says which of the three a
   behaviour follows. *)
EXTENDS MailIntake

CONSTANTS order, other, third, ann, NoPhone, Sheets, People, MaxRuns, MaxKills, MaxSpoils,
          MaxLeads, MaxCuts, MaxRelays, MaxDeletes

Look(s, c, k) == [subject |-> s, complete |-> c, marks |-> k, id |-> TRUE, ours |-> TRUE, original |-> Nobody]

Confirmation == Look("confirmation", TRUE, {})
Cancellation == [Look("canceled", FALSE, {}) EXCEPT !.original = third]
Nameless     == [Look("other", FALSE, {}) EXCEPT !.id = FALSE]
Stranger     == [Look("other", FALSE, {}) EXCEPT !.ours = FALSE]
Approval     == Look("note", FALSE, {"anchor", "autho", "amount"})
Refusal      == Look("note", FALSE, {"anchor", "autho", "amount", "refusal"})

Three == {order, other, third}
Contents1 == {[m \in {order, other} |-> IF m = order THEN Confirmation ELSE Nameless],
              [m \in {other} |-> Approval]}
Contents2 == {[m \in {third, other} |-> IF m = third THEN Confirmation ELSE l] :
                 l \in {Confirmation, Cancellation, Refusal, Stranger}}
AllContents == Contents1 \union Contents2
ForAnn == [m \in Mails |-> ann]
SomeJobs == ({"ghl", "crm"} \X Mails) \union {<<"again", order>>}

Row(c, p, w, n) == [client |-> c, mail |-> 1, pipe |-> p, won |-> w, worth |-> n]
SomeSheets ==
    {<<Row(ann, "ahs", TRUE, 1), Row(ann, "ahs", TRUE, 2), Row(ann, "retail", TRUE, 1)>>,
     <<Row(ann, "ahs", FALSE, 1), Row(ann, "ahs", TRUE, 2)>>,
     <<Row(NoPhone, "retail", TRUE, 1), Row(NoPhone, "retail", TRUE, 1)>>}
TwoPeople == {order, other}

-----------------------------------------------------------------------------
VARIABLES part, sheet, rule, by, cards, noted, booked, ledger, torn, halves, run, fix, said, runs,
          kills, spoils, leads, source, held, del, csv, verdict, warned, missed, lost, cuts, relays, deletes

W == INSTANCE WorkizImport WITH notes <- noted
D == INSTANCE WorkizDelete WITH card <- held, runs <- deletes
importVars == <<sheet, rule, by, cards, noted, booked, ledger, torn, halves, run, fix, said, runs,
                kills, spoils, leads>>
deleteVars == <<source, held, del, csv, verdict, warned, missed, lost, cuts, relays, deletes>>
all == <<part, mailVars, importVars, deleteVars>>

NoMail == MailInit /\ look = (CHOOSE c \in Contents : TRUE) /\ mode = "unset"

AllInit ==
    \/ part = "mail" /\ MailInit /\ W!NoImport /\ D!Parked
    \/ part = "import" /\ NoMail /\ W!ImportInit /\ D!Parked
    \/ part = "delete" /\ NoMail /\ W!NoImport /\ D!DeleteInit

AllNext ==
    \/ part = "mail" /\ MailNext /\ UNCHANGED <<part, importVars, deleteVars>>
    \/ part = "import" /\ W!ImportNext /\ UNCHANGED <<part, mailVars, deleteVars>>
    \/ part = "delete" /\ D!DeleteNext /\ UNCHANGED <<part, mailVars, importVars>>

AllFair == AllInit /\ [][AllNext]_all /\ MailFairness

(* What the scripts leave in GoHighLevel, and say of it, can be trusted:
   WorkizImport's MoneyIsAccounted and WorkizDelete's CleanIsClean. *)
ScriptsAreHonest == W!MoneyIsAccounted /\ D!CleanIsClean
=============================================================================
