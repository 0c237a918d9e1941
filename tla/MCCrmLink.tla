------------------------------ MODULE MCCrmLink -----------------------------
(* Instances of CrmLink for TLC; and, beside it, of Pictures, what its texts
   carry.  `part` says which of the two a behaviour follows. *)
EXTENDS CrmLink, Pictures, TLC

CONSTANTS w1, w2, t1, t2

OneByOne == {{"calls"}, {"calls", "withheld"}, {"texts"}, {"sends"}}
BothTexts == {t1, t2}
TwoDeliveries == {w1, w2}
TwoWords == {"sent", "delivered"}
AllReports == Calls \union Texts \union Receipts \union {Send}

VARIABLE part

-----------------------------------------------------------------------------
BothInit ==
    \/ part = "link" /\ LinkInit /\ NoPictures
    \/ part = "pictures" /\ LinkInit /\ mix = {"texts"} /\ bound /\ PicturesInit

BothNext ==
    \/ part = "link" /\ LinkNext /\ UNCHANGED <<part, pictureVars>>
    \/ part = "pictures" /\ PicturesNext /\ UNCHANGED <<part, reportVars>>

BothFair == BothInit /\ [][BothNext]_<<part, reportVars, pictureVars>> /\ LinkFairness /\ PicturesFairness

(* Reports are not left pending, and no picture is left lying. *)
AllSettle == <>[](IF part = "pictures" THEN PicturesSettled ELSE AllSettled)
=============================================================================
