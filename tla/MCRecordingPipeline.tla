------------------------ MODULE MCRecordingPipeline -------------------------
(* Instances of RecordingPipeline and, beside it, of Inbox.  `part` says which
   of the two a behaviour follows. *)
EXTENDS RecordingPipeline, Inbox

CONSTANTS r1, d1, d2, w1, w2, t1, c1, a1

OneRec == {r1}
SixJobs == 1..6
Both == [i \in {t1, c1} |-> IF i = t1 THEN d1 ELSE d2]    \* one through each

-----------------------------------------------------------------------------
VARIABLE part

all == <<part, vars, threadVars>>

Records == part = "recordings"

BothInit ==
    /\ Init
    /\ \/ part = "recordings" /\ Parked
       \/ part = "inbox" /\ ThreadInit

BothNext ==
    \/ Records /\ Next /\ UNCHANGED <<part, threadVars>>
    \/ ~Records /\ ThreadNext /\ UNCHANGED <<part, vars>>

BothFair ==
    /\ BothInit /\ [][BothNext]_all
    /\ \A j \in Jobs : WF_vars(Claim(j))
    /\ WF_vars(Stage) /\ WF_vars(Restart)
    /\ \A r \in Recs : WF_vars(WebhookEnqueue(r)) /\ WF_vars(Records /\ Reconcile(r))
    /\ ThreadFairness

(* Recordings settle, and the Inbox's requests and deliveries are served:
   RecordingsSettle and AllServed. *)
EverythingSettles == RecordingsSettle /\ <>[](Records \/ AllServed)
=============================================================================
