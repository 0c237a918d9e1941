----------------------------- MODULE MCJobQueue -----------------------------
(* Instances of JobQueue and, beside it, of two parts that run on their own:
   Relays (handlers that work its jobs) and Billing (another of the worker's
   tasks).  `part` says which of the three a behaviour follows. *)
EXTENDS JobQueue

CONSTANTS j1, j2, j3, d1, d2, call, text, Nothing, MaxFeeds, MaxFaults, into, out, worker, operator,
          MaxStates, MaxEdits, Silent

SomeDelay == {0, 1}
ThreeJobs == {j1, j2, j3}
TwoDrainers == {d1, d2}
OnePoison == {j1}
SomeFigures == {0, 1}
RelayJobs == ({call} \X (1..3)) \union ({text} \X (1..2))

-----------------------------------------------------------------------------
VARIABLES part, phase, tries, at, job, deaths, over, recorded, analysed, late, relayed,
          posts, unheard, told, hand, feeds, faults,
          stated, amount, free, named, aged, cnam, offered, rate, minutes, dips, estimates, adjusted, scan, edits

R == INSTANCE Relays WITH Jobs <- RelayJobs, Subjects <- {call, text}, TextsIn <- {text},
                          cur <- job, crashes <- deaths, MaxCrashes <- 1
B == INSTANCE Billing WITH Inbound <- {into}, Outbound <- {out}, Scanners <- {worker, operator},
                          Figures <- SomeFigures
relayVars == <<phase, tries, at, job, deaths, over, recorded, analysed, late, relayed,
               posts, unheard, told, hand, feeds, faults>>
billVars == <<stated, amount, free, named, aged, cnam, offered, rate, minutes, dips, estimates,
              adjusted, scan, edits>>
all == <<part, vars, relayVars, billVars>>

(* Bounds on the bill: the call out has its price at once and stays in the window,
   and of the cases of a dip those with one ground for it, or no rate, begin a
   behaviour. *)
OneGround == cnam = (named = {}) /\ (rate = Silent => cnam)
PlainOut == out \notin aged' /\ (stated'[out] = 1 => amount'[out] = 1)

AllInit ==
    /\ Init
    /\ \/ part = "queue"  /\ R!Parked /\ B!NoBill
       \/ part = "relays" /\ R!RelayInit /\ B!NoBill
       \/ part = "bill"   /\ R!Parked /\ B!BillInit /\ OneGround

AllNext ==
    \/ part = "queue"  /\ Next /\ UNCHANGED <<part, relayVars, billVars>>
    \/ part = "relays" /\ R!RelayNext /\ UNCHANGED <<part, vars, billVars>>
    \/ part = "bill"   /\ B!BillNext /\ PlainOut /\ UNCHANGED <<part, vars, relayVars>>

AllFair == AllInit /\ [][AllNext]_all /\ Fairness /\ R!RelayFairness /\ B!BillFairness

(* Nothing is relayed twice without cause, nor without its analysis, and the bill's
   totals are honest: RelayedOnce and BillIsHonest. *)
BooksAreHonest == R!RelayedOnce /\ B!BillIsHonest

(* Jobs are decided, and in the end relays are made and charges are as the
   carrier stated them, with none forgotten. *)
WorkIsDone == DecidedOrOrphaned /\ <>[](R!Made /\ B!Mirrored) /\ B!NothingForgotten
=============================================================================
