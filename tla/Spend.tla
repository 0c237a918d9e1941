-------------------------------- MODULE Spend -------------------------------
(***************************************************************************)
(* The daily cap on what the AI agents spend, and its warning.  The spend  *)
(* is the sum of the charges written over the last 24 hours; an agent call *)
(* asks for it before it begins and, at the cap, takes the flow's fallback *)
(* instead.  A call's charge is written when it is over: calls that talk   *)
(* at the same time are not seen by each other's check.                    *)
(*                                                                         *)
(* Retell's calls look whether to warn when they are refused and when they *)
(* are charged; those of owen-voice never do.  The warning is said once a  *)
(* day, by a mark in app_settings that setting the limits takes away.      *)
(***************************************************************************)
EXTENDS Naturals, FiniteSets

CONSTANTS
    Sessions,      \* agent sessions
    Retell,        \* those that Retell holds
    Again,         \* sessions of a call that had one before, held by owen-voice
    Caps,          \* daily caps that may be set; 0: no cap
    Percent,       \* the share of the cap the warning is at
    MaxSets,       \* bound: limits set, days turned and charges grown old
    MaxFailures    \* bound: failures of the database

VARIABLES
    cap,           \* the cap in force
    session,       \* session -> where it is
    charged,       \* sessions whose charge is in the window
    kept,          \* sessions whose transcript and capture are stored
    due,           \* history: session -> the day and the cap it was due for
    check,         \* session -> the check for the warning it makes
    mark, today,   \* the day of the mark (0: none), the day it is
    said,          \* the warnings said: days and caps
    late,          \* history: a warning named a cap no longer in force
    peak,          \* history: the most sessions there were at one time
    sets, failures

limitVars == <<cap, sets>>
dayVars   == <<today, mark>>
spendVars == <<limitVars, dayVars, said, late, peak, session, charged, kept, due, check, failures>>

Nobody == [day |-> 0, cap |-> 0]
NoCheck == [step |-> "none", day |-> 0, cap |-> 0]
Now == [day |-> today, cap |-> cap]

Off ==
    /\ charged = {} /\ kept = {} /\ due = [s \in Sessions |-> Nobody]
    /\ check = [s \in Sessions |-> NoCheck] /\ mark = 0 /\ today = 1
    /\ said = {} /\ late = FALSE /\ peak = 0 /\ failures = 0

SpendInit == Off /\ cap \in Caps /\ sets = 0 /\ session = [s \in Sessions |-> "new"]

(* A behaviour that follows something else. *)
Parked == Off /\ cap = 0 /\ sets = MaxSets /\ session = [s \in Sessions |-> "over"]

Larger(m, n) == IF m > n THEN m ELSE n
Spent == Cardinality(charged)
OverOnlyPast == cap > 0 /\ Spent > cap       \* mutant of OverCap
OverCap == cap > 0 /\ Spent >= cap
AtPercent == cap > 0 /\ 100 * Spent >= cap * Percent

-----------------------------------------------------------------------------
(* The sessions *)

Looking(s) == check' = [check EXCEPT ![s] = [NoCheck EXCEPT !.step = "look"]]
RefusedQuietly(s) == UNCHANGED check      \* mutant of OnRefusal
OnRefusal(s) == IF s \in Retell THEN Looking(s) ELSE UNCHANGED check

(* over_cap holds: the flow's fallback takes the caller. *)
Refuses(s) ==
    /\ session[s] = "new" /\ OverCap
    /\ session' = [session EXCEPT ![s] = "over"]
    /\ due' = [due EXCEPT ![s] = Now]
    /\ OnRefusal(s)
    /\ UNCHANGED <<limitVars, dayVars, said, late, peak, charged, kept, failures>>

(* It does not, or cannot be told: the check fails open. *)
Admits(s) ==
    /\ session[s] = "new"
    /\ IF OverCap THEN failures < MaxFailures /\ failures' = failures + 1 ELSE UNCHANGED failures
    /\ session' = [session EXCEPT ![s] = "live"]
    /\ peak' = Larger(peak, Cardinality({t \in Sessions : session'[t] = "live"}))
    /\ UNCHANGED <<limitVars, dayVars, said, late, charged, kept, due, check>>

(* owen-voice's session is over: its transcript, capture and charges are one
   transaction.  The charges of a call have one key each, so a later session
   of the call is refused the whole of it. *)
VoiceEnds(s) ==
    /\ session[s] = "live" /\ s \notin Retell
    /\ session' = [session EXCEPT ![s] = "over"]
    /\ IF s \in Again /\ kept \ (Retell \union Again) # {} THEN UNCHANGED <<charged, kept>>
       ELSE /\ kept' = kept \union {s}
            /\ charged' \in {charged, charged \union {s}}     \* without usage: unrated
    /\ UNCHANGED <<limitVars, dayVars, said, late, peak, due, check, failures>>

(* Retell's `ended`: its transcript and its cost, then the warning. *)
RetellEnds(s) ==
    /\ session[s] = "live" /\ s \in Retell
    /\ session' = [session EXCEPT ![s] = "over"]
    /\ kept' = kept \union {s}
    /\ charged' \in {charged, charged \union {s}}             \* a cost not reported
    /\ Looking(s)
    /\ UNCHANGED <<limitVars, dayVars, said, late, peak, due, failures>>

-----------------------------------------------------------------------------
(* check_alert *)

Marked == mark = today

Looks(s) ==
    /\ check[s].step = "look"
    /\ check' = [check EXCEPT ![s] =
                    IF AtPercent /\ ~Marked
                    THEN [step |-> "mark", day |-> today, cap |-> cap] ELSE NoCheck]
    /\ due' = IF AtPercent /\ due[s] = Now THEN due ELSE [due EXCEPT ![s] = Nobody]
    /\ UNCHANGED <<limitVars, dayVars, said, late, peak, session, charged, kept, failures>>

(* The mark is committed, and the warning logged. *)
Warns(s) ==
    /\ check[s].step = "mark"
    /\ mark' = check[s].day
    /\ late' = (late \/ check[s].cap # cap)
    /\ said' = said \union {[day |-> check[s].day, cap |-> check[s].cap]}
    /\ check' = [check EXCEPT ![s] = NoCheck]
    /\ UNCHANGED <<limitVars, today, peak, session, charged, kept, due, failures>>

(* A statement fails: swallowed, an alert must never affect a call. *)
WarnsNobody(s) ==
    /\ check[s].step # "none" /\ failures < MaxFailures
    /\ check' = [check EXCEPT ![s] = NoCheck] /\ failures' = failures + 1
    /\ UNCHANGED <<limitVars, dayVars, said, late, peak, session, charged, kept, due>>

-----------------------------------------------------------------------------
(* The owner, and time *)

StaysMarked == mark           \* mutant of Unmarked: the mark is left
Unmarked == 0

SetsLimits(c) ==
    /\ sets < MaxSets /\ sets' = sets + 1
    /\ cap' = c /\ mark' = Unmarked
    /\ UNCHANGED <<today, said, late, peak, session, charged, kept, due, check, failures>>

DayTurns ==
    /\ sets < MaxSets /\ sets' = sets + 1 /\ today' = today + 1
    /\ UNCHANGED <<cap, mark, said, late, peak, session, charged, kept, due, check, failures>>

(* A charge is 24 hours old. *)
Slides ==
    /\ \E s \in charged : charged' = charged \ {s}
    /\ sets < MaxSets /\ sets' = sets + 1
    /\ UNCHANGED <<cap, dayVars, said, late, peak, session, kept, due, check, failures>>

SpendNext ==
    \/ \E s \in Sessions : \/ Refuses(s) \/ Admits(s) \/ VoiceEnds(s) \/ RetellEnds(s)
                           \/ Looks(s) \/ Warns(s) \/ WarnsNobody(s)
    \/ \E c \in Caps : SetsLimits(c)
    \/ DayTurns \/ Slides

SpendSpec == SpendInit /\ [][SpendNext]_spendVars

-----------------------------------------------------------------------------
(* A spend can pass the cap only by what the sessions under way cost: none of
   them sees the charge of another, but while limits stay and the check
   answers, no session begins that could have seen the cap reached. *)
OverspendIsBounded ==
    cap > 0 /\ sets = 0 /\ failures = 0 => Spent < cap + Larger(peak, 1)

(* Whoever is turned away from a Retell agent by the cap leaves word of it: once
   its check is over the warning of that day and cap has been said, be it by
   another -- unless the day, the cap or the spend had moved on, the database
   failed, or a check that had read the former limits marked the day last. *)
RefusalIsSaid ==
    \A s \in Retell :
        due[s].cap > 0 /\ check[s].step = "none" => due[s] \in said \/ late \/ failures > 0
=============================================================================
