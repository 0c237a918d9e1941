----------------------------- MODULE WorkizImport ----------------------------
(***************************************************************************)
(* The hand-run import of a Workiz export into GoHighLevel                 *)
(* (scripts/import_workiz.py) and the repair of what it left wrong         *)
(* (scripts/fix_workiz.py).                                                *)
(*                                                                         *)
(* The script takes the export's rows in order: contact, card or note,     *)
(* appointment, then one line of the ledger, which the next run resumes    *)
(* from.  It may be killed between any two of these, or while it writes    *)
(* the line; the e-mail relay goes on opening cards for the same clients.  *)
(***************************************************************************)
EXTENDS Naturals, Sequences, FiniteSetsExt

CONSTANTS
    Sheets,      \* exports: sequences of rows [client, mail, pipe, won, worth]
    NoPhone,     \* the client of a row with no usable phone number
    MaxRuns, MaxKills, MaxSpoils, MaxLeads   \* bounds: runs, kills, refused requests, relay's cards

VARIABLES
    sheet,
    rule,     \* GHL: cards a contact may hold in a pipeline, "one" or "many"
    by,       \* --duplicates: "sum" or "allow"
    cards,    \* GHL: opportunities, in the order they were opened
    notes,    \* GHL: how often each row's job was noted on its contact
    booked,   \* GHL: appointments of each row
    ledger,   \* the lines a reader can parse, in order
    torn,     \* the file ends in half a line
    halves,   \* half lines inside it, each joined to the line appended after it
    run,      \* the import under way
    fix,      \* the repair
    said,     \* rows a [FAIL] was printed for
    runs, kills, spoils, leads

ghl == <<cards, notes, booked>>
disk == <<ledger, torn, halves>>
setup == <<sheet, rule, by>>
counts == <<runs, kills, spoils, leads>>
importVars == <<setup, ghl, disk, run, fix, said, counts>>

RunAt(at, row, upto, seen) == [at |-> at, row |-> row, upto |-> upto, seen |-> seen,
                               first |-> FALSE, card |-> 0, note |-> FALSE, appt |-> FALSE]
NoRun == RunAt("off", 0, 0, {})

Rows == 1..Len(sheet)
HasPhone(r) == sheet[r].client # NoPhone               \* e164

(* GHL's contact of a row, found or made by the phone number, else by the e-mail
   (a row with neither has a mail of its own); and pipe_key. *)
Contact(r) == <<sheet[r].client, IF HasPhone(r) THEN 0 ELSE sheet[r].mail>>
Key(r) == <<Contact(r), sheet[r].pipe>>

Worth == [r \in Rows |-> sheet[r].worth]
WonJobs(key, upto) == {r \in 1..upto : HasPhone(r) /\ Key(r) = key /\ sheet[r].won}
WonOf(key, upto) == SumFunctionOnSet(Worth, WonJobs(key, upto))     \* won_by_key

Ledgered == {ledger[i].row : i \in DOMAIN ledger}
EntryOf(r) == CHOOSE e \in {ledger[i] : i \in DOMAIN ledger} : e.row = r

ImportInit ==
    /\ sheet \in Sheets /\ rule \in {"one", "many"} /\ by \in {"sum", "allow"}
    /\ cards = <<>> /\ notes = [r \in Rows |-> 0] /\ booked = [r \in Rows |-> 0]
    /\ ledger = <<>> /\ torn = FALSE /\ halves = 0
    /\ run = NoRun /\ fix = [at |-> "new", todo |-> {}] /\ said = {}
    /\ runs = 0 /\ kills = 0 /\ spoils = 0 /\ leads = 0

NoImport ==
    /\ sheet = <<>> /\ rule = "one" /\ by = "sum"
    /\ cards = <<>> /\ notes = <<>> /\ booked = <<>>
    /\ ledger = <<>> /\ torn = FALSE /\ halves = 0
    /\ run = NoRun /\ fix = [at |-> "done", todo |-> {}] /\ said = {}
    /\ runs = MaxRuns /\ kills = MaxKills /\ spoils = MaxSpoils /\ leads = MaxLeads

-----------------------------------------------------------------------------
(* import_rows *)

(* --limit takes a prefix of the rows. *)
Begins(upto) ==
    /\ run.at = "off" /\ fix.at \in {"new", "done"} /\ runs < MaxRuns
    /\ runs' = runs + 1
    /\ run' = RunAt("row", 1, upto, {})
    /\ UNCHANGED <<setup, ghl, disk, fix, said, kills, spoils, leads>>

Onward == run' = RunAt("row", run.row + 1, run.upto, run.seen)
Spoils == spoils < MaxSpoils /\ spoils' = spoils + 1
Says(r) == said' = said \cup {r}

SkipsNone(r) == FALSE                               \* mutant of Resumed: no ledger read
Resumed(r) == r \in Ledgered                        \* done_before

SkipsRow ==
    /\ run.at = "row" /\ run.row =< run.upto /\ Resumed(run.row)
    /\ Onward
    /\ UNCHANGED <<setup, ghl, disk, fix, said, counts>>

PutsContact ==
    /\ run.at = "row" /\ run.row =< run.upto /\ ~Resumed(run.row)
    /\ \/ /\ run' = [run EXCEPT !.at = "contact",
                                !.first = Key(run.row) \notin run.seen,
                                !.seen = IF HasPhone(run.row) THEN @ \cup {Key(run.row)} ELSE @]
          /\ UNCHANGED <<said, spoils>>
       \/ Spoils /\ Says(run.row) /\ Onward
    /\ UNCHANGED <<setup, ghl, disk, fix, runs, kills, leads>>

(* skip_opportunity: the client's first card of this run carries the sum. *)
NeverIncluded == FALSE                              \* mutant of Included
Included == by = "sum" /\ HasPhone(run.row) /\ ~run.first

Value ==
    LET won == WonOf(Key(run.row), run.upto)
    IN  IF by = "sum" /\ HasPhone(run.row) /\ run.first /\ won > 0 THEN won ELSE sheet[run.row].worth

Free(key) == rule = "many" \/ \A i \in DOMAIN cards : cards[i].key # key

PutsCard ==
    /\ run.at = "contact" /\ ~Included
    /\ \/ /\ Free(Key(run.row))
          /\ cards' = Append(cards, [key |-> Key(run.row), of |-> run.row, value |-> Value])
          /\ run' = [run EXCEPT !.at = "put", !.card = Len(cards) + 1]
          /\ UNCHANGED <<said, spoils>>
       \/ /\ ~Free(Key(run.row))                    \* OPPORTUNITY_NO_DUPLICATE
          /\ run' = [run EXCEPT !.at = "refused"]
          /\ UNCHANGED <<cards, said, spoils>>
       \/ Spoils /\ Says(run.row) /\ Onward /\ UNCHANGED cards
    /\ UNCHANGED <<setup, notes, booked, disk, fix, runs, kills, leads>>

(* A note that fails is printed, and the row completes all the same. *)
PutsNote ==
    /\ run.at = "refused" \/ (run.at = "contact" /\ Included)
    /\ \/ /\ notes' = [notes EXCEPT ![run.row] = @ + 1]
          /\ run' = [run EXCEPT !.at = "put", !.note = TRUE]
          /\ UNCHANGED <<said, spoils>>
       \/ /\ Spoils /\ Says(run.row)
          /\ run' = [run EXCEPT !.at = "put"]
          /\ UNCHANGED notes
    /\ UNCHANGED <<setup, cards, booked, disk, fix, runs, kills, leads>>

Books ==
    /\ run.at = "put"
    /\ \/ /\ booked' = [booked EXCEPT ![run.row] = @ + 1]
          /\ run' = [run EXCEPT !.at = "booked", !.appt = TRUE]
          /\ UNCHANGED spoils
       \/ /\ Spoils
          /\ run' = [run EXCEPT !.at = "booked"]
          /\ UNCHANGED booked
    /\ UNCHANGED <<setup, cards, notes, disk, fix, said, runs, kills, leads>>

StrandedNever == 0                                  \* mutant of Stranded
Stranded ==                                         \* revenue that reached no card
    IF run.note /\ ~Included THEN Value ELSE 0

Entry == [row |-> run.row, card |-> run.card, note |-> run.note, appt |-> run.appt,
          stranded |-> Stranded]

(* Appended to whatever the file ends with: after half a line, a reader cannot
   parse this one either. *)
Appends ==
    /\ run.at = "booked"
    /\ IF torn THEN torn' = FALSE /\ halves' = halves + 1 /\ UNCHANGED ledger
       ELSE ledger' = Append(ledger, Entry) /\ UNCHANGED <<torn, halves>>
    /\ Onward
    /\ UNCHANGED <<setup, ghl, fix, said, counts>>

EndsRun ==
    /\ run.at = "row" /\ run.row > run.upto
    /\ run' = NoRun
    /\ UNCHANGED <<setup, ghl, disk, fix, said, counts>>

(* The container is stopped, or a request raises: nothing catches it.  A kill
   may leave half a line. *)
Killed ==
    /\ run.at # "off" /\ kills < MaxKills
    /\ kills' = kills + 1
    /\ run' = NoRun
    /\ \/ UNCHANGED torn
       \/ run.at = "booked" /\ torn' = TRUE
    /\ UNCHANGED <<setup, ghl, ledger, halves, fix, said, runs, spoils, leads>>

(* The e-mail relay (handlers.py _relay_via_api) opens a card for a client. *)
RelayOpens(r) ==
    /\ leads < MaxLeads /\ HasPhone(r) /\ Free(Key(r))
    /\ leads' = leads + 1
    /\ cards' = Append(cards, [key |-> Key(r), of |-> 0, value |-> 0])
    /\ UNCHANGED <<setup, notes, booked, disk, run, fix, said, runs, kills, spoils>>

-----------------------------------------------------------------------------
(* fix_workiz: once, over the whole export and the ledger, every line of which
   it must be able to parse. *)

FixBegins ==
    /\ fix.at = "new" /\ run.at = "off" /\ ~torn /\ halves = 0 /\ ledger # <<>>
    /\ fix' = [at |-> "values", todo |-> {r \in Ledgered : EntryOf(r).stranded > 0}]
    /\ UNCHANGED <<setup, ghl, disk, run, said, counts>>

(* sibs[0]: the ledger's first card of the same contact and pipeline. *)
SibsOf(r) == {i \in DOMAIN ledger : /\ Contact(ledger[i].row) = Contact(r) /\ ledger[i].card # 0
                                    /\ ledger[i].row # r
                                    /\ sheet[ledger[i].row].pipe = sheet[r].pipe}

FixesValue(r) ==
    /\ fix.at = "values" /\ r \in fix.todo
    /\ \/ SibsOf(r) = {} /\ UNCHANGED <<cards, spoils>>
       \/ /\ SibsOf(r) # {}
          /\ cards' = [cards EXCEPT ![ledger[Min(SibsOf(r))].card] =
                                   [@ EXCEPT !.value = WonOf(Key(r), Len(sheet))]]
          /\ UNCHANGED spoils
       \/ Spoils /\ UNCHANGED cards
    /\ fix' = [fix EXCEPT !.todo = @ \ {r}]
    /\ UNCHANGED <<setup, notes, booked, disk, run, said, runs, kills, leads>>

FixTurns ==
    /\ fix.at = "values" /\ fix.todo = {}
    /\ fix' = [at |-> "appts", todo |-> {r \in Ledgered : ~EntryOf(r).appt}]
    /\ UNCHANGED <<setup, ghl, disk, run, said, counts>>

FixBooks(r) ==
    /\ fix.at = "appts" /\ r \in fix.todo
    /\ \/ booked' = [booked EXCEPT ![r] = @ + 1] /\ UNCHANGED spoils
       \/ Spoils /\ UNCHANGED booked
    /\ fix' = [fix EXCEPT !.todo = @ \ {r}]
    /\ UNCHANGED <<setup, cards, notes, disk, run, said, runs, kills, leads>>

FixEnds ==
    /\ fix.at = "appts" /\ fix.todo = {}
    /\ fix' = [fix EXCEPT !.at = "done"]
    /\ UNCHANGED <<setup, ghl, disk, run, said, counts>>

ImportNext ==
    \/ \E upto \in Rows : Begins(upto)
    \/ SkipsRow \/ PutsContact \/ PutsCard \/ PutsNote \/ Books \/ Appends \/ EndsRun \/ Killed
    \/ \E r \in Rows : RelayOpens(r) \/ FixesValue(r) \/ FixBooks(r)
    \/ FixBegins \/ FixTurns \/ FixEnds

ImportSpec == ImportInit /\ [][ImportNext]_importVars

-----------------------------------------------------------------------------
OursOn(key) == {i \in DOMAIN cards : cards[i].of # 0 /\ cards[i].key = key}
OnCards(key) == SumFunctionOnSet([i \in DOMAIN cards |-> cards[i].value], OursOn(key))
JobsOf(key) == {r \in Rows : Key(r) = key}
Keys == {Key(r) : r \in Rows}

Cards == [key : Keys, of : 0..Len(sheet), value : Nat]
Lines == [row : Rows, card : 0..Len(cards), note : BOOLEAN, appt : BOOLEAN, stranded : Nat]

Runs == [at : {"off", "row", "contact", "refused", "put", "booked"}, row : Nat, upto : 0..Len(sheet),
         seen : SUBSET Keys, first : BOOLEAN, card : 0..Len(cards), note : BOOLEAN, appt : BOOLEAN]

ImportTypes ==
    /\ sheet \in Sheets \cup {<<>>} /\ rule \in {"one", "many"} /\ by \in {"sum", "allow"}
    /\ cards \in Seq(Cards) /\ notes \in [Rows -> Nat] /\ booked \in [Rows -> Nat]
    /\ ledger \in Seq(Lines) /\ torn \in BOOLEAN /\ halves \in Nat
    /\ run \in Runs
    /\ fix \in [at : {"new", "values", "appts", "done"}, todo : SUBSET Rows]
    /\ said \in SUBSET Rows /\ runs \in Nat /\ kills \in Nat

(* Once the ledger holds all jobs of a client with a phone, what they earned is on
   the client's cards, or the ledger says how much is not, or a failure was printed
   -- whatever was killed, refused, limited or opened by the relay meanwhile.
   Only where half a line hid the job that stood for the client, and a third run
   took that job up alone, may it be missing in silence. *)
NothingMissing ==
    \A key \in Keys :
        JobsOf(key) \subseteq Ledgered =>
            \/ OnCards(key) >= WonOf(key, Len(sheet))
            \/ \E r \in JobsOf(key) : r \in said \/ EntryOf(r).stranded > 0
            \/ by = "sum" /\ halves > 0 /\ runs > 2

(* No client's cards carry more than their jobs are worth: GoHighLevel's rule of
   one card sees to it, and where it is off the import's own bookkeeping does,
   which lasts for one run. *)
CountedOnce ==
    (rule = "one" \/ (kills = 0 /\ runs =< 1)) =>
        \A key \in Keys : OnCards(key) =< SumFunctionOnSet(Worth, JobsOf(key))

(* "a killed process loses at most the row in flight": one kill repeats at most
   one row's card or note and its appointment, and one more row's if it left
   half a line behind. *)
Again(n) == IF n > 1 THEN n - 1 ELSE 0
Copies(r) == Cardinality({i \in DOMAIN cards : cards[i].of = r}) + notes[r]
Repeats(times) == SumFunctionOnSet([r \in Rows |-> Again(times[r])], Rows)

OncePerRow ==
    /\ Repeats([r \in Rows |-> Copies(r)]) =< kills + halves
    /\ Repeats(booked) =< kills + halves

(* The import can be resumed, repaired and raced by the relay without losing or
   inventing revenue in silence. *)
MoneyIsAccounted == ImportTypes /\ NothingMissing /\ CountedOnce /\ OncePerRow
=============================================================================
