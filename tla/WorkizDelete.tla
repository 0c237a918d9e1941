----------------------------- MODULE WorkizDelete ----------------------------
(***************************************************************************)
(* Removing a former import from GoHighLevel (scripts/delete_workiz.py)    *)
(* while the e-mail relay goes on writing there, and giving the relay back *)
(* what the removal took from it (scripts/restore_relay.py).               *)
(*                                                                         *)
(* The script lists cards and contacts, deletes what it takes for the      *)
(* import's, lists both again and says whether anything is left.  A        *)
(* contact is the import's by its source, which names whoever wrote it     *)
(* last; a card by its title, with the export's job numbers or, when no    *)
(* export is given, with its contact's source.                             *)
(***************************************************************************)
EXTENDS Naturals, FiniteSets

CONSTANTS
    People,      \* GHL contacts, each with one card at most
    MaxCuts,     \* bound on listings that end early and deletions refused
    MaxRelays,   \* bound on the relay's e-mails
    MaxDeletes   \* bound on runs of the script

Sources == {"import", "relay"}
Titles  == {"listed", "unlisted", "relay"}    \* old title with a job number of the export's,
                                              \* with another one; the relay's own title
VARIABLES
    source,   \* GHL: who wrote the contact last; "none": no such contact
    card,     \* GHL: what the card's title looks like; "none": no card
    del,      \* the script: where it is and what it has listed and planned
    csv,      \* whether it was given the export
    verdict,  \* what it printed last: "none", "left" or "clean"
    warned,   \* it printed that a listing of this look is not whole
    missed,   \* history: cards the listing of this look did not show
    lost,     \* history: the relay's cards a deletion took
    cuts, relays, runs

ghl == <<source, card>>
saysVars == <<csv, verdict, warned, missed>>
deleteVars == <<ghl, del, saysVars, lost, cuts, relays, runs>>

Off == [at |-> "off", cards |-> {}, contacts |-> {}]

DeleteInit ==
    /\ source \in [People -> Sources]
    /\ card \in [People -> Titles \cup {"none"}]
    /\ del = Off /\ csv = FALSE /\ verdict = "none" /\ warned = FALSE /\ missed = {}
    /\ lost = {} /\ cuts = 0 /\ relays = 0 /\ runs = 0

Parked ==
    /\ source = [p \in People |-> "none"] /\ card = [p \in People |-> "none"]
    /\ del = Off /\ csv = FALSE /\ verdict = "none" /\ warned = FALSE /\ missed = {}
    /\ lost = {} /\ cuts = MaxCuts /\ relays = MaxRelays /\ runs = MaxDeletes

-----------------------------------------------------------------------------
Cut == cuts < MaxCuts /\ cuts' = cuts + 1

HasCard == {p \in People : card[p] # "none"}
Exists  == {p \in People : source[p] # "none"}
Dated   == {p \in People : card[p] \in {"listed", "unlisted"}}     \* OLD_TITLE

(* all_opportunities: a page that fails is printed; a short page, or the
   hundredth, ends the listing in silence. *)
PagedCards(seen) ==
    /\ missed' = HasCard \ seen
    /\ IF seen = HasCard THEN UNCHANGED <<warned, cuts>> ELSE Cut /\ warned' \in {warned, TRUE}

(* all_contacts: goes on until nothing new comes or the total is reached that
   GoHighLevel is taken to report, and says so when it ends before that. *)
ShortPage(seen) == UNCHANGED <<warned, cuts>>      \* mutant of PagedContacts
PagedContacts(seen) ==
    IF seen = Exists THEN UNCHANGED <<warned, cuts>> ELSE Cut /\ warned' = TRUE

(* classify: with the export, by its job numbers; without, a card is left whose
   contact is the relay's. *)
Confident(cards, seen) ==
    {p \in cards : (csv => card[p] = "listed") /\ (~csv => ~(p \in seen /\ source[p] = "relay"))}
Theirs(seen) == {p \in seen : source[p] = "import"}

Starts ==
    /\ del.at = "off" /\ runs < MaxDeletes
    /\ runs' = runs + 1
    /\ del' = [Off EXCEPT !.at = "cards"]
    /\ csv' \in BOOLEAN /\ verdict' = "none" /\ warned' = FALSE /\ missed' = {}
    /\ UNCHANGED <<ghl, lost, cuts, relays>>

ListsCards ==
    /\ del.at \in {"cards", "cards again"}
    /\ \E seen \in SUBSET HasCard :
          /\ PagedCards(seen)
          /\ del' = [del EXCEPT !.at = IF @ = "cards" THEN "contacts" ELSE "contacts again",
                                !.cards = seen \intersect Dated]
    /\ UNCHANGED <<ghl, csv, verdict, lost, relays, runs>>

ListsContacts ==
    /\ del.at = "contacts"
    /\ \E seen \in SUBSET Exists :
          /\ PagedContacts(seen)
          /\ del' = [del EXCEPT !.at = "planned", !.contacts = Theirs(seen),
                                !.cards = Confident(@, seen)]
    /\ UNCHANGED <<ghl, csv, verdict, missed, lost, relays, runs>>

DryRun ==
    /\ del.at = "planned"
    /\ del' = Off
    /\ UNCHANGED <<ghl, saysVars, lost, cuts, relays, runs>>

Executes ==
    /\ del.at = "planned"
    /\ del' = [del EXCEPT !.at = "drop cards"]
    /\ UNCHANGED <<ghl, saysVars, lost, cuts, relays, runs>>

(* A deletion that fails is printed and passed over; a contact takes its card. *)
DropsCard(p) ==
    /\ del.at = "drop cards" /\ p \in del.cards
    /\ del' = [del EXCEPT !.cards = @ \ {p}]
    /\ \/ card' = [card EXCEPT ![p] = "none"] /\ UNCHANGED cuts
       \/ Cut /\ UNCHANGED card
    /\ UNCHANGED <<source, saysVars, lost, relays, runs>>

DropsContact(p) ==
    /\ del.at = "drop cards" /\ del.cards = {} /\ p \in del.contacts
    /\ del' = [del EXCEPT !.contacts = @ \ {p}]
    /\ \/ /\ source' = [source EXCEPT ![p] = "none"] /\ card' = [card EXCEPT ![p] = "none"]
          /\ lost' = IF card[p] = "relay" THEN lost \cup {p} ELSE lost
          /\ UNCHANGED cuts
       \/ Cut /\ UNCHANGED <<ghl, lost>>
    /\ UNCHANGED <<saysVars, relays, runs>>

LooksAgain ==
    /\ del.at = "drop cards" /\ del.cards = {} /\ del.contacts = {}
    /\ del' = [del EXCEPT !.at = "cards again"]
    /\ warned' = FALSE
    /\ UNCHANGED <<ghl, csv, verdict, missed, lost, cuts, relays, runs>>

Says ==
    /\ del.at = "contacts again"
    /\ \E seen \in SUBSET Exists :
          /\ PagedContacts(seen)
          /\ verdict' = IF Confident(del.cards, seen) = {} /\ Theirs(seen) = {} THEN "clean"
                        ELSE "left"
    /\ del' = Off
    /\ UNCHANGED <<ghl, csv, missed, lost, relays, runs>>

(* The worker was left running: a Dispatch e-mail upserts its customer's
   contact, as its own, and opens a card unless the customer has one. *)
Relays(p) ==
    /\ relays < MaxRelays
    /\ relays' = relays + 1
    /\ source' = [source EXCEPT ![p] = "relay"]
    /\ card' = [card EXCEPT ![p] = IF @ = "none" THEN "relay" ELSE @]
    /\ UNCHANGED <<del, saysVars, lost, cuts, runs>>

(* restore_relay: the e-mail is still there, and is relayed as it was at first. *)
Restores(p) ==
    /\ p \in lost
    /\ source' = [source EXCEPT ![p] = "relay"]
    /\ card' = [card EXCEPT ![p] = IF @ = "none" THEN "relay" ELSE @]
    /\ UNCHANGED <<del, saysVars, lost, cuts, relays, runs>>

DeleteNext ==
    \/ Starts \/ ListsCards \/ ListsContacts \/ DryRun \/ Executes \/ LooksAgain \/ Says
    \/ \E p \in People : DropsCard(p) \/ DropsContact(p) \/ Relays(p) \/ Restores(p)

DeleteSpec == DeleteInit /\ [][DeleteNext]_deleteVars

-----------------------------------------------------------------------------
Places == {"off", "cards", "contacts", "planned", "drop cards", "cards again",
           "contacts again"}

DeleteTypes ==
    /\ source \in [People -> Sources \cup {"none"}] /\ card \in [People -> Titles \cup {"none"}]
    /\ \A p \in People : source[p] = "none" => card[p] = "none"
    /\ del \in [at : Places, cards : SUBSET People, contacts : SUBSET People]
    /\ verdict \in {"none", "left", "clean"} /\ csv \in BOOLEAN /\ warned \in BOOLEAN
    /\ missed \subseteq People /\ lost \subseteq People

(* What "clean -- nothing matching remains" is worth, when it is printed and from
   then on, though deletions were refused, the two listings are taken one after
   the other and the relay writes between them.  No contact of the import is
   left, unless it was printed that the contacts were not all listed ("do NOT
   reintroduce a short-page break").  Of the cards the script would delete, only
   those are left which the last listing of cards did not show -- a short page
   ends that one unsaid -- and, without the export, those whose contact is the
   relay's. *)
Left(p) == p \in Dated /\ (csv => card[p] = "listed") /\ (~csv => source[p] # "relay")

CleanIsClean ==
    /\ DeleteTypes
    /\ verdict = "clean" /\ ~warned =>
          \A p \in People : source[p] # "import" /\ (Left(p) => p \in missed)
=============================================================================
