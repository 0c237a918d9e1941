------------------------------- MODULE Pictures ------------------------------
(***************************************************************************)
(* Pictures on the CRM's texts (integrations/crm/media.py).                *)
(*                                                                         *)
(* Outbound: the CRM hands OWEN the bytes and gets an id; a text that      *)
(* names it bears a signed link that lives for one TTL, at which the       *)
(* carrier fetches the picture.  The text may wait in the queue, and the   *)
(* CRM may send the picture again; the worker sweeps what is two TTLs old. *)
(* Everything is files: the bytes are written aside and renamed, and a     *)
(* sidecar says what they are.                                             *)
(*                                                                         *)
(* Inbound: the CRM asks for the picture of a text, and OWEN fetches it at *)
(* the carrier's link, which expires and may want the carrier's password.  *)
(***************************************************************************)
EXTENDS Naturals

CONSTANTS
    Mms,         \* texts of the CRM that carry the picture
    Ttl,         \* CRM_LINK_MEDIA_TTL_SECONDS, in ticks of the clock
    Gap,         \* ticks between two sweeps
    MaxTime,     \* bound: ticks
    MaxTries,    \* MAX_ATTEMPTS of a text's job
    MaxMisses    \* bound: processes that die, sweeps that fail, fetches without an answer

ASSUME TicksAreCounted == Ttl \in Nat /\ Gap \in Nat

VARIABLES
    clock,       \* since the picture came
    upload,      \* where the request that stores the picture is
    aside,       \* the bytes written aside
    blob, meta,  \* the bytes, and the sidecar
    text,        \* text -> what has become of it
    sends,       \* text -> attempts of its job
    minted,      \* text -> when its link was made
    fetch,       \* text -> what the carrier found at the link
    sweep,       \* the worker's sweep
    swept,       \* when the last one was due
    carrier,     \* the inbound picture's link: whose host, whether guarded, whether alive
    own,         \* the DID is the CRM's
    copy,        \* the CRM's copy of the inbound picture
    misses

fileVars    == <<aside, blob, meta>>
mmsVars     == <<text, sends, minted, fetch>>
sweepVars   == <<sweep, swept>>
inboundVars == <<carrier, own, copy>>
pictureVars == <<clock, upload, fileVars, mmsVars, sweepVars, inboundVars, misses>>

Hosts == [host : {"bulkvs", "other"}, guarded : BOOLEAN, alive : {TRUE}]

Empty(phase, hosts, mine) ==
    /\ clock = 0 /\ upload = phase
    /\ aside = FALSE /\ blob = FALSE /\ meta = FALSE
    /\ text = [t \in Mms |-> "none"] /\ sends = [t \in Mms |-> 0]
    /\ minted = [t \in Mms |-> 0] /\ fetch = [t \in Mms |-> "none"]
    /\ sweep = "idle" /\ swept = 0
    /\ carrier \in hosts /\ own = mine /\ copy = "none" /\ misses = 0

(* A picture goes out, or one came in. *)
PicturesInit ==
    \/ Empty("asked", {[host |-> "bulkvs", guarded |-> FALSE, alive |-> FALSE]}, FALSE)
    \/ Empty("none", Hosts, TRUE)

(* A behaviour that follows something else. *)
NoPictures == Empty("none", {[host |-> "bulkvs", guarded |-> FALSE, alive |-> FALSE]}, FALSE)

Outbound == upload # "none"
Miss == misses < MaxMisses /\ misses' = misses + 1

-----------------------------------------------------------------------------
(* upload_media: texting is dark, or the bytes are too many or no picture; else
   they are written aside, moved into place and described. *)
Refuses ==
    /\ upload = "asked"
    /\ upload' = "refused"
    /\ UNCHANGED <<clock, fileVars, mmsVars, sweepVars, inboundVars, misses>>

WritesAside ==
    /\ upload = "asked" /\ upload' = "written"
    /\ aside' = TRUE
    /\ UNCHANGED <<clock, blob, meta, mmsVars, sweepVars, inboundVars, misses>>

Renames ==
    /\ upload = "written" /\ upload' = "renamed"
    /\ aside' = FALSE /\ blob' = TRUE
    /\ UNCHANGED <<clock, meta, mmsVars, sweepVars, inboundVars, misses>>

Describes ==
    /\ upload = "renamed" /\ upload' = "stored" /\ meta' = TRUE
    /\ UNCHANGED <<clock, aside, blob, mmsVars, sweepVars, inboundVars, misses>>

UploadDies ==
    /\ upload \in {"written", "renamed"} /\ Miss
    /\ upload' = "dead"
    /\ UNCHANGED <<clock, fileVars, mmsVars, sweepVars, inboundVars>>

Served == blob /\ meta

-----------------------------------------------------------------------------
(* send_message: refused when the picture is gone, and else queued with a link
   made now. *)
Sends(t) ==
    /\ upload = "stored" /\ text[t] = "none"
    /\ text' = [text EXCEPT ![t] = IF Served THEN "queued" ELSE "refused"]
    /\ minted' = [minted EXCEPT ![t] = clock]
    /\ UNCHANGED <<clock, upload, fileVars, sends, fetch, sweepVars, inboundVars, misses>>

(* handle_message_send: the carrier takes the text with the links of its row, or
   the attempt fails and the queue comes back to it. *)
Hands(t) ==
    /\ text[t] = "queued" /\ text' = [text EXCEPT ![t] = "sent"]
    /\ UNCHANGED <<clock, upload, fileVars, sends, minted, fetch, sweepVars, inboundVars, misses>>

HandsNot(t) ==
    /\ text[t] = "queued" /\ sends[t] < MaxTries
    /\ sends' = [sends EXCEPT ![t] = @ + 1]
    /\ text' = [text EXCEPT ![t] = IF sends'[t] = MaxTries THEN "failed" ELSE @]
    /\ UNCHANGED <<clock, upload, fileVars, minted, fetch, sweepVars, inboundVars, misses>>

Verified(t) == clock =< minted[t] + Ttl

(* The carrier fetches the picture, at the link of the text it took. *)
Fetches(t) ==
    /\ text[t] = "sent" /\ fetch[t] = "none"
    /\ fetch' = [fetch EXCEPT ![t] =
                    IF ~Verified(t) THEN "late" ELSE IF ~Served THEN "gone" ELSE "got"]
    /\ UNCHANGED <<clock, upload, fileVars, text, sends, minted, sweepVars, inboundVars, misses>>

-----------------------------------------------------------------------------
(* crm_media_sweep: what is two TTLs old is removed, first the bytes and then the
   sidecar.  Files that are no picture's -- a sidecar alone, bytes left aside --
   are passed over. *)
NoGrace == clock > Ttl                             \* mutant of TooOld
TooOld == clock > 2 * Ttl

SweepRuns ==
    /\ sweep = "idle" /\ clock = swept + Gap
    /\ swept' = clock
    /\ sweep' = IF blob /\ TooOld THEN "removing" ELSE "idle"
    /\ blob' = (blob /\ ~TooOld)
    /\ UNCHANGED <<clock, upload, aside, meta, mmsVars, inboundVars, misses>>

Forgets ==
    /\ sweep = "removing" /\ sweep' = "idle" /\ meta' = FALSE
    /\ UNCHANGED <<clock, upload, aside, blob, mmsVars, swept, inboundVars, misses>>

(* The worker dies before the sweep, or within it. *)
SweepDies ==
    /\ sweep = "removing" \/ clock = swept + Gap
    /\ Miss
    /\ sweep' = "idle" /\ swept' = clock
    /\ UNCHANGED <<clock, upload, fileVars, mmsVars, inboundVars>>

Ticks ==
    /\ Outbound /\ clock < MaxTime /\ clock < swept + Gap /\ sweep = "idle"
    /\ upload \notin {"asked", "written", "renamed"} \* a request is over within a tick
    /\ clock' = clock + 1
    /\ UNCHANGED <<upload, fileVars, mmsVars, sweepVars, inboundVars, misses>>

-----------------------------------------------------------------------------
(* message_media: the CRM asks for the picture of an inbound text, once or again. *)
Asks ==
    /\ ~Outbound /\ copy \in {"none", "unavailable"} /\ own
    /\ copy' = "asked"
    /\ UNCHANGED <<clock, upload, fileVars, mmsVars, sweepVars, carrier, own, misses>>

Anonymous == FALSE                                 \* mutant of MayAuthenticate
MayAuthenticate == carrier.host = "bulkvs"

(* fetch_carrier_media: without the password, and with it where it is asked for
   by BulkVS. *)
TriesPlain ==
    /\ copy = "asked"
    /\ copy' = IF ~own \/ ~carrier.alive \/ (carrier.guarded /\ ~MayAuthenticate)
               THEN "unavailable"
               ELSE IF carrier.guarded THEN "again" ELSE "kept"
    /\ UNCHANGED <<clock, upload, fileVars, mmsVars, sweepVars, carrier, own, misses>>

TriesAgain ==
    /\ copy = "again"
    /\ copy' = IF carrier.alive THEN "kept" ELSE "unavailable"
    /\ UNCHANGED <<clock, upload, fileVars, mmsVars, sweepVars, carrier, own, misses>>

FetchFails ==                                      \* no answer, or bytes that are no picture
    /\ copy \in {"asked", "again"} /\ Miss
    /\ copy' = "unavailable"
    /\ UNCHANGED <<clock, upload, fileVars, mmsVars, sweepVars, carrier, own>>

Expires ==
    /\ ~Outbound /\ carrier.alive /\ carrier' = [carrier EXCEPT !.alive = FALSE]
    /\ UNCHANGED <<clock, upload, fileVars, mmsVars, sweepVars, own, copy, misses>>

Unbinds ==
    /\ ~Outbound /\ own /\ own' = FALSE
    /\ UNCHANGED <<clock, upload, fileVars, mmsVars, sweepVars, carrier, copy, misses>>

-----------------------------------------------------------------------------
Uploading == Refuses \/ WritesAside \/ Renames \/ Describes
Relaying  == TriesPlain \/ TriesAgain \/ FetchFails
Sweeping  == SweepRuns \/ Forgets

PicturesNext ==
    \/ Uploading \/ UploadDies
    \/ \E t \in Mms : Sends(t) \/ Hands(t) \/ HandsNot(t) \/ Fetches(t)
    \/ Sweeping \/ SweepDies \/ Ticks
    \/ Asks \/ Relaying \/ Expires \/ Unbinds

(* Requests are served, the queue goes on, the worker sweeps and time passes.
   Nothing is asked of the CRM or of the carrier. *)
PicturesFairness ==
    /\ WF_pictureVars(Uploading)
    /\ \A t \in Mms : WF_pictureVars(Hands(t) \/ HandsNot(t))
    /\ WF_pictureVars(Sweeping) /\ WF_pictureVars(Ticks)

-----------------------------------------------------------------------------
(* A link lives its whole TTL if the picture was no older than a TTL when it was
   made: the sweep's grace is enough for it, however long the text waits. *)
LinksHold == \A t \in Mms : fetch[t] = "gone" => minted[t] > Ttl

(* And nothing is behind the links for longer than that grace, a sweep that fails
   apart: nor is a picture kept whose upload died before it was described. *)
NothingLingers == blob /\ misses = 0 => clock =< 2 * Ttl + Gap

(* The CRM is told that a picture it may have is not there only when the carrier
   has dropped it, no longer lets OWEN at it or did not answer. *)
CopyIsKept ==
    copy = "unavailable" =>
        \/ ~carrier.alive \/ ~own \/ misses > 0
        \/ carrier.guarded /\ carrier.host = "other"

(* A link is good while it lives, nothing is behind it for long after, and a copy
   is refused only where the carrier gives none. *)
PicturesHold == LinksHold /\ NothingLingers /\ CopyIsKept

(* In the end every text with a picture is the carrier's or given up, and the
   bytes are gone, whoever died when: what is left can be a sidecar or bytes that
   were never moved into place, neither of which is served. *)
PicturesSettled ==
    /\ \A t \in Mms : text[t] # "queued"
    /\ upload \notin {"asked", "written", "renamed"}
    /\ Outbound => ~blob
=============================================================================
