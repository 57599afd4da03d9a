----------------------------- MODULE Publishing -----------------------------
(***************************************************************************)
(* A public group on public relays (crates/hit-app-core/src/state.rs,      *)
(* crates/hit-event/src/announce.rs, crates/hit-zap/src/public.rs): the    *)
(* owner's app announces it, withdraws it when it goes private, and        *)
(* records in published.json which relay took what; somebody else's app    *)
(* asks the relays and lists what it heard.  A relay is external: it keeps *)
(* the newest event of a key, and of two with one date either.             *)
(*                                                                         *)
(*   second    the clock                                                   *)
(*   public    the group is public now; flips: how often that changed      *)
(*   list      the relays the person picked                               *)
(*   record    published.json's entry: what was said, when, who took it    *)
(*   done      the entry the publisher's pass works on                     *)
(*   sending   the event the pass is sending, and to whom; or None         *)
(*   holds     per relay, the event it keeps (None: nothing)               *)
(*   listing   the last browse: the relays that have not answered, the     *)
(*             answers not compared yet, all of them, and the newest so far *)
(***************************************************************************)
EXTENDS NodeBase

CONSTANTS PublicRelays, \* the relays there are
          RelayLists,   \* bound: the lists a person may pick
          ANNOUNCE_EVERY, \* said again after this long
          MaxSecond,    \* bound: the clock
          MaxFlips      \* bound: times the group opens or goes private

\* A signed announcement or withdrawal, an entry of published.json, and an
\* event being sent.
Announcements == [says : {"public", "private"}, at : Nat]
Entries == [what : {"none", "", "public", "private"}, at : Nat, took : SUBSET PublicRelays]
Sendings == [says : {"public", "private"}, at : Nat, todo : SUBSET PublicRelays]

ASSUME PublishingConstants ==
    /\ RelayLists \subseteq SUBSET PublicRelays
    /\ {ANNOUNCE_EVERY, MaxSecond, MaxFlips} \subseteq Nat
    /\ None \notin Announcements /\ None \notin Entries /\ None \notin Sendings

VARIABLES second, public, flips, list, record, done, sending, holds, listing

uvars == <<second, public, flips, list, record, done, sending, holds, listing>>

NoEntry == [what |-> "none", at |-> 0, took |-> {}]
Nothing == [todo |-> {}, due |-> {}, heard |-> {}, newest |-> None]

UInit ==
    /\ second = 1
    /\ public = FALSE /\ flips = 0
    /\ list = PublicRelays
    /\ record = NoEntry
    /\ done = None
    /\ sending = None
    /\ holds = [r \in PublicRelays |-> None]
    /\ listing = Nothing

Tock ==
    /\ second < MaxSecond
    /\ second' = second + 1
    /\ UNCHANGED <<public, flips, list, record, done, sending, holds, listing>>

\* set_public: the group opens or goes private.
SetPublic ==
    /\ flips < MaxFlips
    /\ public' = ~public
    /\ flips' = flips + 1
    /\ UNCHANGED <<second, list, record, done, sending, holds, listing>>

\* set_public_relays: other relays picked; what one left out holds stays there.
SetPublicRelays(pick) ==
    /\ list' = pick
    /\ UNCHANGED <<second, public, flips, record, done, sending, holds, listing>>

\* A pass reads published.json; an announcement unchanged for long is said
\* again, a withdrawal is not.
BeginPass ==
    /\ done = None
    /\ done' = IF record.what = "public" /\ record.at + ANNOUNCE_EVERY < second
               THEN [record EXCEPT !.what = ""] ELSE record
    /\ UNCHANGED <<second, public, flips, list, record, sending, holds, listing>>

Says == IF public THEN "public" ELSE "private"

\* Mutant: a private group is withdrawn whether it was announced or not.
MentionedAlways == TRUE

\* A group never announced is never mentioned.
Mentioned == public \/ done.what # "none"

\* The event: dated now, or after the last one recorded.
DatedAfter == IF done.what = "none" THEN second ELSE Greater(second, done.at + 1)

\* send_public: what changed starts over with every relay; the rest goes to
\* those that have not taken it yet, all at once.
Send ==
    /\ done # None /\ sending = None
    /\ Mentioned
    /\ LET entry == IF done.what # Says
                    THEN [what |-> Says, at |-> DatedAfter, took |-> {}] ELSE done
       IN  /\ list \ entry.took # {}
           /\ done' = entry
           /\ sending' = [says |-> Says, at |-> DatedAfter, todo |-> list \ entry.took]
    /\ UNCHANGED <<second, public, flips, list, record, holds, listing>>

\* A relay takes the event, unless it keeps a newer one.
Takes(r, e) ==
    LET kept == holds[r]
        new == [says |-> e.says, at |-> e.at]
    IN  holds' \in {[holds EXCEPT ![r] = x] :
            x \in CASE kept = None -> {new}
                    [] kept.at < e.at -> {new}
                    [] kept.at = e.at -> {kept, new}
                    [] OTHER -> {kept}}

\* A relay answers OK, answers too late to be noted, or never hears of it.
Answer(r, heard, noted) ==
    /\ sending # None /\ r \in sending.todo
    /\ noted => heard
    /\ IF heard THEN Takes(r, sending) ELSE UNCHANGED holds
    /\ done' = IF noted THEN [done EXCEPT !.took = @ \cup {r}] ELSE done
    /\ sending' = IF sending.todo = {r} THEN None
                  ELSE [sending EXCEPT !.todo = @ \ {r}]
    /\ UNCHANGED <<second, public, flips, list, record, listing>>

\* The record is written when everything was sent.
WriteRecord ==
    /\ done # None /\ sending = None
    /\ record' = done /\ done' = None
    /\ UNCHANGED <<second, public, flips, list, sending, holds, listing>>

\* The app quits or dies: the pass is aborted, its record unwritten.
QuitPublishing ==
    /\ done # None
    /\ done' = None /\ sending' = None
    /\ UNCHANGED <<second, public, flips, list, record, holds, listing>>

\* Which of two announcements of a group stands: a tie goes to the
\* withdrawal.
Later(n, h) == n = None \/ n.at < h.at \/ (n.at = h.at /\ h.says = "private")

\* ask_for_communities asks every relay at once.
BeginBrowse ==
    /\ listing' = [Nothing EXCEPT !.todo = PublicRelays]
    /\ UNCHANGED <<second, public, flips, list, record, done, sending, holds>>

\* A relay answers with what it keeps now; one that is too slow never does.
Hear(r) ==
    /\ r \in listing.todo
    /\ LET got == {holds[r]} \ {None}
       IN  listing' = [todo |-> listing.todo \ {r}, due |-> listing.due \cup got,
                       heard |-> listing.heard \cup got, newest |-> listing.newest]
    /\ UNCHANGED <<second, public, flips, list, record, done, sending, holds>>

\* With the answers in, they are compared in some order; the same event from
\* a second relay changes nothing.
Compare(h) ==
    /\ h \in listing.due
    /\ listing' = [todo |-> {}, due |-> listing.due \ {h}, heard |-> listing.heard,
                   newest |-> IF Later(listing.newest, h) THEN h ELSE listing.newest]
    /\ UNCHANGED <<second, public, flips, list, record, done, sending, holds>>

\* browse shows the newest once all are compared, and lists no withdrawal.
Found == IF listing.due = {} /\ listing.newest # None /\ listing.newest.says = "public"
         THEN listing.newest ELSE None

UNext ==
    \/ Tock \/ SetPublic
    \/ \E pick \in RelayLists : SetPublicRelays(pick)
    \/ BeginPass \/ Send \/ WriteRecord \/ QuitPublishing
    \/ \E r \in PublicRelays, heard, noted \in BOOLEAN : Answer(r, heard, noted)
    \/ BeginBrowse
    \/ \E r \in PublicRelays : Hear(r)
    \/ \E h \in listing.due : Compare(h)

USpec == UInit /\ [][UNext]_uvars

(***************************************************************************)
(* What strangers see.                                                     *)
(***************************************************************************)
\* A group that was never public is on no relay, announced or withdrawn,
\* and one that is listed has no withdrawal of its announcement's date or
\* later among what was heard, in whatever order the relays answered and
\* with whatever announcements a crash left unrecorded.
OnlyWhatIsPublic ==
    /\ flips = 0 => \A r \in PublicRelays : holds[r] = None
    /\ Found # None => \A h \in listing.heard : h.says = "private" => h.at < Found.at
=============================================================================
