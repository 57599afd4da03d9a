---------------------------- MODULE SyncSession -----------------------------
(***************************************************************************)
(* One sync session: sync of crates/hit-node/src/sync.rs on the dialler's  *)
(* side, serve and handle of relay.rs on the other, while gossip and other *)
(* sessions go on at both.                                                 *)
(*                                                                         *)
(*   has       per side, the events in its store                           *)
(*   phase     where the dialler is                                        *)
(*   offer     what the dialler put into its negentropy set                *)
(*   need      ids the dialler lacks, still to fetch                       *)
(*   have      ids the relay lacks, still to push                          *)
(*   fetched   fetched and not yet tried                                   *)
(*   waiting   refused, to be tried again                                  *)
(*   retried   what this round of the retry loop has not tried yet         *)
(*   inFlight  pushed and not yet answered                                 *)
(*   progress  something waiting got in during this round                  *)
(*   disturbed the dialler's store took something else since it began to   *)
(*             apply what it fetched                                       *)
(*   brought   everything this session fetched                             *)
(*   failures  sessions that failed so far                                 *)
(*                                                                         *)
(* Whether a store lets an event in is accept_event's; here it is what the *)
(* event needs to find there.  Negentropy finds the exact difference of    *)
(* the two sets, each as it was when its side sealed it.                   *)
(***************************************************************************)
EXTENDS NodeBase

CONSTANTS Events,
          Needs,        \* per event, what must be held for it to be let in
          Shows,        \* per event, what a side must hold to serve it to the other
          Rank,         \* apply_order, as a number
          Starts,       \* pairs of what dialler and relay may hold at first
          FETCH_CHUNK,
          MaxFailures   \* bound: sessions that fail

Sides == {"dialler", "relay"}

ASSUME SessionConstants ==
    /\ Needs \in [Events -> SUBSET Events] /\ Shows \in [Events -> SUBSET Events]
    /\ Rank \in [Events -> Nat]
    /\ Starts \subseteq (SUBSET Events) \X (SUBSET Events)
    /\ FETCH_CHUNK \in Nat \ {0} /\ MaxFailures \in Nat

VARIABLES has, phase, offer, need, have, fetched, waiting, retried, inFlight,
          progress, disturbed, brought, failures

svars == <<has, phase, offer, need, have, fetched, waiting, retried, inFlight,
           progress, disturbed, brought, failures>>

Reset ==
    /\ offer' = {} /\ need' = {} /\ have' = {} /\ fetched' = {} /\ waiting' = {}
    /\ retried' = {} /\ inFlight' = {} /\ progress' = FALSE /\ disturbed' = FALSE
    /\ brought' = {}

SInit ==
    /\ \E s \in Starts : has = [x \in Sides |-> IF x = "dialler" THEN s[1] ELSE s[2]]
    /\ phase = "idle"
    /\ offer = {} /\ need = {} /\ have = {} /\ fetched = {} /\ waiting = {}
    /\ retried = {} /\ inFlight = {} /\ progress = FALSE /\ disturbed = FALSE
    /\ brought = {} /\ failures = 0

\* accept_event at a side: stored, or refused.
LetsIn(x, e) == Needs[e] \subseteq has[x]
Store(x, e) == has' = [has EXCEPT ![x] = @ \cup {e}]

\* visible: what the side serves the other's person.
Visible(x) == {e \in has[x] : Shows[e] \subseteq has[x]}

\* The first of what is left, in apply_order; ties in any order.
FirstOf(S) == {e \in S : \A f \in S : Rank[e] <= Rank[f]}

\* A chunk of what is left to fetch.
Chunks(S) == {C \in SUBSET S : Cardinality(C) = Lesser(Cardinality(S), FETCH_CHUNK)}

\* open and serve: dialled, the bindings exchanged both ways and verified.
Open ==
    /\ phase = "idle"
    /\ phase' = "seal"
    /\ UNCHANGED <<has, offer, need, have, fetched, waiting, retried, inFlight,
                   progress, disturbed, brought, failures>>

\* The dialler seals what the relay's person may see and sends NEG-OPEN.
Seal ==
    /\ phase = "seal"
    /\ offer' = Visible("dialler")
    /\ phase' = "negotiate"
    /\ UNCHANGED <<has, need, have, fetched, waiting, retried, inFlight, progress,
                   disturbed, brought, failures>>

\* Mutant: what the difference says the relay lacks is not kept.
NegotiateOneWay ==
    /\ phase = "negotiate"
    /\ need' = Visible("relay") \ offer
    /\ have' = {}
    /\ phase' = "fetch"
    /\ UNCHANGED <<has, offer, fetched, waiting, retried, inFlight, progress,
                   disturbed, brought, failures>>

\* The relay seals its own at the NEG-OPEN; the messages that follow work
\* out the difference, and NEG-CLOSE ends it.
Negotiate ==
    /\ phase = "negotiate"
    /\ need' = Visible("relay") \ offer
    /\ have' = offer \ Visible("relay")
    /\ phase' = "fetch"
    /\ UNCHANGED <<has, offer, fetched, waiting, retried, inFlight, progress,
                   disturbed, brought, failures>>

\* A REQ for a chunk of ids: the relay answers with what it holds and still
\* may show, then EOSE.
Fetch ==
    /\ phase = "fetch"
    /\ need # {}
    /\ \E C \in Chunks(need) :
        /\ need' = need \ C
        /\ fetched' = fetched \cup (C \cap Visible("relay"))
        /\ brought' = brought \cup (C \cap Visible("relay"))
    /\ UNCHANGED <<has, phase, offer, have, waiting, retried, inFlight, progress, disturbed, failures>>

FetchDone ==
    /\ phase = "fetch"
    /\ need = {}
    /\ phase' = "apply"
    /\ disturbed' = FALSE
    /\ UNCHANGED <<has, offer, need, have, fetched, waiting, retried, inFlight, progress,
                   brought, failures>>

\* Each fetched event takes the one way in; what is refused waits.
ApplyFetched ==
    /\ phase = "apply"
    /\ \E e \in FirstOf(fetched) :
        /\ fetched' = fetched \ {e}
        /\ IF LetsIn("dialler", e)
           THEN Store("dialler", e) /\ UNCHANGED waiting
           ELSE waiting' = waiting \cup {e} /\ UNCHANGED has
    /\ UNCHANGED <<phase, offer, need, have, retried, inFlight, progress, disturbed, brought, failures>>

BeginRetry ==
    /\ phase = "apply"
    /\ fetched = {}
    /\ phase' = "retry"
    /\ retried' = waiting
    /\ progress' = FALSE
    /\ UNCHANGED <<has, offer, need, have, fetched, waiting, inFlight, disturbed, brought, failures>>

RetryWaiting ==
    /\ phase = "retry"
    /\ \E e \in FirstOf(retried) :
        /\ retried' = retried \ {e}
        /\ IF LetsIn("dialler", e)
           THEN Store("dialler", e) /\ waiting' = waiting \ {e} /\ progress' = TRUE
           ELSE UNCHANGED <<has, waiting, progress>>
    /\ UNCHANGED <<phase, offer, need, have, fetched, inFlight, disturbed, brought, failures>>

\* Mutant: one round, whatever it let in.
RetryOnce ==
    /\ phase = "retry"
    /\ retried = {}
    /\ phase' = "push" /\ UNCHANGED <<retried, progress>>
    /\ UNCHANGED <<has, offer, need, have, fetched, waiting, inFlight, disturbed, brought, failures>>

\* The loop's end: another round while the last let something in and
\* something still waits.
RetryRound ==
    /\ phase = "retry"
    /\ retried = {}
    /\ IF waiting = {} \/ ~progress
       THEN phase' = "push" /\ UNCHANGED <<retried, progress>>
       ELSE retried' = waiting /\ progress' = FALSE /\ UNCHANGED phase
    /\ UNCHANGED <<has, offer, need, have, fetched, waiting, inFlight, disturbed, brought, failures>>

\* A chunk of EVENTs, in apply_order, of what the store still holds.
Push ==
    /\ phase = "push"
    /\ inFlight = {} /\ have # {}
    /\ \E C \in Chunks(have) :
        /\ \A e \in C, f \in have \ C : Rank[e] <= Rank[f]
        /\ inFlight' = C \cap has["dialler"]
        /\ have' = have \ C
    /\ UNCHANGED <<has, phase, offer, need, fetched, waiting, retried, progress, disturbed,
                   brought, failures>>

\* The relay takes the next EVENT and answers OK, true or false.
Answer ==
    /\ phase = "push"
    /\ \E e \in FirstOf(inFlight) :
        /\ inFlight' = inFlight \ {e}
        /\ IF LetsIn("relay", e) THEN Store("relay", e) ELSE UNCHANGED has
    /\ UNCHANGED <<phase, offer, need, have, fetched, waiting, retried, progress, disturbed,
                   brought, failures>>

\* Session::close, and the end of serve.
Close ==
    /\ phase = "push"
    /\ inFlight = {} /\ have = {}
    /\ phase' = "idle"
    /\ Reset
    /\ UNCHANGED <<has, failures>>

\* The connection fails, a frame is not what was expected, or SYNC_TIMEOUT:
\* what was stored stays, the rest is forgotten.
SessionFails ==
    /\ phase # "idle"
    /\ failures < MaxFailures
    /\ failures' = failures + 1
    /\ phase' = "idle"
    /\ Reset
    /\ UNCHANGED has

\* Gossip, another session or the person adds an event at a side.
ElsewhereTaken(x) ==
    /\ \E e \in Events \ has[x] : LetsIn(x, e) /\ Store(x, e)
    /\ disturbed' = (disturbed \/ x = "dialler")
    /\ UNCHANGED <<phase, offer, need, have, fetched, waiting, retried, inFlight, progress,
                   brought, failures>>

SessionStep == \/ Open \/ Seal \/ Negotiate \/ Fetch \/ FetchDone \/ ApplyFetched
               \/ BeginRetry \/ RetryWaiting \/ RetryRound \/ Push \/ Answer \/ Close

SNext == SessionStep \/ SessionFails \/ \E x \in Sides : ElsewhereTaken(x)

\* The loop opens a session again and again, and a session's tasks are
\* polled; only so many of them fail.
SFairness == WF_svars(SessionStep)

SSpec == SInit /\ [][SNext]_svars /\ SFairness

-----------------------------------------------------------------------------
(* Properties. *)

\* "What is refused waits and is tried again while anything new gets in":
\* when the dialler goes on to push, nothing it fetched that its store would
\* let in is left out, in whatever order one second's events were tried
\* (unless something else let it in meanwhile).
NothingAcceptableIsLeft ==
    phase = "push" /\ ~disturbed =>
        \A e \in brought : e \in has["dialler"] \/ ~LetsIn("dialler", e)

\* "Negentropy is for truth": what one side may show the other and the other
\* lets in is in the end held by both, failed sessions or not.
SidesConverge ==
    \A e \in Events :
        /\ <>[](e \in Visible("relay")) => <>[](e \in has["dialler"] \/ ~LetsIn("dialler", e))
        /\ <>[](e \in Visible("dialler")) => <>[](e \in has["relay"] \/ ~LetsIn("relay", e))

=============================================================================
