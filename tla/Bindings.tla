------------------------------ MODULE Bindings ------------------------------
(***************************************************************************)
(* The bindings of one device of one person: how it renews its own, how    *)
(* other nodes keep the newest thing said of it, and how a revocation      *)
(* holds (crates/hit-event/src/binding.rs, replace.rs, and their callers   *)
(* in crates/hit-node/src/lib.rs).                                         *)
(*                                                                         *)
(*   clock     seconds since the start, on every machine                   *)
(*   signed    what the person has signed of the device                    *)
(*   own       the binding the device presents, in its memory              *)
(*   up        whether the device's node runs                              *)
(*   book      per node, the newest its BindingBook holds, or None         *)
(*   slot      per node, what its database holds for the device, or None   *)
(*   known     per node, the dates of the revocations it ever took         *)
(*   storing   deliveries past the book whose insert into the database is  *)
(*             awaited: [node, b, renews]                                  *)
(*   dropped   the nodes at which such a delivery failed or was dropped    *)
(*             since their start (for StoreAndBookAgree)                   *)
(*                                                                         *)
(* A binding is [at, exp, revoked]; what a revocation has for exp is None. *)
(* Two bindings of one second are the same event: sign_binding has no      *)
(* other input, so the comparison of ids never decides; two deliveries of  *)
(* one at a node at once are one.  Signatures, the device's proof and      *)
(* its spelling are checks of the data, and pass.                          *)
(***************************************************************************)
EXTENDS NodeBase

CONSTANTS Me,           \* the node on the device
          Siblings,     \* the nodes on the person's other devices
          Friends,      \* nodes whose person shares a group with the person
          Strangers,    \* nodes whose person shares none
          DEFAULT_TTL, MAX_TTL, MAX_CLOCK_SKEW,
          MaxClock,     \* bound: the last second
          MaxRevocations, \* bound: revocations signed
          MaxStoring,     \* bound: inserts awaited at once
          Failing         \* bound: the nodes at which an insert may fail

ASSUME BindingConstants ==
    /\ {DEFAULT_TTL, MAX_TTL, MAX_CLOCK_SKEW, MaxClock, MaxRevocations,
         MaxStoring} \subseteq Nat
    /\ 4 <= DEFAULT_TTL /\ DEFAULT_TTL <= MAX_TTL
    /\ None \notin Int /\ None \notin [at : Int, exp : Int \cup {None}, revoked : BOOLEAN]
ASSUME BindingNodes == Me \notin Siblings \cup Friends \cup Strangers

VARIABLES clock, signed, own, up, book, slot, known, storing, dropped

bvars == <<clock, signed, own, up, book, slot, known, storing, dropped>>

BNodes == {Me} \cup Siblings \cup Friends \cup Strangers

\* judge, for a personal event: its author is this node's person, or shares a group.
Keeps(n) == n \notin Strangers

-----------------------------------------------------------------------------
(* hit-event.                                                              *)

SignBinding(now) == [at |-> now, exp |-> now + DEFAULT_TTL, revoked |-> FALSE]
SignRevocation(now) == [at |-> now, exp |-> None, revoked |-> TRUE]

\* Mutant: the newest by date alone.
ReplacesByDate(new, current) == new.at > current.at

\* replaces, for device bindings.
BindingReplaces(new, current) ==
    \/ new.at > current.at
    \/ new.at = current.at /\ new.revoked /\ ~current.revoked

Expired(b, now) == b.exp = None \/ b.exp <= now

\* Parsed::check.
BindingCheck(b, now) ==
    /\ b.at <= now + MAX_CLOCK_SKEW
    /\ \/ b.revoked
       \/ ~Expired(b, now) /\ b.exp - b.at <= MAX_TTL

\* verify_binding_at, for the connection of the device itself.
Verifies(b, now) == BindingCheck(b, now) /\ ~b.revoked

\* needs_renewal: less than half the lifetime left.
NeedsRenewal(b, now) ==
    ~b.revoked /\ Greater(b.exp, now) - now < (b.exp - b.at) \div 2

\* BindingBook::insert, of what passed its check.
BookInsert(held, b, now) ==
    IF BindingCheck(b, now) /\ (held = None \/ BindingReplaces(b, held)) THEN b ELSE held

\* Store::insert in the addressable slot of (person, device).
SlotInsert(held, b) == IF held = None \/ BindingReplaces(b, held) THEN b ELSE held

-----------------------------------------------------------------------------
(* hit-node.                                                               *)

BInit ==
    /\ clock = 1
    /\ signed = {SignBinding(1)}
    /\ own = SignBinding(1)
    /\ up = TRUE
    /\ book = [n \in BNodes |-> IF n = Me THEN SignBinding(1) ELSE None]
    /\ slot = book
    /\ known = [n \in BNodes |-> {}]
    /\ storing = {}
    /\ dropped = {}

\* The insert of b into n's database is awaited.
Await(n, b, renews) ==
    /\ Cardinality(storing) < MaxStoring
    /\ storing' = storing \cup {[node |-> n, b |-> b, renews |-> renews]}

\* accept_event of a binding at n up to its insert: refused unless n's person
\* shares a group with its author and the book's check passes; the book has
\* it before the database.
TakeBinding(n, b, renews) ==
    /\ Keeps(n)
    /\ BindingCheck(b, clock)
    /\ book' = [book EXCEPT ![n] = BookInsert(@, b, clock)]
    /\ Await(n, b, renews)
    /\ UNCHANGED <<slot, known, dropped>>

\* The insert is done.  A renewal is presented from then on.
StoreBinding ==
    /\ \E s \in storing :
        /\ slot' = [slot EXCEPT ![s.node] = SlotInsert(@, s.b)]
        /\ known' = IF s.b.revoked THEN [known EXCEPT ![s.node] = @ \cup {s.b.at}] ELSE known
        /\ own' = IF s.renews THEN s.b ELSE own
        /\ storing' = storing \ {s}
    /\ UNCHANGED <<clock, signed, up, book, dropped>>

\* The insert fails, or the delivery is dropped at it (SYNC_TIMEOUT, a session
\* that ends): the book has what the database has not.
CutDelivery ==
    /\ \E s \in storing :
        /\ s.node \in Failing
        /\ storing' = storing \ {s}
        /\ dropped' = dropped \cup {s.node}
    /\ UNCHANGED <<clock, signed, own, up, book, slot, known>>

\* What n had under way ends with its process.
Stopped(n) ==
    /\ storing' = {s \in storing : s.node # n}
    /\ dropped' = dropped \ {n}

\* The person revokes the device from another one, dated then, and its node
\* publishes the revocation to itself.
Revoke(n) ==
    /\ n \in Siblings
    /\ Cardinality({b \in signed : b.revoked}) < MaxRevocations
    /\ signed' = signed \cup {SignRevocation(clock)}
    /\ TakeBinding(n, SignRevocation(clock), FALSE)
    /\ UNCHANGED <<clock, own, up>>

\* relay.rs, an EVENT of a client: anyone may hand n what the person signed.
PushBinding(n) ==
    /\ n = Me => up
    /\ \E b \in signed : TakeBinding(n, b, FALSE)
    /\ UNCHANGED <<clock, signed, own, up>>

\* learn_binding: a binding sealed in a DM, or the hello of a device that a
\* contact link named, is kept even with no group in common.
LearnBinding(n) ==
    /\ n \in Friends \cup Strangers
    /\ BindingCheck(own, clock)
    /\ book' = [book EXCEPT ![n] = BookInsert(@, own, clock)]
    /\ Await(n, own, FALSE)
    /\ UNCHANGED <<clock, signed, own, up, slot, known, dropped>>

\* Mutant: the presented binding alone decides.
AuthenticatePresented(newest, b) == Verifies(b, clock)

\* BindingBook::authenticate of `b`, with `newest` in the book after it.
Authenticates(newest, b) == Verifies(b, clock) /\ Verifies(newest, clock)

\* A session with n opened by the device (serve): the hello's binding goes
\* into the book, which decides, and is then offered to accept_event.  (The
\* session opens once that has returned; what comes meanwhile no longer counts.)
Hello(n) ==
    LET newest == BookInsert(book[n], own, clock) IN
    /\ up /\ n # Me
    /\ Verifies(own, clock)
    /\ book' = [book EXCEPT ![n] = newest]
    /\ IF Authenticates(newest, own) /\ Keeps(n) THEN Await(n, own, FALSE)
       ELSE UNCHANGED storing
    /\ UNCHANGED <<clock, signed, own, up, slot, known, dropped>>

\* Reconcilable: what a session between m and n may carry of the device.
\* The bindings of the two parties' own people are left out, and what has
\* no expiry ahead of it.
Reconcilable(m, n) ==
    {b \in {slot[m]} \ {None} :
        {m, n} \cap ({Me} \cup Siblings) = {} /\ ~Expired(b, clock)}

\* A sync session between m and n: n fetches, or is pushed, what it lacks.
Exchange(m, n) ==
    /\ m # n
    /\ \E b \in Reconcilable(m, n) : b # slot[n] /\ TakeBinding(n, b, FALSE)
    /\ UNCHANGED <<clock, signed, own, up>>

\* renew_binding_if_due, a pass of the device's sync loop: published to its
\* own store like anyone's, and presented once that has returned.
Renew ==
    /\ up
    /\ NeedsRenewal(own, clock)
    /\ ~\E s \in storing : s.renews
    /\ signed' = signed \cup {SignBinding(clock)}
    /\ TakeBinding(Me, SignBinding(clock), TRUE)
    /\ UNCHANGED <<clock, own, up>>

\* Node::start fills the book from the store; what the check refuses is
\* simply not loaded.
Reloaded(n) == IF slot[n] = None THEN None ELSE BookInsert(None, slot[n], clock)

RestartNode(n) ==
    /\ n # Me
    /\ book' = [book EXCEPT ![n] = Reloaded(n)]
    /\ Stopped(n)
    /\ UNCHANGED <<clock, signed, own, up, slot, known>>

StopDevice ==
    /\ up
    /\ up' = FALSE
    /\ Stopped(Me)
    /\ UNCHANGED <<clock, signed, own, book, slot, known>>

\* own_binding, as the device's node starts: a revocation stops it; the
\* stored binding if it is still good; else a fresh one, into the book not yet
\* in use and the store (an error of which is that of the start).
StartDevice ==
    LET held == slot[Me]
        fresh == SignBinding(clock)
        good == ~NeedsRenewal(held, clock) /\ Verifies(held, clock)
    IN
    /\ ~up
    /\ ~held.revoked
    /\ up' = TRUE
    /\ own' = IF good THEN held ELSE fresh
    /\ signed' = signed \cup {own'}
    /\ book' = [book EXCEPT ![Me] = IF good THEN Reloaded(Me)
                                    ELSE LET b == Reloaded(Me) IN
                                         IF b = None THEN fresh ELSE BookInsert(b, fresh, clock)]
    /\ slot' = [slot EXCEPT ![Me] = SlotInsert(@, own')]
    /\ UNCHANGED <<clock, known, storing, dropped>>

Tick ==
    /\ clock < MaxClock
    /\ clock' = clock + 1
    /\ UNCHANGED <<signed, own, up, book, slot, known, storing, dropped>>

BNext == \/ \E n \in BNodes : Revoke(n) \/ PushBinding(n) \/ LearnBinding(n) \/ Hello(n) \/ RestartNode(n)
         \/ \E m, n \in BNodes : Exchange(m, n)
         \/ StoreBinding \/ CutDelivery \/ Renew \/ StopDevice \/ StartDevice \/ Tick

BSpec == BInit /\ [][BNext]_bvars

-----------------------------------------------------------------------------
(* Properties.                                                             *)

\* A revocation that is in a node's database holds for good: whatever it
\* forgets at a restart, in whatever order renewals and revocations of one
\* second reached it and were stored, its book admits the device, whichever
\* of its bindings it presents, only on one signed later than every revocation
\* ever stored there (PROTOCOL.md, "Replacement": "a re-sign and a revocation
\* made in the same second cannot leave a revoked device alive").  One whose
\* accept_event has not returned may yet be lost.
RevocationHolds ==
    \A n \in BNodes \ {Me}, b \in signed :
        LET newest == BookInsert(book[n], b, clock)
        IN Authenticates(newest, b) => \A past \in known[n] : past < newest.at

\* replace.rs: "The store and the BindingBook both decide replacement."  Of a
\* person it shares a group with, a node's book and its database hold the
\* same.  Or the book is ahead: by what it has just taken, whose insert is
\* awaited, or by what a delivery cut at its insert since the start left it
\* (`dropped`).  Or the database holds an expired binding that a start did not
\* load, and the book nothing, or an older revocation that was handed to it
\* since.  The database is never ahead with anything that stands for a live
\* device.
StoreAndBookAgree ==
    \A n \in BNodes : Keeps(n) =>
        \/ book[n] = slot[n]
        \/ /\ book[n] # None
           /\ slot[n] # None => BindingReplaces(book[n], slot[n])
           /\ n \in dropped \/ \E s \in storing : s.node = n /\ s.b = book[n]
        \/ /\ slot[n] # None /\ Expired(slot[n], clock) /\ ~slot[n].revoked
           /\ book[n] # None => book[n].revoked /\ book[n].at < slot[n].at
        \/ n = Me /\ ~up

=============================================================================
