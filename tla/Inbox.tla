------------------------------- MODULE Inbox --------------------------------
(***************************************************************************)
(* Direct messages on their way (crates/hit-node/src/lib.rs send_dm,       *)
(* deliver_dm, accept_event; crates/hit-store expire_wraps and cap_wraps;  *)
(* hit-group's judgement of a gift wrap): the sender's outbox copy, the    *)
(* anchor that keeps the recipient's, and the recipient's own device.      *)
(*                                                                         *)
(*   day       the time                                                    *)
(*   wraps     per node, the wraps to the recipient it holds: for each,    *)
(*             the day it arrived there                                    *)
(*   named     per node but the recipient's, whether the inbox list it     *)
(*             holds of the recipient names the anchor                     *)
(*   capping   per node, the deliveries that have stored a wrap and not    *)
(*             yet read what the cap drops                                 *)
(*   dropping  per node, what such a delivery read and is about to delete  *)
(*   made      per DM sent, the date its wrap carries                      *)
(*   gone      the wraps a week's end dropped at the anchor                *)
(*   cut       per node, a delivery stopped before it enforced the cap     *)
(*                                                                         *)
(* A wrap's date is random, up to two days back (NIP-59); Dated gives each *)
(* how far.  All wraps are of one size, so the cap counts them.            *)
(***************************************************************************)
EXTENDS NodeBase

CONSTANTS Wraps,
          Dated,           \* per wrap, how many days before its sending it is dated
          INBOX_KEEP,      \* INBOX_KEEP_SECS, in days
          INBOX_CAP,       \* INBOX_CAP_BYTES, in wraps
          MaxDay,          \* bound: the last day
          MaxAtOnce,       \* bound: deliveries between storing and capping at a node
          MaxCuts          \* bound: deliveries cut short

DmNodes == {"sender", "anchor", "recipient"}
Keepers == {"sender", "anchor"}   \* nodes the wraps are not addressed to

ASSUME InboxConstants ==
    /\ {INBOX_KEEP, INBOX_CAP, MaxDay, MaxAtOnce, MaxCuts} \subseteq Nat
    /\ Dated \in [Wraps -> Nat]
    /\ None \notin Int

VARIABLES day, wraps, named, capping, dropping, gone, cut, made

ivars == <<day, wraps, named, capping, dropping, gone, cut, made>>

IInit ==
    /\ day = 1
    /\ wraps = [n \in DmNodes |-> [w \in {} |-> 0]]
    /\ named = [n \in Keepers |-> TRUE]
    /\ capping = [n \in Keepers |-> 0]
    /\ dropping = [n \in Keepers |-> {}]
    /\ gone = {}
    /\ cut = 0
    /\ made = [w \in Wraps |-> None]

Holds(n) == DOMAIN wraps[n]
Without(f, S) == [w \in DOMAIN f \ S |-> f[w]]

\* Mutant: whatever its date.
TakesAnyDate(n, w) == n = "recipient" \/ (n = "anchor" /\ named[n])

\* judge of a gift wrap at a node that did not sign it.
TakesWrap(n, w) ==
    \/ n = "recipient"
    \/ n = "anchor" /\ made[w] + INBOX_KEEP >= day /\ named[n]

\* Store::insert, and for somebody else's wrap the cap to be enforced.
StoreWrap(n, w) ==
    /\ w \notin Holds(n)
    /\ n \in Keepers => capping[n] + Cardinality(dropping[n]) < MaxAtOnce
    /\ wraps' = [wraps EXCEPT ![n] =
            [x \in Holds(n) \cup {w} |-> IF x = w THEN day ELSE wraps[n][x]]]
    /\ capping' = IF n \in Keepers THEN [capping EXCEPT ![n] = @ + 1] ELSE capping

\* send_dm, deliver_dm: our own wrap is stored, then theirs as the outbox
\* copy: signed here, so not refused for not being ours.
SendDm(w) ==
    /\ made[w] = None
    /\ made' = [made EXCEPT ![w] = day - Dated[w]]
    /\ StoreWrap("sender", w)
    /\ UNCHANGED <<day, named, dropping, gone, cut>>

\* What may go from m to n: may_read answers by the inbox list m holds (the
\* recipient may have named the anchor a moment ago).
Offered(m, n) ==
    IF \/ n = "recipient"
       \/ n = "anchor" /\ (m = "recipient" \/ named[m])
    THEN Holds(m) \ Holds(n) ELSE {}

\* Handed over at once (deliver), or in a later sync.
Deliver(m, n) ==
    /\ m # n
    /\ \E w \in Offered(m, n) : TakesWrap(n, w) /\ StoreWrap(n, w)
    /\ UNCHANGED <<day, named, dropping, gone, cut, made>>

\* cap_wraps: the newest to arrive are kept up to the cap, by date within
\* one second.
OverCap(n) ==
    {K \in SUBSET Holds(n) :
        /\ Cardinality(K) = Greater(Cardinality(Holds(n)) - INBOX_CAP, 0)
        /\ \A x \in K, y \in Holds(n) \ K :
            \/ wraps[n][x] < wraps[n][y]
            \/ wraps[n][x] = wraps[n][y] /\ made[x] <= made[y]}

CapRead(n) ==
    /\ capping[n] > 0
    /\ capping' = [capping EXCEPT ![n] = @ - 1]
    /\ \E K \in OverCap(n) : dropping' = [dropping EXCEPT ![n] = @ \cup {K}]
    /\ UNCHANGED <<day, wraps, named, gone, cut, made>>

CapDrop(n) ==
    /\ \E K \in dropping[n] :
        /\ wraps' = [wraps EXCEPT ![n] = Without(@, K)]
        /\ dropping' = [dropping EXCEPT ![n] = @ \ {K}]
    /\ UNCHANGED <<day, named, capping, gone, cut, made>>

\* A timeout or a stop between the two.
CapCut(n) ==
    /\ cut < MaxCuts
    /\ capping[n] > 0
    /\ capping' = [capping EXCEPT ![n] = @ - 1]
    /\ cut' = cut + 1
    /\ UNCHANGED <<day, wraps, named, dropping, gone, made>>

\* expire_inbox_if_due: whatever arrived over a week ago and is not
\* addressed to the node's own person.
ExpireInbox(n) ==
    LET old == {w \in Holds(n) : wraps[n][w] < day - INBOX_KEEP} IN
    /\ old # {}
    /\ wraps' = [wraps EXCEPT ![n] = Without(@, old)]
    /\ gone' = IF n = "anchor" THEN gone \cup old ELSE gone
    /\ UNCHANGED <<day, named, capping, dropping, cut, made>>

\* set_inbox: the recipient names the anchor, or no longer, and the list
\* reaches n some time later.
LearnList(n) ==
    /\ named' = [named EXCEPT ![n] = ~@]
    /\ UNCHANGED <<day, wraps, capping, dropping, gone, cut, made>>

\* The day ends once every node has passed its loop, which enforces the week
\* at most once a minute.
NextDay ==
    /\ day < MaxDay
    /\ \A n \in Keepers : \A w \in Holds(n) : wraps[n][w] >= day - INBOX_KEEP
    /\ day' = day + 1
    /\ UNCHANGED <<wraps, named, capping, dropping, gone, cut, made>>

INext == \/ \E w \in Wraps : SendDm(w)
         \/ \E m, n \in DmNodes : Deliver(m, n)
         \/ \E n \in Keepers : CapRead(n) \/ CapDrop(n) \/ CapCut(n) \/ ExpireInbox(n)
                               \/ LearnList(n)
         \/ NextDay

ISpec == IInit /\ [][INext]_ivars

-----------------------------------------------------------------------------
(* Properties. *)

\* "What was let go stays gone": a wrap the week's end dropped at the anchor
\* does not come back to it, although the recipient's device keeps it for
\* ever and offers it in every sync.
LetGoStaysGone == Holds("anchor") \cap gone = {}

=============================================================================
