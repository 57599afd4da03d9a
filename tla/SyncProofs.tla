----------------------------- MODULE SyncProofs -----------------------------
(***************************************************************************)
(* How nodes know each other's devices and sync, proved for every set of   *)
(* nodes, every lifetime and clock skew, every backoff and every relation  *)
(* of what events need of each other: the sync loop has one task per       *)
(* device, a session leaves nothing out that the store would have let in,  *)
(* a revocation holds, and a node's book and its database agree on the     *)
(* device.                                                                 *)
(***************************************************************************)
EXTENDS Bindings, SyncLoop, SyncSession, FiniteSetTheorems, TLAPS

(***************************************************************************)
(* The sync loop.                                                          *)
(***************************************************************************)

LTypes ==
    /\ targets \subseteq Peers
    /\ busy \subseteq Peers
    /\ running \in [Peers -> Nat]
    /\ reports \subseteq Peers \X BOOLEAN

\* The reports of a device that the loop has not read.
Of(d) == {r \in reports : r[1] = d}

\* A device the loop holds busy has a task under way and nothing reported, or
\* one report and no task; any other has neither.
OneTask ==
    \A d \in Peers :
        IF d \in busy
        THEN \/ running[d] = 1 /\ Of(d) = {}
             \/ running[d] = 0 /\ \E ok \in BOOLEAN : Of(d) = {<<d, ok>>}
        ELSE running[d] = 0 /\ Of(d) = {}

LInv == LTypes /\ OneTask

\* Counted, that is what the property says.
LEMMA OneTaskCounts == LInv => OneSyncAtATime
<1> SUFFICES ASSUME LInv, NEW d \in Peers
             PROVE  running[d] + Cardinality({r \in reports : r[1] = d}) = (IF d \in busy THEN 1 ELSE 0)
  BY DEF OneSyncAtATime
<1>1. Cardinality({}) = 0 /\ \A x : Cardinality({x}) = 1
  BY FS_EmptySet, FS_Singleton
<1>2. Of(d) = {r \in reports : r[1] = d}
  BY DEF Of
<1> HIDE DEF Of
<1>3. running[d] \in Nat
  BY DEF LInv, LTypes
<1>4. CASE d \notin busy
  <2>1. running[d] = 0 /\ Of(d) = {}
    BY <1>4 DEF LInv, OneTask
  <2>2. Cardinality(Of(d)) = 0
    BY <1>1, <2>1
  <2> QED BY <1>2, <1>4, <2>1, <2>2
<1>5. CASE d \in busy /\ running[d] = 1 /\ Of(d) = {}
  <2>1. Cardinality(Of(d)) = 0
    BY <1>1, <1>5
  <2> QED BY <1>2, <1>5, <2>1
<1>6. CASE d \in busy /\ running[d] = 0 /\ \E ok \in BOOLEAN : Of(d) = {<<d, ok>>}
  <2>1. Cardinality(Of(d)) = 1
    BY <1>1, <1>6, Zenon
  <2> QED BY <1>2, <1>6, <2>1
<1> QED BY <1>4, <1>5, <1>6 DEF LInv, OneTask

\* No step of the loop or of a task leaves a device with two.
LEMMA LoopStep == LInv /\ [LNext]_lvars => LInv'
<1> SUFFICES ASSUME LInv, [LNext]_lvars PROVE LInv'
  OBVIOUS
<1> USE DEF LInv, LTypes
<1>1. CASE UNCHANGED lvars
  BY <1>1 DEF lvars, OneTask, Of
<1>2. CASE Drain
  <2>1. /\ busy' = busy \ {r[1] : r \in reports} /\ reports' = {}
        /\ UNCHANGED <<targets, running>>
    BY <1>2 DEF Drain
  <2>2. ASSUME NEW d \in Peers PROVE Of(d)' = {}
    BY <2>1 DEF Of
  <2>3. ASSUME NEW d \in Peers, d \in busy, Of(d) # {} PROVE d \notin busy' /\ running'[d] = 0
    BY <2>1, <2>3 DEF OneTask, Of
  <2>4. ASSUME NEW d \in Peers, Of(d) = {} PROVE d \in busy' <=> d \in busy
    BY <2>1, <2>4 DEF Of
  <2>5. LTypes'
    BY <2>1
  <2>6. OneTask'
    <3> SUFFICES ASSUME NEW d \in Peers
                 PROVE IF d \in busy'
                       THEN \/ running'[d] = 1 /\ Of(d)' = {}
                            \/ running'[d] = 0 /\ \E ok \in BOOLEAN : Of(d)' = {<<d, ok>>}
                       ELSE running'[d] = 0 /\ Of(d)' = {}
      BY DEF OneTask
    <3> QED BY <2>1, <2>2, <2>3, <2>4 DEF OneTask
  <2> QED BY <2>5, <2>6
<1>3. CASE Spawn
  <2> DEFINE start == {d \in targets \ busy : due[d] = None \/ due[d] = 0}
  <2>1. /\ busy' = busy \cup start
        /\ running' = [d \in Peers |-> running[d] + (IF d \in start THEN 1 ELSE 0)]
        /\ UNCHANGED <<targets, reports>>
    BY <1>3 DEF Spawn
  <2>2. start \subseteq targets \ busy
    OBVIOUS
  <2> HIDE DEF start
  <2>3. LTypes'
    BY <2>1, <2>2
  <2>4. \A d \in Peers : Of(d)' = Of(d)
    BY <2>1 DEF Of
  <2>5. OneTask'
    BY <2>1, <2>2, <2>4 DEF OneTask
  <2> QED BY <2>3, <2>5
<1>4. CASE Sleep
  BY <1>4 DEF Sleep, OneTask, Of
<1>5. ASSUME NEW d \in Peers, Retarget(d) PROVE LInv'
  BY <1>5 DEF Retarget, OneTask, Of
<1>6. ASSUME NEW d \in Peers, HeardFrom(d) PROVE LInv'
  BY <1>6 DEF HeardFrom, OneTask, Of
<1>7. ASSUME NEW d \in Peers, SyncEnds(d) PROVE LInv'
  <2>1. PICK ok \in BOOLEAN : reports' = reports \cup {<<d, ok>>}
    BY <1>7 DEF SyncEnds
  <2>2. /\ running[d] > 0 /\ running' = [running EXCEPT ![d] = @ - 1]
        /\ UNCHANGED <<targets, busy>>
    BY <1>7 DEF SyncEnds
  <2>3. d \in busy /\ running[d] = 1 /\ Of(d) = {}
    BY <2>2 DEF OneTask
  <2>4. Of(d)' = {<<d, ok>>}
    BY <2>1, <2>3 DEF Of
  <2>5. \A e \in Peers \ {d} : Of(e)' = Of(e)
    BY <2>1 DEF Of
  <2>6. LTypes'
    BY <2>1, <2>2, <2>3
  <2>7. running'[d] = 0 /\ \A e \in Peers \ {d} : running'[e] = running[e]
    BY <2>2, <2>3
  <2>8. OneTask'
    BY <2>2, <2>3, <2>4, <2>5, <2>7 DEF OneTask
  <2> QED BY <2>6, <2>8
<1> QED BY <1>1, <1>2, <1>3, <1>4, <1>5, <1>6, <1>7 DEF LNext, Pass

\* However reports and hellos cross the loop's passes, a device has one sync
\* at a time, and the loop's busy set is exactly the devices that have one
\* under way or just reported (spawn_sync_loop).
THEOREM LoopSyncsOnce == LSpec => []OneSyncAtATime
<1>1. LInit => LInv
  BY DEF LInit, LInv, LTypes, OneTask, Of
<1> QED BY <1>1, LoopStep, OneTaskCounts, PTL DEF LSpec

(***************************************************************************)
(* A session.                                                              *)
(***************************************************************************)

STypes ==
    /\ has \in [Sides -> SUBSET Events]
    /\ brought \subseteq Events
    /\ fetched \subseteq brought
    /\ waiting \subseteq brought
    /\ retried \subseteq waiting
    /\ have \subseteq Events /\ inFlight \subseteq Events /\ offer \subseteq Events

\* What this session fetched is in the store, still to be tried, or waiting.
\* Before it applies anything nothing waits, once it retries nothing is left
\* to be tried a first time.
Sorted ==
    /\ brought \subseteq has["dialler"] \cup fetched \cup waiting
    /\ phase \in {"retry", "push"} => fetched = {}
    /\ phase = "push" => retried = {}
    /\ phase \notin {"retry", "push", "apply"} => waiting = {}

\* In a round that let nothing in so far, what it tried is still refused:
\* nothing changed in the store since.
TriedIsRefused ==
    phase \in {"retry", "push"} /\ ~disturbed /\ (~progress \/ phase = "push") =>
        \A e \in waiting \ retried : ~LetsIn("dialler", e)

SInv == STypes /\ Sorted /\ TriedIsRefused

\* What the property says of the push.
LEMMA SortedIsLeft == SInv => NothingAcceptableIsLeft
  BY DEF SInv, STypes, Sorted, TriedIsRefused, NothingAcceptableIsLeft

\* What an event added to one side's store leaves there.
LEMMA Stored ==
    ASSUME has \in [Sides -> SUBSET Events], NEW x \in Sides, NEW e \in Events, Store(x, e)
    PROVE  /\ has' \in [Sides -> SUBSET Events]
           /\ has'[x] = has[x] \cup {e}
           /\ \A y \in Sides \ {x} : has'[y] = has[y]
  BY DEF Store

\* The steps of the dialler and of the relay, and what happens beside them.
LEMMA SessionKeeps == SInv /\ [SNext]_svars => SInv'
<1> SUFFICES ASSUME SInv, [SNext]_svars PROVE SInv'
  OBVIOUS
<1> USE DEF SInv, STypes, Sorted, TriedIsRefused, LetsIn
<1>d. "dialler" \in Sides /\ "relay" \in Sides /\ "dialler" # "relay"
  BY DEF Sides
<1>1. CASE UNCHANGED svars
  BY <1>1 DEF svars
<1>v. Visible("dialler") \subseteq Events /\ Visible("relay") \subseteq Events
  BY <1>d DEF Visible
<1>2. CASE Open \/ Seal \/ Negotiate
  BY <1>2, <1>v DEF Open, Seal, Negotiate
<1>3. CASE Fetch
  <2>1. PICK C \in SUBSET need :
          /\ fetched' = fetched \cup (C \cap Visible("relay"))
          /\ brought' = brought \cup (C \cap Visible("relay"))
    BY <1>3 DEF Fetch, Chunks
  <2> QED BY <1>3, <1>v, <2>1 DEF Fetch
<1>4. CASE FetchDone
  BY <1>4 DEF FetchDone
<1>5. CASE ApplyFetched
  <2>1. PICK e \in FirstOf(fetched) :
        /\ fetched' = fetched \ {e}
        /\ IF LetsIn("dialler", e)
           THEN Store("dialler", e) /\ UNCHANGED waiting
           ELSE waiting' = waiting \cup {e} /\ UNCHANGED has
    BY <1>5 DEF ApplyFetched
  <2>2. e \in fetched /\ e \in Events
    BY DEF FirstOf
  <2>3. CASE LetsIn("dialler", e)
    BY <1>5, <1>d, <2>1, <2>2, <2>3, Stored DEF ApplyFetched
  <2>4. CASE ~LetsIn("dialler", e)
    BY <1>5, <2>1, <2>2, <2>4 DEF ApplyFetched
  <2> QED BY <2>3, <2>4
<1>6. CASE BeginRetry
  BY <1>6 DEF BeginRetry
<1>7. CASE RetryWaiting
  <2>1. PICK e \in FirstOf(retried) :
        /\ retried' = retried \ {e}
        /\ IF LetsIn("dialler", e)
           THEN Store("dialler", e) /\ waiting' = waiting \ {e} /\ progress' = TRUE
           ELSE UNCHANGED <<has, waiting, progress>>
    BY <1>7 DEF RetryWaiting
  <2>2. e \in retried /\ e \in Events
    BY DEF FirstOf
  <2>3. CASE LetsIn("dialler", e)
    BY <1>7, <1>d, <2>1, <2>2, <2>3, Stored DEF RetryWaiting
  <2>4. CASE ~LetsIn("dialler", e)
    BY <1>7, <2>1, <2>2, <2>4 DEF RetryWaiting
  <2> QED BY <2>3, <2>4
<1>8. CASE RetryRound
  BY <1>8 DEF RetryRound
<1>9. CASE Push
  BY <1>9, <1>d DEF Push
<1>10. CASE Answer
  <2>1. PICK e \in FirstOf(inFlight) :
          IF LetsIn("relay", e) THEN Store("relay", e) ELSE UNCHANGED has
    BY <1>10 DEF Answer
  <2>2. e \in inFlight /\ e \in Events
    BY DEF FirstOf
  <2>3. has' \in [Sides -> SUBSET Events] /\ has'["dialler"] = has["dialler"]
    BY <1>d, <2>1, <2>2, Stored
  <2> QED BY <1>10, <2>3 DEF Answer
<1>11. CASE Close \/ SessionFails
  BY <1>11 DEF Close, SessionFails, Reset
<1>12. ASSUME NEW x \in Sides, ElsewhereTaken(x) PROVE SInv'
  <2>1. PICK e \in Events : Store(x, e)
    BY <1>12 DEF ElsewhereTaken
  <2>2. /\ has' \in [Sides -> SUBSET Events] /\ has["dialler"] \subseteq has'["dialler"]
        /\ x # "dialler" => has'["dialler"] = has["dialler"]
    BY <1>d, <2>1, Stored
  <2> QED BY <1>12, <2>2 DEF ElsewhereTaken
<1> QED BY <1>1, <1>2, <1>3, <1>4, <1>5, <1>6, <1>7, <1>8, <1>9, <1>10, <1>11, <1>12
        DEF SNext, SessionStep

\* When the dialler goes on to push, nothing it fetched that its store would
\* let in is left out, in whatever order one second's events were tried (sync,
\* the retry loop).
THEOREM SessionLeavesNothing == SSpec => []NothingAcceptableIsLeft
<1>1. SInit => SInv
  <2> SUFFICES ASSUME SInit PROVE SInv
    OBVIOUS
  <2>1. PICK s \in Starts : has = [x \in Sides |-> IF x = "dialler" THEN s[1] ELSE s[2]]
    BY DEF SInit
  <2>2. s[1] \in SUBSET Events /\ s[2] \in SUBSET Events
    BY SessionConstants
  <2>3. has \in [Sides -> SUBSET Events]
    BY <2>1, <2>2
  <2> QED BY <2>3 DEF SInit, SInv, STypes, Sorted, TriedIsRefused
<1> QED BY <1>1, SessionKeeps, SortedIsLeft, PTL DEF SSpec
(***************************************************************************)
(* Device bindings: what there is to hold.                                 *)
(***************************************************************************)

\* What the person can have signed by second t.
Signable(t) == {SignBinding(u) : u \in 1 .. t} \cup {SignRevocation(u) : u \in 1 .. t}

\* What such a thing looks like: a binding with its expiry, or a revocation.
LEMMA SignableForm ==
    ASSUME NEW t \in Nat, NEW b \in Signable(t)
    PROVE  /\ b # None /\ b.at \in 1 .. t /\ b.revoked \in BOOLEAN
           /\ ~b.revoked => b = SignBinding(b.at) /\ b.exp = b.at + DEFAULT_TTL /\ b.exp # None
           /\ b.revoked => b = SignRevocation(b.at) /\ b.exp = None
<1>1. CASE \E u \in 1 .. t : b = SignBinding(u)
  <2>1. PICK u \in 1 .. t : b = SignBinding(u)
    BY <1>1
  <2>2. b = [at |-> u, exp |-> u + DEFAULT_TTL, revoked |-> FALSE]
    BY <2>1 DEF SignBinding
  <2>3. b \in [at : Int, exp : Int \cup {None}, revoked : BOOLEAN]
    BY <2>2, BindingConstants
  <2>4. u + DEFAULT_TTL \in Int
    BY BindingConstants
  <2>5. b.at = u /\ b.exp = u + DEFAULT_TTL /\ b.revoked = FALSE
    BY <2>2
  <2> QED BY <2>1, <2>3, <2>4, <2>5, BindingConstants
<1>2. CASE \E u \in 1 .. t : b = SignRevocation(u)
  <2>1. PICK u \in 1 .. t : b = SignRevocation(u)
    BY <1>2
  <2>2. b = [at |-> u, exp |-> None, revoked |-> TRUE]
    BY <2>1 DEF SignRevocation
  <2>3. b \in [at : Int, exp : Int \cup {None}, revoked : BOOLEAN]
    BY <2>2, BindingConstants
  <2>4. b.at = u /\ b.exp = None /\ b.revoked = TRUE
    BY <2>2
  <2> QED BY <2>1, <2>3, <2>4, BindingConstants
<1> QED BY <1>1, <1>2 DEF Signable

\* What is signed now is signable, and stays so.
LEMMA SignableGrows ==
    ASSUME NEW t \in Nat \ {0}
    PROVE  /\ SignBinding(t) \in Signable(t) /\ SignRevocation(t) \in Signable(t)
           /\ Signable(t) \subseteq Signable(t + 1)
           /\ SignBinding(t).at = t /\ SignBinding(t).revoked = FALSE
           /\ SignRevocation(t).at = t /\ SignRevocation(t).revoked = TRUE
<1>1. SignBinding(t) \in Signable(t) /\ SignRevocation(t) \in Signable(t)
  BY DEF Signable
<1>2. Signable(t) \subseteq Signable(t + 1)
  BY DEF Signable
<1> QED BY <1>1, <1>2 DEF SignBinding, SignRevocation

BTypes ==
    /\ clock \in Nat \ {0} /\ up \in BOOLEAN
    /\ signed \subseteq Signable(clock)
    /\ own \in signed /\ ~own.revoked
    /\ book \in [BNodes -> signed \cup {None}]
    /\ slot \in [BNodes -> signed \cup {None}]
    /\ slot[Me] # None
    /\ known \in [BNodes -> SUBSET Int]
    /\ storing \subseteq [node : BNodes, b : signed, renews : BOOLEAN]
    /\ \A s \in storing : s.renews \/ ~Keeps(s.node) => ~s.b.revoked

\* What a node keeps is at least as new as every revocation it took.
Outlasts(held, K) ==
    \A past \in K : held # None /\ (past < held.at \/ (past = held.at /\ held.revoked))

Remembers ==
    \A n \in BNodes :
        /\ Keeps(n) => Outlasts(slot[n], known[n])
        /\ ~Keeps(n) => known[n] = {}

\* What is on its way to a node's database.
Waited(S, n) == {s.b : s \in {r \in S : r.node = n}}

\* How a node's book and its database may stand to each other, with W awaited
\* and `lost` whether anything was dropped.
Ahead(bk, sl) == bk # None /\ (sl # None => BindingReplaces(bk, sl))
Unloaded(bk, sl, now) ==
    /\ sl # None /\ Expired(sl, now) /\ ~sl.revoked
    /\ bk # None => bk.revoked /\ bk.at < sl.at

Agrees(bk, sl, W, lost, now) ==
    \/ bk = sl
    \/ Ahead(bk, sl) /\ (lost \/ bk \in W)
    \/ Unloaded(bk, sl, now)

\* And the book is no older than anything awaited.
Newest(bk, W) == \A b \in W : bk # None /\ ~BindingReplaces(b, bk)

Stand(bk, sl, W, lost, now) == Agrees(bk, sl, W, lost, now) /\ Newest(bk, W)

Agree ==
    \A n \in BNodes : Keeps(n) =>
        \/ Stand(book[n], slot[n], Waited(storing, n), n \in dropped, clock)
        \/ n = Me /\ ~up

\* The device's node has nothing under way while it is down.
DownIsIdle == ~up => Waited(storing, Me) = {}

BInv == BTypes /\ Remembers /\ Agree /\ DownIsIdle

(***************************************************************************)
(* Taking a binding.                                                       *)
(***************************************************************************)

\* Of two things signed one replaces the other, or they are one.
LEMMA Ordered ==
    ASSUME NEW t \in Nat, NEW a \in Signable(t), NEW b \in Signable(t)
    PROVE  a = b \/ BindingReplaces(a, b) \/ BindingReplaces(b, a)
<1>1. /\ a.at \in Nat /\ b.at \in Nat /\ a.revoked \in BOOLEAN /\ b.revoked \in BOOLEAN
      /\ a = IF a.revoked THEN SignRevocation(a.at) ELSE SignBinding(a.at)
      /\ b = IF b.revoked THEN SignRevocation(b.at) ELSE SignBinding(b.at)
  BY SignableForm
<1>2. CASE a.at = b.at
  <2>1. CASE a.revoked /\ b.revoked
    BY <1>1, <1>2, <2>1
  <2>2. CASE ~a.revoked /\ ~b.revoked
    BY <1>1, <1>2, <2>2
  <2>3. CASE a.revoked /\ ~b.revoked
    BY <1>2, <2>3 DEF BindingReplaces
  <2>4. CASE ~a.revoked /\ b.revoked
    BY <1>2, <2>4 DEF BindingReplaces
  <2> QED BY <1>1, <2>1, <2>2, <2>3, <2>4
<1>3. CASE a.at # b.at
  BY <1>1, <1>3 DEF BindingReplaces
<1> QED BY <1>2, <1>3

\* Replacement is transitive, and nothing replaces itself.
LEMMA Transitive ==
    ASSUME NEW t \in Nat, NEW a \in Signable(t), NEW b \in Signable(t), NEW c \in Signable(t)
    PROVE  /\ BindingReplaces(a, b) /\ BindingReplaces(b, c) => BindingReplaces(a, c)
           /\ ~BindingReplaces(a, a)
           /\ BindingReplaces(a, b) => ~BindingReplaces(b, a)
<1>1. /\ a.at \in Nat /\ b.at \in Nat /\ c.at \in Nat
      /\ a.revoked \in BOOLEAN /\ b.revoked \in BOOLEAN /\ c.revoked \in BOOLEAN
  BY SignableForm
<1> QED BY <1>1 DEF BindingReplaces

\* A binding into the book, and awaited: the book is ahead, or as it was.
LEMMA TakenByBook ==
    ASSUME NEW t \in Nat \ {0}, NEW bk \in Signable(t) \cup {None}, NEW sl \in Signable(t) \cup {None},
           NEW W \in SUBSET Signable(t), NEW lost,
           NEW b \in Signable(t), BindingCheck(b, t), Agrees(bk, sl, W, lost, t), Newest(bk, W)
    PROVE  /\ Agrees(BookInsert(bk, b, t), sl, W \cup {b}, lost, t)
           /\ Newest(BookInsert(bk, b, t), W \cup {b})
<1>t. t \in Nat
  OBVIOUS
<1>b. b # None /\ b.at \in 1 .. t /\ (~b.revoked => b.exp = b.at + DEFAULT_TTL /\ b.exp # None)
  BY SignableForm
<1>1. BookInsert(bk, b, t) = IF bk = None \/ BindingReplaces(b, bk) THEN b ELSE bk
  BY DEF BookInsert
<1>2. CASE ~(bk = None \/ BindingReplaces(b, bk))
  BY <1>1, <1>2 DEF Agrees, Newest
<1>3. CASE bk = None \/ BindingReplaces(b, bk)
  <2>1. BookInsert(bk, b, t) = b
    BY <1>1, <1>3
  <2>2. Newest(b, W \cup {b})
    <3> SUFFICES ASSUME NEW w \in W PROVE ~BindingReplaces(w, b)
      BY <1>b, <1>t, Transitive DEF Newest
    <3>1. bk # None /\ ~BindingReplaces(w, bk) /\ bk \in Signable(t)
      BY DEF Newest
    <3>2. BindingReplaces(b, bk)
      BY <1>3, <3>1
    <3> QED BY <1>t, <3>1, <3>2, Transitive
  <2>3. Agrees(b, sl, W \cup {b}, lost, t)
    <3>1. CASE bk = sl
      BY <1>b, <1>3, <3>1 DEF Agrees, Ahead
    <3>2. CASE Ahead(bk, sl)
      <4>1. bk # None /\ bk \in Signable(t) /\ BindingReplaces(b, bk)
        BY <1>3, <3>2 DEF Ahead
      <4>2. sl # None => BindingReplaces(b, sl)
        BY <1>t, <3>2, <4>1, Transitive DEF Ahead
      <4> QED BY <1>b, <4>2 DEF Agrees, Ahead
    <3>3. CASE Unloaded(bk, sl, t)
      <4>1. sl.at \in 1 .. t /\ sl.exp = sl.at + DEFAULT_TTL /\ sl.exp # None
        BY <3>3, SignableForm DEF Unloaded
      <4>2. sl.exp <= t
        BY <3>3, <4>1 DEF Expired, Unloaded
      <4>3. CASE ~b.revoked
        <5>1. b.at > sl.at
          BY <1>b, <4>1, <4>2, <4>3, BindingConstants DEF BindingCheck, Expired
        <5> QED BY <1>b, <5>1 DEF Agrees, Ahead, BindingReplaces
      <4>4. CASE b.revoked /\ b.at >= sl.at
        <5>1. b.at = sl.at \/ b.at > sl.at
          BY <1>b, <4>1, <4>4
        <5> QED BY <1>b, <3>3, <4>4, <5>1 DEF Agrees, Ahead, Unloaded, BindingReplaces
      <4>5. CASE b.revoked /\ b.at < sl.at
        BY <3>3, <4>5 DEF Agrees, Unloaded
      <4> QED BY <1>b, <4>1, <4>3, <4>4, <4>5
    <3> QED BY <3>1, <3>2, <3>3 DEF Agrees
  <2> QED BY <2>1, <2>2, <2>3
<1> QED BY <1>2, <1>3

\* What was awaited is stored: the database catches up with the book, or was
\* ahead of it already.  X is what is still awaited.
LEMMA TakenBySlot ==
    ASSUME NEW t \in Nat \ {0}, NEW bk \in Signable(t) \cup {None}, NEW sl \in Signable(t) \cup {None},
           NEW W \in SUBSET Signable(t), NEW lost, NEW b \in W,
           NEW X \in SUBSET W, W \ {b} \subseteq X, Stand(bk, sl, W, lost, t)
    PROVE  Stand(bk, SlotInsert(sl, b), X, lost, t)
<1>t. t \in Nat /\ b \in Signable(t)
  OBVIOUS
<1>b. bk # None /\ bk \in Signable(t) /\ ~BindingReplaces(b, bk)
  BY DEF Stand, Newest
<1>a. bk = b \/ BindingReplaces(bk, b)
  BY <1>t, <1>b, Ordered
<1>1. SlotInsert(sl, b) = IF sl = None \/ BindingReplaces(b, sl) THEN b ELSE sl
  BY DEF SlotInsert
<1>2. Newest(bk, X)
  BY DEF Stand, Newest
<1>3. CASE bk = sl
  BY <1>1, <1>2, <1>3, <1>b DEF Stand, Agrees
<1>4. CASE Ahead(bk, sl) /\ (lost \/ bk \in W)
  <2>1. CASE bk = b
    <3>1. SlotInsert(sl, b) = b
      BY <1>1, <1>4, <2>1 DEF Ahead
    <3> QED BY <1>2, <2>1, <3>1 DEF Stand, Agrees
  <2>2. CASE bk # b
    <3>1. BindingReplaces(bk, b) /\ (lost \/ bk \in X)
      BY <1>4, <1>a, <2>2
    <3>2. Ahead(bk, SlotInsert(sl, b))
      BY <1>1, <1>4, <3>1 DEF Ahead
    <3> QED BY <1>2, <3>1, <3>2 DEF Stand, Agrees
  <2> QED BY <2>1, <2>2
<1>5. CASE Unloaded(bk, sl, t)
  <2>1. /\ sl # None /\ sl \in Signable(t) /\ bk.at < sl.at
        /\ sl.at \in Nat /\ bk.at \in Nat /\ b.at \in Nat
    BY <1>5, <1>b, <1>t, SignableForm DEF Unloaded
  <2>2. ~BindingReplaces(b, sl)
    BY <1>a, <2>1 DEF BindingReplaces
  <2> QED BY <1>1, <1>2, <1>5, <2>1, <2>2 DEF Stand, Agrees
<1> QED BY <1>3, <1>4, <1>5 DEF Stand, Agrees

\* What the database takes never makes it older, and a revocation it was
\* handed is outlasted from then on.
LEMMA TakenOutlasts ==
    ASSUME NEW t \in Nat \ {0}, NEW sl \in Signable(t) \cup {None}, NEW b \in Signable(t),
           NEW K, Outlasts(sl, K), K \subseteq Int
    PROVE  /\ Outlasts(SlotInsert(sl, b), K)
           /\ b.revoked => Outlasts(SlotInsert(sl, b), K \cup {b.at})
<1>b. b # None /\ b.at \in 1 .. t /\ b.revoked \in BOOLEAN
  BY SignableForm
<1>s. sl # None => sl.at \in 1 .. t /\ sl.revoked \in BOOLEAN
  BY SignableForm
<1>1. CASE sl = None \/ BindingReplaces(b, sl)
  <2>1. SlotInsert(sl, b) = b
    BY <1>1 DEF SlotInsert
  <2>2. ASSUME NEW past \in K PROVE past < b.at \/ (past = b.at /\ b.revoked)
    <3>1. sl # None /\ (past < sl.at \/ (past = sl.at /\ sl.revoked)) /\ past \in Int
      BY DEF Outlasts
    <3>2. BindingReplaces(b, sl)
      BY <1>1, <3>1
    <3>3. b.at \in Int /\ sl.at \in Int
      BY <1>b, <1>s, <3>1
    <3>4. CASE b.at > sl.at
      BY <3>1, <3>3, <3>4
    <3>5. CASE b.at = sl.at /\ b.revoked /\ ~sl.revoked
      BY <3>1, <3>3, <3>5
    <3> QED BY <3>2, <3>4, <3>5, Zenon DEF BindingReplaces
  <2> QED BY <1>b, <2>1, <2>2 DEF Outlasts
<1>2. CASE ~(sl = None \/ BindingReplaces(b, sl))
  <2>1. SlotInsert(sl, b) = sl
    BY <1>2 DEF SlotInsert
  <2>2. ASSUME b.revoked PROVE b.at < sl.at \/ (b.at = sl.at /\ sl.revoked)
    <3>2. b.at \in Int /\ sl.at \in Int /\ sl.revoked \in BOOLEAN
      BY <1>2, <1>b, <1>s
    <3>3. CASE b.at = sl.at
      BY <1>2, <2>2, <3>2, <3>3, Zenon DEF BindingReplaces
    <3>4. CASE b.at # sl.at
      <4>1. ~(b.at > sl.at)
        BY <1>2, Zenon DEF BindingReplaces
      <4> QED BY <4>1, <3>2, <3>4
    <3> QED BY <3>3, <3>4
  <2> QED BY <1>2, <2>1, <2>2 DEF Outlasts
<1> QED BY <1>1, <1>2

(***************************************************************************)
(* The steps.                                                              *)
(***************************************************************************)

\* What an insertion gives is one of the two.
LEMMA Inserted ==
    ASSUME NEW held, NEW b, NEW now
    PROVE  BookInsert(held, b, now) \in {held, b} /\ SlotInsert(held, b) \in {held, b}
  BY DEF BookInsert, SlotInsert

\* A step that touches one node and leaves it standing keeps the invariant.
LEMMA OneNode ==
    ASSUME BInv, BTypes', clock' = clock, NEW n \in BNodes, n # Me => up' = up,
           \A m \in BNodes \ {n} :
               /\ book'[m] = book[m] /\ slot'[m] = slot[m] /\ known'[m] = known[m]
               /\ Waited(storing', m) = Waited(storing, m)
               /\ m \in dropped' <=> m \in dropped,
           Keeps(n) => Outlasts(slot'[n], known'[n]),
           ~Keeps(n) => known'[n] = {},
           \/ Stand(book'[n], slot'[n], Waited(storing', n), n \in dropped', clock)
           \/ ~Keeps(n)
           \/ n = Me /\ ~up',
           n = Me /\ ~up' => Waited(storing', n) = {}
    PROVE  BInv'
<1>m. Me \in BNodes
  BY DEF BNodes
<1>1. Remembers'
  <2> SUFFICES ASSUME NEW m \in BNodes
               PROVE  /\ Keeps(m) => Outlasts(slot'[m], known'[m])
                      /\ ~Keeps(m) => known'[m] = {}
    BY DEF Remembers, Keeps, Outlasts
  <2> QED BY DEF Remembers, BInv
<1>2. Agree'
  <2> SUFFICES ASSUME NEW m \in BNodes, Keeps(m)
               PROVE  \/ Stand(book'[m], slot'[m], Waited(storing', m), m \in dropped', clock')
                      \/ m = Me /\ ~up'
    BY DEF Agree, Keeps, Stand, Agrees, Ahead, Unloaded, Newest, Waited, BindingReplaces, Expired
  <2>1. CASE m = n
    BY <2>1
  <2>2. CASE m # n
    <3>1. \/ Stand(book[m], slot[m], Waited(storing, m), m \in dropped, clock)
          \/ m = Me /\ ~up
      BY DEF Agree, BInv
    <3>2. \/ Stand(book'[m], slot'[m], Waited(storing', m), m \in dropped, clock)
          \/ m = Me /\ ~up'
      BY <2>2, <3>1
    <3> QED BY <2>2, <3>2 DEF Stand, Agrees
  <2> QED BY <2>1, <2>2
<1>3. DownIsIdle'
  <2> SUFFICES ASSUME ~up' PROVE Waited(storing', Me) = {}
    BY DEF DownIsIdle, Waited
  <2> QED BY <1>m DEF BInv, DownIsIdle
<1> QED BY <1>1, <1>2, <1>3 DEF BInv

\* A delivery more, or one less, and what is awaited then.
LEMMA WaitedFor ==
    ASSUME NEW S, NEW s, NEW n
    PROVE  /\ Waited(S \cup {s}, n) = IF s.node = n THEN Waited(S, n) \cup {s.b} ELSE Waited(S, n)
           /\ s.node # n => Waited(S \ {s}, n) = Waited(S, n)
           /\ Waited(S \ {s}, n) \subseteq Waited(S, n)
           /\ Waited(S, n) \ {s.b} \subseteq Waited(S \ {s}, n)
           /\ s \in S /\ s.node = n => s.b \in Waited(S, n)
<1>1. Waited(S \cup {s}, n) = IF s.node = n THEN Waited(S, n) \cup {s.b} ELSE Waited(S, n)
  BY DEF Waited
<1>2. s.node # n => Waited(S \ {s}, n) = Waited(S, n)
  BY DEF Waited
<1>3. Waited(S \ {s}, n) \subseteq Waited(S, n)
  BY DEF Waited
<1>4. Waited(S, n) \ {s.b} \subseteq Waited(S \ {s}, n)
  BY DEF Waited
<1>5. s \in S /\ s.node = n => s.b \in Waited(S, n)
  BY DEF Waited
<1> QED BY <1>1, <1>2, <1>3, <1>4, <1>5

\* What of a node's state the lemmas above are about.
LEMMA Shapes ==
    ASSUME BInv, NEW n \in BNodes
    PROVE  /\ clock \in Nat \ {0} /\ Me \in BNodes
           /\ book[n] \in Signable(clock) \cup {None} /\ slot[n] \in Signable(clock) \cup {None}
           /\ Waited(storing, n) \in SUBSET Signable(clock)
           /\ known[n] \subseteq Int
           /\ Keeps(n) => Outlasts(slot[n], known[n])
           /\ ~Keeps(n) => known[n] = {}
           /\ Keeps(n) /\ (n = Me => up) =>
                 Stand(book[n], slot[n], Waited(storing, n), n \in dropped, clock)
<1>1. Waited(storing, n) \in SUBSET Signable(clock)
  BY DEF Waited, BInv, BTypes
<1>2. /\ book[n] \in Signable(clock) \cup {None} /\ slot[n] \in Signable(clock) \cup {None}
      /\ known[n] \subseteq Int /\ Me \in BNodes /\ clock \in Nat \ {0}
  BY DEF BInv, BTypes, BNodes
<1>3. /\ Keeps(n) => Outlasts(slot[n], known[n])
      /\ ~Keeps(n) => known[n] = {}
  BY DEF BInv, Remembers
<1>4. Keeps(n) /\ (n = Me => up) =>
        Stand(book[n], slot[n], Waited(storing, n), n \in dropped, clock)
  BY DEF BInv, Agree
<1> QED BY <1>1, <1>2, <1>3, <1>4

\* A binding into the book of one node, and awaited by its database.
LEMMA Takes ==
    ASSUME BInv, NEW n \in BNodes, NEW b \in signed', NEW renews \in BOOLEAN,
           BindingCheck(b, clock), n = Me => up,
           renews \/ ~Keeps(n) => ~b.revoked,
           UNCHANGED <<clock, up, own, slot, known, dropped>>,
           signed \subseteq signed', signed' \subseteq Signable(clock),
           book' = [book EXCEPT ![n] = BookInsert(@, b, clock)],
           Await(n, b, renews)
    PROVE  BInv'
<1>i. BTypes
  BY DEF BInv
<1> DEFINE s == [node |-> n, b |-> b, renews |-> renews]
           bk == BookInsert(book[n], b, clock)
<1>1. storing' = storing \cup {s} /\ s.node = n /\ s.b = b
  BY DEF Await
<1>2. book'[n] = bk /\ \A m \in BNodes \ {n} : book'[m] = book[m]
  BY <1>i DEF BTypes
<1>3. bk \in signed' \cup {None}
  BY <1>i, Inserted DEF BTypes
<1>4. BTypes'
  <2>1. book' \in [BNodes -> signed' \cup {None}] /\ slot' \in [BNodes -> signed' \cup {None}]
    BY <1>i, <1>3 DEF BTypes
  <2>2. /\ storing' \subseteq [node : BNodes, b : signed', renews : BOOLEAN]
        /\ \A r \in storing' : r.renews \/ ~Keeps(r.node) => ~r.b.revoked
    BY <1>i, <1>1 DEF BTypes
  <2> QED BY <1>i, <2>1, <2>2 DEF BTypes, Keeps
<1> HIDE DEF s
<1>5. Waited(storing', n) = Waited(storing, n) \cup {b}
  BY <1>1, WaitedFor
<1>6. ASSUME NEW m \in BNodes \ {n} PROVE Waited(storing', m) = Waited(storing, m)
  <2>1. s.node # m
    BY <1>1
  <2>2. Waited(storing \cup {s}, m) = Waited(storing, m)
    BY <2>1 DEF Waited
  <2> QED BY <1>1, <2>2
<1>7. Keeps(n) => Stand(book'[n], slot[n], Waited(storing', n), n \in dropped, clock)
  <2> SUFFICES ASSUME Keeps(n)
               PROVE  Stand(book'[n], slot[n], Waited(storing', n), n \in dropped, clock)
    OBVIOUS
  <2> DEFINE lost == n \in dropped
             W == Waited(storing, n)
  <2>1. /\ b \in Signable(clock) /\ clock \in Nat \ {0} /\ W \in SUBSET Signable(clock)
        /\ book[n] \in Signable(clock) \cup {None} /\ slot[n] \in Signable(clock) \cup {None}
        /\ Stand(book[n], slot[n], W, lost, clock)
    BY Shapes
  <2> HIDE DEF lost, W
  <2>2. Agrees(book[n], slot[n], W, lost, clock) /\ Newest(book[n], W)
    BY <2>1 DEF Stand
  <2>3. Stand(bk, slot[n], W \cup {b}, lost, clock)
    BY <2>1, <2>2, TakenByBook DEF Stand
  <2> QED BY <1>2, <1>5, <2>3 DEF W, lost
<1> HIDE DEF bk
<1>8. UNCHANGED <<clock, up, slot, known, dropped>> /\ (n = Me => up') /\ known[n] \subseteq Int
      /\ (Keeps(n) => Outlasts(slot[n], known[n])) /\ (~Keeps(n) => known[n] = {})
  BY Shapes
<1> QED BY <1>2, <1>4, <1>6, <1>7, <1>8, OneNode

\* A binding that was awaited into the database.
LEMMA StoreHolds ==
    ASSUME BInv, StoreBinding
    PROVE  BInv'
<1>i. BTypes
  BY DEF BInv
<1>1. PICK s \in storing :
        /\ slot' = [slot EXCEPT ![s.node] = SlotInsert(@, s.b)]
        /\ known' = IF s.b.revoked THEN [known EXCEPT ![s.node] = @ \cup {s.b.at}] ELSE known
        /\ own' = IF s.renews THEN s.b ELSE own
        /\ storing' = storing \ {s}
  BY DEF StoreBinding
<1>2. UNCHANGED <<clock, signed, up, book, dropped>>
  BY DEF StoreBinding
<1> DEFINE n == s.node
           b == s.b
           sl == SlotInsert(slot[n], b)
<1>3. /\ n \in BNodes /\ b \in signed /\ b \in Signable(clock) /\ b # None /\ b.at \in Int
      /\ s.renews \in BOOLEAN /\ (s.renews \/ ~Keeps(n) => ~b.revoked) /\ b.revoked \in BOOLEAN
  <2>1. n \in BNodes /\ b \in signed /\ b \in Signable(clock) /\ s.renews \in BOOLEAN
        /\ (s.renews \/ ~Keeps(n) => ~b.revoked) /\ clock \in Nat
    BY <1>i DEF BTypes
  <2> QED BY <2>1, SignableForm
<1> HIDE DEF n, b
<1>4. /\ slot'[n] = sl /\ known'[n] = IF b.revoked THEN known[n] \cup {b.at} ELSE known[n]
      /\ \A m \in BNodes \ {n} : slot'[m] = slot[m] /\ known'[m] = known[m]
  BY <1>i, <1>1, <1>3 DEF BTypes, n, b
<1>5. sl \in {slot[n], b} /\ (slot[n] # None => sl # None) /\ sl \in signed \cup {None}
  BY <1>i, <1>3, Inserted DEF BTypes
<1>6. BTypes'
  <2>1. slot' \in [BNodes -> signed \cup {None}]
    BY <1>i, <1>1, <1>5 DEF BTypes, n, b
  <2>2. known' \in [BNodes -> SUBSET Int]
    BY <1>i, <1>1, <1>3 DEF BTypes, n, b
  <2>3. own' \in signed /\ ~own'.revoked
    BY <1>i, <1>1, <1>3 DEF BTypes, n, b
  <2>4. slot'[Me] # None
    BY <1>i, <1>3, <1>4, <1>5 DEF BTypes, BNodes
  <2> QED BY <1>i, <1>1, <1>2, <2>1, <2>2, <2>3, <2>4 DEF BTypes, Keeps
<1> HIDE DEF sl
<1>7. /\ \A m \in BNodes \ {n} : Waited(storing', m) = Waited(storing, m)
      /\ Waited(storing', n) \subseteq Waited(storing, n)
      /\ Waited(storing, n) \ {b} \subseteq Waited(storing', n)
      /\ b \in Waited(storing, n)
  BY <1>1, WaitedFor DEF n, b
<1>8. /\ Keeps(n) => Outlasts(slot'[n], known'[n])
      /\ ~Keeps(n) => known'[n] = {}
  <2>1. CASE Keeps(n)
    <3>1. Outlasts(slot[n], known[n]) /\ slot[n] \in Signable(clock) \cup {None} /\ known[n] \subseteq Int
          /\ clock \in Nat \ {0}
      BY <1>3, <2>1, Shapes
    <3>2. Outlasts(sl, known[n]) /\ (b.revoked => Outlasts(sl, known[n] \cup {b.at}))
      BY <1>3, <3>1, TakenOutlasts DEF sl
    <3> QED BY <1>4, <2>1, <3>2
  <2>2. CASE ~Keeps(n)
    BY <1>3, <1>4, <2>2, Shapes
  <2> QED BY <2>1, <2>2
<1>9. CASE n = Me /\ ~up
  <2>1. Waited(storing, n) = {}
    BY <1>9 DEF BInv, DownIsIdle
  <2> QED BY <1>7, <2>1
<1>10. CASE ~Keeps(n) /\ (n = Me => up)
  BY <1>2, <1>3, <1>4, <1>6, <1>7, <1>8, <1>10, OneNode
<1>11. CASE Keeps(n) /\ (n = Me => up)
  <2> DEFINE lost == n \in dropped
             W == Waited(storing, n)
             X == Waited(storing', n)
  <2>1. /\ clock \in Nat \ {0} /\ W \in SUBSET Signable(clock)
        /\ book[n] \in Signable(clock) \cup {None} /\ slot[n] \in Signable(clock) \cup {None}
        /\ Stand(book[n], slot[n], W, lost, clock)
    BY <1>3, <1>11, Shapes
  <2>w. b \in W /\ X \in SUBSET W /\ W \ {b} \subseteq X
    BY <1>7
  <2> HIDE DEF lost, W, X
  <2>4. Stand(book[n], sl, X, lost, clock)
    BY <2>1, <2>w, TakenBySlot DEF sl
  <2>2. Stand(book[n], sl, Waited(storing', n), n \in dropped, clock)
    BY <2>4 DEF X, lost
  <2>3. Stand(book'[n], slot'[n], Waited(storing', n), n \in dropped', clock)
    BY <1>2, <1>4, <2>2
  <2> QED BY <1>2, <1>3, <1>4, <1>6, <1>7, <1>8, <1>11, <2>3, OneNode
<1> QED BY <1>9, <1>10, <1>11

\* A delivery cut at its insert.
LEMMA CutHolds ==
    ASSUME BInv, CutDelivery
    PROVE  BInv'
<1>i. BTypes
  BY DEF BInv
<1>1. PICK s \in storing : storing' = storing \ {s} /\ dropped' = dropped \cup {s.node}
  BY DEF CutDelivery
<1>2. UNCHANGED <<clock, signed, own, up, book, slot, known>>
  BY DEF CutDelivery
<1>3. s.node \in BNodes
  BY <1>i DEF BTypes
<1>4. BTypes'
  BY <1>i, <1>1, <1>2 DEF BTypes, Keeps
<1>5. /\ \A m \in BNodes \ {s.node} : Waited(storing', m) = Waited(storing, m)
      /\ Waited(storing', s.node) \subseteq Waited(storing, s.node)
  BY <1>1, WaitedFor
<1>6. Keeps(s.node) /\ (s.node = Me => up) =>
        Stand(book[s.node], slot[s.node], Waited(storing', s.node), TRUE, clock)
  BY <1>3, <1>5, Shapes DEF Stand, Agrees, Newest
<1>7. s.node \in dropped' /\ \A m \in BNodes \ {s.node} : m \in dropped' <=> m \in dropped
  BY <1>1
<1>8. s.node = Me /\ ~up => Waited(storing', s.node) = {}
  BY <1>5 DEF BInv, DownIsIdle
<1>9. \/ Stand(book'[s.node], slot'[s.node], Waited(storing', s.node), s.node \in dropped', clock)
      \/ ~Keeps(s.node) \/ (s.node = Me /\ ~up')
  BY <1>2, <1>6, <1>7
<1>10. /\ Keeps(s.node) => Outlasts(slot'[s.node], known'[s.node])
       /\ ~Keeps(s.node) => known'[s.node] = {}
  BY <1>2, <1>3, Shapes
<1> QED BY <1>2, <1>3, <1>4, <1>5, <1>7, <1>8, <1>9, <1>10, OneNode

\* What a start does not load is a binding that expired.
LEMMA ReloadAgrees ==
    ASSUME BInv, NEW n \in BNodes
    PROVE  /\ Reloaded(n) \in {slot[n], None}
           /\ Reloaded(n) # slot[n] =>
                 slot[n] # None /\ Expired(slot[n], clock) /\ ~slot[n].revoked
<1> USE DEF BInv, BTypes
<1>1. Reloaded(n) = IF slot[n] # None /\ BindingCheck(slot[n], clock) THEN slot[n] ELSE None
  BY DEF Reloaded, BookInsert
<1>2. ASSUME slot[n] # None PROVE BindingCheck(slot[n], clock) \/ (Expired(slot[n], clock) /\ ~slot[n].revoked)
  <2>1. slot[n] \in Signable(clock)
    BY <1>2
  <2>2. /\ slot[n].at \in 1 .. clock
        /\ ~slot[n].revoked => slot[n].exp = slot[n].at + DEFAULT_TTL
    BY <2>1, SignableForm
  <2>3. slot[n].at <= clock + MAX_CLOCK_SKEW
    BY <2>2, BindingConstants
  <2>4. ~slot[n].revoked => slot[n].exp - slot[n].at <= MAX_TTL
    BY <2>2, BindingConstants
  <2> QED BY <2>3, <2>4 DEF BindingCheck
<1> QED BY <1>1, <1>2

\* Nothing happens.
LEMMA BStutters ==
    ASSUME BInv, UNCHANGED bvars
    PROVE  BInv'
  BY DEF bvars, BInv, BTypes, Remembers, Agree, Keeps, Stand, Agrees, Ahead, Unloaded, Newest,
         Waited, BindingReplaces, Outlasts, Expired, DownIsIdle

\* The hello of the device.
LEMMA HelloHolds ==
    ASSUME BInv, NEW n \in BNodes, Hello(n)
    PROVE  BInv'
<1>i. BTypes
  BY DEF BInv
<1> DEFINE newest == BookInsert(book[n], own, clock)
<1>1. /\ n # Me /\ Verifies(own, clock) /\ book' = [book EXCEPT ![n] = newest]
      /\ UNCHANGED <<clock, signed, own, up, slot, known, dropped>>
      /\ IF Authenticates(newest, own) /\ Keeps(n) THEN Await(n, own, FALSE) ELSE UNCHANGED storing
  BY DEF Hello
<1>2. BindingCheck(own, clock) /\ newest \in {book[n], own}
  BY <1>1, Inserted DEF Verifies
<1>o. own \in signed /\ ~own.revoked /\ signed \subseteq Signable(clock)
  BY <1>i DEF BTypes
<1>3. CASE Authenticates(newest, own) /\ Keeps(n)
  <2>1. book' = [book EXCEPT ![n] = BookInsert(@, own, clock)] /\ Await(n, own, FALSE)
    BY <1>1, <1>3
  <2> QED BY <1>1, <1>2, <1>o, <2>1, Takes
<1>4. CASE ~Authenticates(newest, own)
  <2>1. newest = book[n]
    BY <1>1, <1>2, <1>4 DEF Authenticates
  <2>2. UNCHANGED bvars
    BY <1>1, <1>4, <1>i, <2>1 DEF bvars, BTypes
  <2> QED BY <2>2, BStutters
<1>5. CASE Authenticates(newest, own) /\ ~Keeps(n)
  <2>1. book' \in [BNodes -> signed \cup {None}] /\ storing' = storing
        /\ \A m \in BNodes \ {n} : book'[m] = book[m]
    BY <1>1, <1>2, <1>5, <1>i, <1>o DEF BTypes
  <2>2. BTypes'
    BY <1>1, <1>i, <2>1 DEF BTypes, Keeps
  <2>3. known[n] = {}
    BY <1>5, Shapes
  <2> QED BY <1>1, <1>5, <2>1, <2>2, <2>3, OneNode
<1> QED BY <1>3, <1>4, <1>5

\* What a node had under way ends with it.
LEMMA StoppedWaits ==
    ASSUME NEW n, Stopped(n)
    PROVE  /\ storing' \subseteq storing /\ n \notin dropped' /\ Waited(storing', n) = {}
           /\ \A m : m # n => /\ Waited(storing', m) = Waited(storing, m)
                              /\ m \in dropped' <=> m \in dropped
  BY DEF Stopped, Waited

\* A node starts anew from its database.
LEMMA RestartHolds ==
    ASSUME BInv, NEW n \in BNodes, RestartNode(n)
    PROVE  BInv'
<1>i. BTypes
  BY DEF BInv
<1>1. /\ n # Me /\ book' = [book EXCEPT ![n] = Reloaded(n)] /\ Stopped(n)
      /\ UNCHANGED <<clock, signed, own, up, slot, known>>
  BY DEF RestartNode
<1>2. Reloaded(n) \in {slot[n], None} /\ (Reloaded(n) # slot[n] => Unloaded(Reloaded(n), slot[n], clock))
  BY ReloadAgrees DEF Unloaded
<1>3. /\ book'[n] = Reloaded(n) /\ book' \in [BNodes -> signed \cup {None}]
      /\ \A m \in BNodes \ {n} : book'[m] = book[m]
  BY <1>i, <1>1, <1>2 DEF BTypes
<1>4. /\ storing' \subseteq storing /\ Waited(storing', n) = {}
      /\ \A m \in BNodes \ {n} : /\ Waited(storing', m) = Waited(storing, m)
                                 /\ m \in dropped' <=> m \in dropped
  BY <1>1, StoppedWaits
<1>5. BTypes'
  BY <1>i, <1>1, <1>3, <1>4 DEF BTypes, Keeps
<1>6. Stand(Reloaded(n), slot[n], {}, n \in dropped', clock)
  BY <1>2 DEF Stand, Agrees, Newest
<1>7. Stand(book'[n], slot'[n], Waited(storing', n), n \in dropped', clock)
  BY <1>1, <1>3, <1>4, <1>6
<1>8. (Keeps(n) => Outlasts(slot'[n], known'[n])) /\ (~Keeps(n) => known'[n] = {})
  BY <1>1, Shapes
<1> QED BY <1>1, <1>3, <1>4, <1>5, <1>7, <1>8, OneNode

\* The device's node stops.
LEMMA StopHolds ==
    ASSUME BInv, StopDevice
    PROVE  BInv'
<1>i. BTypes /\ Me \in BNodes
  BY DEF BInv, BNodes
<1>1. ~up' /\ up' \in BOOLEAN /\ Stopped(Me) /\ UNCHANGED <<clock, signed, own, book, slot, known>>
  BY DEF StopDevice
<1>2. /\ storing' \subseteq storing /\ Waited(storing', Me) = {}
      /\ \A m \in BNodes \ {Me} : /\ Waited(storing', m) = Waited(storing, m)
                                  /\ m \in dropped' <=> m \in dropped
  BY <1>1, StoppedWaits
<1>3. BTypes'
  BY <1>i, <1>1, <1>2 DEF BTypes, Keeps
<1>4. (Keeps(Me) => Outlasts(slot'[Me], known'[Me])) /\ (~Keeps(Me) => known'[Me] = {})
  BY <1>i, <1>1, Shapes
<1> QED BY <1>i, <1>1, <1>2, <1>3, <1>4, OneNode

\* The device's own start leaves its book and its database alike.
LEMMA StartHolds ==
    ASSUME BInv, StartDevice
    PROVE  BInv'
<1> USE DEF BInv, BTypes
<1> DEFINE held == slot[Me]
           fresh == SignBinding(clock)
           good == ~NeedsRenewal(held, clock) /\ Verifies(held, clock)
<1>m. Me \in BNodes
  BY DEF BNodes
<1>h. /\ held \in signed /\ held \in Signable(clock) /\ held # None /\ held.at \in 1 .. clock
      /\ ~held.revoked /\ held.exp = held.at + DEFAULT_TTL /\ held = SignBinding(held.at)
      /\ held.exp # None
  <2>1. held \in signed /\ held \in Signable(clock) /\ ~held.revoked
    BY <1>m DEF StartDevice
  <2> QED BY <2>1, SignableForm
<1>f. /\ fresh \in Signable(clock) /\ fresh.at = clock /\ ~fresh.revoked
      /\ fresh.exp = clock + DEFAULT_TTL
  BY SignableGrows DEF SignBinding
<1>1. /\ up' = TRUE /\ own' = (IF good THEN held ELSE fresh)
      /\ signed' = signed \cup {own'}
      /\ slot' = [slot EXCEPT ![Me] = SlotInsert(held, own')]
      /\ UNCHANGED <<clock, known, storing, dropped>>
  BY DEF StartDevice
<1>2. PICK bk : /\ book' = [book EXCEPT ![Me] = bk]
                /\ bk = IF good THEN Reloaded(Me)
                        ELSE IF Reloaded(Me) = None THEN fresh
                             ELSE BookInsert(Reloaded(Me), fresh, clock)
  BY DEF StartDevice
<1>r. Reloaded(Me) \in {held, None} /\ (Reloaded(Me) # held => Expired(held, clock))
  BY <1>m, ReloadAgrees
<1> HIDE DEF held, fresh, good
<1>3. bk = SlotInsert(held, own') /\ SlotInsert(held, own') \in signed'
  <2>1. CASE good
    <3>1. ~Expired(held, clock)
      BY <1>h, <2>1 DEF good, Verifies, BindingCheck
    <3>2. bk = held
      BY <1>2, <1>r, <2>1, <3>1
    <3>3. SlotInsert(held, own') = held
      BY <1>1, <2>1 DEF SlotInsert
    <3> QED BY <1>1, <1>h, <3>2, <3>3
  <2>2. CASE ~good /\ held.at = clock
    <3>1. held = fresh
      BY <1>h, <2>2 DEF fresh
    <3>2. bk = fresh /\ SlotInsert(held, own') = fresh
      BY <1>1, <1>2, <1>r, <2>2, <3>1 DEF SlotInsert, BookInsert
    <3> QED BY <1>1, <2>2, <3>2
  <2>3. CASE ~good /\ held.at # clock
    <3>1. BindingReplaces(fresh, held)
      BY <1>h, <1>f, <2>3 DEF BindingReplaces
    <3>2. SlotInsert(held, own') = fresh
      BY <1>1, <2>3, <3>1 DEF SlotInsert
    <3>3. BindingCheck(fresh, clock)
      <4>1. fresh.at <= clock + MAX_CLOCK_SKEW
        BY <1>f, BindingConstants
      <4>2. fresh.exp # None /\ fresh.exp > clock /\ fresh.exp - fresh.at <= MAX_TTL
        BY <1>f, BindingConstants
      <4> QED BY <1>f, <4>1, <4>2, BindingConstants DEF BindingCheck, Expired
    <3>4. bk = fresh
      BY <1>2, <1>r, <2>3, <3>1, <3>3 DEF BookInsert
    <3> QED BY <1>1, <2>3, <3>2, <3>4
  <2> QED BY <2>1, <2>2, <2>3
<1> DEFINE sl == SlotInsert(held, own')
<1>4. sl \in signed' /\ bk = sl /\ signed' \subseteq Signable(clock) /\ ~own'.revoked
  BY <1>1, <1>3, <1>h, <1>f
<1>5. sl # None /\ slot' = [slot EXCEPT ![Me] = sl]
  BY <1>1, <1>4, SignableForm
<1>o. Outlasts(held, known[Me]) => Outlasts(sl, known[Me])
  <2>1. own' \in Signable(clock) /\ known[Me] \subseteq Int
    BY <1>1, <1>4, <1>m
  <2> QED BY <1>h, <2>1, TakenOutlasts
<1> HIDE DEF sl
<1>6. BTypes'
  <2>1. book' \in [BNodes -> signed' \cup {None}] /\ slot' \in [BNodes -> signed' \cup {None}]
    <3>1. DOMAIN book' = BNodes /\ DOMAIN slot' = BNodes
      BY <1>2, <1>5
    <3>2. \A n \in BNodes : book'[n] \in signed' \cup {None} /\ slot'[n] \in signed' \cup {None}
      BY <1>1, <1>2, <1>4, <1>5
    <3>3. book' = [n \in BNodes |-> book'[n]] /\ slot' = [n \in BNodes |-> slot'[n]]
      BY <1>2, <1>5
    <3> QED BY <3>1, <3>2, <3>3
  <2>2. slot'[Me] # None
    BY <1>5, <1>m
  <2> QED BY <1>1, <1>4, <2>1, <2>2
<1>s. /\ slot'[Me] = sl /\ book'[Me] = bk
      /\ \A m \in BNodes \ {Me} : book'[m] = book[m] /\ slot'[m] = slot[m]
  BY <1>2, <1>5, <1>m
<1> HIDE DEF BInv, BTypes
<1>7. (Keeps(Me) => Outlasts(slot'[Me], known'[Me])) /\ (~Keeps(Me) => known'[Me] = {})
  BY <1>1, <1>5, <1>m, <1>o, <1>s, Shapes DEF held
<1>8. Waited(storing', Me) = {}
  BY <1>1 DEF BInv, DownIsIdle, StartDevice
<1>9. Stand(book'[Me], slot'[Me], Waited(storing', Me), Me \in dropped', clock)
  <2>1. book'[Me] = slot'[Me]
    BY <1>2, <1>4, <1>s
  <2> QED BY <1>8, <2>1 DEF Stand, Agrees, Newest
<1>10. \A m \in BNodes \ {Me} : book'[m] = book[m] /\ slot'[m] = slot[m] /\ known'[m] = known[m]
  BY <1>1, <1>s
<1> QED BY <1>1, <1>6, <1>7, <1>8, <1>9, <1>10, <1>m, OneNode

\* Time passes: what expired stays so.
LEMMA TickHolds ==
    ASSUME BInv, Tick
    PROVE  BInv'
<1> USE DEF BTypes
<1>i. BTypes /\ Remembers /\ Agree /\ DownIsIdle
  BY DEF BInv
<1>1. clock' = clock + 1 /\ UNCHANGED <<signed, own, up, book, slot, known, storing, dropped>>
  BY DEF Tick
<1>2. Signable(clock) \subseteq Signable(clock')
  BY <1>i, <1>1, SignableGrows
<1>3. BTypes' /\ Remembers' /\ DownIsIdle'
  BY <1>i, <1>1, <1>2 DEF Remembers, Keeps, Outlasts, DownIsIdle, Waited
<1>4. ASSUME NEW n \in BNodes, slot[n] # None, Expired(slot[n], clock) PROVE Expired(slot[n], clock')
  <2>1. slot[n].exp = None \/ slot[n].exp \in Int
    <3>1. slot[n] \in Signable(clock) /\ clock \in Nat
      BY <1>i, <1>4
    <3>2. slot[n].at \in Int /\ (slot[n].exp = slot[n].at + DEFAULT_TTL \/ slot[n].exp = None)
      BY <3>1, SignableForm
    <3> QED BY <3>2, BindingConstants
  <2> QED BY <1>1, <1>4, <1>i, <2>1 DEF Expired
<1>5. ASSUME NEW n \in BNodes, Keeps(n)
      PROVE  \/ Stand(book[n], slot[n], Waited(storing, n), n \in dropped, clock')
             \/ n = Me /\ ~up
  BY <1>4, <1>5, <1>i DEF Agree, Stand, Agrees, Unloaded
<1>6. Agree'
  BY <1>1, <1>5 DEF Agree, Keeps, Stand, Agrees, Ahead, Unloaded, Newest, Waited, BindingReplaces, Expired
<1> QED BY <1>3, <1>6 DEF BInv

\* Every step keeps the invariant.
LEMMA BStep ==
    ASSUME BInv, [BNext]_bvars
    PROVE  BInv'
<1>b. clock \in Nat \ {0} /\ signed \subseteq Signable(clock) /\ own \in signed /\ ~own.revoked
  BY DEF BInv, BTypes
<1>n. SignBinding(clock) \in Signable(clock) /\ SignRevocation(clock) \in Signable(clock)
      /\ ~SignBinding(clock).revoked
  BY <1>b, SignableGrows
<1>1. CASE UNCHANGED bvars
  BY <1>1, BStutters
<1>2. ASSUME NEW n \in BNodes, NEW b, NEW renews \in BOOLEAN, TakeBinding(n, b, renews),
             b \in signed', n = Me => up, renews => ~b.revoked,
             UNCHANGED <<clock, own, up>>, signed \subseteq signed', signed' \subseteq Signable(clock)
      PROVE  BInv'
  <2>1. /\ BindingCheck(b, clock) /\ Keeps(n)
        /\ book' = [book EXCEPT ![n] = BookInsert(@, b, clock)]
        /\ Await(n, b, renews)
        /\ UNCHANGED <<slot, known, dropped>>
    BY <1>2 DEF TakeBinding
  <2> QED BY <1>2, <2>1, Takes
<1>3. ASSUME NEW n \in BNodes, Revoke(n) PROVE BInv'
  <2>1. /\ n # Me /\ signed' = signed \cup {SignRevocation(clock)}
        /\ TakeBinding(n, SignRevocation(clock), FALSE) /\ UNCHANGED <<clock, own, up>>
    BY <1>3, BindingNodes DEF Revoke
  <2> QED BY <1>2, <1>b, <1>n, <2>1
<1>4. ASSUME NEW n \in BNodes, PushBinding(n) PROVE BInv'
  <2>1. PICK b \in signed : TakeBinding(n, b, FALSE)
    BY <1>4 DEF PushBinding
  <2>2. (n = Me => up) /\ UNCHANGED <<clock, signed, own, up>>
    BY <1>4 DEF PushBinding
  <2> QED BY <1>2, <1>b, <2>1, <2>2
<1>5. ASSUME NEW n \in BNodes, LearnBinding(n) PROVE BInv'
  <2>1. /\ n # Me /\ BindingCheck(own, clock)
        /\ book' = [book EXCEPT ![n] = BookInsert(@, own, clock)]
        /\ Await(n, own, FALSE)
        /\ UNCHANGED <<clock, signed, own, up, slot, known, dropped>>
    BY <1>5, BindingNodes DEF LearnBinding
  <2> QED BY <1>b, <2>1, Takes
<1>6. ASSUME NEW n \in BNodes, Hello(n) PROVE BInv'
  BY <1>6, HelloHolds
<1>7. ASSUME NEW n \in BNodes, RestartNode(n) PROVE BInv'
  BY <1>7, RestartHolds
<1>8. ASSUME NEW m \in BNodes, NEW n \in BNodes, Exchange(m, n) PROVE BInv'
  <2>1. PICK b \in Reconcilable(m, n) : TakeBinding(n, b, FALSE)
    BY <1>8 DEF Exchange
  <2>2. b \in signed /\ n # Me
    BY DEF Reconcilable, BInv, BTypes
  <2>3. UNCHANGED <<clock, signed, own, up>>
    BY <1>8 DEF Exchange
  <2> QED BY <1>2, <1>b, <2>1, <2>2, <2>3
<1>9. CASE Renew
  <2>1. /\ up /\ signed' = signed \cup {SignBinding(clock)}
        /\ TakeBinding(Me, SignBinding(clock), TRUE) /\ UNCHANGED <<clock, own, up>>
    BY <1>9 DEF Renew
  <2>2. Me \in BNodes
    BY DEF BNodes
  <2> QED BY <1>2, <1>b, <1>n, <2>1, <2>2
<1>10. CASE StoreBinding
  BY <1>10, StoreHolds
<1>11. CASE CutDelivery
  BY <1>11, CutHolds
<1>12. CASE StopDevice
  BY <1>12, StopHolds
<1>13. CASE StartDevice
  BY <1>13, StartHolds
<1>14. CASE Tick
  BY <1>14, TickHolds
<1> QED BY <1>1, <1>3, <1>4, <1>5, <1>6, <1>7, <1>8, <1>9, <1>10, <1>11, <1>12, <1>13, <1>14 DEF BNext

\* How it begins: the device's first binding, with the device alone.
LEMMA BBegins == BInit => BInv
<1> SUFFICES ASSUME BInit PROVE BInv
  OBVIOUS
<1>0. 1 \in Nat \ {0} /\ 1 \in Nat /\ 1 \in 1 .. 1
  OBVIOUS
<1>1. SignBinding(1) \in Signable(1) /\ ~SignBinding(1).revoked
  BY <1>0 DEF Signable, SignBinding
<1>2. SignBinding(1) # None
  BY <1>0, <1>1, SignableForm
<1>3. BTypes
  BY <1>0, <1>1, <1>2 DEF BInit, BTypes, BNodes
<1>4. Remembers
  BY DEF BInit, Remembers, Outlasts
<1>5. Agree /\ DownIsIdle
  BY DEF BInit, Agree, Stand, Agrees, Newest, Waited, DownIsIdle
<1> QED BY <1>3, <1>4, <1>5 DEF BInv

\* Whoever presents a binding at a node is let in only on one later than every
\* revocation in its database: where the book agrees with the database that is
\* clear; where the database is ahead, it holds an expired binding, and one that
\* has not expired was signed later; where the book is ahead, it holds what is
\* newer still.
LEMMA Admits ==
    ASSUME BInv, NEW n \in BNodes \ {Me}, NEW b \in signed,
           Authenticates(BookInsert(book[n], b, clock), b), NEW past \in known[n]
    PROVE  past < BookInsert(book[n], b, clock).at
<1> DEFINE newest == BookInsert(book[n], b, clock)
           sl == slot[n]
           bk == book[n]
<1>1. /\ Keeps(n) /\ clock \in Nat \ {0} /\ clock \in Nat /\ past \in Int
      /\ sl \in Signable(clock) \cup {None} /\ bk \in Signable(clock) \cup {None}
      /\ Outlasts(sl, known[n]) /\ b \in Signable(clock)
  BY Shapes DEF BInv, BTypes
<1>2. Agrees(bk, sl, Waited(storing, n), n \in dropped, clock)
  BY <1>1, Shapes DEF Stand
<1>3. /\ BindingCheck(b, clock) /\ ~b.revoked /\ ~newest.revoked /\ newest \in {bk, b}
      /\ newest = IF bk = None \/ BindingReplaces(b, bk) THEN b ELSE bk
  BY Inserted DEF Authenticates, Verifies, BookInsert
<1>4. sl # None /\ (past < sl.at \/ (past = sl.at /\ sl.revoked))
  BY <1>1 DEF Outlasts
<1>5. /\ b.at \in 1 .. clock /\ b.exp = b.at + DEFAULT_TTL /\ b.exp # None
      /\ sl.at \in 1 .. clock /\ sl.revoked \in BOOLEAN
      /\ ~sl.revoked => sl.exp = sl.at + DEFAULT_TTL /\ sl.exp # None
      /\ bk # None => bk.at \in 1 .. clock /\ bk.revoked \in BOOLEAN
  BY <1>1, <1>3, <1>4, SignableForm
<1> HIDE DEF newest, sl, bk
<1>6. CASE bk = sl
  <2>1. CASE BindingReplaces(b, sl)
    <3>1. b.at > sl.at /\ newest = b
      BY <1>3, <1>6, <2>1, Zenon DEF BindingReplaces
    <3> QED BY <1>1, <1>4, <1>5, <3>1 DEF newest, bk
  <2>2. CASE ~BindingReplaces(b, sl)
    <3>1. newest = sl
      BY <1>3, <1>4, <1>6, <2>2
    <3> QED BY <1>3, <1>4, <3>1 DEF newest, bk
  <2> QED BY <2>1, <2>2
<1>7. CASE Ahead(bk, sl)
  <2>1. bk # None /\ (bk.at > sl.at \/ (bk.at = sl.at /\ bk.revoked /\ ~sl.revoked))
    BY <1>4, <1>7 DEF Ahead, BindingReplaces
  <2>2. past <= bk.at /\ (~bk.revoked => past < bk.at)
    BY <1>1, <1>4, <1>5, <2>1
  <2>3. CASE newest = bk
    BY <1>3, <2>2, <2>3 DEF newest, bk
  <2>4. CASE newest # bk
    <3>1. newest = b /\ b.at > bk.at
      BY <1>3, <2>1, <2>4 DEF BindingReplaces
    <3>2. past < b.at
      BY <1>1, <1>5, <2>1, <2>2, <3>1
    <3> QED BY <3>1, <3>2 DEF newest, bk
  <2> QED BY <2>3, <2>4
<1>8. CASE Unloaded(bk, sl, clock)
  <2>1. newest = b
    BY <1>3, <1>8 DEF Unloaded
  <2>2. b.exp > clock /\ sl.exp <= clock /\ ~sl.revoked
    BY <1>1, <1>3, <1>5, <1>8, BindingConstants DEF BindingCheck, Unloaded, Expired
  <2>3. past < b.at
    BY <1>1, <1>4, <1>5, <2>2, BindingConstants
  <2> QED BY <2>1, <2>3 DEF newest, bk
<1> QED BY <1>2, <1>6, <1>7, <1>8 DEF Agrees

\* Of a person it shares a group with, a node's book and its database hold the
\* same; or the book is ahead, by what its database has yet to take or was not
\* given; or neither stands for a live device (BindingBook::insert,
\* Store::insert, Node::start).
THEOREM BookFollowsStore == BSpec => []StoreAndBookAgree
<1>1. BInv => StoreAndBookAgree
  <2> SUFFICES ASSUME BInv, NEW n \in BNodes, Keeps(n), ~(n = Me /\ ~up)
               PROVE  \/ book[n] = slot[n]
                      \/ /\ Ahead(book[n], slot[n])
                         /\ n \in dropped \/ \E s \in storing : s.node = n /\ s.b = book[n]
                      \/ Unloaded(book[n], slot[n], clock)
    BY DEF StoreAndBookAgree, Ahead, Unloaded
  <2>1. Agrees(book[n], slot[n], Waited(storing, n), n \in dropped, clock)
    BY Shapes DEF Stand
  <2> QED BY <2>1 DEF Agrees, Waited
<1>2. BInv /\ [BNext]_bvars => BInv'
  BY BStep
<1> QED BY <1>1, <1>2, BBegins, PTL DEF BSpec

\* A revocation in a node's database holds for good: the node's book lets the
\* device in, whichever binding it presents, only on one signed later than
\* every revocation ever stored there (BindingBook::authenticate, whatever was
\* lost at a restart or at an insert that failed).
THEOREM RevokedStaysOut == BSpec => []RevocationHolds
<1>1. BInv /\ [BNext]_bvars => BInv'
  BY BStep
<1>2. BInv => RevocationHolds
  BY Admits DEF RevocationHolds
<1> QED BY <1>1, <1>2, BBegins, PTL DEF BSpec

=============================================================================
