----------------------------- MODULE FoldProofs -----------------------------
(***************************************************************************)
(* What the fold of a group gives, for every snapshot and every set of     *)
(* actions.                                                                *)
(***************************************************************************)
EXTENDS GroupNode, FiniteSetTheorems, WellFoundedInduction, TLAPS

(***************************************************************************)
(* Induction over the naturals, as: a set of them has a least one.         *)
(***************************************************************************)

\* A set of naturals has a least element.
LEMMA LeastNat ==
  ASSUME NEW T, T \subseteq Nat, T # {}
  PROVE  \E x \in T : \A y \in T : x <= y
  <1> DEFINE R == {ss \in Nat \X Nat : ss[1] < ss[2]}
  <1>1. IsWellFoundedOn(R, Nat)
    BY NatLessThanWellFounded DEF OpToRel
  <1>2. \A y, x \in Nat : y < x => <<y, x>> \in R
    OBVIOUS
  <1> HIDE DEF R
  <1>3. PICK x \in T : \A y \in T : ~ (<<y, x>> \in R)
    BY <1>1, WFMin
  <1>4. ASSUME NEW y \in T PROVE x <= y
    <2>1. x \in Nat /\ y \in Nat
      OBVIOUS
    <2>2. ~ (<<y, x>> \in R)
      BY <1>3
    <2>3. ~ (y < x)
      BY <1>2, <2>1, <2>2
    <2> QED BY <2>1, <2>3
  <1> QED BY <1>4

\* Induction up to N: a set of numbers that holds 0, and with each number
\* below N the next, holds all of them up to N.
LEMMA UpTo ==
  ASSUME NEW N \in Nat, NEW T, 0 \in T,
         \A n \in 1..N : n - 1 \in T => n \in T
  PROVE  0..N \subseteq T
  <1> DEFINE Bad == (0..N) \ T
  <1>1. SUFFICES ASSUME Bad # {} PROVE FALSE
    OBVIOUS
  <1>2. Bad \subseteq Nat
    OBVIOUS
  <1>3. PICK m \in Bad : \A y \in Bad : m <= y
    BY <1>1, <1>2, LeastNat
  <1>4. m \in 1..N /\ m - 1 \in 0..N
    BY <1>3
  <1>5. m - 1 \in T
    BY <1>3, <1>4
  <1> QED BY <1>3, <1>4, <1>5

(***************************************************************************)
(* The loops satisfy their equations.                                      *)
(***************************************************************************)

\* A pass over a second.
LEMMA PassOverDef ==
  ASSUME NEW s
  PROVE  PassOver(s) =
           [n \in 0..MAX_ID |->
             IF n = 0 THEN [g |-> s.g, applied |-> s.applied, pending |-> {}]
             ELSE RetainStep(s.pending, PassOver(s)[n - 1], n)]
  <1> DEFINE base == [g |-> s.g, applied |-> s.applied, pending |-> {}]
             F(f, m) == [n \in 0..m |-> IF n = 0 THEN base ELSE RetainStep(s.pending, f[n - 1], n)]
             T == {m \in 0..MAX_ID : \E f : f = F(f, m)}
  <1>1. MAX_ID \in Nat
    BY FoldAssumption
  <1> HIDE DEF base
  <1>2. \E f : f = F(f, 0)
    <2> DEFINE h == [n \in 0..0 |-> base]
    <2>1. h = F(h, 0)
      OBVIOUS
    <2> HIDE DEF F, h
    <2> QED BY <2>1
  <1>3. ASSUME NEW m \in 1..MAX_ID, \E f : f = F(f, m - 1) PROVE \E f : f = F(f, m)
    <2>1. PICK f : f = F(f, m - 1)
      BY <1>3
    <2> DEFINE h == [n \in 0..m |-> IF n < m THEN f[n] ELSE RetainStep(s.pending, f[m - 1], m)]
    <2>2. ASSUME NEW n \in 0..m
          PROVE h[n] = IF n = 0 THEN base ELSE RetainStep(s.pending, h[n - 1], n)
      <3>1. CASE n = m
        <4>1. h[n] = RetainStep(s.pending, f[m - 1], m) /\ h[n - 1] = f[n - 1]
          BY <3>1, <1>1
        <4> QED BY <3>1, <4>1, <1>1
      <3>2. CASE n < m
        <4>1. h[n] = f[n] /\ n \in 0..(m - 1)
          BY <3>2, <1>1
        <4>2. n # 0 => h[n - 1] = f[n - 1]
          BY <3>2, <1>1
        <4>3. f[n] = IF n = 0 THEN base ELSE RetainStep(s.pending, f[n - 1], n)
          BY <2>1, <4>1
        <4> QED BY <4>1, <4>2, <4>3
      <3> QED BY <3>1, <3>2, <1>1
    <2>3. h = F(h, m)
      BY <2>2
    <2> HIDE DEF F, h
    <2> QED BY <2>3
  <1>4. \E f : f = F(f, MAX_ID)
    <2> HIDE DEF F
    <2>1. 0 \in T
      BY <1>1, <1>2
    <2>2. \A m \in 1..MAX_ID : m - 1 \in T => m \in T
      BY <1>1, <1>3
    <2> HIDE DEF T
    <2>3. MAX_ID \in T
      BY <1>1, <2>1, <2>2, UpTo
    <2> QED BY <2>3 DEF T
  <1> QED BY <1>4 DEF PassOver, base

\* The passes over a second.
LEMMA PassesDef ==
  ASSUME NEW s, NEW second
  PROVE  Passes(s, second) =
           [n \in 0..MAX_ID |->
             IF n = 0 THEN [g |-> s.g, applied |-> s.applied, pending |-> second, done |-> FALSE]
             ELSE LoopStep(Passes(s, second)[n - 1])]
  <1> DEFINE base == [g |-> s.g, applied |-> s.applied, pending |-> second, done |-> FALSE]
             F(f, m) == [n \in 0..m |-> IF n = 0 THEN base ELSE LoopStep(f[n - 1])]
             T == {m \in 0..MAX_ID : \E f : f = F(f, m)}
  <1>1. MAX_ID \in Nat
    BY FoldAssumption
  <1> HIDE DEF base
  <1>2. \E f : f = F(f, 0)
    <2> DEFINE h == [n \in 0..0 |-> base]
    <2>1. h = F(h, 0)
      OBVIOUS
    <2> HIDE DEF F, h
    <2> QED BY <2>1
  <1>3. ASSUME NEW m \in 1..MAX_ID, \E f : f = F(f, m - 1) PROVE \E f : f = F(f, m)
    <2>1. PICK f : f = F(f, m - 1)
      BY <1>3
    <2> DEFINE h == [n \in 0..m |-> IF n < m THEN f[n] ELSE LoopStep(f[m - 1])]
    <2>2. ASSUME NEW n \in 0..m
          PROVE h[n] = IF n = 0 THEN base ELSE LoopStep(h[n - 1])
      <3>1. CASE n = m
        <4>1. h[n] = LoopStep(f[m - 1]) /\ h[n - 1] = f[n - 1]
          BY <3>1, <1>1
        <4> QED BY <3>1, <4>1, <1>1
      <3>2. CASE n < m
        <4>1. h[n] = f[n] /\ n \in 0..(m - 1)
          BY <3>2, <1>1
        <4>2. n # 0 => h[n - 1] = f[n - 1]
          BY <3>2, <1>1
        <4>3. f[n] = IF n = 0 THEN base ELSE LoopStep(f[n - 1])
          BY <2>1, <4>1
        <4> QED BY <4>1, <4>2, <4>3
      <3> QED BY <3>1, <3>2, <1>1
    <2>3. h = F(h, m)
      BY <2>2
    <2> HIDE DEF F, h
    <2> QED BY <2>3
  <1>4. \E f : f = F(f, MAX_ID)
    <2> HIDE DEF F
    <2>1. 0 \in T
      BY <1>1, <1>2
    <2>2. \A m \in 1..MAX_ID : m - 1 \in T => m \in T
      BY <1>1, <1>3
    <2> HIDE DEF T
    <2>3. MAX_ID \in T
      BY <1>1, <2>1, <2>2, UpTo
    <2> QED BY <2>3 DEF T
  <1> QED BY <1>4 DEF Passes, base

\* The seconds.
LEMMA SecondsDef ==
  ASSUME NEW start, NEW live
  PROVE  Seconds(start, live) =
           [n \in 0..MAX_SECOND |->
             IF n = 0 THEN [g |-> start, applied |-> {}]
             ELSE SecondStep(live, Seconds(start, live)[n - 1], n)]
  <1> DEFINE base == [g |-> start, applied |-> {}]
             F(f, m) == [n \in 0..m |-> IF n = 0 THEN base ELSE SecondStep(live, f[n - 1], n)]
             T == {m \in 0..MAX_SECOND : \E f : f = F(f, m)}
  <1>1. MAX_SECOND \in Nat
    BY FoldAssumption
  <1> HIDE DEF base
  <1>2. \E f : f = F(f, 0)
    <2> DEFINE h == [n \in 0..0 |-> base]
    <2>1. h = F(h, 0)
      OBVIOUS
    <2> HIDE DEF F, h
    <2> QED BY <2>1
  <1>3. ASSUME NEW m \in 1..MAX_SECOND, \E f : f = F(f, m - 1) PROVE \E f : f = F(f, m)
    <2>1. PICK f : f = F(f, m - 1)
      BY <1>3
    <2> DEFINE h == [n \in 0..m |-> IF n < m THEN f[n] ELSE SecondStep(live, f[m - 1], m)]
    <2>2. ASSUME NEW n \in 0..m
          PROVE h[n] = IF n = 0 THEN base ELSE SecondStep(live, h[n - 1], n)
      <3>1. CASE n = m
        <4>1. h[n] = SecondStep(live, f[m - 1], m) /\ h[n - 1] = f[n - 1]
          BY <3>1, <1>1
        <4> QED BY <3>1, <4>1, <1>1
      <3>2. CASE n < m
        <4>1. h[n] = f[n] /\ n \in 0..(m - 1)
          BY <3>2, <1>1
        <4>2. n # 0 => h[n - 1] = f[n - 1]
          BY <3>2, <1>1
        <4>3. f[n] = IF n = 0 THEN base ELSE SecondStep(live, f[n - 1], n)
          BY <2>1, <4>1
        <4> QED BY <4>1, <4>2, <4>3
      <3> QED BY <3>1, <3>2, <1>1
    <2>3. h = F(h, m)
      BY <2>2
    <2> HIDE DEF F, h
    <2> QED BY <2>3
  <1>4. \E f : f = F(f, MAX_SECOND)
    <2> HIDE DEF F
    <2>1. 0 \in T
      BY <1>1, <1>2
    <2>2. \A m \in 1..MAX_SECOND : m - 1 \in T => m \in T
      BY <1>1, <1>3
    <2> HIDE DEF T
    <2>3. MAX_SECOND \in T
      BY <1>1, <2>1, <2>2, UpTo
    <2> QED BY <2>3 DEF T
  <1> QED BY <1>4 DEF Seconds, base

\* f is what the first N edits of e make of g.
IsEdited(f, g, e, N) ==
    f = [n \in 0..N |-> IF n = 0 THEN [ok |-> e.by \in Members(g), g |-> g]
                        ELSE EditStep(g, e, f[n - 1], n)]

\* The edits of a 9002, up to the Nth.
LEMMA EditsGoOn ==
  ASSUME NEW g, NEW e, NEW N \in Nat
  PROVE  \E f : IsEdited(f, g, e, N)
  <1> DEFINE base == [ok |-> e.by \in Members(g), g |-> g]
             F(f, m) == [n \in 0..m |-> IF n = 0 THEN base ELSE EditStep(g, e, f[n - 1], n)]
             T == {m \in 0..N : \E f : f = F(f, m)}
  <1>1. N \in Nat
    OBVIOUS
  <1> HIDE DEF base
  <1>2. \E f : f = F(f, 0)
    <2> DEFINE h == [n \in 0..0 |-> base]
    <2>1. h = F(h, 0)
      OBVIOUS
    <2> HIDE DEF F, h
    <2> QED BY <2>1
  <1>3. ASSUME NEW m \in 1..N, \E f : f = F(f, m - 1) PROVE \E f : f = F(f, m)
    <2>1. PICK f : f = F(f, m - 1)
      BY <1>3
    <2> DEFINE h == [n \in 0..m |-> IF n < m THEN f[n] ELSE EditStep(g, e, f[m - 1], m)]
    <2>2. ASSUME NEW n \in 0..m
          PROVE h[n] = IF n = 0 THEN base ELSE EditStep(g, e, h[n - 1], n)
      <3>1. CASE n = m
        <4>1. h[n] = EditStep(g, e, f[m - 1], m) /\ h[n - 1] = f[n - 1]
          BY <3>1, <1>1
        <4> QED BY <3>1, <4>1, <1>1
      <3>2. CASE n < m
        <4>1. h[n] = f[n] /\ n \in 0..(m - 1)
          BY <3>2, <1>1
        <4>2. n # 0 => h[n - 1] = f[n - 1]
          BY <3>2, <1>1
        <4>3. f[n] = IF n = 0 THEN base ELSE EditStep(g, e, f[n - 1], n)
          BY <2>1, <4>1
        <4> QED BY <4>1, <4>2, <4>3
      <3> QED BY <3>1, <3>2, <1>1
    <2>3. h = F(h, m)
      BY <2>2
    <2> HIDE DEF F, h
    <2> QED BY <2>3
  <1>4. \E f : f = F(f, N)
    <2> HIDE DEF F
    <2>1. 0 \in T
      BY <1>1, <1>2
    <2>2. \A m \in 1..N : m - 1 \in T => m \in T
      BY <1>1, <1>3
    <2> HIDE DEF T
    <2>3. N \in T
      BY <1>1, <2>1, <2>2, UpTo
    <2> QED BY <2>3 DEF T
  <1> QED BY <1>4 DEF IsEdited, base

\* The edits of a 9002.
LEMMA EditedDef ==
  ASSUME NEW g, NEW e, Len(e.edits) \in Nat
  PROVE  Edited(g, e) =
           [n \in 0..Len(e.edits) |->
             IF n = 0 THEN [ok |-> e.by \in Members(g), g |-> g]
             ELSE EditStep(g, e, Edited(g, e)[n - 1], n)]
  <1> DEFINE N == Len(e.edits)
  <1>1. \E f : IsEdited(f, g, e, N)
    <2> HIDE DEF N
    <2>1. N \in Nat
      BY DEF N
    <2> QED BY <2>1, EditsGoOn
  <1> QED BY <1>1 DEF Edited, IsEdited

\* The same, step by step.
LEMMA PassOverStep ==
  ASSUME NEW s
  PROVE  /\ PassOver(s)[0] = [g |-> s.g, applied |-> s.applied, pending |-> {}]
         /\ \A n \in 1..MAX_ID : PassOver(s)[n] = RetainStep(s.pending, PassOver(s)[n - 1], n)
  <1> DEFINE P == PassOver(s)
             base == [g |-> s.g, applied |-> s.applied, pending |-> {}]
  <1>1. P = [n \in 0..MAX_ID |-> IF n = 0 THEN base ELSE RetainStep(s.pending, P[n - 1], n)]
    BY PassOverDef
  <1> HIDE DEF P, base
  <1>2. P[0] = base /\ \A n \in 1..MAX_ID : P[n] = RetainStep(s.pending, P[n - 1], n)
    BY <1>1, FoldAssumption
  <1> QED BY <1>2 DEF P, base

\* Before the first pass, and one more pass.
LEMMA PassesStep ==
  ASSUME NEW s, NEW second
  PROVE  /\ Passes(s, second)[0] =
              [g |-> s.g, applied |-> s.applied, pending |-> second, done |-> FALSE]
         /\ \A n \in 1..MAX_ID : Passes(s, second)[n] = LoopStep(Passes(s, second)[n - 1])
  <1> DEFINE P == Passes(s, second)
             base == [g |-> s.g, applied |-> s.applied, pending |-> second, done |-> FALSE]
  <1>1. P = [n \in 0..MAX_ID |-> IF n = 0 THEN base ELSE LoopStep(P[n - 1])]
    BY PassesDef
  <1> HIDE DEF P, base
  <1>2. P[0] = base /\ \A n \in 1..MAX_ID : P[n] = LoopStep(P[n - 1])
    BY <1>1, FoldAssumption
  <1> QED BY <1>2 DEF P, base

\* Before the first second, and one more second.
LEMMA SecondsStep ==
  ASSUME NEW start, NEW live
  PROVE  /\ Seconds(start, live)[0] = [g |-> start, applied |-> {}]
         /\ \A t \in 1..MAX_SECOND :
              Seconds(start, live)[t] = SecondStep(live, Seconds(start, live)[t - 1], t)
  <1> DEFINE P == Seconds(start, live)
             base == [g |-> start, applied |-> {}]
  <1>1. P = [n \in 0..MAX_SECOND |-> IF n = 0 THEN base ELSE SecondStep(live, P[n - 1], n)]
    BY SecondsDef
  <1> HIDE DEF P, base
  <1>2. P[0] = base /\ \A n \in 1..MAX_SECOND : P[n] = SecondStep(live, P[n - 1], n)
    BY <1>1, FoldAssumption
  <1> QED BY <1>2 DEF P, base

\* Before a 9002's first edit, and one more edit.
LEMMA EditedStep ==
  ASSUME NEW g, NEW e, Len(e.edits) \in Nat
  PROVE  /\ Edited(g, e)[0] = [ok |-> e.by \in Members(g), g |-> g]
         /\ \A n \in 1..Len(e.edits) : Edited(g, e)[n] = EditStep(g, e, Edited(g, e)[n - 1], n)
  <1> DEFINE P == Edited(g, e)
             base == [ok |-> e.by \in Members(g), g |-> g]
             N == Len(e.edits)
  <1>1. P = [n \in 0..N |-> IF n = 0 THEN base ELSE EditStep(g, e, P[n - 1], n)]
    BY EditedDef
  <1>2. N \in Nat
    OBVIOUS
  <1> HIDE DEF P, base, N
  <1>3. P[0] = base /\ \A n \in 1..N : P[n] = EditStep(g, e, P[n - 1], n)
    BY <1>1, <1>2
  <1> QED BY <1>3 DEF P, base, N

(***************************************************************************)
(* Groups that differ in their silences only.  No rule of the fold reads   *)
(* them, and a refused action, if it is a 9030, changes nothing else.      *)
(***************************************************************************)

IsRecord(g) == DOMAIN g = FieldNames

Like(g, h) ==
    /\ g.seq = h.seq /\ g.cutoff = h.cutoff /\ g.name = h.name /\ g.about = h.about
    /\ g.public = h.public /\ g.newcomer_wait = h.newcomer_wait /\ g.joined = h.joined
    /\ g.owner = h.owner /\ g.named_owner = h.named_owner /\ g.channels = h.channels
    /\ g.overrides = h.overrides /\ g.roles = h.roles /\ g.members = h.members
    /\ g.invites = h.invites /\ g.bans = h.bans /\ g.mutes = h.mutes

\* Permissions do not depend on silences.
LEMMA LikeBase ==
  ASSUME NEW g, NEW h, Like(g, h)
  PROVE  /\ \A x : BaseOf(g, x) = BaseOf(h, x)
         /\ \A p : Base(g, p) = Base(h, p)
         /\ \A p, perm : Has(g, p, perm) <=> Has(h, p, perm)
         /\ \A p, perms : CanGrant(g, p, perms) <=> CanGrant(h, p, perms)
  <1>1. \A x : BaseOf(g, x) = BaseOf(h, x)
    BY DEF BaseOf, Like
  <1>2. \A p : Base(g, p) = Base(h, p)
    BY <1>1 DEF Base, Members, Like
  <1> QED BY <1>1, <1>2 DEF Has, CanGrant

\* Ranks do not depend on silences.
LEMMA LikeRanks ==
  ASSUME NEW g, NEW h, Like(g, h)
  PROVE  /\ \A p : Positions(g, p) = Positions(h, p)
         /\ \A p, t : Outranks(g, p, t) <=> Outranks(h, p, t)
         /\ \A p, r : OutranksRole(g, p, r) <=> OutranksRole(h, p, r)
  <1>1. \A p : Positions(g, p) = Positions(h, p)
    BY DEF Positions, Members, Like
  <1> QED BY <1>1 DEF Outranks, OutranksRole, RankOver, RankAbove, Like

\* A channel's permissions do not depend on silences.
LEMMA LikeEffective ==
  ASSUME NEW g, NEW h, Like(g, h)
  PROVE  \A p, c : Effective(g, p, c) = Effective(h, p, c)
  <1>1. \A x, c : EffectiveOf(g, x, c) = EffectiveOf(h, x, c)
    BY LikeBase DEF EffectiveOf, Like
  <1> QED BY <1>1 DEF Effective, Members, Like

\* A 9000, and so for each kind of action: groups that are alike judge it alike,
\* and it leaves them alike.
LEMMA PutLike ==
  ASSUME NEW g, NEW h, IsRecord(g), IsRecord(h), Like(g, h), NEW a, NEW t, NEW roles, NEW at
  PROVE  /\ PutOk(g, a, t, roles) <=> PutOk(h, a, t, roles)
         /\ IsRecord(PutDo(g, t, roles, at))
         /\ Like(PutDo(g, t, roles, at), PutDo(h, t, roles, at))
  <1>1. PutOk(g, a, t, roles) <=> PutOk(h, a, t, roles)
    BY LikeBase, LikeRanks DEF PutOk, Members, Like
  <1>2. IsRecord(PutDo(g, t, roles, at))
    BY DEF PutDo, IsRecord
  <1>3. Like(PutDo(g, t, roles, at), PutDo(h, t, roles, at))
    BY DEF PutDo, IsRecord, FieldNames, Like
  <1> QED BY <1>1, <1>2, <1>3

\* A 9001.
LEMMA RemoveLike ==
  ASSUME NEW g, NEW h, IsRecord(g), IsRecord(h), Like(g, h), NEW a, NEW t, NEW ban, NEW at
  PROVE  /\ RemoveOk(g, a, t, ban) <=> RemoveOk(h, a, t, ban)
         /\ IsRecord(RemoveDo(g, t, ban, at))
         /\ Like(RemoveDo(g, t, ban, at), RemoveDo(h, t, ban, at))
  <1>1. RemoveOk(g, a, t, ban) <=> RemoveOk(h, a, t, ban)
    BY LikeBase, LikeRanks DEF RemoveOk, Members, Like
  <1>2. IsRecord(RemoveDo(g, t, ban, at))
    BY DEF RemoveDo, IsRecord
  <1>3. Like(RemoveDo(g, t, ban, at), RemoveDo(h, t, ban, at))
    BY DEF RemoveDo, IsRecord, FieldNames, Like, Members
  <1> QED BY <1>1, <1>2, <1>3

\* An unban.
LEMMA UnbanLike ==
  ASSUME NEW g, NEW h, IsRecord(g), IsRecord(h), Like(g, h), NEW a, NEW t
  PROVE  /\ UnbanOk(g, a, t) <=> UnbanOk(h, a, t)
         /\ IsRecord(UnbanDo(g, t))
         /\ Like(UnbanDo(g, t), UnbanDo(h, t))
  <1>1. UnbanOk(g, a, t) <=> UnbanOk(h, a, t)
    BY LikeBase DEF UnbanOk, Members, Like
  <1>2. IsRecord(UnbanDo(g, t))
    BY DEF UnbanDo, IsRecord
  <1>3. Like(UnbanDo(g, t), UnbanDo(h, t))
    BY DEF UnbanDo, IsRecord, FieldNames, Like
  <1> QED BY <1>1, <1>2, <1>3

\* A 9030 that ends spans and no more.
LEMMA EndMutesLike ==
  ASSUME NEW g, IsRecord(g), NEW t, NEW at
  PROVE  IsRecord(EndMutes(g, t, at)) /\ Like(EndMutes(g, t, at), g)
  <1> DEFINE ended == {IF s.who = t /\ s.mute /\ Covers(s, at) THEN [s EXCEPT !.until = at] ELSE s :
                          s \in g.silences}
  <1>1. EndMutes(g, t, at) = [g EXCEPT !.silences = ended]
    BY DEF EndMutes
  <1> HIDE DEF ended
  <1> QED BY <1>1 DEF IsRecord, FieldNames, Like

\* A 9030: what it ends depends on the silences, what it allows does not.
LEMMA MuteLike ==
  ASSUME NEW g, NEW h, IsRecord(g), IsRecord(h), Like(g, h), NEW a, NEW t, NEW until, NEW at
  PROVE  /\ MuteAllowed(g, a, t) <=> MuteAllowed(h, a, t)
         /\ MuteOk(g, a, t, until, at) <=> MuteOk(h, a, t, until, at)
         /\ IsRecord(MuteDo(g, t, until, at))
         /\ Like(MuteDo(g, t, until, at), MuteDo(h, t, until, at))
  <1>1. MuteAllowed(g, a, t) <=> MuteAllowed(h, a, t)
    BY LikeBase, LikeRanks DEF MuteAllowed, Members, Like
  <1>2. MuteOk(g, a, t, until, at) <=> MuteOk(h, a, t, until, at)
    BY <1>1 DEF MuteOk, Like
  <1> DEFINE lg == EndMutes(g, t, at)
             lh == EndMutes(h, t, at)
  <1>3. IsRecord(lg) /\ IsRecord(lh) /\ Like(lg, lh)
    BY EndMutesLike DEF Like
  <1>4. /\ MuteDo(g, t, until, at) =
             IF until = None THEN [lg EXCEPT !.mutes = Without(@, t)]
             ELSE [lg EXCEPT !.mutes = Insert(@, t, until), !.silences = SilenceOf(lg, t, at, until, TRUE)]
        /\ MuteDo(h, t, until, at) =
             IF until = None THEN [lh EXCEPT !.mutes = Without(@, t)]
             ELSE [lh EXCEPT !.mutes = Insert(@, t, until), !.silences = SilenceOf(lh, t, at, until, TRUE)]
    BY DEF MuteDo
  <1> HIDE DEF lg, lh
  <1>5. IsRecord(MuteDo(g, t, until, at))
    BY <1>3, <1>4 DEF IsRecord
  <1>6. Like(MuteDo(g, t, until, at), MuteDo(h, t, until, at))
    BY <1>3, <1>4 DEF IsRecord, FieldNames, Like
  <1> QED BY <1>1, <1>2, <1>5, <1>6

\* A 9021.
LEMMA JoinLike ==
  ASSUME NEW g, NEW h, IsRecord(g), IsRecord(h), Like(g, h), NEW a, NEW code, NEW at
  PROVE  /\ JoinOk(g, a, code, at) <=> JoinOk(h, a, code, at)
         /\ IsRecord(JoinDo(g, a, at))
         /\ Like(JoinDo(g, a, at), JoinDo(h, a, at))
  <1>1. JoinOk(g, a, code, at) <=> JoinOk(h, a, code, at)
    BY LikeBase DEF JoinOk, Honoured, Members, Like
  <1>2. IsRecord(JoinDo(g, a, at))
    BY DEF JoinDo, IsRecord
  <1>3. Like(JoinDo(g, a, at), JoinDo(h, a, at))
    BY DEF JoinDo, IsRecord, FieldNames, Like
  <1> QED BY <1>1, <1>2, <1>3

\* A 9022.
LEMMA LeaveLike ==
  ASSUME NEW g, NEW h, IsRecord(g), IsRecord(h), Like(g, h), NEW a, NEW at
  PROVE  /\ LeaveOk(g, a) <=> LeaveOk(h, a)
         /\ IsRecord(LeaveDo(g, a, at))
         /\ Like(LeaveDo(g, a, at), LeaveDo(h, a, at))
  <1>1. LeaveOk(g, a) <=> LeaveOk(h, a)
    BY DEF LeaveOk, Members, Like
  <1>2. IsRecord(LeaveDo(g, a, at))
    BY DEF LeaveDo, IsRecord
  <1>3. Like(LeaveDo(g, a, at), LeaveDo(h, a, at))
    BY DEF LeaveDo, IsRecord, FieldNames, Like
  <1> QED BY <1>1, <1>2, <1>3

\* One edit of a 9002 is judged alike ...
LEMMA EditOkLike ==
  ASSUME NEW before, NEW after, Like(before, after), NEW g, NEW h, Like(g, h),
         NEW a, NEW e, e.edit \in EditKinds
  PROVE  EditOk(before, g, a, e) <=> EditOk(after, h, a, e)
  <1>1. /\ NameOk(before, a, e) <=> NameOk(after, a, e)
        /\ AboutOk(before, a, e) <=> AboutOk(after, a, e)
        /\ PublicOk(before, a) <=> PublicOk(after, a)
        /\ NewcomerWaitOk(before, a, e) <=> NewcomerWaitOk(after, a, e)
        /\ ChannelOk(before, a, e) <=> ChannelOk(after, a, e)
        /\ ChannelDeleteOk(before, g, a, e) <=> ChannelDeleteOk(after, h, a, e)
    BY LikeBase DEF NameOk, AboutOk, PublicOk, NewcomerWaitOk, ChannelOk, ChannelDeleteOk, Like
  <1>2. OverrideOk(before, g, a, e) <=> OverrideOk(after, h, a, e)
    BY LikeBase, LikeRanks, LikeEffective DEF OverrideOk, Like
  <1>3. RoleOk(before, a, e) <=> RoleOk(after, a, e)
    BY LikeBase, LikeRanks DEF RoleOk, Like
  <1>4. RoleDeleteOk(before, a, e) <=> RoleDeleteOk(after, a, e)
    BY LikeBase, LikeRanks DEF RoleDeleteOk, Like
  <1> QED BY <1>1, <1>2, <1>3, <1>4 DEF EditOk, EditKinds

\* ... and does alike.
LEMMA EditDoLike ==
  ASSUME NEW g, NEW h, IsRecord(g), IsRecord(h), Like(g, h), NEW e, e.edit \in EditKinds
  PROVE  IsRecord(EditDo(g, e)) /\ Like(EditDo(g, e), EditDo(h, e))
  <1>1. CASE e.edit = "name"
    <2>1. IsRecord(NameDo(g, e)) /\ Like(NameDo(g, e), NameDo(h, e))
      BY DEF NameDo, IsRecord, FieldNames, Like
    <2> QED BY <1>1, <2>1 DEF EditDo
  <1>2. CASE e.edit = "about"
    <2>1. IsRecord(AboutDo(g, e)) /\ Like(AboutDo(g, e), AboutDo(h, e))
      BY DEF AboutDo, IsRecord, FieldNames, Like
    <2> QED BY <1>2, <2>1 DEF EditDo
  <1>3. CASE e.edit = "public"
    <2>1. IsRecord(PublicDo(g, e)) /\ Like(PublicDo(g, e), PublicDo(h, e))
      BY DEF PublicDo, IsRecord, FieldNames, Like
    <2> QED BY <1>3, <2>1 DEF EditDo
  <1>4. CASE e.edit = "newcomer_wait"
    <2>1. IsRecord(NewcomerWaitDo(g, e)) /\ Like(NewcomerWaitDo(g, e), NewcomerWaitDo(h, e))
      BY DEF NewcomerWaitDo, IsRecord, FieldNames, Like
    <2> QED BY <1>4, <2>1 DEF EditDo
  <1>5. CASE e.edit = "channel"
    <2>1. IsRecord(ChannelDo(g, e)) /\ Like(ChannelDo(g, e), ChannelDo(h, e))
      BY DEF ChannelDo, IsRecord, FieldNames, Like
    <2> QED BY <1>5, <2>1 DEF EditDo
  <1>6. CASE e.edit = "channel-delete"
    <2>1. IsRecord(ChannelDeleteDo(g, e)) /\ Like(ChannelDeleteDo(g, e), ChannelDeleteDo(h, e))
      BY DEF ChannelDeleteDo, IsRecord, FieldNames, Like
    <2> QED BY <1>6, <2>1 DEF EditDo
  <1>7. CASE e.edit = "override"
    <2>1. IsRecord(OverrideDo(g, e)) /\ Like(OverrideDo(g, e), OverrideDo(h, e))
      BY DEF OverrideDo, IsRecord, FieldNames, Like
    <2> QED BY <1>7, <2>1 DEF EditDo
  <1>8. CASE e.edit = "role"
    <2>1. IsRecord(RoleDo(g, e)) /\ Like(RoleDo(g, e), RoleDo(h, e))
      BY DEF RoleDo, IsRecord, FieldNames, Like
    <2> QED BY <1>8, <2>1 DEF EditDo
  <1>9. CASE e.edit = "role-delete"
    <2>1. IsRecord(RoleDeleteDo(g, e)) /\ Like(RoleDeleteDo(g, e), RoleDeleteDo(h, e))
      BY DEF RoleDeleteDo, IsRecord, FieldNames, Like
    <2> QED BY <1>9, <2>1 DEF EditDo
  <1> QED BY <1>1, <1>2, <1>3, <1>4, <1>5, <1>6, <1>7, <1>8, <1>9 DEF EditKinds

\* A 9002 is valid against both of two groups that are alike, or against
\* neither, and leaves them alike; against neither it leaves them as they are.
LEMMA EditAllLike ==
  ASSUME NEW g, NEW h, IsRecord(g), IsRecord(h), Like(g, h), NEW e, IsAction(e), e.kind = "edit"
  PROVE  /\ EditAll(g, e).ok <=> EditAll(h, e).ok
         /\ IsRecord(EditAll(g, e).g)
         /\ Like(EditAll(g, e).g, EditAll(h, e).g)
         /\ ~EditAll(g, e).ok => EditAll(g, e).g = g
  <1> DEFINE N == Len(e.edits)
             G == Edited(g, e)
             H == Edited(h, e)
             Holds(n) == /\ G[n].ok <=> H[n].ok
                         /\ IsRecord(G[n].g) /\ IsRecord(H[n].g) /\ Like(G[n].g, H[n].g)
                         /\ ~G[n].ok => G[n].g = g
             T == {n \in 0..N : Holds(n)}
  <1>1. N \in Nat /\ \A n \in 1..N : e.edits[n].edit \in EditKinds
    BY DEF IsAction
  <1>2. /\ G[0] = [ok |-> e.by \in Members(g), g |-> g]
        /\ \A n \in 1..N : G[n] = EditStep(g, e, G[n - 1], n)
    BY <1>1, EditedStep
  <1>3. /\ H[0] = [ok |-> e.by \in Members(h), g |-> h]
        /\ \A n \in 1..N : H[n] = EditStep(h, e, H[n - 1], n)
    BY <1>1, EditedStep
  <1>4. EditAll(g, e) = G[N] /\ EditAll(h, e) = H[N]
    BY DEF EditAll
  <1> HIDE DEF N, G, H
  <1>5. Holds(0)
    BY <1>2, <1>3 DEF Like, Members
  <1>6. ASSUME NEW n \in 1..N, Holds(n - 1) PROVE Holds(n)
    <2> DEFINE acc == G[n - 1]
               bcc == H[n - 1]
               d == e.edits[n]
    <2>1. d.edit \in EditKinds
      BY <1>1
    <2>2. /\ G[n] = IF acc.ok /\ EditOk(g, acc.g, e.by, d)
                    THEN [ok |-> TRUE, g |-> EditDo(acc.g, d)] ELSE [ok |-> FALSE, g |-> g]
          /\ H[n] = IF bcc.ok /\ EditOk(h, bcc.g, e.by, d)
                    THEN [ok |-> TRUE, g |-> EditDo(bcc.g, d)] ELSE [ok |-> FALSE, g |-> h]
      BY <1>2, <1>3 DEF EditStep
    <2>3. (acc.ok <=> bcc.ok) /\ IsRecord(acc.g) /\ IsRecord(bcc.g) /\ Like(acc.g, bcc.g)
      BY <1>6
    <2> HIDE DEF acc, bcc, d
    <2>4. EditOk(g, acc.g, e.by, d) <=> EditOk(h, bcc.g, e.by, d)
      BY <2>1, <2>3, EditOkLike
    <2>5. Like(bcc.g, acc.g)
      BY <2>3 DEF Like
    <2>6. /\ IsRecord(EditDo(acc.g, d)) /\ IsRecord(EditDo(bcc.g, d))
          /\ Like(EditDo(acc.g, d), EditDo(bcc.g, d))
      BY <2>1, <2>3, <2>5, EditDoLike
    <2> QED BY <2>2, <2>3, <2>4, <2>6
  <1>7. 0 \in T /\ \A n \in 1..N : n - 1 \in T => n \in T
    BY <1>1, <1>5, <1>6
  <1> HIDE DEF T
  <1>8. N \in T
    BY <1>1, <1>7, UpTo
  <1> QED BY <1>4, <1>8 DEF T

\* The same of any action.
LEMMA ApplyLike ==
  ASSUME NEW g, NEW h, IsRecord(g), IsRecord(h), Like(g, h),
         NEW e, IsAction(e), e.kind # "invite"
  PROVE  /\ Apply(g, e).ok <=> Apply(h, e).ok
         /\ IsRecord(Apply(g, e).g)
         /\ Like(Apply(g, e).g, Apply(h, e).g)
         /\ ~Apply(g, e).ok => Like(Apply(g, e).g, g)
  <1>0. Like(g, g) /\ e.kind \in {"put", "remove", "unban", "mute", "join", "leave", "edit"}
    BY DEF Like, IsAction
  <1>1. CASE e.kind = "put"
    BY <1>0, <1>1, PutLike DEF Apply
  <1>2. CASE e.kind = "remove"
    BY <1>0, <1>2, RemoveLike DEF Apply
  <1>3. CASE e.kind = "unban"
    BY <1>0, <1>3, UnbanLike DEF Apply
  <1>4. CASE e.kind = "mute"
    <2>1. /\ IsRecord(EndMutes(g, e.target, e.at)) /\ Like(EndMutes(g, e.target, e.at), g)
          /\ Like(EndMutes(h, e.target, e.at), h)
      BY EndMutesLike
    <2>2. Like(EndMutes(g, e.target, e.at), EndMutes(h, e.target, e.at))
      BY <2>1 DEF Like
    <2>3. /\ MuteAllowed(g, e.by, e.target) <=> MuteAllowed(h, e.by, e.target)
          /\ MuteOk(g, e.by, e.target, e.until, e.at) <=> MuteOk(h, e.by, e.target, e.until, e.at)
          /\ IsRecord(MuteDo(g, e.target, e.until, e.at))
          /\ Like(MuteDo(g, e.target, e.until, e.at), MuteDo(h, e.target, e.until, e.at))
      BY MuteLike
    <2> QED BY <1>0, <1>4, <2>1, <2>2, <2>3 DEF Apply
  <1>5. CASE e.kind = "join"
    BY <1>0, <1>5, JoinLike DEF Apply
  <1>6. CASE e.kind = "leave"
    BY <1>0, <1>6, LeaveLike DEF Apply
  <1>7. CASE e.kind = "edit"
    <2>1. Apply(g, e) = EditAll(g, e) /\ Apply(h, e) = EditAll(h, e)
      BY <1>7 DEF Apply
    <2> QED BY <1>0, <1>7, <2>1, EditAllLike
  <1> QED BY <1>0, <1>1, <1>2, <1>3, <1>4, <1>5, <1>6, <1>7

(***************************************************************************)
(* A pass.  An action it refuses leaves no trace but in the silences: the  *)
(* pass without the action goes as the pass with it.                       *)
(***************************************************************************)

\* What a second may hold: actions that are not invites, no two of one id.
AllSteps(actions) == IdsDiffer(actions) /\ \A e \in actions : IsAction(e) /\ e.kind # "invite"

\* Those whose id a pass has come to.
CameTo(actions, n) == {e \in actions : e.id <= n}

\* The pass over s, at the id of e, is in a state that refuses e.
Refused(s, e) == ~Apply(PassOver(s)[e.id - 1].g, e).ok

\* u is where s is, but for silences, and has Y to do besides.
Beside(s, u, Y) ==
    /\ IsRecord(s.g) /\ IsRecord(u.g) /\ Like(s.g, u.g)
    /\ s.applied = u.applied
    /\ u.pending = s.pending \cup Y /\ s.pending \cap Y = {}
    /\ AllSteps(u.pending)

\* The pass applies the one action with the id it comes to, or none.
LEMMA RetainStepIs ==
  ASSUME NEW pending, IdsDiffer(pending), NEW acc, NEW n
  PROVE  /\ \A e \in pending : e.id = n =>
                RetainStep(pending, acc, n) = Retain(acc, e, Apply(acc.g, e))
         /\ (\A e \in pending : e.id # n) => RetainStep(pending, acc, n) = acc
  <1>1. ASSUME NEW e \in pending, e.id = n PROVE e = CHOOSE x \in pending : x.id = n
    BY <1>1 DEF IdsDiffer
  <1> QED BY <1>1 DEF RetainStep

\* A pass keeps what was applied before it, and leaves pending only what was.
LEMMA PassKeeps ==
  ASSUME NEW s, IsRecord(s.g), AllSteps(s.pending)
  PROVE  \A n \in 0..MAX_ID :
           /\ IsRecord(PassOver(s)[n].g)
           /\ PassOver(s)[n].pending \subseteq {e \in s.pending : e.id <= n}
           /\ s.applied \subseteq PassOver(s)[n].applied
  <1> DEFINE P == PassOver(s)
             Holds(n) == /\ IsRecord(P[n].g)
                         /\ P[n].pending \subseteq {e \in s.pending : e.id <= n}
                         /\ s.applied \subseteq P[n].applied
             T == {n \in 0..MAX_ID : Holds(n)}
  <1>1. /\ P[0] = [g |-> s.g, applied |-> s.applied, pending |-> {}]
        /\ \A n \in 1..MAX_ID : P[n] = RetainStep(s.pending, P[n - 1], n)
    BY PassOverStep
  <1> HIDE DEF P
  <1>2. Holds(0)
    BY <1>1
  <1>3. ASSUME NEW n \in 1..MAX_ID, Holds(n - 1) PROVE Holds(n)
    <2>1. \A e \in s.pending : e.id \in 1..MAX_ID /\ IsAction(e) /\ e.kind # "invite"
      BY DEF AllSteps, IsAction
    <2>2. CASE \A e \in s.pending : e.id # n
      <3>1. P[n] = P[n - 1]
        BY <1>1, <2>2, RetainStepIs DEF AllSteps
      <3> QED BY <1>3, <3>1, <2>1, FoldAssumption
    <2>3. ASSUME NEW e \in s.pending, e.id = n PROVE Holds(n)
      <3>1. P[n] = Retain(P[n - 1], e, Apply(P[n - 1].g, e))
        BY <1>1, <2>3, RetainStepIs DEF AllSteps
      <3>2. IsRecord(Apply(P[n - 1].g, e).g)
        BY <1>3, <2>1, ApplyLike DEF Like
      <3> QED BY <1>3, <2>3, <3>1, <3>2, <2>1, FoldAssumption DEF Retain
    <2> QED BY <2>2, <2>3
  <1>4. 0 \in T /\ \A n \in 1..MAX_ID : n - 1 \in T => n \in T
    BY <1>2, <1>3, FoldAssumption
  <1> HIDE DEF T
  <1>5. 0..MAX_ID \subseteq T
    BY <1>4, UpTo, FoldAssumption
  <1> QED BY <1>5 DEF T, P

\* Within a pass, what is applied stays applied.
LEMMA PassGoesOn ==
  ASSUME NEW s, AllSteps(s.pending), NEW m \in 0..MAX_ID
  PROVE  PassOver(s)[m].applied \subseteq RetainPass(s).applied
  <1> DEFINE P == PassOver(s)
             T == {n \in 0..MAX_ID : n >= m => P[m].applied \subseteq P[n].applied}
  <1>1. \A n \in 1..MAX_ID : P[n] = RetainStep(s.pending, P[n - 1], n)
    BY PassOverStep
  <1> HIDE DEF P
  <1>2. \A n \in 1..MAX_ID : P[n - 1].applied \subseteq P[n].applied
    BY <1>1, RetainStepIs DEF AllSteps, Retain
  <1>3. 0 \in T /\ \A n \in 1..MAX_ID : n - 1 \in T => n \in T
    BY <1>2, FoldAssumption
  <1>4. P[m].applied \subseteq P[MAX_ID].applied
    <2> HIDE DEF T
    <2>1. MAX_ID \in T
      BY <1>3, UpTo, FoldAssumption
    <2> QED BY <2>1, FoldAssumption DEF T
  <1> QED BY <1>4 DEF P, RetainPass

\* Two passes, one over Y besides what the other is over, are alike up to N
\* when the first refuses what Y has up to N.
LEMMA PassesAlike ==
  ASSUME NEW s, NEW u, NEW Y, Beside(s, u, Y), NEW N \in 0..MAX_ID,
         \A e \in Y : e.id <= N => Refused(s, e)
  PROVE  /\ Like(PassOver(s)[N].g, PassOver(u)[N].g)
         /\ PassOver(s)[N].applied = PassOver(u)[N].applied
         /\ PassOver(u)[N].pending = PassOver(s)[N].pending \cup CameTo(Y, N)
  <1> DEFINE S == PassOver(s)
             U == PassOver(u)
             Holds(n) == /\ Like(S[n].g, U[n].g) /\ S[n].applied = U[n].applied
                         /\ U[n].pending = S[n].pending \cup CameTo(Y, n)
             T == {n \in 0..N : Holds(n)}
  <1>0. /\ IsRecord(s.g) /\ IsRecord(u.g) /\ Like(s.g, u.g) /\ s.applied = u.applied
        /\ u.pending = s.pending \cup Y /\ s.pending \cap Y = {}
    BY DEF Beside
  <1>1. /\ AllSteps(s.pending)
        /\ \A e \in u.pending : e.id \in 1..MAX_ID /\ IsAction(e) /\ e.kind # "invite"
        /\ IdsDiffer(s.pending) /\ IdsDiffer(u.pending)
    BY DEF AllSteps, IdsDiffer, IsAction, Beside
  <1>2. /\ S[0] = [g |-> s.g, applied |-> s.applied, pending |-> {}]
        /\ \A n \in 1..MAX_ID : S[n] = RetainStep(s.pending, S[n - 1], n)
        /\ U[0] = [g |-> u.g, applied |-> u.applied, pending |-> {}]
        /\ \A n \in 1..MAX_ID : U[n] = RetainStep(u.pending, U[n - 1], n)
    BY PassOverStep
  <1>3. \A n \in 0..MAX_ID : IsRecord(S[n].g) /\ IsRecord(U[n].g)
    BY <1>1, PassKeeps DEF Beside
  <1>4. \A e \in Y : e.id <= N => ~Apply(S[e.id - 1].g, e).ok
    BY DEF Refused
  <1> HIDE DEF S, U
  <1>5. Holds(0)
    <2>1. CameTo(Y, 0) = {}
      BY <1>0, <1>1, FoldAssumption DEF CameTo
    <2> QED BY <1>0, <1>2, <2>1
  <1>6. ASSUME NEW n \in 1..N, Holds(n - 1) PROVE Holds(n)
    <2>0. n \in 1..MAX_ID /\ n - 1 \in 0..MAX_ID
      BY FoldAssumption
    <2> DEFINE sa == S[n - 1]
               ua == U[n - 1]
               sg == sa.g
               ug == ua.g
    <2>a. S[n] = RetainStep(s.pending, sa, n)
      BY <1>2, <2>0
    <2>b. U[n] = RetainStep(u.pending, ua, n)
      BY <1>2, <2>0
    <2>1. CASE \A e \in u.pending : e.id # n
      <3>1. S[n] = S[n - 1]
        <4> HIDE DEF sa
        <4>1. S[n] = sa
          BY <1>0, <1>1, <2>a, <2>1, RetainStepIs
        <4> QED BY <4>1 DEF sa
      <3>4. U[n] = U[n - 1]
        <4> HIDE DEF ua
        <4>1. U[n] = ua
          BY <1>0, <1>1, <2>b, <2>1, RetainStepIs
        <4> QED BY <4>1 DEF ua
      <3>2. CameTo(Y, n) = CameTo(Y, n - 1)
        BY <1>0, <1>1, <2>1, FoldAssumption DEF CameTo
      <3> QED BY <1>6, <3>1, <3>2, <3>4
    <2>2. ASSUME NEW e \in s.pending, e.id = n PROVE Holds(n)
      <3>1. S[n] = Retain(S[n - 1], e, Apply(sg, e))
        <4>1. S[n] = Retain(sa, e, Apply(sa.g, e))
          <5> HIDE DEF sa
          <5> QED BY <1>0, <1>1, <2>a, <2>2, RetainStepIs
        <4> QED BY <4>1
      <3>4. U[n] = Retain(U[n - 1], e, Apply(ug, e))
        <4>1. U[n] = Retain(ua, e, Apply(ua.g, e))
          <5> HIDE DEF ua
          <5> QED BY <1>0, <1>1, <2>b, <2>2, RetainStepIs
        <4> QED BY <4>1
      <3>2. CameTo(Y, n) = CameTo(Y, n - 1)
        <4>1. \A d \in Y : d.id \in Nat /\ d.id # n
          BY <1>0, <1>1, <2>2, FoldAssumption DEF IdsDiffer
        <4> QED BY <4>1, <2>0, FoldAssumption DEF CameTo
      <3>3. (Apply(sg, e).ok <=> Apply(ug, e).ok) /\ Like(Apply(sg, e).g, Apply(ug, e).g)
        BY <1>0, <1>1, <1>3, <1>6, <2>0, ApplyLike
      <3> QED BY <1>6, <3>1, <3>2, <3>3, <3>4 DEF Retain
    <2>3. ASSUME NEW e \in Y, e.id = n PROVE Holds(n)
      <3>1. \A d \in s.pending : d.id # n
        BY <1>0, <1>1, <2>3 DEF IdsDiffer
      <3>2. S[n] = S[n - 1]
        <4> HIDE DEF sa
        <4>1. S[n] = sa
          BY <1>0, <1>1, <2>a, <3>1, RetainStepIs
        <4> QED BY <4>1 DEF sa
      <3>8. U[n] = Retain(U[n - 1], e, Apply(ug, e))
        <4>1. U[n] = Retain(ua, e, Apply(ua.g, e))
          <5> HIDE DEF ua
          <5> QED BY <1>0, <1>1, <2>b, <2>3, RetainStepIs
        <4> QED BY <4>1
      <3>3. CameTo(Y, n) = CameTo(Y, n - 1) \cup {e}
        <4>1. \A d \in Y : d.id \in Nat /\ (d.id = n => d = e)
          BY <1>0, <1>1, <2>3, FoldAssumption DEF IdsDiffer
        <4> QED BY <4>1, <2>0, <2>3, FoldAssumption DEF CameTo
      <3>4. ~Apply(sg, e).ok
        BY <1>4, <2>3
      <3>5. (Apply(sg, e).ok <=> Apply(ug, e).ok)
        BY <1>0, <1>1, <1>3, <1>6, <2>0, ApplyLike
      <3>6. Like(Apply(ug, e).g, ug)
        <4>1. IsRecord(ug) /\ Like(ug, ug) /\ IsAction(e) /\ e.kind # "invite"
          BY <1>0, <1>1, <1>3, <2>0 DEF Like
        <4> HIDE DEF ug
        <4>2. ~Apply(ug, e).ok
          BY <3>4, <3>5
        <4> QED BY <4>1, <4>2, ApplyLike
      <3>7. Like(sg, Apply(ug, e).g)
        BY <1>6, <3>6 DEF Like
      <3> QED BY <1>6, <3>2, <3>3, <3>4, <3>5, <3>7, <3>8 DEF Retain
    <2> QED BY <1>0, <2>1, <2>2, <2>3
  <1>7. 0 \in T /\ \A n \in 1..N : n - 1 \in T => n \in T
    BY <1>5, <1>6, FoldAssumption
  <1> HIDE DEF T
  <1>8. N \in T
    BY <1>7, UpTo, FoldAssumption
  <1> QED BY <1>8 DEF T, S, U

\* So with every action of Y refused, over the whole pass.
LEMMA RefusedLeaveThePass ==
  ASSUME NEW s, NEW u, NEW Y, Beside(s, u, Y), \A e \in Y : Refused(s, e)
  PROVE  /\ Like(RetainPass(s).g, RetainPass(u).g)
         /\ RetainPass(s).applied = RetainPass(u).applied
         /\ RetainPass(u).pending = RetainPass(s).pending \cup Y
  <1>1. CameTo(Y, MAX_ID) = Y
    BY FoldAssumption DEF AllSteps, IsAction, CameTo, Beside
  <1> DEFINE N == MAX_ID
  <1>2. N \in 0..MAX_ID
    BY FoldAssumption
  <1> HIDE DEF N
  <1>3. /\ Like(PassOver(s)[N].g, PassOver(u)[N].g)
        /\ PassOver(s)[N].applied = PassOver(u)[N].applied
        /\ PassOver(u)[N].pending = PassOver(s)[N].pending \cup CameTo(Y, N)
    BY <1>2, PassesAlike
  <1> QED BY <1>1, <1>3 DEF RetainPass, N

\* And an action a pass did not apply, the pass without it refuses.
LEMMA NotAppliedIsRefused ==
  ASSUME NEW s, NEW u, NEW e, Beside(s, u, {e}), e \notin RetainPass(u).applied
  PROVE  Refused(s, e)
  <1> SUFFICES ASSUME ~Refused(s, e) PROVE FALSE
    OBVIOUS
  <1> DEFINE N == e.id - 1
  <1>1. IsAction(e) /\ e.kind # "invite" /\ e.id \in 1..MAX_ID /\ N \in 0..MAX_ID /\ ~(e.id <= N)
    BY FoldAssumption DEF AllSteps, IsAction, Beside
  <1>2. AllSteps(s.pending) /\ IdsDiffer(u.pending) /\ N + 1 = e.id
    BY <1>1 DEF AllSteps, IdsDiffer, Beside
  <1> HIDE DEF N
  <1>3. Like(PassOver(s)[N].g, PassOver(u)[N].g)
    <2>1. \A d \in {e} : d.id <= N => Refused(s, d)
      BY <1>1
    <2> QED BY <1>1, <2>1, PassesAlike
  <1>4. IsRecord(PassOver(s)[N].g) /\ IsRecord(PassOver(u)[N].g)
    BY <1>1, <1>2, PassKeeps DEF Beside
  <1>5. Apply(PassOver(s)[N].g, e).ok
    BY DEF Refused, N
  <1>6. Apply(PassOver(u)[N].g, e).ok
    BY <1>1, <1>3, <1>4, <1>5, ApplyLike
  <1>7. PassOver(u)[e.id] = Retain(PassOver(u)[N], e, Apply(PassOver(u)[N].g, e))
    <2>1. PassOver(u)[e.id] = RetainStep(u.pending, PassOver(u)[N], e.id)
      BY <1>1, PassOverStep DEF N
    <2>2. \A acc : RetainStep(u.pending, acc, e.id) = Retain(acc, e, Apply(acc.g, e))
      BY <1>2, RetainStepIs DEF Beside
    <2> QED BY <2>1, <2>2
  <1>8. e \in PassOver(u)[e.id].applied
    BY <1>6, <1>7 DEF Retain
  <1> QED BY <1>1, <1>8, PassGoesOn, FoldAssumption DEF Beside

(***************************************************************************)
(* The loop over a second.  When it is over, no action left is valid, so   *)
(* another pass would change nothing but silences.                         *)
(***************************************************************************)

\* Nothing that is pending is valid.
Stuck(s) == \A e \in s.pending : ~Apply(s.g, e).ok

\* A pass every action of which is refused, where the pass comes to it or
\* where the pass began, ends where it began, but for silences.
LEMMA QuietPass ==
  ASSUME NEW s, IsRecord(s.g), AllSteps(s.pending),
         \A e \in s.pending : Refused(s, e) \/ ~Apply(s.g, e).ok
  PROVE  /\ \A n \in 0..MAX_ID : Like(s.g, PassOver(s)[n].g)
         /\ RetainPass(s).applied = s.applied
         /\ RetainPass(s).pending = s.pending
  <1> DEFINE P == PassOver(s)
             Holds(n) == /\ Like(s.g, P[n].g) /\ P[n].applied = s.applied
                         /\ P[n].pending = CameTo(s.pending, n)
             T == {n \in 0..MAX_ID : Holds(n)}
  <1>1. /\ P[0] = [g |-> s.g, applied |-> s.applied, pending |-> {}]
        /\ \A n \in 1..MAX_ID : P[n] = RetainStep(s.pending, P[n - 1], n)
    BY PassOverStep
  <1>2. \A e \in s.pending : ~Apply(P[e.id - 1].g, e).ok \/ ~Apply(s.g, e).ok
    BY DEF Refused
  <1>3. \A n \in 0..MAX_ID : IsRecord(P[n].g)
    BY PassKeeps
  <1>4. /\ IdsDiffer(s.pending)
        /\ \A e \in s.pending : e.id \in 1..MAX_ID /\ IsAction(e) /\ e.kind # "invite"
    BY DEF AllSteps, IsAction
  <1>9. RetainPass(s) = P[MAX_ID]
    BY DEF RetainPass
  <1> HIDE DEF P
  <1>5. Holds(0)
    <2>1. CameTo(s.pending, 0) = {}
      BY <1>4, FoldAssumption DEF CameTo
    <2> QED BY <1>1, <2>1 DEF Like
  <1>6. ASSUME NEW n \in 1..MAX_ID, Holds(n - 1) PROVE Holds(n)
    <2> DEFINE acc == P[n - 1]
    <2>1. P[n] = RetainStep(s.pending, acc, n)
      BY <1>1
    <2>2. IsRecord(acc.g) /\ Like(s.g, acc.g)
      BY <1>3, <1>6, FoldAssumption
    <2>3. CASE \A e \in s.pending : e.id # n
      <3>1. CameTo(s.pending, n) = CameTo(s.pending, n - 1)
        BY <1>4, <2>3, FoldAssumption DEF CameTo
      <3>2. P[n] = acc
        <4> HIDE DEF acc
        <4> QED BY <1>4, <2>1, <2>3, RetainStepIs
      <3> QED BY <1>6, <3>1, <3>2
    <2>4. ASSUME NEW e \in s.pending, e.id = n PROVE Holds(n)
      <3>1. CameTo(s.pending, n) = CameTo(s.pending, n - 1) \cup {e}
        <4>1. \A d \in s.pending : d.id \in Nat /\ (d.id = n => d = e)
          BY <1>4, <2>4, FoldAssumption DEF IdsDiffer
        <4> QED BY <4>1, <2>4, FoldAssumption DEF CameTo
      <3>2. P[n] = Retain(acc, e, Apply(acc.g, e))
        <4> HIDE DEF acc
        <4> QED BY <1>4, <2>1, <2>4, RetainStepIs
      <3>3. ~Apply(acc.g, e).ok \/ ~Apply(s.g, e).ok
        BY <1>2, <2>4
      <3>4. ~Apply(acc.g, e).ok
        BY <1>4, <2>2, <3>3, ApplyLike
      <3>5. Like(Apply(acc.g, e).g, acc.g)
        BY <1>4, <2>2, <3>4, ApplyLike DEF Like
      <3>6. Like(s.g, Apply(acc.g, e).g)
        BY <2>2, <3>5 DEF Like
      <3> QED BY <1>6, <3>1, <3>2, <3>4, <3>6 DEF Retain
    <2> QED BY <2>3, <2>4
  <1>7. 0 \in T /\ \A n \in 1..MAX_ID : n - 1 \in T => n \in T
    <2> HIDE DEF Holds
    <2> QED BY <1>5, <1>6, FoldAssumption
  <1>10. CameTo(s.pending, MAX_ID) = s.pending
    BY <1>4, FoldAssumption DEF CameTo
  <1> HIDE DEF T
  <1>8. 0..MAX_ID \subseteq T
    BY <1>7, UpTo, FoldAssumption
  <1> QED BY <1>8, <1>9, <1>10, FoldAssumption DEF T, P

\* A pass that applies nothing leaves nothing valid.
LEMMA LastPass ==
  ASSUME NEW s, IsRecord(s.g), AllSteps(s.pending), RetainPass(s).pending = s.pending
  PROVE  Stuck(RetainPass(s))
  <1> DEFINE P == PassOver(s)
  <1>1. \A n \in 1..MAX_ID : P[n] = RetainStep(s.pending, P[n - 1], n)
    BY PassOverStep
  <1>2. \A n \in 0..MAX_ID : P[n].pending \subseteq {e \in s.pending : e.id <= n} /\ IsRecord(P[n].g)
    BY PassKeeps
  <1>3. /\ IdsDiffer(s.pending)
        /\ \A e \in s.pending : e.id \in 1..MAX_ID /\ IsAction(e) /\ e.kind # "invite"
    BY DEF AllSteps, IsAction
  <1>4. P[MAX_ID] = RetainPass(s)
    BY DEF RetainPass
  <1>5. ASSUME NEW e \in s.pending PROVE Refused(s, e)
    <2> DEFINE acc == P[e.id - 1]
               T == {n \in 0..MAX_ID : n >= e.id => e \notin P[n].pending}
    <2>1. SUFFICES ASSUME Apply(acc.g, e).ok PROVE FALSE
      BY DEF Refused
    <2> HIDE DEF P
    <2>2. e.id \in 1..MAX_ID /\ e.id - 1 \in 0..MAX_ID
      BY <1>3, FoldAssumption
    <2>3. P[e.id] = Retain(acc, e, Apply(acc.g, e))
      <3>1. P[e.id] = RetainStep(s.pending, acc, e.id)
        BY <1>1, <2>2
      <3> HIDE DEF acc
      <3> QED BY <1>3, <3>1, RetainStepIs
    <2>4. e \notin P[e.id].pending
      BY <1>2, <2>1, <2>2, <2>3, FoldAssumption DEF Retain
    <2>5. 0 \in T
      BY <2>2, FoldAssumption
    <2>6. ASSUME NEW n \in 1..MAX_ID, n - 1 \in T PROVE n \in T
      <3>1. CASE n = e.id
        BY <2>4, <3>1
      <3>2. CASE n < e.id
        BY <2>2, <3>2, FoldAssumption
      <3>3. CASE n > e.id
        <4> DEFINE before == P[n - 1]
        <4>1. e \notin before.pending
          BY <2>2, <2>6, <3>3, FoldAssumption
        <4>2. P[n] = RetainStep(s.pending, before, n)
          BY <1>1
        <4> HIDE DEF before
        <4>3. \/ P[n] = before
              \/ \E d \in s.pending : d.id = n /\ P[n] = Retain(before, d, Apply(before.g, d))
          BY <1>3, <4>2, RetainStepIs
        <4>4. \A d, r : Retain(before, d, r).pending \subseteq before.pending \cup {d}
          BY DEF Retain
        <4>5. \A d : d.id = n => d # e
          BY <2>2, <3>3, FoldAssumption
        <4>6. e \notin P[n].pending
          BY <4>1, <4>3, <4>4, <4>5
        <4> QED BY <4>6
      <3> QED BY <2>2, <3>1, <3>2, <3>3, FoldAssumption
    <2> HIDE DEF T
    <2>7. MAX_ID \in T
      BY <2>5, <2>6, UpTo, FoldAssumption
    <2>8. e \notin P[MAX_ID].pending
      BY <2>2, <2>7, FoldAssumption DEF T
    <2> QED BY <1>4, <2>8
  <1>6. \A n \in 0..MAX_ID : Like(s.g, P[n].g)
    BY <1>5, QuietPass
  <1>7. ASSUME NEW e \in s.pending PROVE ~Apply(P[MAX_ID].g, e).ok
    <2>1. e.id - 1 \in 0..MAX_ID /\ MAX_ID \in 0..MAX_ID
      BY <1>3, FoldAssumption
    <2>2. ~Apply(P[e.id - 1].g, e).ok
      BY <1>5 DEF Refused
    <2>3. IsRecord(P[e.id - 1].g) /\ IsRecord(P[MAX_ID].g) /\ Like(P[e.id - 1].g, P[MAX_ID].g)
      BY <1>2, <1>6, <2>1 DEF Like
    <2> HIDE DEF P
    <2> QED BY <1>3, <2>2, <2>3, ApplyLike
  <1>8. \A e \in RetainPass(s).pending : ~Apply(RetainPass(s).g, e).ok
    BY <1>4, <1>7
  <1> QED BY <1>8 DEF Stuck

\* A round of the loop keeps what was applied, leaves pending only what was,
\* and leaves nothing valid if it is the last.
LEMMA LoopKeeps ==
  ASSUME NEW s, IsRecord(s.g), AllSteps(s.pending), s.done => Stuck(s)
  PROVE  /\ IsRecord(LoopStep(s).g) /\ AllSteps(LoopStep(s).pending)
         /\ LoopStep(s).done => Stuck(LoopStep(s))
         /\ s.applied \subseteq LoopStep(s).applied
  <1>1. CASE s.done
    BY <1>1 DEF LoopStep
  <1>2. CASE ~s.done
    <2> DEFINE after == RetainPass(s)
    <2>1. /\ IsRecord(after.g) /\ after.pending \subseteq s.pending
          /\ s.applied \subseteq after.applied
      BY PassKeeps, FoldAssumption DEF RetainPass
    <2>2. AllSteps(after.pending)
      BY <2>1 DEF AllSteps, IdsDiffer
    <2>3. after.pending = s.pending \/ after.pending = {} => Stuck(after)
      BY LastPass DEF Stuck
    <2> DEFINE over == after.pending = s.pending \/ after.pending = {}
    <2>4. LoopStep(s) = [g |-> after.g, applied |-> after.applied, pending |-> after.pending,
                         done |-> over]
      BY <1>2 DEF LoopStep, Passed
    <2> HIDE DEF after, over
    <2>5. /\ LoopStep(s).g = after.g /\ LoopStep(s).applied = after.applied
          /\ LoopStep(s).pending = after.pending
      BY <2>4
    <2>6. LoopStep(s).done = over
      BY <2>4
    <2>7. LoopStep(s).done => Stuck(LoopStep(s))
      BY <2>3, <2>5, <2>6 DEF Stuck, over
    <2> QED BY <2>1, <2>2, <2>5, <2>7
  <1> QED BY <1>1, <1>2

\* Two loops side by side, and the one with more to do is over only if the
\* other is.
Abreast(s, u, Y) ==
    /\ Beside(s, u, Y)
    /\ s.done => Stuck(s)
    /\ u.done => Stuck(u) /\ s.done

\* They stay so over a round in which the first refuses what only the second has.
LEMMA RoundsAlike ==
  ASSUME NEW s, NEW u, NEW Y, Abreast(s, u, Y), \A e \in Y : Refused(s, e)
  PROVE  Abreast(LoopStep(s), LoopStep(u), Y)
  <1> DEFINE sp == RetainPass(s)
             up == RetainPass(u)
  <1>1. AllSteps(s.pending) /\ AllSteps(u.pending) /\ IsRecord(s.g) /\ IsRecord(u.g)
    BY DEF Abreast, Beside, AllSteps, IdsDiffer
  <1>2. (s.done => Stuck(s)) /\ (u.done => Stuck(u))
    BY DEF Abreast
  <1>3. /\ LoopStep(s).done => Stuck(LoopStep(s))
        /\ LoopStep(u).done => Stuck(LoopStep(u))
    BY <1>1, <1>2, LoopKeeps
  <1>4. CASE u.done
    <2>1. LoopStep(u) = u /\ LoopStep(s) = s
      BY <1>4 DEF Abreast, LoopStep
    <2> QED BY <2>1
  <1>5. CASE ~u.done
    <2>1. Like(sp.g, up.g) /\ sp.applied = up.applied /\ up.pending = sp.pending \cup Y
      BY RefusedLeaveThePass DEF Abreast
    <2>2. IsRecord(sp.g) /\ IsRecord(up.g) /\ sp.pending \subseteq s.pending /\ up.pending \subseteq u.pending
      BY <1>1, PassKeeps, FoldAssumption DEF RetainPass
    <2>3. AllSteps(up.pending) /\ sp.pending \cap Y = {}
      BY <1>1, <2>2 DEF Abreast, Beside, AllSteps, IdsDiffer
    <2> DEFINE uover == up.pending = u.pending \/ up.pending = {}
               sover == sp.pending = s.pending \/ sp.pending = {}
    <2>4. LoopStep(u) = [g |-> up.g, applied |-> up.applied, pending |-> up.pending, done |-> uover]
      BY <1>5 DEF LoopStep, Passed
    <2>5. CASE s.done
      <3>1. LoopStep(s) = s
        BY <2>5 DEF LoopStep
      <3>2. sp.applied = s.applied /\ sp.pending = s.pending
        BY <1>1, <1>2, <2>5, QuietPass DEF Stuck
      <3>3. Like(s.g, sp.g)
        BY <1>1, <1>2, <2>5, QuietPass, FoldAssumption DEF Stuck, RetainPass
      <3> HIDE DEF sp, up
      <3>4. Like(s.g, up.g)
        BY <2>1, <3>3 DEF Like
      <3> QED BY <1>1, <1>3, <2>1, <2>2, <2>3, <2>4, <2>5, <3>1, <3>2, <3>4 DEF Abreast, Beside
    <2>6. CASE ~s.done
      <3>1. LoopStep(s) = [g |-> sp.g, applied |-> sp.applied, pending |-> sp.pending, done |-> sover]
        BY <2>6 DEF LoopStep, Passed
      <3>2. u.pending = s.pending \cup Y /\ s.pending \cap Y = {}
        BY DEF Abreast, Beside
      <3> HIDE DEF sp, up
      <3>3. up.pending = u.pending => sp.pending = s.pending
        BY <2>1, <2>2, <2>3, <3>2
      <3>4. up.pending = {} => sp.pending = {}
        BY <2>1
      <3>5. LoopStep(u).done => LoopStep(s).done
        <4>1. uover => sover
          BY <3>3, <3>4
        <4> HIDE DEF uover, sover
        <4>2. LoopStep(u).done = uover /\ LoopStep(s).done = sover
          BY <2>4, <3>1
        <4> QED BY <4>1, <4>2
      <3>6. /\ LoopStep(s).g = sp.g /\ LoopStep(s).applied = sp.applied
            /\ LoopStep(s).pending = sp.pending
            /\ LoopStep(u).g = up.g /\ LoopStep(u).applied = up.applied
            /\ LoopStep(u).pending = up.pending
        BY <2>4, <3>1
      <3> QED BY <1>3, <2>1, <2>2, <2>3, <3>5, <3>6 DEF Abreast, Beside
    <2> QED BY <2>5, <2>6
  <1> QED BY <1>4, <1>5

\* And what a round did not apply, the loop without it refuses.
LEMMA RoundRefuses ==
  ASSUME NEW s, NEW u, NEW e, Abreast(s, u, {e}), e \notin LoopStep(u).applied
  PROVE  Refused(s, e)
  <1>1. CASE ~u.done
    <2>1. LoopStep(u).applied = RetainPass(u).applied
      BY <1>1 DEF LoopStep, Passed
    <2> QED BY <2>1, NotAppliedIsRefused DEF Abreast
  <1>2. CASE u.done
    <2>1. /\ s.done /\ Stuck(s) /\ ~Apply(u.g, e).ok /\ IsRecord(s.g) /\ IsRecord(u.g) /\ Like(s.g, u.g)
          /\ AllSteps(s.pending) /\ IsAction(e) /\ e.kind # "invite"
      BY <1>2 DEF Abreast, Beside, Stuck, AllSteps, IdsDiffer
    <2>2. e.id - 1 \in 0..MAX_ID
      BY <2>1, FoldAssumption DEF IsAction
    <2> DEFINE h == PassOver(s)[e.id - 1].g
    <2>3. Like(s.g, h)
      BY <2>1, <2>2, QuietPass DEF Stuck
    <2>4. IsRecord(h)
      BY <2>1, <2>2, PassKeeps
    <2> HIDE DEF h
    <2>5. Like(h, u.g)
      BY <2>1, <2>3 DEF Like
    <2>6. ~Apply(h, e).ok
      BY <2>1, <2>4, <2>5, ApplyLike
    <2> QED BY <2>6 DEF h, Refused
  <1> QED BY <1>1, <1>2

(***************************************************************************)
(* A second: its passes until the last.                                    *)
(***************************************************************************)

\* Two states of the fold that differ in silences only.
Same(s, u) ==
    /\ IsRecord(s.g) /\ IsRecord(u.g) /\ Like(s.g, u.g)
    /\ s.applied = u.applied

\* No pass over the second has e valid.
RefusedInSecond(s, second, e) == \A i \in 0..(MAX_ID - 1) : Refused(Passes(s, second)[i], e)

\* What holds of the loop all along.
LEMMA LoopRuns ==
  ASSUME NEW s, IsRecord(s.g), NEW second, AllSteps(second)
  PROVE  \A i \in 0..MAX_ID :
           /\ IsRecord(Passes(s, second)[i].g) /\ AllSteps(Passes(s, second)[i].pending)
           /\ Passes(s, second)[i].done => Stuck(Passes(s, second)[i])
           /\ s.applied \subseteq Passes(s, second)[i].applied
  <1> DEFINE P == Passes(s, second)
             Holds(i) == /\ IsRecord(P[i].g) /\ AllSteps(P[i].pending)
                         /\ P[i].done => Stuck(P[i])
                         /\ s.applied \subseteq P[i].applied
             T == {i \in 0..MAX_ID : Holds(i)}
  <1>1. /\ P[0] = [g |-> s.g, applied |-> s.applied, pending |-> second, done |-> FALSE]
        /\ \A i \in 1..MAX_ID : P[i] = LoopStep(P[i - 1])
    BY PassesStep
  <1> HIDE DEF P
  <1>2. Holds(0)
    BY <1>1
  <1>3. ASSUME NEW i \in 1..MAX_ID, Holds(i - 1) PROVE Holds(i)
    <2> DEFINE before == P[i - 1]
    <2>1. P[i] = LoopStep(before)
      BY <1>1
    <2>2. /\ IsRecord(before.g) /\ AllSteps(before.pending)
          /\ before.done => Stuck(before)
          /\ s.applied \subseteq before.applied
      BY <1>3
    <2> HIDE DEF before
    <2>3. /\ IsRecord(LoopStep(before).g) /\ AllSteps(LoopStep(before).pending)
          /\ LoopStep(before).done => Stuck(LoopStep(before))
          /\ before.applied \subseteq LoopStep(before).applied
      BY <2>2, LoopKeeps
    <2> QED BY <2>1, <2>2, <2>3
  <1>4. 0 \in T /\ \A i \in 1..MAX_ID : i - 1 \in T => i \in T
    BY <1>2, <1>3, FoldAssumption
  <1> HIDE DEF T
  <1>5. 0..MAX_ID \subseteq T
    BY <1>4, UpTo, FoldAssumption
  <1> QED BY <1>5 DEF T, P

\* What a pass applies stays applied in the passes after it.
LEMMA LoopGoesOn ==
  ASSUME NEW s, IsRecord(s.g), NEW second, AllSteps(second), NEW m \in 0..MAX_ID
  PROVE  Passes(s, second)[m].applied \subseteq ApplySecond(s, second).applied
  <1> DEFINE P == Passes(s, second)
             T == {i \in 0..MAX_ID : i >= m => P[m].applied \subseteq P[i].applied}
  <1>1. \A i \in 1..MAX_ID : P[i - 1].applied \subseteq P[i].applied
    <2> SUFFICES ASSUME NEW i \in 1..MAX_ID PROVE P[i - 1].applied \subseteq P[i].applied
      OBVIOUS
    <2> DEFINE before == P[i - 1]
    <2>1. P[i] = LoopStep(before)
      BY PassesStep
    <2>2. IsRecord(before.g) /\ AllSteps(before.pending) /\ (before.done => Stuck(before))
      BY LoopRuns, FoldAssumption
    <2> HIDE DEF before, P
    <2>3. before.applied \subseteq LoopStep(before).applied
      BY <2>2, LoopKeeps
    <2> QED BY <2>1, <2>3 DEF before
  <1>2. ApplySecond(s, second).applied = P[MAX_ID].applied
    BY DEF ApplySecond, Folded
  <1> HIDE DEF P
  <1>3. 0 \in T /\ \A i \in 1..MAX_ID : i - 1 \in T => i \in T
    BY <1>1, FoldAssumption
  <1>4. P[m].applied \subseteq P[MAX_ID].applied
    <2> HIDE DEF T
    <2>1. MAX_ID \in T
      BY <1>3, UpTo, FoldAssumption
    <2> QED BY <2>1, FoldAssumption DEF T
  <1> QED BY <1>2, <1>4 DEF P

\* The loops of two seconds, one with Y besides, go on abreast as long as
\* the first refuses what Y has.
LEMMA LoopsAlike ==
  ASSUME NEW s, NEW u, Same(s, u), NEW second, NEW Y, second \cap Y = {}, AllSteps(second \cup Y),
         NEW N \in 0..MAX_ID,
         \A e \in Y : \A i \in 0..(N - 1) : Refused(Passes(s, second)[i], e)
  PROVE  Abreast(Passes(s, second)[N], Passes(u, second \cup Y)[N], Y)
  <1> DEFINE S == Passes(s, second)
             U == Passes(u, second \cup Y)
             T == {i \in 0..N : Abreast(S[i], U[i], Y)}
  <1>1. /\ S[0] = [g |-> s.g, applied |-> s.applied, pending |-> second, done |-> FALSE]
        /\ \A i \in 1..MAX_ID : S[i] = LoopStep(S[i - 1])
        /\ U[0] = [g |-> u.g, applied |-> u.applied, pending |-> second \cup Y, done |-> FALSE]
        /\ \A i \in 1..MAX_ID : U[i] = LoopStep(U[i - 1])
    <2>1. /\ S[0] = [g |-> s.g, applied |-> s.applied, pending |-> second, done |-> FALSE]
          /\ \A i \in 1..MAX_ID : S[i] = LoopStep(S[i - 1])
      BY PassesStep
    <2>2. /\ U[0] = [g |-> u.g, applied |-> u.applied, pending |-> second \cup Y, done |-> FALSE]
          /\ \A i \in 1..MAX_ID : U[i] = LoopStep(U[i - 1])
      <3> DEFINE both == second \cup Y
      <3> HIDE DEF both
      <3>1. /\ Passes(u, both)[0] =
                  [g |-> u.g, applied |-> u.applied, pending |-> both, done |-> FALSE]
            /\ \A i \in 1..MAX_ID : Passes(u, both)[i] = LoopStep(Passes(u, both)[i - 1])
        BY PassesStep
      <3> QED BY <3>1 DEF both
    <2> HIDE DEF S, U
    <2> QED BY <2>1, <2>2
  <1>2. \A e \in Y : \A i \in 0..(N - 1) : Refused(S[i], e)
    OBVIOUS
  <1> HIDE DEF S, U
  <1>3. Abreast(S[0], U[0], Y)
    BY <1>1 DEF Abreast, Beside, Same
  <1>4. ASSUME NEW i \in 1..N, Abreast(S[i - 1], U[i - 1], Y) PROVE Abreast(S[i], U[i], Y)
    <2>1. S[i] = LoopStep(S[i - 1]) /\ U[i] = LoopStep(U[i - 1])
      BY <1>1, FoldAssumption
    <2>2. \A e \in Y : Refused(S[i - 1], e)
      BY <1>2, FoldAssumption
    <2> QED BY <1>4, <2>1, <2>2, RoundsAlike
  <1>5. 0 \in T /\ \A i \in 1..N : i - 1 \in T => i \in T
    BY <1>3, <1>4, FoldAssumption
  <1> HIDE DEF T
  <1>6. N \in T
    BY <1>5, UpTo, FoldAssumption
  <1> QED BY <1>6 DEF T, S, U

\* Refused actions leave no trace of themselves in a second but in silences.
LEMMA SecondAlike ==
  ASSUME NEW s, NEW u, Same(s, u), NEW second, NEW Y, second \cap Y = {}, AllSteps(second \cup Y),
         \A e \in Y : RefusedInSecond(s, second, e)
  PROVE  Same(ApplySecond(s, second), ApplySecond(u, second \cup Y))
  <1> DEFINE N == MAX_ID
  <1>1. N \in 0..MAX_ID /\ \A e \in Y : \A i \in 0..(N - 1) : Refused(Passes(s, second)[i], e)
    BY FoldAssumption DEF RefusedInSecond
  <1> HIDE DEF N
  <1>2. Abreast(Passes(s, second)[N], Passes(u, second \cup Y)[N], Y)
    BY <1>1, LoopsAlike
  <1> QED BY <1>2 DEF Abreast, Beside, Same, ApplySecond, Folded, N

\* An action a second did not apply, no pass of the second without it has valid.
LEMMA SecondRefuses ==
  ASSUME NEW s, NEW u, Same(s, u), NEW second, NEW e, e \notin second, AllSteps(second \cup {e}),
         e \notin ApplySecond(u, second \cup {e}).applied
  PROVE  RefusedInSecond(s, second, e)
  <1> DEFINE S == Passes(s, second)
             U == Passes(u, second \cup {e})
             Ref(i) == \A j \in 0..(i - 1) : Refused(S[j], e)
             T == {i \in 0..MAX_ID : Ref(i)}
  <1>1. \A i \in 1..MAX_ID : U[i] = LoopStep(U[i - 1])
    <2> DEFINE all == second \cup {e}
    <2> HIDE DEF all
    <2>1. \A i \in 1..MAX_ID : Passes(u, all)[i] = LoopStep(Passes(u, all)[i - 1])
      BY PassesStep
    <2> QED BY <2>1 DEF all
  <1>2. \A i \in 0..MAX_ID : e \notin U[i].applied
    <2> DEFINE all == second \cup {e}
    <2>1. IsRecord(u.g) /\ AllSteps(all) /\ e \notin ApplySecond(u, all).applied
      BY DEF Same
    <2> HIDE DEF all
    <2>2. \A i \in 0..MAX_ID : Passes(u, all)[i].applied \subseteq ApplySecond(u, all).applied
      BY <2>1, LoopGoesOn
    <2> QED BY <2>1, <2>2 DEF all
  <1>3. ASSUME NEW i \in 0..MAX_ID, Ref(i) PROVE Abreast(S[i], U[i], {e})
    <2>1. \A d \in {e} : \A j \in 0..(i - 1) : Refused(Passes(s, second)[j], d)
      BY <1>3
    <2>2. second \cap {e} = {}
      OBVIOUS
    <2> HIDE DEF Ref
    <2> QED BY <2>1, <2>2, LoopsAlike
  <1> HIDE DEF S, U
  <1>4. Ref(0)
    OBVIOUS
  <1>5. ASSUME NEW i \in 1..MAX_ID, Ref(i - 1) PROVE Ref(i)
    <2>1. Abreast(S[i - 1], U[i - 1], {e})
      <3>1. i - 1 \in 0..MAX_ID
        BY FoldAssumption
      <3> HIDE DEF Ref
      <3> QED BY <1>3, <1>5, <3>1
    <2>2. e \notin LoopStep(U[i - 1]).applied
      BY <1>1, <1>2, FoldAssumption
    <2>3. Refused(S[i - 1], e)
      BY <2>1, <2>2, RoundRefuses
    <2> QED BY <1>5, <2>3, FoldAssumption
  <1>6. 0 \in T /\ \A i \in 1..MAX_ID : i - 1 \in T => i \in T
    <2> HIDE DEF Ref
    <2> QED BY <1>4, <1>5, FoldAssumption
  <1> HIDE DEF T
  <1>7. MAX_ID \in T
    BY <1>6, UpTo, FoldAssumption
  <1> QED BY <1>7 DEF T, S, RefusedInSecond

\* Every action of a second a pass has come to it has applied, or left pending.
LEMMA PassCovers ==
  ASSUME NEW s, AllSteps(s.pending)
  PROVE  s.applied \cup s.pending \subseteq RetainPass(s).applied \cup RetainPass(s).pending
  <1> DEFINE P == PassOver(s)
             Holds(n) == /\ s.applied \subseteq P[n].applied
                         /\ CameTo(s.pending, n) \subseteq P[n].applied \cup P[n].pending
             T == {n \in 0..MAX_ID : Holds(n)}
  <1>1. /\ P[0] = [g |-> s.g, applied |-> s.applied, pending |-> {}]
        /\ \A n \in 1..MAX_ID : P[n] = RetainStep(s.pending, P[n - 1], n)
    BY PassOverStep
  <1>2. /\ IdsDiffer(s.pending) /\ \A e \in s.pending : e.id \in 1..MAX_ID
    BY DEF AllSteps, IsAction
  <1>3. RetainPass(s) = P[MAX_ID]
    BY DEF RetainPass
  <1> HIDE DEF P
  <1>4. Holds(0)
    <2>1. CameTo(s.pending, 0) = {}
      BY <1>2, FoldAssumption DEF CameTo
    <2> QED BY <1>1, <2>1
  <1>5. ASSUME NEW n \in 1..MAX_ID, Holds(n - 1) PROVE Holds(n)
    <2> DEFINE acc == P[n - 1]
    <2>1. P[n] = RetainStep(s.pending, acc, n)
      BY <1>1
    <2>2. /\ s.applied \subseteq acc.applied
          /\ CameTo(s.pending, n - 1) \subseteq acc.applied \cup acc.pending
      BY <1>5
    <2> HIDE DEF acc
    <2>3. CASE \A e \in s.pending : e.id # n
      <3>1. CameTo(s.pending, n) = CameTo(s.pending, n - 1)
        BY <1>2, <2>3, FoldAssumption DEF CameTo
      <3>2. P[n] = acc
        BY <1>2, <2>1, <2>3, RetainStepIs
      <3> QED BY <2>2, <3>1, <3>2
    <2>4. ASSUME NEW e \in s.pending, e.id = n PROVE Holds(n)
      <3>1. CameTo(s.pending, n) \subseteq CameTo(s.pending, n - 1) \cup {e}
        <4>1. \A d \in s.pending : d.id \in Nat /\ (d.id = n => d = e)
          BY <1>2, <2>4, FoldAssumption DEF IdsDiffer
        <4> QED BY <4>1, <2>4, FoldAssumption DEF CameTo
      <3> DEFINE r == Apply(acc.g, e)
      <3>2. P[n] = Retain(acc, e, r)
        BY <1>2, <2>1, <2>4, RetainStepIs
      <3> HIDE DEF r
      <3>3. /\ acc.applied \subseteq P[n].applied /\ acc.pending \subseteq P[n].pending
            /\ e \in P[n].applied \cup P[n].pending
        BY <3>2 DEF Retain
      <3> QED BY <2>2, <3>1, <3>3
    <2> QED BY <2>3, <2>4
  <1>6. 0 \in T /\ \A n \in 1..MAX_ID : n - 1 \in T => n \in T
    BY <1>4, <1>5, FoldAssumption
  <1>7. CameTo(s.pending, MAX_ID) = s.pending
    BY <1>2, FoldAssumption DEF CameTo
  <1> HIDE DEF T
  <1>8. MAX_ID \in T
    BY <1>6, UpTo, FoldAssumption
  <1> QED BY <1>3, <1>7, <1>8 DEF T

\* A second has no more actions than there are ids.
LEMMA NoMoreThanIds ==
  ASSUME NEW second, AllSteps(second)
  PROVE  IsFiniteSet(second) /\ Cardinality(second) <= MAX_ID
  <1> DEFINE ids == [e \in second |-> e.id]
  <1>1. ids \in Injection(second, 1..MAX_ID)
    BY DEF Injection, IsInjective, AllSteps, IdsDiffer, IsAction
  <1>2. IsFiniteSet(1..MAX_ID) /\ Cardinality(1..MAX_ID) = MAX_ID
    BY FS_Interval, FoldAssumption
  <1> HIDE DEF ids
  <1> QED BY <1>1, <1>2, FS_Injection

\* A round that is not the last has fewer actions to do than the one before.
LEMMA RoundShortens ==
  ASSUME NEW s, IsRecord(s.g), AllSteps(s.pending), IsFiniteSet(s.pending), ~s.done,
         ~LoopStep(s).done
  PROVE  Cardinality(LoopStep(s).pending) < Cardinality(s.pending)
  <1> DEFINE after == RetainPass(s)
             over == after.pending = s.pending \/ after.pending = {}
  <1>1. after.pending \subseteq s.pending
    BY PassKeeps, FoldAssumption DEF RetainPass
  <1>2. LoopStep(s) = [g |-> after.g, applied |-> after.applied, pending |-> after.pending,
                       done |-> over]
    BY DEF LoopStep, Passed
  <1> HIDE DEF after
  <1>3. ~over
    <2> HIDE DEF over
    <2> QED BY <1>2
  <1>4. LoopStep(s).pending = after.pending
    BY <1>2
  <1>5. IsFiniteSet(after.pending) /\ Cardinality(after.pending) <= Cardinality(s.pending)
    BY <1>1, FS_Subset
  <1>6. Cardinality(after.pending) # Cardinality(s.pending)
    BY <1>1, <1>3, FS_Subset
  <1> QED BY <1>4, <1>5, <1>6, FS_CardinalityType

\* apply_second leaves out an action only if it is invalid against what the
\* second ends with: its actions are applied "until none of the rest applies"
\* (state.rs), and as many passes as there are ids are enough for that.
LEMMA UntilNoneApplies ==
  ASSUME NEW s, IsRecord(s.g), NEW second, AllSteps(second)
  PROVE  \A e \in second : \/ e \in ApplySecond(s, second).applied
                           \/ ~Apply(ApplySecond(s, second).g, e).ok
  <1> DEFINE P == Passes(s, second)
             Holds(i) == /\ IsRecord(P[i].g) /\ AllSteps(P[i].pending)
                         /\ P[i].done \in BOOLEAN
                         /\ second \subseteq P[i].applied \cup P[i].pending
                         /\ ~P[i].done => Cardinality(P[i].pending) <= MAX_ID - i
             T == {i \in 0..MAX_ID : Holds(i)}
  <1>1. /\ P[0] = [g |-> s.g, applied |-> s.applied, pending |-> second, done |-> FALSE]
        /\ \A i \in 1..MAX_ID : P[i] = LoopStep(P[i - 1])
    BY PassesStep
  <1>2. \A i \in 0..MAX_ID : P[i].done => Stuck(P[i])
    BY LoopRuns
  <1>3. ApplySecond(s, second).applied = P[MAX_ID].applied /\ ApplySecond(s, second).g = P[MAX_ID].g
    BY DEF ApplySecond, Folded
  <1> HIDE DEF P
  <1>4. Holds(0)
    BY <1>1, NoMoreThanIds, FoldAssumption
  <1>5. ASSUME NEW i \in 1..MAX_ID, Holds(i - 1) PROVE Holds(i)
    <2> DEFINE before == P[i - 1]
    <2>1. P[i] = LoopStep(before)
      BY <1>1
    <2>2. /\ IsRecord(before.g) /\ AllSteps(before.pending)
          /\ before.done \in BOOLEAN
          /\ before.done => Stuck(before)
          /\ second \subseteq before.applied \cup before.pending
          /\ ~before.done => Cardinality(before.pending) <= MAX_ID - (i - 1)
      BY <1>2, <1>5, FoldAssumption
    <2> HIDE DEF before
    <2>3. CASE before.done
      BY <2>1, <2>2, <2>3 DEF LoopStep
    <2>4. CASE ~before.done
      <3>1. IsRecord(LoopStep(before).g) /\ AllSteps(LoopStep(before).pending)
        BY <2>2, LoopKeeps
      <3>2. /\ LoopStep(before).applied = RetainPass(before).applied
            /\ LoopStep(before).pending = RetainPass(before).pending
        BY <2>4 DEF LoopStep, Passed
      <3>3. LoopStep(before).done \in BOOLEAN
        BY <2>4 DEF LoopStep, Passed
      <3>4. second \subseteq LoopStep(before).applied \cup LoopStep(before).pending
        BY <2>2, <3>2, PassCovers
      <3>5. ASSUME ~LoopStep(before).done PROVE Cardinality(LoopStep(before).pending) <= MAX_ID - i
        <4>1. IsFiniteSet(before.pending) /\ IsFiniteSet(LoopStep(before).pending)
          BY <2>2, <3>1, NoMoreThanIds
        <4>2. Cardinality(LoopStep(before).pending) < Cardinality(before.pending)
          BY <2>2, <2>4, <3>5, <4>1, RoundShortens
        <4>3. Cardinality(LoopStep(before).pending) \in Nat /\ Cardinality(before.pending) \in Nat
          BY <4>1, FS_CardinalityType
        <4> QED BY <2>2, <2>4, <4>2, <4>3, FoldAssumption
      <3> QED BY <2>1, <3>1, <3>3, <3>4, <3>5
    <2> QED BY <2>2, <2>3, <2>4
  <1>6. 0 \in T /\ \A i \in 1..MAX_ID : i - 1 \in T => i \in T
    <2> HIDE DEF Holds
    <2> QED BY <1>4, <1>5, FoldAssumption
  <1> HIDE DEF T
  <1>7. MAX_ID \in T
    BY <1>6, UpTo, FoldAssumption
  <1> DEFINE last == P[MAX_ID]
  <1>8. /\ AllSteps(last.pending) /\ second \subseteq last.applied \cup last.pending
        /\ last.done => Stuck(last)
        /\ ~last.done => Cardinality(last.pending) <= 0
    BY <1>2, <1>7, FoldAssumption DEF T
  <1> HIDE DEF last
  <1>9. ~last.done => last.pending = {}
    <2>1. IsFiniteSet(last.pending)
      BY <1>8, NoMoreThanIds
    <2>2. Cardinality(last.pending) \in Nat
      BY <2>1, FS_CardinalityType
    <2> QED BY <1>8, <2>1, <2>2, FS_EmptySet
  <1>10. \A e \in second : e \in last.applied \/ ~Apply(last.g, e).ok
    BY <1>8, <1>9 DEF Stuck
  <1> QED BY <1>3, <1>10 DEF last

\* A second without actions is no second.
LEMMA EmptySecond ==
  ASSUME NEW s, IsRecord(s.g)
  PROVE  Same(s, ApplySecond(s, {}))
  <1> DEFINE P == Passes(s, {})
             Holds(i) == IsRecord(P[i].g) /\ Like(s.g, P[i].g) /\ P[i].applied = s.applied /\ P[i].pending = {}
             T == {i \in 0..MAX_ID : Holds(i)}
  <1>1. /\ P[0] = [g |-> s.g, applied |-> s.applied, pending |-> {}, done |-> FALSE]
        /\ \A i \in 1..MAX_ID : P[i] = LoopStep(P[i - 1])
    BY PassesStep
  <1>2. ApplySecond(s, {}).g = P[MAX_ID].g /\ ApplySecond(s, {}).applied = P[MAX_ID].applied
    BY DEF ApplySecond, Folded
  <1> HIDE DEF P
  <1>3. Holds(0)
    BY <1>1 DEF Like
  <1>4. ASSUME NEW i \in 1..MAX_ID, Holds(i - 1) PROVE Holds(i)
    <2> DEFINE b == P[i - 1]
    <2>1. P[i] = LoopStep(b)
      BY <1>1
    <2>2. IsRecord(b.g) /\ Like(s.g, b.g) /\ b.applied = s.applied /\ b.pending = {}
      BY <1>4
    <2> HIDE DEF b
    <2>3. AllSteps(b.pending)
      BY <2>2 DEF AllSteps, IdsDiffer
    <2> DEFINE r == RetainPass(b)
    <2>4. r.applied = b.applied /\ r.pending = b.pending
      BY <2>2, <2>3, QuietPass
    <2>5. Like(b.g, r.g) /\ IsRecord(r.g)
      BY <2>2, <2>3, QuietPass, PassKeeps, FoldAssumption DEF RetainPass
    <2>6. \/ LoopStep(b) = b
          \/ LoopStep(b).g = r.g /\ LoopStep(b).applied = r.applied /\ LoopStep(b).pending = r.pending
      BY DEF LoopStep, Passed
    <2> HIDE DEF r
    <2>7. Like(s.g, r.g)
      BY <2>2, <2>5 DEF Like
    <2> QED BY <2>1, <2>2, <2>4, <2>5, <2>6, <2>7
  <1>5. 0 \in T /\ \A i \in 1..MAX_ID : i - 1 \in T => i \in T
    BY <1>3, <1>4, FoldAssumption
  <1> HIDE DEF T
  <1>6. MAX_ID \in T
    BY <1>5, UpTo, FoldAssumption
  <1> QED BY <1>2, <1>6 DEF T, Same

(***************************************************************************)
(* The fold: second by second.                                             *)
(***************************************************************************)

\* The actions of a second.
OfSecond(live, t) == {e \in live : e.at = t}

\* A second keeps what was applied before it.
LEMMA SecondKeeps ==
  ASSUME NEW s, IsRecord(s.g), NEW second, AllSteps(second)
  PROVE  IsRecord(ApplySecond(s, second).g) /\ s.applied \subseteq ApplySecond(s, second).applied
  <1>1. MAX_ID \in 0..MAX_ID
    BY FoldAssumption
  <1>2. IsRecord(Passes(s, second)[MAX_ID].g) /\ s.applied \subseteq Passes(s, second)[MAX_ID].applied
    BY <1>1, LoopRuns
  <1> QED BY <1>2 DEF ApplySecond, Folded

\* The fold at a second: that second's actions applied, even if there are none.
LEMMA SecondStepIs ==
  ASSUME NEW s, IsRecord(s.g), NEW live, AllSteps(live), NEW t
  PROVE  /\ AllSteps(OfSecond(live, t))
         /\ Same(SecondStep(live, s, t), ApplySecond(s, OfSecond(live, t)))
         /\ s.applied \subseteq SecondStep(live, s, t).applied
  <1> DEFINE second == OfSecond(live, t)
  <1>1. AllSteps(second)
    BY DEF OfSecond, AllSteps, IdsDiffer
  <1>2. SecondStep(live, s, t) = IF second = {} THEN s ELSE ApplySecond(s, second)
    BY DEF SecondStep, OfSecond
  <1> HIDE DEF second
  <1>3. Same(s, ApplySecond(s, {}))
    BY EmptySecond
  <1>4. IsRecord(ApplySecond(s, second).g) /\ s.applied \subseteq ApplySecond(s, second).applied
    BY <1>1, SecondKeeps
  <1>5. Same(ApplySecond(s, second), ApplySecond(s, second))
    BY <1>4 DEF Same, Like
  <1>6. CASE second = {}
    BY <1>1, <1>2, <1>3, <1>6 DEF second
  <1>7. CASE second # {}
    BY <1>1, <1>2, <1>4, <1>5, <1>7 DEF second
  <1> QED BY <1>6, <1>7

\* What holds of the seconds all along.
LEMMA SecondsRun ==
  ASSUME NEW start, IsRecord(start), NEW live, AllSteps(live)
  PROVE  \A t \in 0..MAX_SECOND :
           /\ IsRecord(Seconds(start, live)[t].g)
           /\ Seconds(start, live)[t].applied \subseteq Seconds(start, live)[MAX_SECOND].applied
  <1> DEFINE P == Seconds(start, live)
             T == {t \in 0..MAX_SECOND : IsRecord(P[t].g)}
  <1>1. /\ P[0] = [g |-> start, applied |-> {}]
        /\ \A t \in 1..MAX_SECOND : P[t] = SecondStep(live, P[t - 1], t)
    BY SecondsStep
  <1> HIDE DEF P
  <1>2. ASSUME NEW t \in 1..MAX_SECOND, IsRecord(P[t - 1].g)
        PROVE  IsRecord(P[t].g) /\ P[t - 1].applied \subseteq P[t].applied
    <2> DEFINE b == P[t - 1]
    <2>1. P[t] = SecondStep(live, b, t) /\ IsRecord(b.g)
      BY <1>1, <1>2
    <2> HIDE DEF b
    <2>2. /\ Same(SecondStep(live, b, t), ApplySecond(b, OfSecond(live, t)))
          /\ b.applied \subseteq SecondStep(live, b, t).applied
      BY <2>1, SecondStepIs
    <2> QED BY <2>1, <2>2 DEF Same, b
  <1>3. 0 \in T /\ \A t \in 1..MAX_SECOND : t - 1 \in T => t \in T
    BY <1>1, <1>2, FoldAssumption
  <1>4. \A t \in 0..MAX_SECOND : IsRecord(P[t].g)
    <2> HIDE DEF T
    <2>1. 0..MAX_SECOND \subseteq T
      BY <1>3, UpTo, FoldAssumption
    <2> QED BY <2>1 DEF T
  <1>5. \A t \in 1..MAX_SECOND : P[t - 1].applied \subseteq P[t].applied
    BY <1>2, <1>4, FoldAssumption
  <1>6. ASSUME NEW m \in 0..MAX_SECOND PROVE P[m].applied \subseteq P[MAX_SECOND].applied
    <2> DEFINE V == {t \in 0..MAX_SECOND : t >= m => P[m].applied \subseteq P[t].applied}
    <2>1. 0 \in V /\ \A t \in 1..MAX_SECOND : t - 1 \in V => t \in V
      BY <1>5, FoldAssumption
    <2> HIDE DEF V
    <2>2. MAX_SECOND \in V
      BY <2>1, UpTo, FoldAssumption
    <2> QED BY <2>2, FoldAssumption DEF V
  <1> QED BY <1>4, <1>6 DEF P

\* Two folds, one over Y besides, go the same way up to the second N as long
\* as the first refuses what Y has.
LEMMA SecondsAlike ==
  ASSUME NEW start, IsRecord(start), NEW live, NEW Y, live \cap Y = {}, AllSteps(live \cup Y),
         NEW N \in 0..MAX_SECOND,
         \A e \in Y : e.at <= N =>
            RefusedInSecond(Seconds(start, live)[e.at - 1], OfSecond(live, e.at), e)
  PROVE  Same(Seconds(start, live)[N], Seconds(start, live \cup Y)[N])
  <1> DEFINE all == live \cup Y
             S == Seconds(start, live)
             U == Seconds(start, all)
             T == {t \in 0..N : Same(S[t], U[t])}
  <1>1. AllSteps(live) /\ AllSteps(all) /\ \A t : OfSecond(all, t) = OfSecond(live, t) \cup OfSecond(Y, t)
    BY DEF AllSteps, IdsDiffer, OfSecond
  <1>2. \A e \in Y : e.at <= N => RefusedInSecond(S[e.at - 1], OfSecond(live, e.at), e)
    OBVIOUS
  <1> HIDE DEF all
  <1>3. /\ S[0] = [g |-> start, applied |-> {}]
        /\ \A t \in 1..MAX_SECOND : S[t] = SecondStep(live, S[t - 1], t)
        /\ U[0] = [g |-> start, applied |-> {}]
        /\ \A t \in 1..MAX_SECOND : U[t] = SecondStep(all, U[t - 1], t)
    BY SecondsStep
  <1> HIDE DEF S, U
  <1>4. Same(S[0], U[0])
    BY <1>3 DEF Same, Like
  <1>5. ASSUME NEW t \in 1..N, Same(S[t - 1], U[t - 1]) PROVE Same(S[t], U[t])
    <2> DEFINE s == S[t - 1]
               u == U[t - 1]
               now == OfSecond(live, t)
               late == OfSecond(Y, t)
    <2>1. S[t] = SecondStep(live, s, t) /\ U[t] = SecondStep(all, u, t)
      BY <1>3, FoldAssumption
    <2>2. OfSecond(all, t) = now \cup late /\ now \cap late = {}
      BY <1>1 DEF OfSecond
    <2>3. \A e \in late : RefusedInSecond(s, now, e)
      BY <1>2, FoldAssumption DEF OfSecond
    <2>4. Same(s, u)
      BY <1>5
    <2> HIDE DEF s, u, now
    <2>5. IsRecord(s.g) /\ IsRecord(u.g)
      BY <2>4 DEF Same
    <2>6. Same(S[t], ApplySecond(s, now))
      BY <1>1, <2>1, <2>5, SecondStepIs DEF now
    <2>7. Same(U[t], ApplySecond(u, now \cup late)) /\ AllSteps(now \cup late)
      BY <1>1, <2>1, <2>2, <2>5, SecondStepIs
    <2>8. Same(ApplySecond(s, now), ApplySecond(u, now \cup late))
      <3> HIDE DEF late
      <3> QED BY <2>2, <2>3, <2>4, <2>7, SecondAlike
    <2> QED BY <2>6, <2>7, <2>8 DEF Same, Like
  <1>6. 0 \in T /\ \A t \in 1..N : t - 1 \in T => t \in T
    BY <1>4, <1>5, FoldAssumption
  <1> HIDE DEF T
  <1>7. N \in T
    BY <1>6, UpTo, FoldAssumption
  <1> QED BY <1>7 DEF T, S, U, all

\* An action a fold did not apply, the fold without it refuses in its second.
LEMMA FoldRefuses ==
  ASSUME NEW start, IsRecord(start), NEW live, NEW e, e \notin live, AllSteps(live \cup {e}),
         e \notin Seconds(start, live \cup {e})[MAX_SECOND].applied
  PROVE  RefusedInSecond(Seconds(start, live)[e.at - 1], OfSecond(live, e.at), e)
  <1> DEFINE all == live \cup {e}
             N == e.at - 1
             s == Seconds(start, live)[N]
             u == Seconds(start, all)[N]
             now == OfSecond(live, e.at)
  <1>1. e.at \in 1..MAX_SECOND /\ N \in 0..MAX_SECOND /\ ~(e.at <= N)
    BY FoldAssumption DEF AllSteps, IsAction
  <1>2. Same(s, u)
    <2>1. live \cap {e} = {}
      OBVIOUS
    <2>2. \A d \in {e} : d.at <= N =>
            RefusedInSecond(Seconds(start, live)[d.at - 1], OfSecond(live, d.at), d)
      BY <1>1
    <2> HIDE DEF N
    <2> QED BY <1>1, <2>1, <2>2, SecondsAlike
  <1>3. /\ OfSecond(all, e.at) = now \cup {e} /\ e \notin now
        /\ AllSteps(all) /\ AllSteps(now \cup {e})
    <2>1. OfSecond(all, e.at) = now \cup {e} /\ now \subseteq live
      BY DEF OfSecond
    <2> QED BY <2>1 DEF AllSteps, IdsDiffer
  <1> HIDE DEF all, now
  <1>4. Seconds(start, all)[e.at] = SecondStep(all, u, e.at)
    <2>1. \A t \in 1..MAX_SECOND :
             Seconds(start, all)[t] = SecondStep(all, Seconds(start, all)[t - 1], t)
      BY SecondsStep
    <2> QED BY <1>1, <2>1
  <1>5. e \notin Seconds(start, all)[e.at].applied
    <2>1. e.at \in 0..MAX_SECOND
      BY <1>1
    <2>2. Seconds(start, all)[e.at].applied \subseteq Seconds(start, all)[MAX_SECOND].applied
      BY <1>3, <2>1, SecondsRun
    <2> QED BY <2>2 DEF all
  <1> HIDE DEF u, N
  <1>6. Same(SecondStep(all, u, e.at), ApplySecond(u, OfSecond(all, e.at)))
    <2>1. IsRecord(u.g)
      BY <1>2 DEF Same
    <2> QED BY <1>3, <2>1, SecondStepIs
  <1>7. e \notin ApplySecond(u, now \cup {e}).applied
    BY <1>3, <1>4, <1>5, <1>6 DEF Same
  <1> HIDE DEF s
  <1>8. RefusedInSecond(s, now, e)
    BY <1>2, <1>3, <1>7, SecondRefuses
  <1> QED BY <1>8 DEF s, N, now

\* Actions a fold leaves out one by one it leaves out together: it ends where
\* it does without them, but for silences, and applies the same actions.
THEOREM RefusedLeaveNoTrace ==
  ASSUME NEW start, IsRecord(start), NEW actions, NEW more, actions \cap more = {},
         IdsDiffer(actions \cup more), \A e \in actions \cup more : IsAction(e),
         InvitesIn(actions \cup more) = InvitesIn(actions),
         \A e \in LiveIn(start, more) : e \notin ApplyActions(start, actions \cup {e}).applied
  PROVE  Same(ApplyActions(start, actions), ApplyActions(start, actions \cup more))
  <1> DEFINE live == LiveIn(start, actions)
             late == LiveIn(start, more)
             first == [start EXCEPT !.invites = InvitesIn(actions)]
  <1>1. LiveIn(start, actions \cup more) = live \cup late
    BY DEF LiveIn
  <1>2. live \cap late = {} /\ AllSteps(live \cup late)
    BY DEF LiveIn, AllSteps, IdsDiffer
  <1>3. IsRecord(first)
    BY DEF IsRecord
  <1>4. ASSUME NEW e \in late
        PROVE  RefusedInSecond(Seconds(first, live)[e.at - 1], OfSecond(live, e.at), e)
    <2>1. LiveIn(start, actions \cup {e}) = live \cup {e} /\ e.kind # "invite"
      BY DEF LiveIn
    <2>2. InvitesIn(actions \cup {e}) = InvitesIn(actions)
      <3>1. {x \in actions \cup {e} : x.kind = "invite"} = {x \in actions : x.kind = "invite"}
        BY <2>1
      <3> QED BY <3>1 DEF InvitesIn
    <2>3. e \notin Seconds(first, live \cup {e})[MAX_SECOND].applied
      BY <2>1, <2>2 DEF ApplyActions
    <2>4. e \notin live
      BY <1>2
    <2>5. AllSteps(live \cup {e})
      BY <1>2 DEF AllSteps, IdsDiffer
    <2> HIDE DEF first, live, late
    <2> QED BY <1>3, <2>3, <2>4, <2>5, FoldRefuses
  <1>5. /\ ApplyActions(start, actions) = Seconds(first, live)[MAX_SECOND]
        /\ ApplyActions(start, actions \cup more) = Seconds(first, live \cup late)[MAX_SECOND]
    BY <1>1 DEF ApplyActions
  <1> DEFINE N == MAX_SECOND
  <1>6. N \in 0..MAX_SECOND
    BY FoldAssumption
  <1> HIDE DEF first, live, late, N
  <1>7. Same(Seconds(first, live)[N], Seconds(first, live \cup late)[N])
    BY <1>2, <1>3, <1>4, <1>6, SecondsAlike
  <1> QED BY <1>5, <1>7 DEF N

\* The fold leaves out a live action only if it is invalid against what its
\* second ends with.  "An invalid action is skipped": no valid one is, for the
\* place its id has among its second's (GroupState::fold, apply_second).
THEOREM SkippedAreInvalid ==
  ASSUME NEW start, IsRecord(start), NEW actions, IdsDiffer(actions),
         \A e \in actions : IsAction(e),
         NEW e \in LiveIn(start, actions), e \notin ApplyActions(start, actions).applied
  PROVE  LET begun == [start EXCEPT !.invites = InvitesIn(actions)]
         IN  ~Apply(Seconds(begun, LiveIn(start, actions))[e.at].g, e).ok
  <1> DEFINE live == LiveIn(start, actions)
             begun == [start EXCEPT !.invites = InvitesIn(actions)]
             now == OfSecond(live, e.at)
             u == Seconds(begun, live)[e.at - 1]
  <1>1. AllSteps(live) /\ IsRecord(begun) /\ e \in live
    BY DEF LiveIn, AllSteps, IdsDiffer, IsRecord
  <1>2. e.at \in 1..MAX_SECOND /\ e.at \in 0..MAX_SECOND /\ e.at - 1 \in 0..MAX_SECOND
    BY <1>1, FoldAssumption DEF AllSteps, IsAction
  <1>3. e \notin Seconds(begun, live)[MAX_SECOND].applied
    BY DEF ApplyActions
  <1> HIDE DEF live, begun
  <1>4. IsRecord(u.g) /\ e \notin Seconds(begun, live)[e.at].applied
    BY <1>1, <1>2, <1>3, SecondsRun
  <1>5. e \in now /\ AllSteps(now)
    BY <1>1 DEF OfSecond, AllSteps, IdsDiffer
  <1>6. Seconds(begun, live)[e.at] = SecondStep(live, u, e.at)
    <2>1. \A t \in 1..MAX_SECOND :
             Seconds(begun, live)[t] = SecondStep(live, Seconds(begun, live)[t - 1], t)
      BY SecondsStep
    <2> QED BY <1>2, <2>1
  <1> HIDE DEF u
  <1>7. SecondStep(live, u, e.at) = ApplySecond(u, now)
    BY <1>5 DEF SecondStep, OfSecond
  <1> HIDE DEF now
  <1>8. ~Apply(ApplySecond(u, now).g, e).ok
    BY <1>4, <1>5, <1>6, <1>7, UntilNoneApplies
  <1> QED BY <1>6, <1>7, <1>8 DEF live, begun

(***************************************************************************)
(* What every step of the fold keeps of a group: the roles members hold    *)
(* exist, the default role exists and is nobody's by name, and the owner   *)
(* is a member without roles.  And it leaves the cutoff and seq alone.     *)
(***************************************************************************)

Whole(g) ==
    /\ IsRecord(g)
    /\ DEFAULT_ROLE \in DOMAIN g.roles
    /\ g.members = [p \in DOMAIN g.members |-> g.members[p]]
    /\ \A p \in DOMAIN g.members : g.members[p] \subseteq DOMAIN g.roles \ {DEFAULT_ROLE}
    /\ g.owner # None => g.owner \in DOMAIN g.members /\ g.members[g.owner] = {}

Kept(start, g) == Whole(g) /\ g.cutoff = start.cutoff /\ g.seq = start.seq

\* Fields no action but an edit of roles or of members touches.
LEMMA KeptBySame ==
  ASSUME NEW start, NEW g, Kept(start, g), NEW h, IsRecord(h),
         h.roles = g.roles, h.members = g.members, h.owner = g.owner, h.cutoff = g.cutoff /\ h.seq = g.seq
  PROVE  Kept(start, h)
  BY DEF Kept, Whole

\* Someone who is not the owner is put in, with roles that exist.
LEMMA KeptByInsert ==
  ASSUME NEW start, NEW g, Kept(start, g), NEW h, IsRecord(h), NEW t, t # g.owner, NEW roles,
         roles \subseteq DOMAIN g.roles \ {DEFAULT_ROLE}, h.members = Insert(g.members, t, roles),
         h.roles = g.roles, h.owner = g.owner, h.cutoff = g.cutoff /\ h.seq = g.seq
  PROVE  Kept(start, h)
  BY DEF Kept, Whole, Insert

\* Someone who is not the owner goes.
LEMMA KeptByWithout ==
  ASSUME NEW start, NEW g, Kept(start, g), NEW h, IsRecord(h), NEW t, t # g.owner,
         h.members = Without(g.members, t),
         h.roles = g.roles, h.owner = g.owner, h.cutoff = g.cutoff /\ h.seq = g.seq
  PROVE  Kept(start, h)
  BY DEF Kept, Whole, Without

\* One valid edit.
LEMMA EditKept ==
  ASSUME NEW start, NEW before, NEW g, Kept(start, g), NEW a,
         NEW e, e.edit \in EditKinds, EditOk(before, g, a, e)
  PROVE  Kept(start, EditDo(g, e))
  <1> DEFINE h == EditDo(g, e)
  <1>0. IsRecord(g) /\ Like(g, g)
    BY DEF Kept, Whole, Like
  <1>1. IsRecord(h)
    BY <1>0, EditDoLike
  <1>2. CASE e.edit \in EditKinds \ {"role", "role-delete"}
    <2>1. h.roles = g.roles /\ h.members = g.members /\ h.owner = g.owner /\ h.cutoff = g.cutoff /\ h.seq = g.seq
      BY <1>0, <1>2 DEF EditDo, EditKinds, IsRecord, FieldNames, NameDo, AboutDo, PublicDo,
         NewcomerWaitDo, ChannelDo, ChannelDeleteDo, OverrideDo
    <2> HIDE DEF h
    <2>9. Kept(start, h)
      BY <1>1, <2>1, KeptBySame
    <2> QED BY <2>9 DEF h
  <1>3. CASE e.edit = "role"
    <2>1. h = RoleDo(g, e)
      BY <1>3 DEF EditDo
    <2>2. /\ h.roles = Insert(g.roles, e.id, [perms |-> e.perms, position |-> e.position])
          /\ h.members = g.members /\ h.owner = g.owner /\ h.cutoff = g.cutoff /\ h.seq = g.seq
      BY <1>0, <2>1 DEF RoleDo, IsRecord, FieldNames
    <2>3. DOMAIN h.roles = DOMAIN g.roles \cup {e.id}
      BY <2>2 DEF Insert
    <2> HIDE DEF h
    <2>9. Kept(start, h)
      BY <1>1, <2>2, <2>3 DEF Kept, Whole
    <2> QED BY <2>9 DEF h
  <1>4. CASE e.edit = "role-delete"
    <2>1. h = RoleDeleteDo(g, e) /\ RoleDeleteOk(before, a, e)
      BY <1>4 DEF EditDo, EditOk
    <2>2. /\ h.roles = Without(g.roles, e.id)
          /\ h.members = [p \in DOMAIN g.members |-> g.members[p] \ {e.id}]
          /\ h.owner = g.owner /\ h.cutoff = g.cutoff /\ h.seq = g.seq
      BY <1>0, <2>1 DEF RoleDeleteDo, IsRecord, FieldNames
    <2>3. DOMAIN h.roles = DOMAIN g.roles \ {e.id} /\ e.id # DEFAULT_ROLE
      BY <2>1, <2>2 DEF Without, RoleDeleteOk
    <2> HIDE DEF h
    <2>4. DOMAIN h.members = DOMAIN g.members /\ h.members = [p \in DOMAIN h.members |-> h.members[p]]
      BY <2>2
    <2>5. \A p \in DOMAIN g.members : h.members[p] = g.members[p] \ {e.id}
      BY <2>2
    <2>9. Kept(start, h)
      BY <1>1, <2>2, <2>3, <2>4, <2>5 DEF Kept, Whole
    <2> QED BY <2>9 DEF h
  <1> QED BY <1>2, <1>3, <1>4

\* A 9002.
LEMMA EditAllKept ==
  ASSUME NEW start, NEW g, Kept(start, g), NEW e, IsAction(e), e.kind = "edit"
  PROVE  Kept(start, EditAll(g, e).g)
  <1> DEFINE N == Len(e.edits)
             G == Edited(g, e)
             T == {n \in 0..N : Kept(start, G[n].g)}
  <1>1. N \in Nat /\ \A n \in 1..N : e.edits[n].edit \in EditKinds
    BY DEF IsAction
  <1>2. /\ G[0] = [ok |-> e.by \in Members(g), g |-> g]
        /\ \A n \in 1..N : G[n] = EditStep(g, e, G[n - 1], n)
    BY <1>1, EditedStep
  <1>3. EditAll(g, e) = G[N]
    BY DEF EditAll
  <1> HIDE DEF N, G
  <1>4. Kept(start, G[0].g)
    BY <1>2
  <1>5. ASSUME NEW n \in 1..N, Kept(start, G[n - 1].g) PROVE Kept(start, G[n].g)
    <2> DEFINE acc == G[n - 1]
               d == e.edits[n]
    <2>1. G[n] = IF acc.ok /\ EditOk(g, acc.g, e.by, d)
                 THEN [ok |-> TRUE, g |-> EditDo(acc.g, d)] ELSE [ok |-> FALSE, g |-> g]
      BY <1>2 DEF EditStep
    <2>2. EditOk(g, acc.g, e.by, d) => Kept(start, EditDo(acc.g, d))
      BY <1>1, <1>5, EditKept
    <2> HIDE DEF acc, d
    <2> QED BY <2>1, <2>2
  <1>6. 0 \in T /\ \A n \in 1..N : n - 1 \in T => n \in T
    BY <1>1, <1>4, <1>5
  <1> HIDE DEF T
  <1>7. N \in T
    BY <1>1, <1>6, UpTo
  <1> QED BY <1>3, <1>7 DEF T

\* Any action, valid or not.
LEMMA ApplyKept ==
  ASSUME NEW start, NEW g, Kept(start, g), NEW e, IsAction(e), e.kind # "invite"
  PROVE  Kept(start, Apply(g, e).g)
  <1>0. /\ IsRecord(g) /\ Like(g, g) /\ e.kind \in {"put", "remove", "unban", "mute", "join", "leave", "edit"}
        /\ g.owner # None => g.owner \in Members(g)
    BY DEF Kept, Whole, Like, IsAction, Members
  <1>1. CASE e.kind = "put"
    <2> DEFINE h == PutDo(g, e.target, e.roles, e.at)
    <2>1. PutOk(g, e.by, e.target, e.roles) => Kept(start, h)
      <3> SUFFICES ASSUME PutOk(g, e.by, e.target, e.roles) PROVE Kept(start, h)
        OBVIOUS
      <3>1. e.target # g.owner /\ e.roles \ {DEFAULT_ROLE} \subseteq DOMAIN g.roles \ {DEFAULT_ROLE}
        BY DEF PutOk
      <3>2. /\ h.members = Insert(g.members, e.target, e.roles \ {DEFAULT_ROLE})
            /\ h.roles = g.roles /\ h.owner = g.owner /\ h.cutoff = g.cutoff /\ h.seq = g.seq /\ IsRecord(h)
        BY <1>0 DEF PutDo, IsRecord, FieldNames
      <3> HIDE DEF h
      <3> QED BY <3>1, <3>2, KeptByInsert
    <2> QED BY <1>1, <2>1 DEF Apply
  <1>2. CASE e.kind = "remove"
    <2> DEFINE h == RemoveDo(g, e.target, e.ban, e.at)
    <2>1. RemoveOk(g, e.by, e.target, e.ban) => Kept(start, h)
      <3> SUFFICES ASSUME RemoveOk(g, e.by, e.target, e.ban) PROVE Kept(start, h)
        OBVIOUS
      <3>1. e.target # g.owner
        BY DEF RemoveOk
      <3>2. /\ h.members = Without(g.members, e.target)
            /\ h.roles = g.roles /\ h.owner = g.owner /\ h.cutoff = g.cutoff /\ h.seq = g.seq /\ IsRecord(h)
        BY <1>0 DEF RemoveDo, IsRecord, FieldNames
      <3> HIDE DEF h
      <3> QED BY <3>1, <3>2, KeptByWithout
    <2> QED BY <1>2, <2>1 DEF Apply
  <1>3. CASE e.kind = "unban"
    <2> DEFINE h == UnbanDo(g, e.target)
    <2>1. /\ h.roles = g.roles /\ h.members = g.members /\ h.owner = g.owner /\ h.cutoff = g.cutoff /\ h.seq = g.seq
          /\ IsRecord(h)
      BY <1>0 DEF UnbanDo, IsRecord, FieldNames
    <2>2. Kept(start, h)
      <3> HIDE DEF h
      <3> QED BY <2>1, KeptBySame
    <2> QED BY <1>3, <2>2 DEF Apply
  <1>4. CASE e.kind = "mute"
    <2> DEFINE lg == EndMutes(g, e.target, e.at)
               h == MuteDo(g, e.target, e.until, e.at)
    <2>1. IsRecord(lg) /\ Like(lg, g)
      BY <1>0, EndMutesLike
    <2>2. h = IF e.until = None THEN [lg EXCEPT !.mutes = Without(@, e.target)]
              ELSE [lg EXCEPT !.mutes = Insert(@, e.target, e.until),
                              !.silences = SilenceOf(lg, e.target, e.at, e.until, TRUE)]
      BY DEF MuteDo
    <2>3. Kept(start, lg)
      <3>1. /\ lg.roles = g.roles /\ lg.members = g.members /\ lg.owner = g.owner /\ lg.cutoff = g.cutoff
            /\ lg.seq = g.seq
        BY <2>1 DEF Like
      <3> HIDE DEF lg
      <3> QED BY <2>1, <3>1, KeptBySame
    <2>4. Kept(start, h)
      <3> HIDE DEF lg, h
      <3>1. /\ h.roles = lg.roles /\ h.members = lg.members /\ h.owner = lg.owner
            /\ h.cutoff = lg.cutoff /\ h.seq = lg.seq /\ IsRecord(h)
        BY <2>1, <2>2 DEF IsRecord, FieldNames
      <3> QED BY <2>3, <3>1, KeptBySame
    <2> QED BY <1>4, <2>3, <2>4 DEF Apply
  <1>5. CASE e.kind = "join"
    <2> DEFINE h == JoinDo(g, e.by, e.at)
    <2>1. JoinOk(g, e.by, e.code, e.at) => Kept(start, h)
      <3> SUFFICES ASSUME JoinOk(g, e.by, e.code, e.at) PROVE Kept(start, h)
        OBVIOUS
      <3>1. e.by \notin DOMAIN g.members
        BY DEF JoinOk, Members
      <3>2. /\ h.members = Insert(g.members, e.by, {})
            /\ h.roles = g.roles /\ h.owner = g.owner /\ h.cutoff = g.cutoff /\ h.seq = g.seq /\ IsRecord(h)
        BY <1>0 DEF JoinDo, IsRecord, FieldNames
      <3> HIDE DEF h
      <3>3. CASE g.owner # None
        <4>1. e.by # g.owner
          BY <1>0, <3>1, <3>3 DEF Members
        <4> QED BY <3>2, <4>1, KeptByInsert
      <3>4. CASE g.owner = None
        BY <3>2, <3>4 DEF Kept, Whole, Insert
      <3> QED BY <3>3, <3>4
    <2> QED BY <1>5, <2>1 DEF Apply
  <1>6. CASE e.kind = "leave"
    <2> DEFINE h == LeaveDo(g, e.by, e.at)
    <2>1. LeaveOk(g, e.by) => Kept(start, h)
      <3> SUFFICES ASSUME LeaveOk(g, e.by) PROVE Kept(start, h)
        OBVIOUS
      <3>1. e.by # g.owner
        BY DEF LeaveOk
      <3>2. /\ h.members = Without(g.members, e.by)
            /\ h.roles = g.roles /\ h.owner = g.owner /\ h.cutoff = g.cutoff /\ h.seq = g.seq /\ IsRecord(h)
        BY <1>0 DEF LeaveDo, IsRecord, FieldNames
      <3> HIDE DEF h
      <3> QED BY <3>1, <3>2, KeptByWithout
    <2> QED BY <1>6, <2>1 DEF Apply
  <1>7. CASE e.kind = "edit"
    <2>1. Apply(g, e) = EditAll(g, e)
      BY <1>7 DEF Apply
    <2> QED BY <1>7, <2>1, EditAllKept
  <1> QED BY <1>0, <1>1, <1>2, <1>3, <1>4, <1>5, <1>6, <1>7

\* A pass.
LEMMA PassKept ==
  ASSUME NEW start, NEW s, Kept(start, s.g), AllSteps(s.pending)
  PROVE  Kept(start, RetainPass(s).g)
  <1> DEFINE P == PassOver(s)
             T == {n \in 0..MAX_ID : Kept(start, P[n].g)}
  <1>1. /\ P[0] = [g |-> s.g, applied |-> s.applied, pending |-> {}]
        /\ \A n \in 1..MAX_ID : P[n] = RetainStep(s.pending, P[n - 1], n)
    BY PassOverStep
  <1>2. RetainPass(s) = P[MAX_ID]
    BY DEF RetainPass
  <1> HIDE DEF P
  <1>3. ASSUME NEW n \in 1..MAX_ID, Kept(start, P[n - 1].g) PROVE Kept(start, P[n].g)
    <2> DEFINE acc == P[n - 1]
    <2>1. P[n] = RetainStep(s.pending, acc, n) /\ Kept(start, acc.g)
      BY <1>1, <1>3
    <2> HIDE DEF acc
    <2>2. \/ P[n] = acc
          \/ \E e \in s.pending : P[n] = Retain(acc, e, Apply(acc.g, e))
      BY <2>1, RetainStepIs DEF AllSteps
    <2>3. \A e \in s.pending : Kept(start, Apply(acc.g, e).g)
      BY <2>1, ApplyKept DEF AllSteps
    <2>4. \A e : Retain(acc, e, Apply(acc.g, e)).g = Apply(acc.g, e).g
      BY DEF Retain
    <2> QED BY <2>1, <2>2, <2>3, <2>4
  <1>4. 0 \in T /\ \A n \in 1..MAX_ID : n - 1 \in T => n \in T
    BY <1>1, <1>3, FoldAssumption
  <1> HIDE DEF T
  <1>5. MAX_ID \in T
    BY <1>4, UpTo, FoldAssumption
  <1> QED BY <1>2, <1>5 DEF T

\* A second.
LEMMA SecondKept ==
  ASSUME NEW start, NEW s, Kept(start, s.g), NEW second, AllSteps(second)
  PROVE  Kept(start, ApplySecond(s, second).g)
  <1> DEFINE P == Passes(s, second)
             T == {i \in 0..MAX_ID : Kept(start, P[i].g)}
  <1>1. /\ P[0] = [g |-> s.g, applied |-> s.applied, pending |-> second, done |-> FALSE]
        /\ \A i \in 1..MAX_ID : P[i] = LoopStep(P[i - 1])
    BY PassesStep
  <1>2. \A i \in 0..MAX_ID : AllSteps(P[i].pending)
    BY LoopRuns DEF Kept, Whole
  <1>3. ApplySecond(s, second).g = P[MAX_ID].g
    BY DEF ApplySecond, Folded
  <1> HIDE DEF P
  <1>4. ASSUME NEW i \in 1..MAX_ID, Kept(start, P[i - 1].g) PROVE Kept(start, P[i].g)
    <2> DEFINE b == P[i - 1]
    <2>1. P[i] = LoopStep(b) /\ Kept(start, b.g) /\ AllSteps(b.pending)
      BY <1>1, <1>2, <1>4, FoldAssumption
    <2> HIDE DEF b
    <2>2. Kept(start, RetainPass(b).g)
      BY <2>1, PassKept
    <2>3. LoopStep(b) = b \/ LoopStep(b).g = RetainPass(b).g
      BY DEF LoopStep, Passed
    <2> QED BY <2>1, <2>2, <2>3
  <1>5. 0 \in T /\ \A i \in 1..MAX_ID : i - 1 \in T => i \in T
    BY <1>1, <1>4, FoldAssumption
  <1> HIDE DEF T
  <1>6. MAX_ID \in T
    BY <1>5, UpTo, FoldAssumption
  <1> QED BY <1>3, <1>6 DEF T

\* The fold.
LEMMA ActionsKept ==
  ASSUME NEW start, Whole(start), NEW actions, IdsDiffer(actions), \A e \in actions : IsAction(e)
  PROVE  Kept(start, ApplyActions(start, actions).g)
  <1> DEFINE live == LiveIn(start, actions)
             first == [start EXCEPT !.invites = InvitesIn(actions)]
             P == Seconds(first, live)
             T == {t \in 0..MAX_SECOND : Kept(start, P[t].g)}
  <1>1. AllSteps(live)
    BY DEF LiveIn, AllSteps, IdsDiffer
  <1>2. Kept(start, first)
    <2>1. Kept(start, start) /\ IsRecord(start)
      BY DEF Kept, Whole
    <2>2. /\ IsRecord(first) /\ first.roles = start.roles /\ first.members = start.members
          /\ first.owner = start.owner /\ first.cutoff = start.cutoff /\ first.seq = start.seq
      BY <2>1 DEF IsRecord, FieldNames
    <2> HIDE DEF first
    <2> QED BY <2>1, <2>2, KeptBySame
  <1>3. /\ P[0] = [g |-> first, applied |-> {}]
        /\ \A t \in 1..MAX_SECOND : P[t] = SecondStep(live, P[t - 1], t)
    <2> HIDE DEF first, live
    <2> QED BY SecondsStep
  <1>4. ApplyActions(start, actions) = P[MAX_SECOND]
    BY DEF ApplyActions
  <1> HIDE DEF P, live, first
  <1>5. ASSUME NEW t \in 1..MAX_SECOND, Kept(start, P[t - 1].g) PROVE Kept(start, P[t].g)
    <2> DEFINE b == P[t - 1]
               second == OfSecond(live, t)
    <2>1. P[t] = SecondStep(live, b, t) /\ Kept(start, b.g)
      BY <1>3, <1>5
    <2>2. AllSteps(second)
      BY <1>1 DEF OfSecond, AllSteps, IdsDiffer
    <2>3. SecondStep(live, b, t) = IF second = {} THEN b ELSE ApplySecond(b, second)
      BY DEF SecondStep, OfSecond
    <2> HIDE DEF b, second
    <2>4. Kept(start, ApplySecond(b, second).g)
      BY <2>1, <2>2, SecondKept
    <2> QED BY <2>1, <2>3, <2>4
  <1>6. 0 \in T /\ \A t \in 1..MAX_SECOND : t - 1 \in T => t \in T
    BY <1>2, <1>3, <1>5, FoldAssumption
  <1> HIDE DEF T
  <1>7. MAX_SECOND \in T
    BY <1>6, UpTo, FoldAssumption
  <1> QED BY <1>4, <1>7 DEF T

\* Four pieces, of one snapshot or of several, make a whole group.
LEMMA PiecesWhole ==
  ASSUME NEW held4, NEW made
  PROVE  Whole(FromPieces(held4, made))
  <1> DEFINE g == FromPieces(held4, made)
             given == held4["roles"].roles
             roles == IF DEFAULT_ROLE \in DOMAIN given THEN given
                      ELSE Insert(given, DEFAULT_ROLE, [perms |-> {}, position |-> 0])
             admins == held4["admins"]
             named == [p \in DOMAIN held4["members"].members |->
                         IF p \in DOMAIN admins.members
                         THEN (admins.members[p] \cap DOMAIN roles) \ {DEFAULT_ROLE} ELSE {}]
  <1>1. IsRecord(g)
    BY DEF FromPieces, IsRecord, FieldNames
  <1>2. /\ g.roles = roles
        /\ g.members = IF g.owner = None THEN named ELSE Insert(named, g.owner, {})
    BY DEF FromPieces
  <1>3. DEFAULT_ROLE \in DOMAIN roles
    BY DEF Insert
  <1> HIDE DEF g, roles
  <1>4. /\ named = [p \in DOMAIN named |-> named[p]]
        /\ \A p \in DOMAIN named : named[p] \subseteq DOMAIN roles \ {DEFAULT_ROLE}
    OBVIOUS
  <1> HIDE DEF named
  <1>5. Whole(g)
    <2>1. CASE g.owner = None
      BY <1>1, <1>2, <1>3, <1>4, <2>1 DEF Whole
    <2>2. CASE g.owner # None
      <3>1. g.members = Insert(named, g.owner, {})
        BY <1>2, <2>2
      <3>2. /\ g.members = [p \in DOMAIN g.members |-> g.members[p]]
            /\ \A p \in DOMAIN g.members : g.members[p] \subseteq DOMAIN roles \ {DEFAULT_ROLE}
            /\ g.owner \in DOMAIN g.members /\ g.members[g.owner] = {}
        BY <1>4, <3>1 DEF Insert
      <3> QED BY <1>1, <1>2, <1>3, <3>2 DEF Whole
    <2> QED BY <2>1, <2>2
  <1> QED BY <1>5 DEF g

(***************************************************************************)
(* Nodes that carry the group.                                             *)
(***************************************************************************)

\* A bounded set of naturals has a greatest element.
LEMMA GreatestNat ==
  ASSUME NEW D, D \subseteq Nat, D # {}, NEW B \in Nat, \A d \in D : d <= B
  PROVE  \E m \in D : \A d \in D : d <= m
  <1> DEFINE T == {x \in Nat : \A d \in D : d <= x}
  <1>1. T \subseteq Nat /\ B \in T
    OBVIOUS
  <1>2. PICK x \in T : \A y \in T : x <= y
    <2> HIDE DEF T
    <2> QED BY <1>1, LeastNat
  <1>3. x \in D
    <2> SUFFICES ASSUME x \notin D PROVE FALSE
      OBVIOUS
    <2>1. x \in Nat /\ \A d \in D : d \in Nat /\ d < x
      BY <1>2
    <2>2. PICK d \in D : TRUE
      OBVIOUS
    <2>3. x - 1 \in Nat
      BY <2>1, <2>2
    <2>4. x - 1 \in T
      BY <2>1, <2>3
    <2> QED BY <1>2, <2>1, <2>4
  <1> QED BY <1>2, <1>3

\* Every node judges by the fold of what it holds; what it holds was signed;
\* and every state event has a date.
NodeInv ==
    /\ signed \in Signings
    /\ held \in [Nodes -> SUBSET signed]
    /\ DOMAIN pieces = Nodes /\ DOMAIN created = Nodes /\ DOMAIN state = Nodes
    /\ \A n \in Nodes : state[n] = Fold(pieces[n], created[n], held[n])
    /\ \A n \in Nodes : DOMAIN pieces[n] = STATE_KINDS
    /\ \A n \in Nodes : \A k \in STATE_KINDS : pieces[n][k].at \in Nat
    /\ signing # None =>
         /\ signing = [read |-> signing.read, seen |-> signing.seen,
                       snap |-> signing.snap, left |-> signing.left]
         /\ signing.snap # None => signing.snap.at \in Nat

\* The newest of the group's events a node holds is the newest.
LEMMA NewestIsNewest ==
  ASSUME NodeInv, NEW n \in Nodes
  PROVE  /\ NewestHeld(n) \in Nat
         /\ \A e \in held[n] : e.at <= NewestHeld(n)
         /\ \A k \in STATE_KINDS : pieces[n][k].at <= NewestHeld(n)
  <1> DEFINE dates == {e.at : e \in held[n]} \cup {pieces[n][k].at : k \in STATE_KINDS}
             B == MAX_SECOND + pieces[n]["metadata"].at + pieces[n]["admins"].at
                    + pieces[n]["members"].at + pieces[n]["roles"].at
  <1>1. \A k \in STATE_KINDS : pieces[n][k].at \in Nat
    BY DEF NodeInv
  <1>2. \A e \in held[n] : e.at \in 1..MAX_SECOND
    BY SigningsAssumption DEF NodeInv, IsAction
  <1>3. /\ pieces[n]["metadata"].at \in Nat /\ pieces[n]["admins"].at \in Nat
        /\ pieces[n]["members"].at \in Nat /\ pieces[n]["roles"].at \in Nat
    BY <1>1 DEF STATE_KINDS
  <1>4. dates \subseteq Nat
    BY <1>1, <1>2, FoldAssumption
  <1>5. dates # {}
    BY DEF STATE_KINDS
  <1>6. B \in Nat
    BY <1>3, FoldAssumption
  <1>7. \A d \in dates : d <= B
    <2>1. \A e \in held[n] : e.at <= B
      BY <1>2, <1>3, FoldAssumption
    <2>2. \A k \in STATE_KINDS : pieces[n][k].at <= B
      BY <1>3, FoldAssumption DEF STATE_KINDS
    <2> HIDE DEF B
    <2> QED BY <2>1, <2>2
  <1>8. NewestHeld(n) = CHOOSE t \in dates : \A u \in dates : u <= t
    BY DEF NewestHeld
  <1>9. (\A e \in held[n] : e.at \in dates) /\ \A k \in STATE_KINDS : pieces[n][k].at \in dates
    OBVIOUS
  <1> HIDE DEF dates, B
  <1>10. \E t \in dates : \A u \in dates : u <= t
    BY <1>4, <1>5, <1>6, <1>7, GreatestNat
  <1>11. NewestHeld(n) \in dates /\ \A u \in dates : u <= NewestHeld(n)
    BY <1>8, <1>10
  <1> QED BY <1>4, <1>9, <1>11

\* The cutoff of four dated events is the date of one of them, and no less
\* than that of any.
LEMMA CutoffIs ==
  ASSUME NEW held4, NEW made, \A k \in STATE_KINDS : held4[k].at \in Nat
  PROVE  FromPieces(held4, made).cutoff \in Nat
  <1> DEFINE four == {held4[k] : k \in STATE_KINDS}
             dates == {s.at : s \in four}
             B == held4["metadata"].at + held4["admins"].at
                    + held4["members"].at + held4["roles"].at
  <1>1. /\ held4["metadata"].at \in Nat /\ held4["admins"].at \in Nat
        /\ held4["members"].at \in Nat /\ held4["roles"].at \in Nat
    BY DEF STATE_KINDS
  <1>2. dates \subseteq Nat /\ dates # {}
    BY DEF STATE_KINDS
  <1>3. B \in Nat
    BY <1>1
  <1>4. \A d \in dates : d <= B
    BY <1>1 DEF STATE_KINDS
  <1>5. FromPieces(held4, made).cutoff = CHOOSE t \in dates : \A s \in four : s.at <= t
    BY DEF FromPieces
  <1>6. \A s \in four : s.at \in dates
    OBVIOUS
  <1> HIDE DEF four, dates, B
  <1>7. \E t \in dates : \A u \in dates : u <= t
    BY <1>2, <1>3, <1>4, GreatestNat
  <1>8. \E t \in dates : \A s \in four : s.at <= t
    BY <1>6, <1>7
  <1> QED BY <1>2, <1>5, <1>8

\* And its seq is that of one of them.
LEMMA SeqIs ==
  ASSUME NEW held4, NEW made, \A k \in STATE_KINDS : held4[k].seq \in Nat
  PROVE  FromPieces(held4, made).seq \in Nat
  <1> DEFINE four == {held4[k] : k \in STATE_KINDS}
             seqs == {s.seq : s \in four}
             B == held4["metadata"].seq + held4["admins"].seq
                    + held4["members"].seq + held4["roles"].seq
  <1>1. /\ held4["metadata"].seq \in Nat /\ held4["admins"].seq \in Nat
        /\ held4["members"].seq \in Nat /\ held4["roles"].seq \in Nat
    BY DEF STATE_KINDS
  <1>2. seqs \subseteq Nat /\ seqs # {} /\ B \in Nat
    BY <1>1 DEF STATE_KINDS
  <1>3. \A d \in seqs : d <= B
    BY <1>1 DEF STATE_KINDS
  <1>4. FromPieces(held4, made).seq = CHOOSE q \in seqs : \A s \in four : s.seq <= q
    BY DEF FromPieces
  <1>5. \A s \in four : s.seq \in seqs
    OBVIOUS
  <1> HIDE DEF four, seqs, B
  <1>6. \E q \in seqs : \A u \in seqs : u <= q
    BY <1>2, <1>3, GreatestNat
  <1>7. \E q \in seqs : \A s \in four : s.seq <= q
    BY <1>5, <1>6
  <1> QED BY <1>2, <1>4, <1>7

\* No node has folded anything but the start.
LEMMA NodeBegins == NInit => NodeInv
  BY StartAssumption DEF NInit, NodeInv

\* A state event is taken at a node.
LEMMA TakePieceInv ==
  ASSUME NodeInv, NEW n \in Nodes, NEW k, NEW s, s.at \in Nat, TakePiece(n, k, s),
         signing' # None =>
           /\ signing' = [read |-> signing'.read, seen |-> signing'.seen,
                          snap |-> signing'.snap, left |-> signing'.left]
           /\ signing'.snap # None => signing'.snap.at \in Nat
  PROVE  NodeInv'
  <1>1. \A m \in Nodes : state'[m] = Fold(pieces'[m], created'[m], held'[m])
    BY DEF NodeInv, TakePiece
  <1>2. \A m \in Nodes : DOMAIN pieces'[m] = STATE_KINDS
    BY DEF NodeInv, TakePiece
  <1>3. \A m \in Nodes : \A j \in STATE_KINDS : pieces'[m][j] = pieces[m][j] \/ pieces'[m][j] = s
    BY DEF NodeInv, TakePiece
  <1>4. \A m \in Nodes : \A j \in STATE_KINDS : pieces'[m][j].at \in Nat
    BY <1>3 DEF NodeInv
  <1> QED BY <1>1, <1>2, <1>4 DEF NodeInv, TakePiece

\* What a compaction signs is what it read, dated after everything held.
LEMMA CompactionDated ==
  ASSUME NodeInv, SignSnapshot
  PROVE  \E at \in Nat : /\ at > NewestHeld(Holder)
                         /\ signing' = [read |-> signing.read, seen |-> signing.seen,
                                        snap |-> ToSnapshot(signing.read, at),
                                        left |-> signing.left]
  <1>1. NewestHeld(Holder) \in Nat
    BY NewestIsNewest, NodesAssumption
  <1>2. PICK now \in Clocks :
          signing' = [signing EXCEPT !.snap = ToSnapshot(signing.read,
                        IF now > NewestHeld(Holder) THEN now ELSE NewestHeld(Holder) + 1)]
    BY DEF SignSnapshot
  <1> DEFINE at == IF now > NewestHeld(Holder) THEN now ELSE NewestHeld(Holder) + 1
  <1>3. at \in Nat /\ at > NewestHeld(Holder)
    BY <1>1, NodeBoundsAssumption
  <1>4. signing' = [signing EXCEPT !.snap = ToSnapshot(signing.read, at)]
    BY <1>2
  <1> HIDE DEF at
  <1>5. signing = [read |-> signing.read, seen |-> signing.seen,
                   snap |-> signing.snap, left |-> signing.left]
    BY DEF NodeInv, SignSnapshot
  <1>6. signing' = [read |-> signing.read, seen |-> signing.seen,
                    snap |-> ToSnapshot(signing.read, at), left |-> signing.left]
    BY <1>4, <1>5
  <1> QED BY <1>3, <1>6

\* What a publish leaves of the compaction.
LEMMA PublishLeaves ==
  ASSUME NodeInv, PublishPiece
  PROVE  \/ signing' = None
         \/ signing' = [read |-> signing.read, seen |-> signing.seen,
                        snap |-> signing.snap, left |-> Tail(signing.left)]
  <1>1. signing = [read |-> signing.read, seen |-> signing.seen,
                   snap |-> signing.snap, left |-> signing.left]
    BY DEF NodeInv, PublishPiece
  <1> QED BY <1>1 DEF PublishPiece

\* Every step keeps each node's state the fold of what it holds.
LEMMA NodeStep == NodeInv /\ [NNext]_nvars => NodeInv'
  <1> SUFFICES ASSUME NodeInv, [NNext]_nvars PROVE NodeInv'
    OBVIOUS
  <1>1. ASSUME NEW n \in Nodes, ReceiveAction(n) PROVE NodeInv'
    BY <1>1 DEF NodeInv, ReceiveAction
  <1>2. ASSUME NEW n \in Nodes, ReceiveCreate(n) PROVE NodeInv'
    BY <1>2 DEF NodeInv, ReceiveCreate
  <1>3. ASSUME NEW n \in Nodes, ReceivePiece(n) PROVE NodeInv'
    <2>1. PICK m \in Nodes \ {n}, k \in STATE_KINDS : TakePiece(n, k, pieces[m][k])
      BY <1>3 DEF ReceivePiece
    <2>2. pieces[m][k].at \in Nat /\ signing' = signing
      BY <1>3 DEF NodeInv, ReceivePiece
    <2>3. signing # None =>
           /\ signing = [read |-> signing.read, seen |-> signing.seen,
                         snap |-> signing.snap, left |-> signing.left]
           /\ signing.snap # None => signing.snap.at \in Nat
      BY DEF NodeInv
    <2> QED BY <2>1, <2>2, <2>3, TakePieceInv
  <1>4. CASE ReadFold
    <2>1. signing' = [read |-> state[Holder].g, seen |-> held[Holder],
                      snap |-> None, left |-> SignOrder]
      BY <1>4 DEF ReadFold
    <2>2. /\ signing' = [read |-> signing'.read, seen |-> signing'.seen,
                         snap |-> signing'.snap, left |-> signing'.left]
          /\ signing'.snap = None
      BY <2>1
    <2> QED BY <1>4, <2>2 DEF NodeInv, ReadFold
  <1>5. CASE SignSnapshot
    <2>1. PICK at \in Nat : signing' = [read |-> signing.read, seen |-> signing.seen,
                                        snap |-> ToSnapshot(signing.read, at),
                                        left |-> signing.left]
      BY <1>5, CompactionDated
    <2>2. /\ signing' = [read |-> signing'.read, seen |-> signing'.seen,
                         snap |-> signing'.snap, left |-> signing'.left]
          /\ signing'.snap = ToSnapshot(signing.read, at)
      BY <2>1
    <2>3. signing'.snap.at \in Nat
      BY <2>2 DEF ToSnapshot
    <2> QED BY <1>5, <2>2, <2>3 DEF NodeInv, SignSnapshot
  <1>6. CASE PublishPiece
    <2>1. TakePiece(Holder, Head(signing.left), signing.snap) /\ signing.snap.at \in Nat
      BY <1>6 DEF PublishPiece, NodeInv
    <2>2. signing' # None =>
            signing' = [read |-> signing.read, seen |-> signing.seen,
                        snap |-> signing.snap, left |-> Tail(signing.left)]
      BY <1>6, PublishLeaves
    <2>3. signing' # None =>
            /\ signing' = [read |-> signing'.read, seen |-> signing'.seen,
                           snap |-> signing'.snap, left |-> signing'.left]
            /\ signing'.snap = signing.snap
      BY <2>2
    <2> QED BY <2>1, <2>3, NodesAssumption, TakePieceInv
  <1>7. CASE Crash
    BY <1>7 DEF NodeInv, Crash
  <1>8. CASE UNCHANGED nvars
    BY <1>8 DEF NodeInv, nvars
  <1> QED BY <1>1, <1>2, <1>3, <1>4, <1>5, <1>6, <1>7, <1>8 DEF NNext

\* At every node the state is the fold of what it holds.
LEMMA NodeInvariance == NSpec => []NodeInv
  BY NodeBegins, NodeStep, PTL DEF NSpec

\* What is recorded of the invites of two sets is what is recorded of each.
LEMMA InvitesOfUnion ==
  ASSUME NEW A, NEW B
  PROVE  InvitesIn(A \cup B) = InvitesIn(A) \cup InvitesIn(B)
  BY DEF InvitesIn

\* A node that refuses what another holds besides is where the fold of both
\* would be.
LEMMA RefusingIsAgreeing ==
  ASSUME NodeInv, NEW n \in Nodes, NEW m \in Nodes, state[n] # None,
         \A e \in held[m] \ held[n] : ~Accepts(n, e), SameInvites(n, m)
  PROVE  Same(state[n], ApplyActions(FromPieces(pieces[n], created[n]), held[n] \cup held[m]))
  <1> DEFINE start == FromPieces(pieces[n], created[n])
             A == held[n]
             X == held[m] \ held[n]
  <1>1. /\ \A actions : Fold(pieces[n], created[n], actions) = ApplyActions(start, actions)
        /\ state[n] = ApplyActions(start, A)
    BY DEF NodeInv, Fold
  <1>2. IdsDiffer(A \cup X) /\ \A e \in A \cup X : IsAction(e)
    <2>1. A \cup X \subseteq signed /\ signed \in Signings
      BY DEF NodeInv
    <2> QED BY <2>1, SigningsAssumption DEF IdsDiffer
  <1>3. Whole(start) /\ start.cutoff \in Nat
    BY PiecesWhole, CutoffIs DEF NodeInv
  <1>4. state[n].g.cutoff = start.cutoff
    <2> HIDE DEF start
    <2>1. IdsDiffer(A) /\ \A e \in A : IsAction(e)
      BY <1>2 DEF IdsDiffer
    <2>2. Kept(start, ApplyActions(start, A).g)
      BY <1>3, <2>1, ActionsKept
    <2> QED BY <1>1, <2>2 DEF Kept
  <1>5. InvitesIn(A \cup X) = InvitesIn(A)
    <2>1. A \cup X = held[n] \cup held[m]
      OBVIOUS
    <2>2. InvitesIn(held[n] \cup held[m]) = InvitesIn(held[n]) \cup InvitesIn(held[m])
      BY InvitesOfUnion
    <2>3. InvitesIn(held[n] \cup held[m]) = InvitesIn(held[n])
      BY <2>2 DEF SameInvites
    <2> QED BY <2>1, <2>3
  <1>6. ASSUME NEW e \in LiveIn(start, X) PROVE e \notin ApplyActions(start, A \cup {e}).applied
    <2>1. e \in X /\ e.kind # "invite" /\ e.at >= start.cutoff /\ e.at \in Nat
      BY <1>2, <1>6, FoldAssumption DEF LiveIn, IsAction
    <2>2. ~Accepts(n, e)
      BY <2>1
    <2>3. ~IsFolded(n, e)
      BY <1>3, <1>4, <2>1 DEF IsFolded
    <2>4. e \notin Fold(pieces[n], created[n], held[n] \cup {e}).applied
      BY <2>1, <2>2, <2>3 DEF Accepts
    <2> QED BY <1>1, <2>4
  <1>7. A \cap X = {} /\ A \cup X = held[n] \cup held[m]
    OBVIOUS
  <1>8. Same(ApplyActions(start, A), ApplyActions(start, A \cup X))
    <2> HIDE DEF start, A, X
    <2>1. IsRecord(start)
      BY <1>3 DEF Whole
    <2>2. A \cap X = {} /\ IdsDiffer(A \cup X) /\ (\A e \in A \cup X : IsAction(e))
      BY <1>2, <1>7
    <2>3. \A e \in LiveIn(start, X) : e \notin ApplyActions(start, A \cup {e}).applied
      BY <1>6
    <2> QED BY <1>5, <2>1, <2>2, <2>3, RefusedLeaveNoTrace
  <1> QED BY <1>1, <1>7, <1>8

\* Settled nodes that know the same invites are in the same state, but for
\* silences.
LEMMA SettledAreSame ==
  ASSUME NodeInv, NEW n \in Nodes, NEW m \in Nodes, Settled(n, m), SameInvites(n, m)
  PROVE  Like(state[n].g, state[m].g) /\ state[n].applied = state[m].applied
  <1> DEFINE both == ApplyActions(FromPieces(pieces[n], created[n]), held[n] \cup held[m])
  <1>1. Same(state[n], both)
    BY RefusingIsAgreeing DEF Settled
  <1>2. Same(state[m], both)
    <2>1. SameInvites(m, n) /\ held[m] \cup held[n] = held[n] \cup held[m]
      BY DEF SameInvites
    <2>2. Same(state[m], ApplyActions(FromPieces(pieces[m], created[m]), held[m] \cup held[n]))
      BY <2>1, RefusingIsAgreeing DEF Settled
    <2> QED BY <2>1, <2>2 DEF Settled
  <1> HIDE DEF both
  <1> QED BY <1>1, <1>2 DEF Same, Like

\* "Every peer skips the same ones": whatever the people sign, in whatever
\* order and number it reaches the nodes, settled nodes that know the same
\* invites have applied the same actions.
THEOREM SettledSkipTheSame == NSpec => []SkipTheSame
  <1>1. NodeInv => SkipTheSame
    BY SettledAreSame DEF SkipTheSame
  <1> QED BY <1>1, NodeInvariance, PTL

\* And they answer every permission question alike.
THEOREM SettledAgree == NSpec => []Agreement
  <1>1. NodeInv => Agreement
    BY SettledAreSame DEF Agreement, Standing, Like
  <1> QED BY <1>1, NodeInvariance, PTL

(***************************************************************************)
(* Compaction.                                                             *)
(***************************************************************************)

\* A fold without live actions is its snapshot.
LEMMA NothingLive ==
  ASSUME NEW start, NEW actions, LiveIn(start, actions) = {}
  PROVE  ApplyActions(start, actions) =
            [g |-> [start EXCEPT !.invites = InvitesIn(actions)], applied |-> {}]
  <1> DEFINE first == [start EXCEPT !.invites = InvitesIn(actions)]
             P == Seconds(first, {})
             T == {t \in 0..MAX_SECOND : P[t] = P[0]}
  <1>1. /\ P[0] = [g |-> first, applied |-> {}]
        /\ \A t \in 1..MAX_SECOND : P[t] = SecondStep({}, P[t - 1], t)
    <2> HIDE DEF first
    <2> QED BY SecondsStep
  <1>2. ApplyActions(start, actions) = P[MAX_SECOND]
    BY DEF ApplyActions
  <1> HIDE DEF P, first
  <1>3. \A acc, t : SecondStep({}, acc, t) = acc
    BY DEF SecondStep
  <1>4. 0 \in T /\ \A t \in 1..MAX_SECOND : t - 1 \in T => t \in T
    BY <1>1, <1>3, FoldAssumption
  <1> HIDE DEF T
  <1>5. MAX_SECOND \in T
    BY <1>4, UpTo, FoldAssumption
  <1> QED BY <1>1, <1>2, <1>5 DEF T, first

\* Its four events read back, a snapshot of a whole group answers every
\* permission question as the group does.
LEMMA SnapshotReadsBack ==
  ASSUME NEW g, Whole(g), NEW at
  PROVE  LET back == FromPieces([k \in STATE_KINDS |-> ToSnapshot(g, at)], TRUE)
         IN Standing(back) = Standing(g) /\ (at \in Nat => back.cutoff = at) /\ IsRecord(back)
  <1> DEFINE snap == ToSnapshot(g, at)
             four == [k \in STATE_KINDS |-> snap]
             back == FromPieces(four, TRUE)
             given == snap.roles
             named == [p \in DOMAIN snap.members |->
                         IF p \in DOMAIN snap.members
                         THEN (snap.members[p] \cap DOMAIN given) \ {DEFAULT_ROLE} ELSE {}]
             dates == {s.at : s \in {four[k] : k \in STATE_KINDS}}
  <1>1. /\ four["metadata"] = snap /\ four["admins"] = snap
        /\ four["members"] = snap /\ four["roles"] = snap
    BY DEF STATE_KINDS
  <1>2. {four[k] : k \in STATE_KINDS} = {snap}
    BY DEF STATE_KINDS
  <1>3. /\ snap.at = at /\ snap.owner = g.owner /\ snap.members = g.members /\ snap.roles = g.roles
        /\ snap.bans = g.bans /\ snap.mutes = g.mutes /\ snap.channels = g.channels
        /\ snap.overrides = g.overrides /\ snap.public = g.public
        /\ snap.newcomer_wait = g.newcomer_wait
    BY DEF ToSnapshot
  <1> HIDE DEF snap
  <1>4. DEFAULT_ROLE \in DOMAIN given
    BY <1>3 DEF Whole
  <1> HIDE DEF four
  <1>5. /\ back.owner = snap.owner /\ back.roles = given /\ back.bans = snap.bans
        /\ back.mutes = snap.mutes /\ back.channels = snap.channels
        /\ back.overrides = snap.overrides /\ back.public = snap.public
        /\ back.newcomer_wait = snap.newcomer_wait
        /\ back.members = IF snap.owner = None THEN named ELSE Insert(named, snap.owner, {})
    BY <1>1, <1>4 DEF FromPieces
  <1>6. named = g.members
    <2>1. \A p \in DOMAIN g.members : (g.members[p] \cap DOMAIN g.roles) \ {DEFAULT_ROLE} = g.members[p]
      BY DEF Whole
    <2>2. g.members = [p \in DOMAIN g.members |-> g.members[p]]
      BY DEF Whole
    <2> QED BY <1>3, <2>1, <2>2
  <1>7. back.members = g.members
    <2> HIDE DEF named
    <2>1. CASE g.owner = None
      BY <1>3, <1>5, <1>6, <2>1
    <2>2. CASE g.owner # None
      <3>1. /\ g.owner \in DOMAIN g.members /\ g.members[g.owner] = {}
            /\ g.members = [p \in DOMAIN g.members |-> g.members[p]]
        BY <2>2 DEF Whole
      <3>2. Insert(g.members, g.owner, {}) = g.members
        BY <3>1 DEF Insert
      <3> QED BY <1>3, <1>5, <1>6, <2>2, <3>2
    <2> QED BY <2>1, <2>2
  <1>8. at \in Nat => back.cutoff = at
    <2>1. back.cutoff = CHOOSE t \in {s.at : s \in {snap}} : \A s \in {snap} : s.at <= t
      BY <1>2 DEF FromPieces
    <2>2. {s.at : s \in {snap}} = {at}
      BY <1>3
    <2> HIDE DEF back
    <2>3. at \in Nat => (\E t \in {at} : \A s \in {snap} : s.at <= t)
      BY <1>3
    <2> QED BY <2>1, <2>2, <2>3
  <1>9. IsRecord(back)
    BY DEF FromPieces, IsRecord, FieldNames
  <1>10. Standing(back) = Standing(g)
    <2> HIDE DEF back
    <2> QED BY <1>3, <1>5, <1>7 DEF Standing
  <1> QED BY <1>8, <1>9, <1>10 DEF four, snap

\* A pass applies only what was pending.
LEMMA PassApplies ==
  ASSUME NEW s
  PROVE  /\ RetainPass(s).applied \subseteq s.applied \cup s.pending
         /\ RetainPass(s).pending \subseteq s.pending
  <1> DEFINE P == PassOver(s)
             Holds(n) == /\ P[n].applied \subseteq s.applied \cup s.pending
                         /\ P[n].pending \subseteq s.pending
             T == {n \in 0..MAX_ID : Holds(n)}
  <1>1. /\ P[0] = [g |-> s.g, applied |-> s.applied, pending |-> {}]
        /\ \A n \in 1..MAX_ID : P[n] = RetainStep(s.pending, P[n - 1], n)
    BY PassOverStep
  <1>2. RetainPass(s) = P[MAX_ID]
    BY DEF RetainPass
  <1> HIDE DEF P
  <1>3. ASSUME NEW n \in 1..MAX_ID, Holds(n - 1) PROVE Holds(n)
    <2> DEFINE acc == P[n - 1]
    <2>1. /\ P[n] = RetainStep(s.pending, acc, n)
          /\ acc.applied \subseteq s.applied \cup s.pending /\ acc.pending \subseteq s.pending
      BY <1>1, <1>3
    <2> HIDE DEF acc
    <2>2. P[n] = acc \/ \E e \in s.pending : P[n] = Retain(acc, e, Apply(acc.g, e))
      BY <2>1 DEF RetainStep
    <2>3. \A e, r : /\ Retain(acc, e, r).applied \subseteq acc.applied \cup {e}
                    /\ Retain(acc, e, r).pending \subseteq acc.pending \cup {e}
      BY DEF Retain
    <2> QED BY <2>1, <2>2, <2>3
  <1>4. 0 \in T /\ \A n \in 1..MAX_ID : n - 1 \in T => n \in T
    BY <1>1, <1>3, FoldAssumption
  <1> HIDE DEF T
  <1>5. MAX_ID \in T
    BY <1>4, UpTo, FoldAssumption
  <1> QED BY <1>2, <1>5 DEF T

\* A second applies only what is of it.
LEMMA SecondApplies ==
  ASSUME NEW s, NEW second
  PROVE  ApplySecond(s, second).applied \subseteq s.applied \cup second
  <1> DEFINE P == Passes(s, second)
             Holds(i) == /\ P[i].applied \subseteq s.applied \cup second
                         /\ P[i].pending \subseteq second
             T == {i \in 0..MAX_ID : Holds(i)}
  <1>1. /\ P[0] = [g |-> s.g, applied |-> s.applied, pending |-> second, done |-> FALSE]
        /\ \A i \in 1..MAX_ID : P[i] = LoopStep(P[i - 1])
    BY PassesStep
  <1>2. ApplySecond(s, second).applied = P[MAX_ID].applied
    BY DEF ApplySecond, Folded
  <1> HIDE DEF P
  <1>3. ASSUME NEW i \in 1..MAX_ID, Holds(i - 1) PROVE Holds(i)
    <2> DEFINE b == P[i - 1]
    <2>1. /\ P[i] = LoopStep(b)
          /\ b.applied \subseteq s.applied \cup second /\ b.pending \subseteq second
      BY <1>1, <1>3
    <2> HIDE DEF b
    <2>2. /\ RetainPass(b).applied \subseteq b.applied \cup b.pending
          /\ RetainPass(b).pending \subseteq b.pending
      BY PassApplies
    <2>3. \/ LoopStep(b) = b
          \/ /\ LoopStep(b).applied = RetainPass(b).applied
             /\ LoopStep(b).pending = RetainPass(b).pending
      BY DEF LoopStep, Passed
    <2> QED BY <2>1, <2>2, <2>3
  <1>4. 0 \in T /\ \A i \in 1..MAX_ID : i - 1 \in T => i \in T
    BY <1>1, <1>3, FoldAssumption
  <1> HIDE DEF T
  <1>5. MAX_ID \in T
    BY <1>4, UpTo, FoldAssumption
  <1> QED BY <1>2, <1>5 DEF T

\* The fold applies only live actions.
LEMMA OnlyLiveApply ==
  ASSUME NEW start, NEW actions
  PROVE  ApplyActions(start, actions).applied \subseteq LiveIn(start, actions)
  <1> DEFINE live == LiveIn(start, actions)
             first == [start EXCEPT !.invites = InvitesIn(actions)]
             P == Seconds(first, live)
             T == {t \in 0..MAX_SECOND : P[t].applied \subseteq live}
  <1>1. /\ P[0] = [g |-> first, applied |-> {}]
        /\ \A t \in 1..MAX_SECOND : P[t] = SecondStep(live, P[t - 1], t)
    <2> HIDE DEF first, live
    <2> QED BY SecondsStep
  <1>2. ApplyActions(start, actions) = P[MAX_SECOND]
    BY DEF ApplyActions
  <1> HIDE DEF P, first, live
  <1>3. ASSUME NEW t \in 1..MAX_SECOND, P[t - 1].applied \subseteq live
        PROVE  P[t].applied \subseteq live
    <2> DEFINE b == P[t - 1]
               second == {e \in live : e.at = t}
    <2>1. P[t] = SecondStep(live, b, t) /\ b.applied \subseteq live /\ second \subseteq live
      BY <1>1, <1>3
    <2>2. SecondStep(live, b, t) = IF second = {} THEN b ELSE ApplySecond(b, second)
      BY DEF SecondStep
    <2> HIDE DEF b, second
    <2>3. ApplySecond(b, second).applied \subseteq b.applied \cup second
      BY SecondApplies
    <2> QED BY <2>1, <2>2, <2>3
  <1>4. 0 \in T /\ \A t \in 1..MAX_SECOND : t - 1 \in T => t \in T
    BY <1>1, <1>3, FoldAssumption
  <1> HIDE DEF T
  <1>5. MAX_SECOND \in T
    BY <1>4, UpTo, FoldAssumption
  <1> QED BY <1>2, <1>5 DEF T, live

\* A state event that replaces no other of its kind.
NotNewer(s, than) == s.seq < than.seq \/ (s.seq = than.seq /\ s.at <= than.at)

\* What the compaction has published of its four events, the holder still has.
PublishedInv ==
    LET left == signing.left
        In(k) == pieces[Holder][k] = signing.snap
    IN \/ left = <<"metadata", "admins", "members", "roles">>
       \/ left = <<"admins", "members", "roles">> /\ In("metadata")
       \/ left = <<"members", "roles">> /\ In("metadata") /\ In("admins")
       \/ left = <<"roles">> /\ In("metadata") /\ In("admins") /\ In("members")

\* What was read is a whole group, what it saw is still held, and what was
\* signed is what was read, dated after everything seen.
ReadingInv ==
    /\ Whole(signing.read) /\ signing.read.seq \in Nat
    /\ signing.seen \subseteq held[Holder]
    /\ signing.snap = None => signing.left = SignOrder
    /\ signing.snap # None =>
         /\ \E at \in Nat : /\ signing.snap = ToSnapshot(signing.read, at)
                            /\ \A e \in signing.seen : e.at < at
         /\ PublishedInv

\* The holder knows who made the group, every node has all four events, and
\* none has a newer one than the holder.
HolderInv ==
    /\ created[Holder] = TRUE
    /\ \A n \in Nodes : \A k \in STATE_KINDS :
         /\ pieces[n][k] # None /\ pieces[n][k].seq \in Nat
         /\ NotNewer(pieces[n][k], pieces[Holder][k])
    /\ signing # None => ReadingInv

\* What a snapshot stands for: nothing dated before it is applied on top of
\* it, and alone it answers as the group it was taken of.
LEMMA SnapshotStands ==
  ASSUME NEW g, Whole(g), NEW at \in Nat, NEW A, \A e \in A : e.at \in Nat,
         \A h, t : ToSnapshot(h, t) # None
  PROVE  LET after == Fold([k \in STATE_KINDS |-> ToSnapshot(g, at)], TRUE, A)
         IN /\ after.applied \subseteq {e \in A : ~(e.at < at)}
            /\ (\A e \in A : e.at < at) => Standing(after.g) = Standing(g)
  <1> DEFINE four == [k \in STATE_KINDS |-> ToSnapshot(g, at)]
             back == FromPieces(four, TRUE)
             first == [back EXCEPT !.invites = InvitesIn(A)]
  <1>1. Standing(back) = Standing(g) /\ back.cutoff = at /\ IsRecord(back)
    BY SnapshotReadsBack
  <1>2. Fold(four, TRUE, A) = ApplyActions(back, A)
    <2>1. \A k \in STATE_KINDS : four[k] # None
      OBVIOUS
    <2> HIDE DEF four
    <2> QED BY <2>1 DEF Fold
  <1> HIDE DEF back, four
  <1>3. LiveIn(back, A) \subseteq {e \in A : ~(e.at < at)}
    BY <1>1 DEF LiveIn
  <1>4. ApplyActions(back, A).applied \subseteq LiveIn(back, A)
    BY OnlyLiveApply
  <1>5. ASSUME \A e \in A : e.at < at PROVE Standing(ApplyActions(back, A).g) = Standing(g)
    <2>1. LiveIn(back, A) = {}
      BY <1>3, <1>5
    <2>2. ApplyActions(back, A) = [g |-> first, applied |-> {}]
      BY <2>1, NothingLive
    <2>3. Standing(first) = Standing(back)
      BY <1>1 DEF Standing, IsRecord, FieldNames
    <2> HIDE DEF first
    <2> QED BY <1>1, <2>2, <2>3
  <1> QED BY <1>2, <1>3, <1>4, <1>5 DEF four

\* The four events are in.
LEMMA CompactionIsQuiet ==
  ASSUME NodeInv, HolderInv, PublishPiece, Len(signing.left) = 1,
         \A g, at : ToSnapshot(g, at) # None
  PROVE  LET since == held[Holder] \ signing.seen
         IN /\ state'[Holder].applied \subseteq since
            /\ (\A e \in since : e.at < signing.snap.at)
                 => Standing(state'[Holder].g) = Standing(signing.read)
  <1> DEFINE A == held[Holder]
  <1>0. signing # None /\ signing.snap # None /\ ReadingInv
    BY DEF PublishPiece, HolderInv
  <1>1. PICK at \in Nat : /\ signing.snap = ToSnapshot(signing.read, at)
                         /\ \A e \in signing.seen : e.at < at
    BY <1>0 DEF ReadingInv
  <1>2. signing.snap.at = at
    BY <1>1 DEF ToSnapshot
  <1>3. \A e \in A : e.at \in Nat
    BY NodesAssumption, SigningsAssumption, FoldAssumption DEF NodeInv, IsAction
  <1>4. /\ signing.left = <<"roles">>
        /\ \A k \in {"metadata", "admins", "members"} : pieces[Holder][k] = signing.snap
    BY <1>0 DEF ReadingInv, PublishedInv
  <1>5. pieces'[Holder] = [k \in STATE_KINDS |-> ToSnapshot(signing.read, at)]
    <2>1. Head(signing.left) = "roles"
      BY <1>4
    <2>2. pieces' = [pieces EXCEPT ![Holder]["roles"] = signing.snap]
      BY <2>1 DEF PublishPiece, TakePiece
    <2>3. pieces'[Holder] = [pieces[Holder] EXCEPT !["roles"] = signing.snap]
      BY <2>2, NodesAssumption DEF NodeInv
    <2>4. DOMAIN pieces[Holder] = STATE_KINDS
      BY NodesAssumption DEF NodeInv
    <2>5. DOMAIN pieces'[Holder] = STATE_KINDS
      BY <2>3, <2>4
    <2>6. \A k \in STATE_KINDS : pieces'[Holder][k] = signing.snap
      BY <1>4, <2>3, <2>4 DEF STATE_KINDS
    <2>7. pieces'[Holder] = [k \in STATE_KINDS |-> pieces'[Holder][k]]
      BY <2>3, <2>4
    <2> QED BY <1>1, <2>5, <2>6, <2>7
  <1>6. state'[Holder] = Fold(pieces'[Holder], TRUE, A)
    BY NodesAssumption DEF PublishPiece, TakePiece, NodeInv, HolderInv
  <1>7. Whole(signing.read)
    BY <1>0 DEF ReadingInv
  <1>8. /\ state'[Holder].applied \subseteq {e \in A : ~(e.at < at)}
        /\ (\A e \in A : e.at < at) => Standing(state'[Holder].g) = Standing(signing.read)
    <2> DEFINE r == signing.read
               after == Fold([k \in STATE_KINDS |-> ToSnapshot(r, at)], TRUE, A)
    <2>1. state'[Holder] = after
      BY <1>5, <1>6
    <2>2. Whole(r)
      BY <1>7
    <2> HIDE DEF A, r
    <2>3. /\ after.applied \subseteq {e \in A : ~(e.at < at)}
          /\ (\A e \in A : e.at < at) => Standing(after.g) = Standing(r)
      BY <1>3, <2>2, SnapshotStands
    <2> HIDE DEF after
    <2> QED BY <2>1, <2>3 DEF r
  <1> QED BY <1>1, <1>2, <1>8

\* The nodes begin with a whole snapshot, the holder with the 9007 besides.
LEMMA HolderBegins == NInit => HolderInv
  <1> SUFFICES ASSUME NInit PROVE HolderInv
    OBVIOUS
  <1>1. created = [n \in Nodes |-> n = Holder] /\ Holder \in Nodes
    BY NodesAssumption DEF NInit
  <1>2. created[Holder] = (Holder = Holder)
    BY <1>1
  <1>3. (Holder = Holder) = TRUE
    OBVIOUS
  <1>4. created[Holder] = TRUE
    BY <1>2, <1>3
  <1>5. \A n \in Nodes : \A k \in STATE_KINDS : pieces[n][k] = Start
    BY DEF NInit
  <1>6. signing = None
    BY DEF NInit
  <1> QED BY <1>1, <1>4, <1>5, <1>6, StartAssumption DEF HolderInv, NotNewer

\* A node takes a state event that does not replace the holder's.
LEMMA PieceTaken ==
  ASSUME NodeInv, HolderInv, NEW n \in Nodes, NEW k \in STATE_KINDS, NEW s,
         s # None, s.seq \in Nat, s.at \in Nat, TakePiece(n, k, s),
         n = Holder \/ NotNewer(s, pieces[Holder][k])
  PROVE  /\ created' = created
         /\ \A m \in Nodes : \A j \in STATE_KINDS :
              /\ pieces'[m][j] # None /\ pieces'[m][j].seq \in Nat
              /\ NotNewer(pieces'[m][j], pieces'[Holder][j])
  <1>1. /\ created' = created /\ Replaces(s, pieces[n][k])
        /\ pieces' = [pieces EXCEPT ![n][k] = s]
    BY DEF TakePiece
  <1>2. \A m \in Nodes : \A j \in STATE_KINDS :
          pieces'[m][j] = IF m = n /\ j = k THEN s ELSE pieces[m][j]
    BY <1>1 DEF NodeInv
  <1>3. \A m \in Nodes : \A j \in STATE_KINDS :
          /\ pieces[m][j] # None /\ pieces[m][j].seq \in Nat /\ pieces[m][j].at \in Nat
          /\ NotNewer(pieces[m][j], pieces[Holder][j])
    BY DEF NodeInv, HolderInv
  <1>4. \A m \in Nodes : \A j \in STATE_KINDS :
          pieces'[m][j] # None /\ pieces'[m][j].seq \in Nat
    BY <1>2, <1>3
  <1>5. ASSUME NEW m \in Nodes, NEW j \in STATE_KINDS
        PROVE  NotNewer(pieces'[m][j], pieces'[Holder][j])
    <2>1. CASE n = Holder /\ j = k
      <3>1. pieces'[Holder][k] = s /\ (pieces'[m][k] = s \/ pieces'[m][k] = pieces[m][k])
        BY <1>2, <2>1, NodesAssumption
      <3> DEFINE h == pieces[Holder][k]
                 o == pieces[m][k]
      <3>2. Replaces(s, h) /\ h # None /\ NotNewer(o, h)
        BY <1>1, <1>3, <2>1, NodesAssumption
      <3>3. o.seq \in Nat /\ o.at \in Nat /\ h.seq \in Nat /\ h.at \in Nat
        BY <1>3, NodesAssumption
      <3> HIDE DEF h, o
      <3>4. NotNewer(o, s) /\ NotNewer(s, s)
        BY <3>2, <3>3 DEF NotNewer, Replaces
      <3> QED BY <2>1, <3>1, <3>4 DEF o
    <2>2. CASE ~(n = Holder /\ j = k)
      <3>1. pieces'[Holder][j] = pieces[Holder][j]
        BY <1>2, <2>2, NodesAssumption
      <3>2. CASE m = n /\ j = k
        BY <1>2, <2>2, <3>1, <3>2
      <3>3. CASE ~(m = n /\ j = k)
        BY <1>2, <1>3, <3>1, <3>3
      <3> QED BY <3>2, <3>3
    <2> QED BY <2>1, <2>2
  <1> QED BY <1>1, <1>4, <1>5

\* No other node has a state event the holder would take.
LEMMA NothingNewToHolder ==
  ASSUME NodeInv, HolderInv
  PROVE  ~ReceivePiece(Holder)
  <1> SUFFICES ASSUME NEW m \in Nodes, NEW k \in STATE_KINDS, TakePiece(Holder, k, pieces[m][k])
               PROVE  FALSE
    BY DEF ReceivePiece
  <1>1. Replaces(pieces[m][k], pieces[Holder][k])
    BY DEF TakePiece
  <1>2. /\ pieces[Holder][k] # None /\ NotNewer(pieces[m][k], pieces[Holder][k])
        /\ pieces[m][k].seq \in Nat /\ pieces[Holder][k].seq \in Nat
        /\ pieces[m][k].at \in Nat /\ pieces[Holder][k].at \in Nat
    BY NodesAssumption DEF NodeInv, HolderInv
  <1> QED BY <1>1, <1>2 DEF Replaces, NotNewer

\* What the holder holds is folded to a whole group.
LEMMA HoldersWhole ==
  ASSUME NodeInv, HolderInv
  PROVE  Whole(state[Holder].g) /\ state[Holder].g.seq \in Nat
  <1> DEFINE A == held[Holder]
             begun == FromPieces(pieces[Holder], created[Holder])
  <1>1. IdsDiffer(A) /\ \A e \in A : IsAction(e)
    <2>1. A \subseteq signed /\ signed \in Signings
      BY NodesAssumption DEF NodeInv
    <2> QED BY <2>1, SigningsAssumption DEF IdsDiffer
  <1>2. state[Holder] = ApplyActions(begun, A)
    BY NodesAssumption DEF NodeInv, HolderInv, Fold
  <1>3. Whole(begun) /\ begun.seq \in Nat
    BY PiecesWhole, SeqIs, NodesAssumption DEF HolderInv
  <1> HIDE DEF begun, A
  <1>4. Kept(begun, ApplyActions(begun, A).g)
    BY <1>1, <1>3, ActionsKept
  <1> QED BY <1>2, <1>3, <1>4 DEF Kept

\* A piece of the snapshot is published.
LEMMA PublishKeeps ==
  ASSUME NodeInv, HolderInv, PublishPiece
  PROVE  HolderInv'
  <1>0. signing # None /\ signing.snap # None /\ ReadingInv
    BY DEF PublishPiece, HolderInv
  <1>1. PICK at \in Nat : /\ signing.snap = ToSnapshot(signing.read, at)
                         /\ \A e \in signing.seen : e.at < at
    BY <1>0 DEF ReadingInv
  <1>2. signing.snap.at \in Nat /\ signing.snap.seq \in Nat
    BY <1>0, <1>1 DEF ToSnapshot, ReadingInv
  <1>3. PublishedInv
    BY <1>0 DEF ReadingInv
  <1> DEFINE k == Head(signing.left)
  <1>4. k \in STATE_KINDS
    BY <1>3 DEF PublishedInv, STATE_KINDS
  <1>5. TakePiece(Holder, k, signing.snap) /\ held' = held
    BY DEF PublishPiece, TakePiece
  <1>6. /\ created' = created
        /\ \A m \in Nodes : \A j \in STATE_KINDS :
              /\ pieces'[m][j] # None /\ pieces'[m][j].seq \in Nat
              /\ NotNewer(pieces'[m][j], pieces'[Holder][j])
    <2> HIDE DEF k
    <2> QED BY <1>0, <1>2, <1>4, <1>5, NodesAssumption, PieceTaken
  <1>7. \A j \in STATE_KINDS : pieces'[Holder][j] = IF j = k THEN signing.snap ELSE pieces[Holder][j]
    <2> HIDE DEF k
    <2> QED BY <1>5, NodesAssumption DEF NodeInv, TakePiece
  <1>8. ASSUME signing' # None PROVE ReadingInv'
    <2>1. /\ signing' = [read |-> signing.read, seen |-> signing.seen,
                         snap |-> signing.snap, left |-> Tail(signing.left)]
          /\ Len(signing.left) # 1
      BY <1>8, PublishLeaves DEF PublishPiece
    <2>2. /\ signing'.read = signing.read /\ signing'.seen = signing.seen
          /\ signing'.snap = signing.snap /\ signing'.left = Tail(signing.left)
      BY <2>1
    <2>3. PublishedInv'
      <3>1. CASE signing.left = <<"metadata", "admins", "members", "roles">>
        <4>1. k = "metadata" /\ Tail(signing.left) = <<"admins", "members", "roles">>
          BY <3>1
        <4> QED BY <1>7, <2>2, <4>1 DEF PublishedInv, STATE_KINDS
      <3>2. CASE signing.left = <<"admins", "members", "roles">> /\ pieces[Holder]["metadata"] = signing.snap
        <4>1. k = "admins" /\ Tail(signing.left) = <<"members", "roles">>
          BY <3>2
        <4> QED BY <1>7, <2>2, <3>2, <4>1 DEF PublishedInv, STATE_KINDS
      <3>3. CASE /\ signing.left = <<"members", "roles">> /\ pieces[Holder]["metadata"] = signing.snap
                 /\ pieces[Holder]["admins"] = signing.snap
        <4>1. k = "members" /\ Tail(signing.left) = <<"roles">>
          BY <3>3
        <4> QED BY <1>7, <2>2, <3>3, <4>1 DEF PublishedInv, STATE_KINDS
      <3>4. signing.left # <<"roles">>
        <4>1. Len(<<"roles">>) = 1
          OBVIOUS
        <4> QED BY <2>1, <4>1
      <3> QED BY <1>3, <3>1, <3>2, <3>3, <3>4 DEF PublishedInv
    <2> QED BY <1>0, <1>1, <1>5, <2>2, <2>3 DEF ReadingInv
  <1> QED BY <1>6, <1>8, NodesAssumption DEF HolderInv

\* No step takes a piece from a node, or the 9007 from the holder, or what a
\* compaction has read or published.
LEMMA HolderStep ==
  ASSUME \A g, at : ToSnapshot(g, at) # None
  PROVE  NodeInv /\ HolderInv /\ [NNext]_nvars => HolderInv'
  <1> SUFFICES ASSUME NodeInv, HolderInv, [NNext]_nvars PROVE HolderInv'
    OBVIOUS
  <1>1. ASSUME NEW n \in Nodes, ReceiveAction(n) PROVE HolderInv'
    <2>1. /\ UNCHANGED <<pieces, created, signing>>
          /\ held[Holder] \subseteq held'[Holder]
      BY <1>1, NodesAssumption DEF ReceiveAction, NodeInv
    <2> QED BY <2>1 DEF HolderInv, ReadingInv, PublishedInv
  <1>2. ASSUME NEW n \in Nodes, ReceiveCreate(n) PROVE HolderInv'
    <2>1. UNCHANGED <<held, pieces, signing>> /\ created'[Holder] = TRUE
      BY <1>2, NodesAssumption DEF ReceiveCreate, NodeInv, HolderInv
    <2> QED BY <2>1 DEF HolderInv, ReadingInv, PublishedInv
  <1>3. ASSUME NEW n \in Nodes, ReceivePiece(n) PROVE HolderInv'
    <2>1. PICK m \in Nodes \ {n}, k \in STATE_KINDS : TakePiece(n, k, pieces[m][k])
      BY <1>3 DEF ReceivePiece
    <2>2. /\ pieces[m][k] # None /\ pieces[m][k].seq \in Nat /\ pieces[m][k].at \in Nat
          /\ NotNewer(pieces[m][k], pieces[Holder][k])
      BY DEF NodeInv, HolderInv
    <2>3. /\ created' = created
          /\ \A i \in Nodes : \A j \in STATE_KINDS :
               /\ pieces'[i][j] # None /\ pieces'[i][j].seq \in Nat
               /\ NotNewer(pieces'[i][j], pieces'[Holder][j])
      BY <2>1, <2>2, PieceTaken
    <2>4. n # Holder
      BY <1>3, NothingNewToHolder
    <2>5. UNCHANGED <<held, signing>> /\ pieces'[Holder] = pieces[Holder]
      BY <1>3, <2>1, <2>4, NodesAssumption DEF ReceivePiece, TakePiece, NodeInv
    <2> QED BY <2>3, <2>5, NodesAssumption DEF HolderInv, ReadingInv, PublishedInv
  <1>4. CASE ReadFold
    <2>1. /\ signing' = [read |-> state[Holder].g, seen |-> held[Holder],
                         snap |-> None, left |-> SignOrder]
          /\ UNCHANGED <<held, pieces, created>>
      BY <1>4 DEF ReadFold
    <2>2. /\ signing'.read = state[Holder].g /\ signing'.seen = held[Holder]
          /\ signing'.snap = None /\ signing'.left = SignOrder
      BY <2>1
    <2>3. Whole(state[Holder].g) /\ state[Holder].g.seq \in Nat
      BY HoldersWhole
    <2>4. ReadingInv'
      BY <2>1, <2>2, <2>3 DEF ReadingInv
    <2> QED BY <2>1, <2>4 DEF HolderInv
  <1>5. CASE SignSnapshot
    <2>1. PICK at \in Nat : /\ at > NewestHeld(Holder)
                           /\ signing' = [read |-> signing.read, seen |-> signing.seen,
                                          snap |-> ToSnapshot(signing.read, at),
                                          left |-> signing.left]
      BY <1>5, CompactionDated
    <2>2. /\ signing'.read = signing.read /\ signing'.seen = signing.seen
          /\ signing'.snap = ToSnapshot(signing.read, at) /\ signing'.left = signing.left
      BY <2>1
    <2>3. ReadingInv /\ signing.left = SignOrder /\ UNCHANGED <<held, pieces, created>>
      BY <1>5 DEF SignSnapshot, HolderInv, ReadingInv
    <2>4. \A e \in signing.seen : e.at < at
      <3>1. NewestHeld(Holder) \in Nat /\ \A e \in held[Holder] : e.at <= NewestHeld(Holder)
        BY NewestIsNewest, NodesAssumption
      <3>2. \A e \in held[Holder] : e.at \in Nat
        BY NodesAssumption, SigningsAssumption, FoldAssumption DEF NodeInv, IsAction
      <3>3. signing.seen \subseteq held[Holder]
        BY <2>3 DEF ReadingInv
      <3>4. \A e \in held[Holder] : e.at < at
        BY <2>1, <3>1, <3>2
      <3> QED BY <3>3, <3>4
    <2>5. PublishedInv'
      BY <2>2, <2>3 DEF PublishedInv, SignOrder
    <2>6. signing'.snap # None
      BY <2>2
    <2>7. ReadingInv'
      BY <2>2, <2>3, <2>4, <2>5, <2>6 DEF ReadingInv
    <2> QED BY <2>3, <2>7 DEF HolderInv
  <1>6. CASE PublishPiece
    BY <1>6, PublishKeeps
  <1>7. CASE Crash
    BY <1>7 DEF HolderInv, Crash
  <1>8. CASE UNCHANGED nvars
    BY <1>8 DEF HolderInv, ReadingInv, PublishedInv, nvars
  <1> QED BY <1>1, <1>2, <1>3, <1>4, <1>5, <1>6, <1>7, <1>8 DEF NNext

\* compact: whatever the holder has taken, from wherever its four events came
\* and whatever it accepts while the compaction reads, signs and publishes,
\* once the fourth event is in nothing the reading saw is applied again, and
\* unless something dated at or after the snapshot has come since, every
\* permission question has the answer it had at the reading.
\* (The hypothesis says that the absent event is none of the events.)
THEOREM CompactionsKeepTheState ==
  ASSUME \A g, at : ToSnapshot(g, at) # None
  PROVE  NSpec => CompactionKeepsTheState
  <1>1. NodeInv /\ HolderInv =>
          [PublishPiece /\ Len(signing.left) = 1 =>
            LET since == held[Holder] \ signing.seen
            IN /\ state'[Holder].applied \subseteq since
               /\ (\A e \in since : e.at < signing.snap.at)
                    => Standing(state'[Holder].g) = Standing(signing.read)]_nvars
    BY CompactionIsQuiet
  <1>2. NodeInv /\ HolderInv /\ [NNext]_nvars => HolderInv'
    BY HolderStep
  <1> QED BY <1>1, <1>2, HolderBegins, NodeInvariance, PTL DEF NSpec, CompactionKeepsTheState
=============================================================================
