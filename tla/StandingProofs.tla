--------------------------- MODULE StandingProofs ---------------------------
(***************************************************************************)
(* What a group's record lets its people rely on, for every set of people, *)
(* roles and channels: one mute at a time, the rank rule, that what the    *)
(* app offers is what the rules accept, and that a snapshot keeps what the *)
(* permission questions look at.  Over the inductive invariant of          *)
(* GroupStateProofs, which says the record is good.                        *)
(***************************************************************************)
EXTENDS Console, Snapshots, GroupStateProofs, FiniteSetTheorems

-----------------------------------------------------------------------------
(* Spans over time. *)

\* At t: every mute has begun and has an end, every closed removal is over;
\* of two mutes of one person one is over, and the one that is not is the
\* one the record holds, if it holds one.
Timed(h, t) ==
    /\ \A s \in h.silences : s.mute => s.until \in Nat /\ s.from <= t
    /\ \A s \in h.silences : ~s.mute /\ s.until # None => s.until <= t
    /\ \A r, s \in h.silences :
        r.mute /\ s.mute /\ r.who = s.who /\ r.until > t /\ s.until > t => r = s
    /\ \A s \in h.silences :
        s.mute /\ s.until > t /\ s.who \in DOMAIN h.mutes => h.mutes[s.who] = s.until

\* Time alone only ends mutes.
LEMMA TimedLater ==
    ASSUME NEW h, h.silences \subseteq Silence, NEW t \in Nat, Timed(h, t)
    PROVE  Timed(h, t + 1)
  <1>1. \A s \in h.silences : s.from \in Nat /\ s.until \in Nat \cup {None} /\ s.mute \in BOOLEAN
    BY DEF Silence
  <1> QED BY <1>1, NoneAssumption DEF Timed

\* The end of one span.
Ended(s, t) == [s EXCEPT !.until = t]

\* A span that is ended keeps everything else.
LEMMA EndedSpan ==
    ASSUME NEW s \in Silence, NEW t \in Nat
    PROVE  /\ Ended(s, t).who = s.who /\ Ended(s, t).from = s.from
           /\ Ended(s, t).mute = s.mute /\ Ended(s, t).until = t
  BY DEF Ended, Silence

\* let_back_in ends removals now, and no mute.
LEMMA BackTimed ==
    ASSUME NEW h, h.silences \subseteq Silence, NEW t \in Nat, Timed(h, t), NEW p,
           NEW k, k.silences = LetBackIn(h, p, t), k.mutes = h.mutes
    PROVE  Timed(k, t)
  <1>1. \A s \in k.silences : s \in h.silences \/ (~s.mute /\ s.until = t)
    <2> SUFFICES ASSUME NEW s \in k.silences, s \notin h.silences
                 PROVE  ~s.mute /\ s.until = t
      OBVIOUS
    <2>1. PICK r \in h.silences :
            s = IF r.who = p /\ ~r.mute /\ r.until = None THEN Ended(r, t) ELSE r
      BY DEF LetBackIn, Ended
    <2>2. s = Ended(r, t) /\ ~r.mute /\ r \in Silence
      BY <2>1
    <2> QED BY <2>2, EndedSpan
  <1> QED BY <1>1, NoneAssumption DEF Timed

\* A removal begins, and takes the entry of a mute with it.
LEMMA OutTimed ==
    ASSUME NEW h, NEW t \in Nat, Timed(h, t), NEW p,
           NEW k, k.silences = SilenceOf(h, p, t, None, FALSE),
           DOMAIN k.mutes \subseteq DOMAIN h.mutes,
           \A q \in DOMAIN k.mutes : k.mutes[q] = h.mutes[q]
    PROVE  Timed(k, t)
  <1> DEFINE span == [who |-> p, from |-> t, until |-> None, mute |-> FALSE]
  <1>1. k.silences = h.silences \cup {span}
    BY DEF SilenceOf
  <1>2. ~span.mute /\ span.until = None
    OBVIOUS
  <1> HIDE DEF span
  <1> QED BY <1>1, <1>2 DEF Timed

\* Ending the mutes of p in force leaves none of theirs to come.
LEMMA EndTimed ==
    ASSUME NEW h, DOMAIN h = FieldNames, h.silences \subseteq Silence, NEW t \in Nat,
           Timed(h, t), NEW p,
           NEW k, k.silences = EndMutes(h, p, t).silences
    PROVE  /\ k.mutes = h.mutes => Timed(k, t)
           /\ \A s \in k.silences : s.mute => s.until \in Nat /\ s.from <= t
           /\ \A s \in k.silences : ~s.mute /\ s.until # None => s.until <= t
           /\ \A s \in k.silences : s.mute /\ s.who = p => s.until <= t
           /\ \A s \in k.silences : s.mute /\ s.until > t => s \in h.silences
  <1>1. k.silences = {IF s.who = p /\ s.mute /\ Covers(s, t) THEN Ended(s, t) ELSE s :
                        s \in h.silences}
    BY DEF EndMutes, Ended, FieldNames
  <1>2. \A s \in h.silences : s \in Silence /\ s.from \in Nat /\ s.until \in Nat \cup {None}
    BY DEF Silence
  <1>3. ASSUME NEW s \in k.silences
        PROVE  \/ /\ s \in h.silences
                  /\ s.who # p \/ ~s.mute \/ s.until <= t
               \/ s.mute /\ s.who = p /\ s.until = t /\ s.from <= t
    <2>1. PICK r \in h.silences :
            s = IF r.who = p /\ r.mute /\ Covers(r, t) THEN Ended(r, t) ELSE r
      BY <1>1
    <2>2. CASE r.who = p /\ r.mute /\ Covers(r, t)
      <3>1. s = Ended(r, t) /\ r \in Silence
        BY <2>1, <2>2
      <3>2. s.who = p /\ s.until = t /\ s.from = r.from /\ s.mute = r.mute
        BY <2>2, <3>1, EndedSpan
      <3> QED BY <2>2, <3>2 DEF Covers
    <2>3. CASE ~(r.who = p /\ r.mute /\ Covers(r, t))
      <3>1. s = r
        BY <2>1, <2>3
      <3>2. r.who = p /\ r.mute => r.until <= t
        BY <1>2, <2>3, NoneAssumption DEF Covers, Timed
      <3> QED BY <3>1, <3>2
    <2> QED BY <2>2, <2>3
  <1>4. /\ \A s \in k.silences : s.mute => s.until \in Nat /\ s.from <= t
        /\ \A s \in k.silences : ~s.mute /\ s.until # None => s.until <= t
        /\ \A s \in k.silences : s.mute /\ s.who = p => s.until <= t
        /\ \A s \in k.silences : s.mute /\ s.until > t => s \in h.silences
    BY <1>2, <1>3 DEF Timed
  <1>5. k.mutes = h.mutes => Timed(k, t)
    BY <1>4 DEF Timed
  <1> QED BY <1>4, <1>5

\* A 9030: the new mute is the only one of its person to come, or none is.
LEMMA MuteTimed ==
    ASSUME NEW h, Good(h), NEW t \in Nat, Timed(h, t), NEW p \in People,
           NEW until \in Nat \cup {None}, until # None => until > t
    PROVE  Timed(MuteDo(h, p, until, t), t)
  <1> DEFINE e == EndMutes(h, p, t)
             k == MuteDo(h, p, until, t)
             span == [who |-> p, from |-> t, until |-> until, mute |-> TRUE]
  <1>1. /\ DOMAIN e = FieldNames /\ e.mutes = h.mutes
        /\ DOMAIN h = FieldNames /\ h.silences \subseteq Silence
    BY DEF Good, IsGroup, EndMutes, FieldNames
  <1>2. /\ \A s \in e.silences : s.mute => s.until \in Nat /\ s.from <= t
        /\ \A s \in e.silences : ~s.mute /\ s.until # None => s.until <= t
        /\ \A s \in e.silences : s.mute /\ s.who = p => s.until <= t
        /\ \A s \in e.silences : s.mute /\ s.until > t => s \in h.silences
    <2> HIDE DEF e
    <2>1. e.silences = EndMutes(h, p, t).silences
      BY DEF e
    <2> QED BY <1>1, <2>1, EndTimed
  <1> HIDE DEF e
  <1>3. /\ k.mutes = IF until = None THEN Without(e.mutes, p) ELSE Insert(e.mutes, p, until)
        /\ k.silences = IF until = None THEN e.silences ELSE e.silences \cup {span}
    BY <1>1 DEF e, MuteDo, FieldNames, SilenceOf
  <1>4. /\ span.who = p /\ span.from = t /\ span.until = until
        /\ span.mute
    OBVIOUS
  <1> HIDE DEF k, span
  <1>5. /\ \A q \in DOMAIN k.mutes : q # p => q \in DOMAIN h.mutes /\ k.mutes[q] = h.mutes[q]
        /\ until # None => k.mutes[p] = until
        /\ until = None => p \notin DOMAIN k.mutes
    BY <1>1, <1>3 DEF Insert, Without
  <1>6. \A s \in k.silences : s \in e.silences \/ (s = span /\ until # None)
    BY <1>3
  <1>7. /\ \A s \in k.silences : s.mute => s.until \in Nat /\ s.from <= t
        /\ \A s \in k.silences : ~s.mute /\ s.until # None => s.until <= t
    BY <1>2, <1>4, <1>6
  <1>8. \A s \in k.silences :
            s.mute /\ s.until > t => (s = span /\ until # None) \/ (s \in h.silences /\ s.who # p)
    BY <1>2, <1>6, <1>7
  <1>9. Timed(k, t)
    <2>1. \A r, s \in k.silences :
            r.mute /\ s.mute /\ r.who = s.who /\ r.until > t /\ s.until > t => r = s
      BY <1>4, <1>8 DEF Timed
    <2>2. \A s \in k.silences :
            s.mute /\ s.until > t /\ s.who \in DOMAIN k.mutes => k.mutes[s.who] = s.until
      BY <1>4, <1>5, <1>8 DEF Timed
    <2> QED BY <1>7, <2>1, <2>2 DEF Timed
  <1> QED BY <1>9 DEF k

\* A snapshot carries one span per mute still to end, and no removal.
LEMMA CompactedTimed ==
    ASSUME NEW h, Good(h), NEW t \in Nat
    PROVE  Timed(Compacted(h, t), t)
  <1> DEFINE k == Compacted(h, t)
  <1>1. k.mutes = h.mutes /\ k.silences = MutesAsSilences(h.mutes, t)
    BY DEF Good, IsGroup, Compacted, FieldNames
  <1> HIDE DEF k
  <1>2. \A s \in k.silences : /\ s.mute /\ s.from = t
                              /\ s.who \in DOMAIN h.mutes /\ s.until = h.mutes[s.who]
                              /\ s.until \in Nat
    <2> TAKE s \in k.silences
    <2>1. PICK p \in DOMAIN h.mutes :
            s = [who |-> p, from |-> t, until |-> h.mutes[p], mute |-> TRUE]
      BY <1>1 DEF MutesAsSilences
    <2>2. h.mutes[p] \in Nat
      BY DEF Good, IsGroup, IsMap
    <2>3. s.mute
      BY <2>1
    <2> QED BY <2>1, <2>2, <2>3
  <1>3. \A r, s \in k.silences : r.who = s.who => r = s
    <2> SUFFICES ASSUME NEW r \in k.silences, NEW s \in k.silences, r.who = s.who PROVE r = s
      OBVIOUS
    <2>1. PICK p \in DOMAIN h.mutes :
            r = [who |-> p, from |-> t, until |-> h.mutes[p], mute |-> TRUE]
      BY <1>1 DEF MutesAsSilences
    <2>2. PICK q \in DOMAIN h.mutes :
            s = [who |-> q, from |-> t, until |-> h.mutes[q], mute |-> TRUE]
      BY <1>1 DEF MutesAsSilences
    <2> QED BY <2>1, <2>2
  <1>4. Timed(k, t)
    BY <1>1, <1>2, <1>3 DEF Timed
  <1> QED BY <1>4 DEF k

-----------------------------------------------------------------------------
(* Ranks. *)

HasHighest(S) == \E m \in S : \A n \in S : n <= m

RolePositions(h) == {h.roles[r].position : r \in DOMAIN h.roles}

\* Among any roles of the group one is the highest: there are finitely many.
\* (Said of the positions themselves, which needs no induction on their
\* number.)
Ladder(h) == \A S \in SUBSET RolePositions(h) : S # {} => HasHighest(S)

\* The owner's standing rests on no role.
OwnerBare(h) == h.owner # None => h.members[h.owner] = {}

\* What edits signed by a may do to the roles of h: a role that is gone,
\* moved or taken from someone was below a, and where one is put is too.
BelowOnly(h, a, k) ==
    a # h.owner =>
        /\ \A r \in DOMAIN h.roles :
            \/ RankAbove(h, a, h.roles[r].position)
            \/ r \in DOMAIN k.roles /\ k.roles[r].position = h.roles[r].position
        /\ \A r \in DOMAIN k.roles :
            \/ RankAbove(h, a, k.roles[r].position)
            \/ r \in DOMAIN h.roles /\ k.roles[r].position = h.roles[r].position
        /\ \A p \in Members(h) : \A r \in h.members[p] \ k.members[p] :
            RankAbove(h, a, h.roles[r].position)

\* One more position leaves a highest among any.
LEMMA OneMoreRung ==
    ASSUME NEW h, Ladder(h), RolePositions(h) \subseteq Int,
           NEW k, NEW n \in Int, RolePositions(k) \subseteq RolePositions(h) \cup {n}
    PROVE  Ladder(k)
  <1> SUFFICES ASSUME NEW S \in SUBSET RolePositions(k), S # {} PROVE HasHighest(S)
    BY DEF Ladder
  <1> DEFINE R == S \ {n}
  <1>1. R \in SUBSET RolePositions(h) /\ R \subseteq Int
    OBVIOUS
  <1>2. CASE R = {}
    <2>1. S = {n}
      BY <1>2
    <2> QED BY <2>1 DEF HasHighest
  <1>3. CASE R # {}
    <2>1. PICK m \in R : \A x \in R : x <= m
      BY <1>1, <1>3 DEF Ladder, HasHighest
    <2>2. CASE n \in S /\ n > m
      <3>1. \A x \in S : x <= n
        BY <1>1, <2>1, <2>2
      <3> QED BY <2>2, <3>1 DEF HasHighest
    <2>3. CASE n \notin S \/ n <= m
      <3>1. \A x \in S : x <= m
        BY <1>1, <2>1, <2>3
      <3> QED BY <2>1, <3>1 DEF HasHighest
    <2> QED BY <1>1, <2>1, <2>2, <2>3
  <1> QED BY <1>2, <1>3

\* The positions of a good record's roles are integers.
LEMMA PositionsAre ==
    ASSUME NEW h, Good(h)
    PROVE  /\ RolePositions(h) \subseteq Int
           /\ \A p : Positions(h, p) \subseteq RolePositions(h)
           /\ \A r \in DOMAIN h.roles : h.roles[r].position \in Int
  <1>1. \A r \in DOMAIN h.roles : h.roles[r].position \in Int
    BY DEF Good, IsGroup, IsMap, RoleDef
  <1> QED BY <1>1 DEF RolePositions, Positions

\* Edits of roles below a leave the rank of whoever a does not outrank, and
\* put nobody at or above a.
LEMMA BelowKeepsRank ==
    ASSUME NEW h, Good(h), Ladder(h), OwnerBare(h), NEW a \in People, a # h.owner,
           NEW k, Good(k), DraftOf(h, a, k), BelowOnly(h, a, k), NEW p \in Members(h)
    PROVE  /\ ~Outranks(h, a, p) => Top(k, p) = Top(h, p)
           /\ \A m \in Positions(k, p) \ Positions(h, p) : RankAbove(h, a, m)
  <1>a. /\ p \in Members(k) /\ k.members[p] \subseteq h.members[p]
        /\ h.members[p] \subseteq DOMAIN h.roles /\ k.members[p] \subseteq DOMAIN k.roles
    BY DEF DraftOf, Good, Safe, NothingLeftBehindIn
  <1>b. /\ Positions(h, p) = {h.roles[r].position : r \in h.members[p]}
        /\ Positions(k, p) = {k.roles[r].position : r \in k.members[p]}
    BY <1>a DEF Positions
  <1>c. /\ \A q : Positions(h, q) \subseteq Int
        /\ \A q : Positions(k, q) \subseteq Int
    BY PositionsAre
  <1>1. ASSUME NEW m \in Positions(k, p), m \notin Positions(h, p) PROVE RankAbove(h, a, m)
    <2>1. PICK r \in k.members[p] : m = k.roles[r].position
      BY <1>b, <1>1
    <2> QED BY <1>1, <1>a, <1>b, <2>1 DEF BelowOnly
  <1>2. ASSUME NEW n \in Positions(h, p), n \notin Positions(k, p) PROVE RankAbove(h, a, n)
    <2>1. PICK r \in h.members[p] : n = h.roles[r].position
      BY <1>b, <1>2
    <2>2. r \in DOMAIN h.roles
      BY <1>a, <2>1
    <2>3. CASE r \in k.members[p]
      <3>1. r \in DOMAIN k.roles
        BY <1>a, <2>3
      <3>2. k.roles[r].position # n
        BY <1>2, <1>b, <2>3
      <3> QED BY <2>1, <2>2, <3>1, <3>2 DEF BelowOnly
    <2>4. CASE r \notin k.members[p]
      BY <2>1, <2>4 DEF BelowOnly
    <2> QED BY <2>3, <2>4
  <1>3. ASSUME ~Outranks(h, a, p) PROVE Top(k, p) = Top(h, p)
    <2>1. CASE p = h.owner
      <3>1. p # None
        BY NoneAssumption DEF Good, IsGroup, IsMap, Members
      <3>2. h.members[p] = {} /\ k.members[p] = {}
        BY <1>a, <2>1, <3>1 DEF OwnerBare
      <3>3. Positions(h, p) = {} /\ Positions(k, p) = {}
        BY <1>b, <3>2
      <3> QED BY <3>3 DEF Top
    <2>2. CASE p # h.owner
      <3>1. \A m \in Positions(h, a) : \E n \in Positions(h, p) : m <= n
        BY <1>3, <1>c, <2>2 DEF Outranks, RankOver
      <3>2. \A m \in Int : RankAbove(h, a, m) => \E n \in Positions(h, p) : m < n
        BY <1>c, <3>1 DEF RankAbove
      <3>3. CASE Positions(h, p) = {}
        <4>1. Positions(k, p) = {}
          <5> SUFFICES ASSUME NEW m \in Positions(k, p) PROVE FALSE
            OBVIOUS
          <5> QED BY <1>1, <1>c, <3>2, <3>3
        <4> QED BY <3>3, <4>1 DEF Top
      <3>4. CASE Positions(h, p) # {}
        <4>1. PICK top \in Positions(h, p) : \A n \in Positions(h, p) : n <= top
          BY <3>4, PositionsAre DEF Ladder, HasHighest
        <4>2. \A m \in Int : RankAbove(h, a, m) => m < top
          BY <1>c, <3>2, <4>1
        <4>3. top \in Positions(k, p)
          BY <1>2, <1>c, <4>1, <4>2
        <4>4. \A m \in Positions(k, p) : m <= top
          BY <1>1, <1>c, <4>1, <4>2
        <4>5. Top(h, p) = {top}
          BY <1>c, <4>1 DEF Top
        <4>6. Top(k, p) = {top}
          BY <1>c, <4>3, <4>4 DEF Top
        <4> QED BY <4>5, <4>6
      <3> QED BY <3>3, <3>4
    <2> QED BY <2>1, <2>2
  <1> QED BY <1>1, <1>3

-----------------------------------------------------------------------------
(* The invariant, beside that of GroupStateProofs. *)

\* A draft has the spans and mutes of the group, and is below its author.
DraftKeeps(h, a, k) ==
    /\ k.silences = h.silences /\ k.mutes = h.mutes
    /\ Ladder(k)
    /\ BelowOnly(h, a, k)

RInv ==
    /\ Timed(g, at) /\ Ladder(g) /\ OwnerBare(g)
    /\ draft # None => DraftKeeps(g, draft.by, draft.next)

\* An edit that leaves roles and people keeps the invariant.
LEMMA SameRolesKeeps ==
    ASSUME IInv, RInv, draft # None, NEW k, Drafted(k),
           k.roles = draft.next.roles, k.members = draft.next.members,
           k.silences = draft.next.silences, k.mutes = draft.next.mutes
    PROVE  RInv'
  <1>1. g' = g /\ at' = at /\ draft'.by = draft.by /\ draft'.next = k
    BY DEF Drafted
  <1>2. Ladder(k)
    BY DEF RInv, DraftKeeps, Ladder, RolePositions
  <1>3. BelowOnly(g, draft.by, k)
    BY DEF RInv, DraftKeeps, BelowOnly, IInv, DraftInv, DraftOf, Members
  <1>4. DraftKeeps(g, draft.by, k)
    BY <1>2, <1>3 DEF RInv, DraftKeeps
  <1> QED BY <1>1, <1>4 DEF RInv

\* A role is made or changed below its author.
LEMMA RoleKeeps ==
    ASSUME IInv, RInv, EditRole
    PROVE  RInv'
  <1>1. PICK id \in RoleIds, perms \in PermSets, position \in PositionInputs :
          LET e == [id |-> id, perms |-> perms, position |-> position]
          IN RoleOk(g, draft.by, e) /\ Drafted(RoleDo(draft.next, e))
    BY DEF EditRole
  <1> DEFINE e == [id |-> id, perms |-> perms, position |-> position]
             d == draft.next
             k == RoleDo(d, e)
  <1>2. draft # None /\ Good(d) /\ Good(g) /\ DraftKeeps(g, draft.by, d) /\ position \in Int
    BY InputsAssumption DEF EditRole, IInv, DraftInv, RInv
  <1>3. /\ k.roles = Insert(d.roles, id, [perms |-> perms, position |-> position])
        /\ k.members = d.members /\ k.silences = d.silences /\ k.mutes = d.mutes
    BY <1>2 DEF RoleDo, Good, IsGroup, FieldNames
  <1>4. /\ DOMAIN k.roles = DOMAIN d.roles \cup {id}
        /\ k.roles[id].position = position
        /\ \A r \in DOMAIN d.roles : r # id => k.roles[r] = d.roles[r]
    BY <1>3 DEF Insert
  <1>5. draft.by # g.owner =>
            /\ RankAbove(g, draft.by, position)
            /\ id \in DOMAIN g.roles => RankAbove(g, draft.by, g.roles[id].position)
    BY <1>1 DEF RoleOk, OutranksRole
  <1>6. g' = g /\ at' = at /\ draft'.by = draft.by /\ draft'.next = k
    BY <1>1 DEF Drafted
  <1> HIDE DEF k, d, e
  <1>7. Ladder(k)
    <2>1. RolePositions(k) \subseteq RolePositions(d) \cup {position}
      BY <1>4 DEF RolePositions
    <2>2. RolePositions(d) \subseteq Int
      BY <1>2, PositionsAre
    <2> QED BY <1>2, <2>1, <2>2, OneMoreRung DEF DraftKeeps
  <1>8. BelowOnly(g, draft.by, k)
    BY <1>2, <1>3, <1>4, <1>5 DEF DraftKeeps, BelowOnly
  <1>9. DraftKeeps(g, draft.by, k)
    BY <1>2, <1>3, <1>7, <1>8 DEF DraftKeeps
  <1> QED BY <1>6, <1>9 DEF RInv

\* A role below its author is deleted, and taken from whoever held it.
LEMMA RoleDeleteKeeps ==
    ASSUME IInv, RInv, EditRoleDelete
    PROVE  RInv'
  <1>1. PICK id \in RoleIds :
          LET e == [id |-> id]
          IN RoleDeleteOk(g, draft.by, e) /\ Drafted(RoleDeleteDo(draft.next, e))
    BY DEF EditRoleDelete
  <1> DEFINE e == [id |-> id]
             d == draft.next
             k == RoleDeleteDo(d, e)
  <1>2. /\ draft # None /\ Good(d) /\ Good(g) /\ DraftKeeps(g, draft.by, d)
        /\ DraftOf(g, draft.by, d)
    BY DEF EditRoleDelete, IInv, DraftInv, RInv
  <1>3. /\ k.roles = Without(d.roles, id)
        /\ k.members = [p \in DOMAIN d.members |-> d.members[p] \ {id}]
        /\ k.silences = d.silences /\ k.mutes = d.mutes
    BY <1>2 DEF RoleDeleteDo, Good, IsGroup, FieldNames
  <1>4. /\ DOMAIN k.roles = DOMAIN d.roles \ {id}
        /\ \A r \in DOMAIN k.roles : k.roles[r] = d.roles[r]
        /\ \A p \in Members(g) : k.members[p] = d.members[p] \ {id}
    BY <1>2, <1>3 DEF Without, DraftOf, Members
  <1>5. draft.by # g.owner => RankAbove(g, draft.by, g.roles[id].position)
    BY <1>1 DEF RoleDeleteOk, OutranksRole
  <1>6. g' = g /\ at' = at /\ draft'.by = draft.by /\ draft'.next = k
    BY <1>1 DEF Drafted
  <1> HIDE DEF k, d, e
  <1>7. Ladder(k)
    <2>1. RolePositions(k) \subseteq RolePositions(d)
      BY <1>4 DEF RolePositions
    <2> QED BY <1>2, <2>1 DEF DraftKeeps, Ladder
  <1>8. BelowOnly(g, draft.by, k)
    BY <1>2, <1>4, <1>5 DEF DraftKeeps, BelowOnly
  <1>9. DraftKeeps(g, draft.by, k)
    BY <1>2, <1>3, <1>7, <1>8 DEF DraftKeeps
  <1> QED BY <1>6, <1>9 DEF RInv

\* Every edit of a batch keeps the invariant.
LEMMA EditStepKeeps ==
    ASSUME IInv, RInv, EditStep
    PROVE  RInv'
  <1>1. CASE RefuseEdit
    BY <1>1 DEF RefuseEdit, RInv
  <1>2. CASE EditRole
    BY <1>2, RoleKeeps
  <1>3. CASE EditRoleDelete
    BY <1>3, RoleDeleteKeeps
  <1>4. CASE \/ EditName \/ EditAbout \/ EditPublic \/ EditNewcomerWait
             \/ EditChannel \/ EditChannelDelete \/ EditOverride
    <2>1. draft # None /\ DOMAIN draft.next = FieldNames
      BY <1>4 DEF EditName, EditAbout, EditPublic, EditNewcomerWait, EditChannel,
                  EditChannelDelete, EditOverride, IInv, DraftInv, Good, IsGroup
    <2> DEFINE Same(k) == /\ k.roles = draft.next.roles /\ k.members = draft.next.members
                          /\ k.silences = draft.next.silences /\ k.mutes = draft.next.mutes
    <2>2. CASE EditName
      BY <2>1, <2>2, SameRolesKeeps DEF EditName, NameDo, FieldNames
    <2>3. CASE EditAbout
      BY <2>1, <2>3, SameRolesKeeps DEF EditAbout, AboutDo, FieldNames
    <2>4. CASE EditPublic
      BY <2>1, <2>4, SameRolesKeeps DEF EditPublic, PublicDo, FieldNames
    <2>5. CASE EditNewcomerWait
      BY <2>1, <2>5, SameRolesKeeps DEF EditNewcomerWait, NewcomerWaitDo, FieldNames
    <2>6. CASE EditChannel
      <3>1. PICK id \in Channels, kind \in {"text", "voice"}, slowmode \in SecsInputs :
              Drafted(ChannelDo(draft.next, [id |-> id, kind |-> kind, slowmode |-> slowmode]))
        BY <2>6 DEF EditChannel
      <3>2. Same(ChannelDo(draft.next, [id |-> id, kind |-> kind, slowmode |-> slowmode]))
        BY <2>1 DEF ChannelDo, FieldNames
      <3> QED BY <2>1, <3>1, <3>2, SameRolesKeeps
    <2>7. CASE EditChannelDelete
      <3>1. PICK id \in Channels : Drafted(ChannelDeleteDo(draft.next, [id |-> id]))
        BY <2>7 DEF EditChannelDelete
      <3>2. Same(ChannelDeleteDo(draft.next, [id |-> id]))
        BY <2>1 DEF ChannelDeleteDo, FieldNames
      <3> QED BY <2>1, <3>1, <3>2, SameRolesKeeps
    <2>8. CASE EditOverride
      <3>1. PICK c \in Channels, r \in RoleIds, allow \in ScopedSets, deny \in ScopedSets :
              Drafted(OverrideDo(draft.next, [channel |-> c, role |-> r,
                                              allow |-> allow, deny |-> deny]))
        BY <2>8 DEF EditOverride
      <3>2. Same(OverrideDo(draft.next, [channel |-> c, role |-> r, allow |-> allow, deny |-> deny]))
        BY <2>1 DEF OverrideDo, FieldNames
      <3> QED BY <2>1, <3>1, <3>2, SameRolesKeeps
    <2> QED BY <1>4, <2>2, <2>3, <2>4, <2>5, <2>6, <2>7, <2>8
  <1> QED BY <1>1, <1>2, <1>3, <1>4 DEF EditStep

\* An action on people leaves the roles, and gives the owner none.
LEMMA PeopleKeep ==
    ASSUME IInv, RInv, NEW a \in People, ActBy(a), draft = None
    PROVE  /\ g'.roles = g.roles /\ g'.owner = g.owner
           /\ OwnerBare(g')
  <1> USE DEF ActBy
  <1>1. Good(g) /\ DOMAIN g = FieldNames
    BY DEF IInv, Good, IsGroup
  <1>2. /\ g'.roles = g.roles /\ g'.owner = g.owner
        /\ \/ g'.members = g.members
           \/ \E t \in People : g'.members = Without(g.members, t)
           \/ \E t \in People, roles \in SUBSET RoleIds :
                g'.members = Insert(g.members, t, roles) /\ t # g.owner
    <2>1. CASE Put(a)
      <3>1. PICK t \in People, roles \in RoleSets : PutOk(g, a, t, roles) /\ g' = PutDo(g, t, roles, at)
        BY <2>1 DEF Put
      <3>2. g'.roles = g.roles /\ g'.owner = g.owner /\ g'.members = Insert(g.members, t, roles \ {DEFAULT_ROLE})
        BY <1>1, <3>1 DEF PutDo, FieldNames
      <3> QED BY <3>1, <3>2, InputsAssumption DEF PutOk
    <2>2. CASE Remove(a)
      BY <1>1, <2>2 DEF Remove, RemoveDo, FieldNames
    <2>3. CASE Unban(a)
      BY <1>1, <2>3 DEF Unban, UnbanDo, FieldNames
    <2>4. CASE Mute(a)
      BY <1>1, <2>4 DEF Mute, MuteDo, EndMutes, FieldNames
    <2>5. CASE MuteRefused(a)
      BY <1>1, <2>5 DEF MuteRefused, EndMutes, FieldNames
    <2>6. CASE Join(a)
      <3>1. g' = JoinDo(g, a, at) /\ a \notin Members(g)
        BY <2>6 DEF Join, JoinOk
      <3>2. g'.roles = g.roles /\ g'.owner = g.owner /\ g'.members = Insert(g.members, a, {})
        BY <1>1, <3>1 DEF JoinDo, FieldNames
      <3>3. a # g.owner
        BY <1>1, <3>1, NoneAssumption DEF Good, Safe, OwnerStandsIn
      <3> QED BY <3>2, <3>3
    <2>7. CASE Leave(a)
      BY <1>1, <2>7 DEF Leave, LeaveDo, FieldNames
    <2>8. CASE RecordInvite(a)
      BY <1>1, <2>8 DEF RecordInvite, FieldNames
    <2> QED BY <2>1, <2>2, <2>3, <2>4, <2>5, <2>6, <2>7, <2>8
  <1>3. IInv'
    BY ActByInv
  <1>4. g.owner # None => g.owner \in DOMAIN g.members /\ g.owner \in DOMAIN g'.members
    BY <1>1, <1>2, <1>3 DEF IInv, Good, Safe, OwnerStandsIn, Members
  <1>5. OwnerBare(g')
    BY <1>2, <1>4 DEF RInv, OwnerBare, Insert, Without
  <1> QED BY <1>2, <1>5

\* What an action on people does to the spans.
LEMMA PeopleTimed ==
    ASSUME IInv, RInv, NEW a \in People, ActBy(a), draft = None
    PROVE  Timed(g', at)
  <1> USE DEF ActBy
  <1>1. /\ Good(g) /\ DOMAIN g = FieldNames /\ g.silences \subseteq Silence /\ at \in Nat
        /\ Timed(g, at)
    BY DEF IInv, Good, IsGroup, RInv
  <1>0. ASSUME g'.silences = g.silences, g'.mutes = g.mutes PROVE Timed(g', at)
    BY <1>0, <1>1 DEF Timed
  <1>2. CASE Put(a)
    <2>1. PICK t \in People, roles \in RoleSets : g' = PutDo(g, t, roles, at)
      BY <1>2 DEF Put
    <2>2. /\ g'.mutes = g.mutes
          /\ g'.silences = IF t \in Members(g) THEN g.silences ELSE LetBackIn(g, t, at)
      BY <1>1, <2>1 DEF PutDo, FieldNames
    <2> QED BY <1>0, <1>1, <2>2, BackTimed
  <1>3. CASE Remove(a)
    <2>1. PICK t \in People, ban \in BOOLEAN : g' = RemoveDo(g, t, ban, at)
      BY <1>3 DEF Remove
    <2>2. /\ g'.mutes = IF t \in Members(g) THEN Without(g.mutes, t) ELSE g.mutes
          /\ g'.silences = SilenceOf(g, t, at, None, FALSE)
      BY <1>1, <2>1 DEF RemoveDo, FieldNames
    <2>3. /\ DOMAIN g'.mutes \subseteq DOMAIN g.mutes
          /\ \A q \in DOMAIN g'.mutes : g'.mutes[q] = g.mutes[q]
      BY <2>2 DEF Without
    <2> QED BY <1>1, <2>2, <2>3, OutTimed
  <1>4. CASE Unban(a)
    BY <1>0, <1>1, <1>4 DEF Unban, UnbanDo, FieldNames
  <1>5. CASE Mute(a)
    <2>1. PICK t \in People, until \in Untils \cup {None} :
            MuteOk(g, a, t, until, at) /\ g' = MuteDo(g, t, until, at)
      BY <1>5 DEF Mute
    <2>2. until \in Nat \cup {None} /\ (until # None => until > at)
      BY <2>1, InputsAssumption DEF MuteOk
    <2> QED BY <1>1, <2>1, <2>2, MuteTimed
  <1>6. CASE MuteRefused(a)
    <2>1. PICK t \in People : g' = EndMutes(g, t, at)
      BY <1>6 DEF MuteRefused
    <2>2. g'.mutes = g.mutes /\ g'.silences = EndMutes(g, t, at).silences
      BY <1>1, <2>1 DEF EndMutes, FieldNames
    <2> QED BY <1>1, <2>2, EndTimed
  <1>7. CASE Join(a)
    <2>1. g'.mutes = g.mutes /\ g'.silences = LetBackIn(g, a, at)
      BY <1>1, <1>7 DEF Join, JoinDo, FieldNames
    <2> QED BY <1>1, <2>1, BackTimed
  <1>8. CASE Leave(a)
    <2>1. /\ g'.mutes = Without(g.mutes, a)
          /\ g'.silences = SilenceOf(g, a, at, None, FALSE)
      BY <1>1, <1>8 DEF Leave, LeaveDo, FieldNames
    <2>2. /\ DOMAIN g'.mutes \subseteq DOMAIN g.mutes
          /\ \A q \in DOMAIN g'.mutes : g'.mutes[q] = g.mutes[q]
      BY <2>1 DEF Without
    <2> QED BY <1>1, <2>1, <2>2, OutTimed
  <1>9. CASE RecordInvite(a)
    BY <1>0, <1>1, <1>9 DEF RecordInvite, FieldNames
  <1> QED BY <1>2, <1>3, <1>4, <1>5, <1>6, <1>7, <1>8, <1>9

\* A batch that takes effect is the draft.
LEMMA CommitKeeps ==
    ASSUME IInv, RInv, draft # None, CommitEdit
    PROVE  RInv'
  <1>1. g' = draft.next /\ at' = at /\ draft' = None
    BY DEF CommitEdit
  <1>2. DraftKeeps(g, draft.by, draft.next) /\ DraftOf(g, draft.by, draft.next)
        /\ Good(g)
    BY DEF RInv, IInv, DraftInv
  <1>3. Timed(draft.next, at)
    BY <1>2 DEF RInv, DraftKeeps, Timed
  <1>4. OwnerBare(draft.next)
    <2>1. g.owner # None => g.owner \in Members(g)
      BY <1>2 DEF Good, Safe, OwnerStandsIn
    <2> QED BY <1>2, <2>1 DEF DraftOf, OwnerBare, RInv
  <1> QED BY <1>1, <1>2, <1>3, <1>4 DEF RInv, DraftKeeps

\* A new group has three roles and no spans, and its owner none of them.
LEMMA StandingBegins == Init => RInv
  <1> SUFFICES ASSUME Init PROVE RInv
    OBVIOUS
  <1>1. /\ at = 1 /\ draft = None /\ g.owner = Owner /\ g.roles = DefaultRoles
        /\ g.members = [p \in {Owner} |-> {}] /\ g.silences = {}
    BY DEF Init, Genesis
  <1>2. RolePositions(g) = {0, 10, 20}
    <2>1. /\ DOMAIN DefaultRoles = {"member", "mod", "admin"}
          /\ DefaultRoles["member"].position = 0
          /\ DefaultRoles["mod"].position = 10
          /\ DefaultRoles["admin"].position = 20
      BY DEF DefaultRoles
    <2> QED BY <1>1, <2>1 DEF RolePositions
  <1>3. ASSUME NEW S \in SUBSET {0, 10, 20}, S # {} PROVE HasHighest(S)
    <2>1. CASE 20 \in S
      BY <1>3, <2>1 DEF HasHighest
    <2>2. CASE 20 \notin S /\ 10 \in S
      BY <1>3, <2>2 DEF HasHighest
    <2>3. CASE 20 \notin S /\ 10 \notin S
      <3>1. \A n \in S : n = 0
        BY <1>3, <2>3
      <3>2. 0 \in S
        BY <1>3, <3>1
      <3> QED BY <3>1, <3>2 DEF HasHighest
    <2> QED BY <2>1, <2>2, <2>3
  <1>4. Ladder(g)
    BY <1>2, <1>3 DEF Ladder
  <1> QED BY <1>1, <1>4 DEF RInv, Timed, OwnerBare

\* Every step keeps the invariant.
LEMMA StandingStep == IInv /\ RInv /\ [Next]_vars => RInv'
  <1> SUFFICES ASSUME IInv, RInv, [Next]_vars PROVE RInv'
    OBVIOUS
  <1>1. ASSUME NEW a \in People, ActBy(a), draft = None PROVE RInv'
    <2>1. at' = at /\ draft' = None
      BY <1>1 DEF ActBy, Put, Remove, Unban, Mute, MuteRefused, Join, Leave, RecordInvite
    <2>2. g'.roles = g.roles /\ OwnerBare(g') /\ Timed(g', at)
      BY <1>1, PeopleKeep, PeopleTimed
    <2>3. Ladder(g')
      BY <2>2 DEF RInv, Ladder, RolePositions
    <2> QED BY <2>1, <2>2, <2>3 DEF RInv
  <1>2. ASSUME NEW a \in People, ActBy(a), draft # None PROVE RInv'
    BY <1>2, CommitKeeps DEF ActBy, Put, Remove, Unban, Mute, MuteRefused, Join, Leave, RecordInvite
  <1>3. ASSUME NEW a \in People, BeginEdit(a) PROVE RInv'
    <2>1. g' = g /\ at' = at /\ draft'.by = a /\ draft'.next = g
      BY <1>3 DEF BeginEdit
    <2>2. BelowOnly(g, a, g)
      BY DEF BelowOnly
    <2> QED BY <2>1, <2>2 DEF RInv, DraftKeeps
  <1>4. CASE EditStep
    BY <1>4, EditStepKeeps
  <1>5. CASE Tick
    <2>1. g' = g /\ at' = at + 1 /\ draft' = None
      BY <1>5 DEF Tick
    <2>2. Timed(g, at + 1)
      BY TimedLater DEF IInv, Good, IsGroup, RInv
    <2> QED BY <2>1, <2>2 DEF RInv
  <1>6. CASE Compact
    <2>1. g' = Compacted(g, at + 1) /\ at' = at + 1 /\ draft' = None
      BY <1>6 DEF Compact
    <2>2. Timed(Compacted(g, at + 1), at + 1)
      BY CompactedTimed DEF IInv
    <2>3. /\ g'.roles = g.roles /\ g'.owner = g.owner
          /\ g'.members = [p \in DOMAIN g.members |-> IF p = g.owner THEN {}
                             ELSE (g.members[p] \cap DOMAIN g.roles) \ {DEFAULT_ROLE}]
      BY <2>1 DEF Compacted, IInv, Good, IsGroup, FieldNames
    <2>4. Ladder(g')
      BY <2>3 DEF RInv, Ladder, RolePositions
    <2>5. OwnerBare(g')
      BY <2>3 DEF OwnerBare, IInv, Good, Safe, OwnerStandsIn, Members
    <2> QED BY <2>1, <2>2, <2>4, <2>5 DEF RInv
  <1>7. CASE UNCHANGED vars
    BY <1>7 DEF vars, RInv
  <1> QED BY <1>1, <1>2, <1>3, <1>4, <1>5, <1>6, <1>7 DEF Next

\* The two invariants hold throughout.
LEMMA StandingInvariance == Spec => [](IInv /\ RInv)
  BY Inductive, StandingBegins, StandingStep, PTL DEF Spec

-----------------------------------------------------------------------------
(* The theorems. *)

\* A person is never under two mutes at once, whoever muted them anew, and
\* whether they were kicked, let back in or carried by a snapshot in between.
THEOREM MutesReplaceEachOther == Spec => []OneMuteAtATime
  <1>1. ASSUME IInv, RInv PROVE OneMuteAtATime
    <2> SUFFICES ASSUME NEW p \in People
                 PROVE  Cardinality({s \in g.silences : s.who = p /\ s.mute /\ Covers(s, at)}) <= 1
      BY DEF OneMuteAtATime
    <2> DEFINE M == {s \in g.silences : s.who = p /\ s.mute /\ Covers(s, at)}
    <2>1. at \in Nat /\ Timed(g, at)
      BY <1>1 DEF IInv, RInv
    <2>2. \A r, s \in M : r = s
      BY <2>1, NoneAssumption DEF Timed, Covers
    <2>3. M = {} \/ \E s \in M : M = {s}
      BY <2>2
    <2>4. Cardinality(M) \in {0, 1}
      BY <2>3, FS_EmptySet, FS_Singleton
    <2> QED BY <2>4
  <1> QED BY <1>1, StandingInvariance, PTL

\* The rank rule of outranks: nobody but the owner takes a place or a rank
\* from a member they do not outrank, by one action or a batch of edits, or
\* puts anybody at or above their own rank.
THEOREM RanksAreRespected == Spec => RankIsRespected
  <1> DEFINE Respects(a) ==
        \A p \in People :
            /\ p \in Members(g) /\ ~Outranks(g, a, p) =>
                 /\ p \in Members(g') \/ p = a
                 /\ p \in Members(g') => Top(g', p) = Top(g, p)
            /\ \A m \in Positions(g', p) \ Positions(g, p) : RankAbove(g, a, m)
  <1>1. ASSUME IInv, RInv, NEW a \in People, ActBy(a), a # g.owner PROVE Respects(a)
    <2> USE DEF ActBy
    <2>1. Good(g) /\ DOMAIN g = FieldNames
      BY <1>1 DEF IInv, Good, IsGroup
    <2>2. ASSUME g'.roles = g.roles, NEW p \in People,
                 (p \in Members(g') /\ p \in Members(g) /\ g'.members[p] = g.members[p])
                 \/ (p \notin Members(g') /\ (p \notin Members(g) \/ Outranks(g, a, p) \/ p = a))
                 \/ (p \in Members(g') /\ p \notin Members(g) /\ g'.members[p] = {})
          PROVE  /\ p \in Members(g) /\ ~Outranks(g, a, p) =>
                      /\ p \in Members(g') \/ p = a
                      /\ p \in Members(g') => Top(g', p) = Top(g, p)
                 /\ \A m \in Positions(g', p) \ Positions(g, p) : RankAbove(g, a, m)
      BY <2>2 DEF Top, Positions
    <2>3. CASE Put(a)
      <3>1. PICK t \in People, roles \in RoleSets :
              PutOk(g, a, t, roles) /\ g' = PutDo(g, t, roles, at)
        BY <2>3 DEF Put
      <3> DEFINE wanted == roles \ {DEFAULT_ROLE}
                 held == IF t \in Members(g) THEN g.members[t] ELSE {}
      <3>2. g'.roles = g.roles /\ g'.members = Insert(g.members, t, wanted)
        BY <2>1, <3>1 DEF PutDo, FieldNames
      <3>3. /\ Members(g') = Members(g) \cup {t} /\ g'.members[t] = wanted
            /\ \A p \in Members(g) : p # t => g'.members[p] = g.members[p]
        BY <3>2 DEF Insert, Members
      <3>4. wanted # held => /\ t \in Members(g) => Outranks(g, a, t)
                             /\ \A r \in wanted \ held : RankAbove(g, a, g.roles[r].position)
        BY <1>1, <3>1 DEF PutOk, OutranksRole
      <3> HIDE DEF wanted
      <3>5. ASSUME NEW p \in People, p # t
            PROVE  /\ p \in Members(g) /\ ~Outranks(g, a, p) =>
                        /\ p \in Members(g') \/ p = a
                        /\ p \in Members(g') => Top(g', p) = Top(g, p)
                   /\ \A m \in Positions(g', p) \ Positions(g, p) : RankAbove(g, a, m)
        BY <2>2, <3>2, <3>3, <3>5
      <3>6. t \in Members(g) /\ ~Outranks(g, a, t) => Top(g', t) = Top(g, t)
        BY <3>2, <3>3, <3>4 DEF Top, Positions
      <3>7. ASSUME NEW m \in Positions(g', t), m \notin Positions(g, t) PROVE RankAbove(g, a, m)
        <4>1. PICK r \in wanted \cap DOMAIN g.roles : m = g.roles[r].position
          BY <3>2, <3>3, <3>7 DEF Positions
        <4>2. r \notin held
          BY <3>7, <4>1 DEF Positions
        <4> QED BY <3>4, <4>1, <4>2
      <3> QED BY <3>3, <3>5, <3>6, <3>7
    <2>4. CASE Remove(a)
      <3>1. PICK t \in People, ban \in BOOLEAN : RemoveOk(g, a, t, ban) /\ g' = RemoveDo(g, t, ban, at)
        BY <2>4 DEF Remove
      <3>2. g'.roles = g.roles /\ g'.members = Without(g.members, t) /\ Outranks(g, a, t)
        BY <2>1, <3>1 DEF RemoveDo, FieldNames, RemoveOk
      <3> QED BY <2>2, <3>2 DEF Without, Members
    <2>5. CASE Leave(a)
      <3>1. g'.roles = g.roles /\ g'.members = Without(g.members, a)
        BY <2>1, <2>5 DEF Leave, LeaveDo, FieldNames
      <3> QED BY <2>2, <3>1 DEF Without, Members
    <2>6. CASE Join(a)
      <3>1. g' = JoinDo(g, a, at) /\ a \notin Members(g)
        BY <2>6 DEF Join, JoinOk
      <3>2. g'.roles = g.roles /\ g'.members = Insert(g.members, a, {})
        BY <2>1, <3>1 DEF JoinDo, FieldNames
      <3>3. /\ Members(g') = Members(g) \cup {a} /\ g'.members[a] = {}
            /\ \A p \in Members(g) : g'.members[p] = g.members[p]
        BY <3>1, <3>2 DEF Insert, Members
      <3> QED BY <2>2, <3>1, <3>2, <3>3
    <2>7. CASE Unban(a) \/ Mute(a) \/ MuteRefused(a) \/ RecordInvite(a)
      <3>1. CASE Unban(a)
        BY <2>1, <2>2, <3>1 DEF Unban, UnbanDo, FieldNames, Members
      <3>2. CASE Mute(a)
        <4>1. g'.roles = g.roles /\ g'.members = g.members
          BY <2>1, <3>2 DEF Mute, MuteDo, EndMutes, FieldNames
        <4> QED BY <2>2, <4>1 DEF Members
      <3>3. CASE MuteRefused(a)
        <4>1. g'.roles = g.roles /\ g'.members = g.members
          BY <2>1, <3>3 DEF MuteRefused, EndMutes, FieldNames
        <4> QED BY <2>2, <4>1 DEF Members
      <3>4. CASE RecordInvite(a)
        <4>1. g'.roles = g.roles /\ g'.members = g.members
          BY <2>1, <3>4 DEF RecordInvite, FieldNames
        <4> QED BY <2>2, <4>1 DEF Members
      <3> QED BY <2>7, <3>1, <3>2, <3>3, <3>4
    <2>8. CASE draft # None /\ draft.by = a /\ CommitEdit
      <3>1. /\ g' = draft.next /\ Good(draft.next) /\ DraftOf(g, a, draft.next)
            /\ BelowOnly(g, a, draft.next) /\ Ladder(g) /\ OwnerBare(g)
        BY <1>1, <2>8 DEF CommitEdit, IInv, DraftInv, RInv, DraftKeeps
      <3>2. Members(g') = Members(g)
        BY <3>1 DEF DraftOf
      <3>3. ASSUME NEW p \in Members(g)
            PROVE  /\ ~Outranks(g, a, p) => Top(g', p) = Top(g, p)
                   /\ \A m \in Positions(g', p) \ Positions(g, p) : RankAbove(g, a, m)
        BY <1>1, <2>1, <3>1, BelowKeepsRank
      <3>4. \A p : p \notin Members(g) => Positions(g', p) = {}
        BY <3>2 DEF Positions
      <3> QED BY <3>2, <3>3, <3>4
    <2> QED BY <1>1, <2>3, <2>4, <2>5, <2>6, <2>7, <2>8
  <1> DEFINE Step == \A a \in People : ActBy(a) /\ a # g.owner => Respects(a)
  <1>2. IInv /\ RInv => Step
    BY <1>1
  <1> HIDE DEF Step
  <1>3. IInv /\ RInv /\ [Next]_vars => [Step]_vars
    BY <1>2
  <1>4. Spec => [][Step]_vars
    BY <1>3, StandingInvariance, PTL DEF Spec
  <1> QED BY <1>4 DEF RankIsRespected, Step

-----------------------------------------------------------------------------
(* What the app offers. *)

\* Who may do anything is a member.
LEMMA MayIsMember ==
    ASSUME NEW h, Good(h), NEW me \in People, NEW perm \in Base(h, me)
    PROVE  me \in Members(h)
  BY NoneAssumption DEF Base, Good, Safe, OwnerStandsIn

\* The member dialog offers what apply accepts.
LEMMA MemberOffers ==
    ASSUME NEW h, Good(h), NEW me \in People, NEW t \in Members(h), NEW now \in Nat,
           NEW s \in MemberPresses(h, me, t, now)
    PROVE  MemberPasses(h, me, s, now)
  <1> DEFINE v == MemberView(h, me, t, now)
  <1>a. /\ v.can_kick = ("KICK_MEMBERS" \in IF Outranks(h, me, t) THEN Base(h, me) ELSE {})
        /\ v.can_ban = ("BAN_MEMBERS" \in IF Outranks(h, me, t) THEN Base(h, me) ELSE {})
        /\ v.can_mute = ("MUTE_MEMBERS" \in IF Outranks(h, me, t) THEN Base(h, me) ELSE {})
        /\ v.can_set_roles = ("MANAGE_ROLES" \in IF Outranks(h, me, t) THEN Base(h, me) ELSE {})
        /\ v.muted = MutedNow(h, t, now)
    BY DEF MemberView
  <1>b. t \in People /\ (Outranks(h, me, t) => t # h.owner)
    BY DEF Good, IsGroup, IsMap, Members, Outranks
  <1>c. \/ /\ v.can_set_roles
           /\ \E r \in RoleChoices(h, me, t) : s = [do |-> "set_roles", who |-> t, roles |-> r]
        \/ v.can_mute /\ s = [do |-> "mute", who |-> t, minutes |-> 1]
        \/ v.can_mute /\ v.muted /\ s = [do |-> "mute", who |-> t, minutes |-> None]
        \/ v.can_kick /\ s = [do |-> "kick", who |-> t]
        \/ v.can_ban /\ s = [do |-> "ban", who |-> t]
    BY DEF MemberPresses
  <1> HIDE DEF v
  <1>1. CASE v.can_kick /\ s = [do |-> "kick", who |-> t]
    <2>1. RemoveOk(h, me, t, FALSE)
      BY <1>1, <1>a, <1>b, MayIsMember DEF RemoveOk, Has
    <2>2. s.do = "kick" /\ s.who = t
      BY <1>1
    <2> QED BY <2>1, <2>2 DEF MemberPasses
  <1>2. CASE v.can_ban /\ s = [do |-> "ban", who |-> t]
    <2>1. RemoveOk(h, me, t, TRUE)
      BY <1>2, <1>a, <1>b, MayIsMember DEF RemoveOk, Has
    <2>2. s.do = "ban" /\ s.who = t
      BY <1>2
    <2> QED BY <2>1, <2>2 DEF MemberPasses
  <1>3. CASE v.can_mute /\ s = [do |-> "mute", who |-> t, minutes |-> 1]
    <2>1. AppMute(h, me, t, 1, now)
      <3>1. MuteAllowed(h, me, t)
        BY <1>3, <1>a, <1>b, MayIsMember DEF MuteAllowed, Has
      <3>2. 1 # None /\ now + 1 # None /\ now + 1 > now
        BY NoneAssumption
      <3> QED BY <3>1, <3>2 DEF AppMute, MuteOk
    <2>2. s.do = "mute" /\ s.who = t /\ s.minutes = 1
      BY <1>3
    <2> QED BY <2>1, <2>2 DEF MemberPasses
  <1>4. CASE v.can_mute /\ v.muted /\ s = [do |-> "mute", who |-> t, minutes |-> None]
    <2>1. AppMute(h, me, t, None, now)
      BY <1>4, <1>a, <1>b, MayIsMember DEF AppMute, MuteOk, MuteAllowed, Has, MutedNow
    <2>2. s.do = "mute" /\ s.who = t /\ s.minutes = None
      BY <1>4
    <2> QED BY <2>1, <2>2 DEF MemberPasses
  <1>5. ASSUME v.can_set_roles, NEW r \in RoleChoices(h, me, t),
               s = [do |-> "set_roles", who |-> t, roles |-> r]
        PROVE  MemberPasses(h, me, s, now)
    <2> DEFINE held == h.members[t]
               free == {x \in DOMAIN h.roles \ {DEFAULT_ROLE} : MayAssign(h, me, x)}
    <2>1. held \subseteq DOMAIN h.roles \ {DEFAULT_ROLE}
      BY DEF Good, Safe, NothingLeftBehindIn
    <2>2. \E x \in SUBSET free : r = (held \ free) \cup x
      <3>1. /\ DOMAIN RoleViews(h, me) = DOMAIN h.roles \ {DEFAULT_ROLE}
            /\ {x \in DOMAIN RoleViews(h, me) : RoleViews(h, me)[x]} = free
        BY DEF RoleViews
      <3>2. held \cap DOMAIN RoleViews(h, me) = held
        BY <2>1, <3>1
      <3> QED BY <1>5, <3>1, <3>2, Zenon DEF RoleChoices
    <2> HIDE DEF held
    <2>3. /\ r \subseteq DOMAIN h.roles \ {DEFAULT_ROLE} /\ r \ {DEFAULT_ROLE} = r
          /\ (r \ held) \cup (held \ r) \subseteq free
      BY <2>1, <2>2
    <2>4. \A x \in (r \ held) \cup (held \ r) :
            /\ x \in DOMAIN h.roles /\ OutranksRole(h, me, h.roles[x])
            /\ h.roles[x].perms \subseteq Base(h, me)
      BY <2>3 DEF MayAssign, CanGrant
    <2>5. CanGrant(h, me, UNION {h.roles[x].perms : x \in ((r \ held) \cup (held \ r)) \cap r})
      BY <2>4 DEF CanGrant
    <2>6. me \in Members(h) /\ Has(h, me, "MANAGE_ROLES") /\ Outranks(h, me, t)
      BY <1>5, <1>a, MayIsMember DEF Has
    <2>7. PutOk(h, me, t, r)
      <3>1. (IF t \in Members(h) THEN h.members[t] ELSE {}) = held
        BY DEF held
      <3>2. /\ h.members[t] = held /\ r \subseteq DOMAIN h.roles /\ t # h.owner
            /\ t \in Members(h)
        BY <1>b, <2>3, <2>6 DEF held
      <3> QED BY <2>3, <2>4, <2>5, <2>6, <3>1, <3>2 DEF PutOk
    <2>8. s.do = "set_roles" /\ s.who = t /\ s.roles = r
      BY <1>5
    <2> QED BY <2>7, <2>8 DEF MemberPasses
  <1> QED BY <1>c, <1>1, <1>2, <1>3, <1>4, <1>5

\* The fields of a view the dialogs go by.
LEMMA ViewFields ==
    ASSUME NEW h, NEW me, NEW now
    PROVE  LET v == GroupView(h, me, now)
           IN  /\ DOMAIN v.channels =
                    {c \in DOMAIN h.channels :
                        me \in Members(h) => "VIEW_CHANNEL" \in Effective(h, me, c)}
               /\ \A c \in DOMAIN v.channels : v.channels[c] = ChannelView(h, me, c)
               /\ v.public = h.public
               /\ v.me_owner = (me \in Members(h) /\ me = h.owner)
               /\ v.can_invite => me \in Members(h) /\ "CREATE_INVITE" \in Base(h, me)
               /\ v.can_rename => me \in Members(h) /\ "MANAGE_GROUP" \in Base(h, me)
               /\ v.can_manage => me \in Members(h) /\ "MANAGE_CHANNELS" \in Base(h, me)
               /\ v.can_ban => me \in Members(h) /\ "BAN_MEMBERS" \in Base(h, me)
               /\ v.muted = (me \in Members(h) /\ MutedNow(h, me, now))
               /\ v.waiting = (me \in Members(h) /\ Waiting(h, me, now))
               /\ v.reading = Reading(h, me)
  BY DEF GroupView

\* Of a channel's view.
LEMMA ChannelViewFields ==
    ASSUME NEW h, NEW me, NEW c
    PROVE  LET v == ChannelView(h, me, c)
           IN  /\ v.private = IsPrivate(h, c)
               /\ v.can_send = (me \in Members(h) /\ "SEND_MESSAGES" \in Effective(h, me, c))
               /\ v.can_moderate = (me \in Members(h) /\ "MANAGE_MESSAGES" \in Effective(h, me, c))
  BY DEF ChannelView

\* The owner may set any override on a channel there is.
LEMMA OwnerOverrides ==
    ASSUME NEW h, NEW me, me = h.owner, NEW c \in DOMAIN h.channels, NEW private \in BOOLEAN,
           NEW e \in PrivateEdits(h, c, private)
    PROVE  OverrideOk(h, h, me, e)
  <1>1. PICK r \in DOMAIN h.roles :
          e = [channel |-> c, role |-> r,
               allow |-> IF private /\ r # DEFAULT_ROLE THEN {"VIEW_CHANNEL"} ELSE {},
               deny |-> IF private /\ r = DEFAULT_ROLE THEN {"VIEW_CHANNEL"} ELSE {}]
    BY DEF PrivateEdits
  <1>2. /\ e.channel = c /\ e.role = r
        /\ e.allow = IF private /\ r # DEFAULT_ROLE THEN {"VIEW_CHANNEL"} ELSE {}
    BY <1>1
  <1>3. e.allow \subseteq ALL
    BY <1>2 DEF ALL
  <1>4. Base(h, me) = ALL /\ Effective(h, me, c) = ALL /\ "MANAGE_ROLES" \in ALL
    BY DEF Base, Effective, ALL
  <1> QED BY <1>2, <1>3, <1>4 DEF OverrideOk, Has, OutranksRole

\* The settings dialog offers what edit and the unban accept.
LEMMA SettingsOffers ==
    ASSUME NEW h, Good(h), NEW me \in People, NEW now \in Nat,
           NEW s \in SettingsPresses(h, GroupView(h, me, now))
    PROVE  SettingsPasses(h, me, s)
  <1> DEFINE v == GroupView(h, me, now)
  <1>0. /\ DOMAIN v.channels = {c \in DOMAIN h.channels :
                                me \in Members(h) => "VIEW_CHANNEL" \in Effective(h, me, c)}
        /\ v.me_owner = (me \in Members(h) /\ me = h.owner)
    BY ViewFields
  <1>a. /\ DOMAIN v.channels \subseteq DOMAIN h.channels
        /\ v.me_owner => me = h.owner
        /\ v.can_rename => Has(h, me, "MANAGE_GROUP")
        /\ v.can_manage => Has(h, me, "MANAGE_CHANNELS")
        /\ v.can_ban => Has(h, me, "BAN_MEMBERS") /\ me \in Members(h)
    <2>1. DOMAIN v.channels \subseteq DOMAIN h.channels /\ (v.me_owner => me = h.owner)
      <3> HIDE DEF v
      <3> QED BY <1>0
    <2>2. /\ v.can_rename => Has(h, me, "MANAGE_GROUP")
          /\ v.can_manage => Has(h, me, "MANAGE_CHANNELS")
          /\ v.can_ban => Has(h, me, "BAN_MEMBERS") /\ me \in Members(h)
      BY ViewFields DEF Has
    <2> QED BY <2>1, <2>2, Zenon
  <1> HIDE DEF v
  <1>b. \/ v.can_rename /\ \E d \in {"rename_group", "set_about"} : s = [do |-> d]
        \/ v.me_owner /\ s = [do |-> "set_public", public |-> ~v.public]
        \/ v.can_manage /\ (s = [do |-> "set_newcomer_wait"] \/ s = [do |-> "new_channel"])
        \/ v.can_manage /\ \E c \in DOMAIN v.channels : s = [do |-> "save_channel", id |-> c]
        \/ v.me_owner /\ \E c \in DOMAIN v.channels :
                s = [do |-> "set_private", id |-> c, private |-> ~v.channels[c].private]
        \/ v.can_manage /\ \E c \in DOMAIN v.channels : s = [do |-> "delete_channel", id |-> c]
        \/ v.can_ban /\ \E t \in h.bans : s = [do |-> "unban", who |-> t]
    BY DEF SettingsPresses, LoadBans, Bans, v
  <1>1. CASE v.can_rename /\ \E d \in {"rename_group", "set_about"} : s = [do |-> d]
    <2>1. s.do \in {"rename_group", "set_about"}
      BY <1>1
    <2>2. NameOk(h, me, [text |-> FirstText]) /\ AboutOk(h, me, [text |-> FirstText])
      BY <1>1, <1>a, GenesisAssumption, TextAssumption DEF NameOk, AboutOk
    <2>3. CASE s.do = "rename_group"
      BY <2>2, <2>3 DEF SettingsPasses
    <2>4. CASE s.do = "set_about"
      BY <2>2, <2>4 DEF SettingsPasses
    <2> QED BY <2>1, <2>3, <2>4
  <1>2. CASE v.me_owner /\ s = [do |-> "set_public", public |-> ~v.public]
    <2>1. s.do = "set_public" /\ PublicOk(h, me)
      BY <1>2, <1>a DEF PublicOk
    <2> QED BY <2>1 DEF SettingsPasses
  <1>3. CASE v.can_manage /\ s = [do |-> "set_newcomer_wait"]
    <2>1. s.do = "set_newcomer_wait"
      BY <1>3
    <2>2. NewcomerWaitOk(h, me, [secs |-> 0])
      BY <1>3, <1>a, LimitsAssumption DEF NewcomerWaitOk
    <2> QED BY <2>1, <2>2 DEF SettingsPasses
  <1>4. v.can_manage => \A c : AppSaveChannel(h, me, c)
    BY <1>a, LimitsAssumption DEF AppSaveChannel, ChannelOk
  <1>5. CASE v.can_manage /\ s = [do |-> "new_channel"]
    <2>1. s.do = "new_channel"
      BY <1>5
    <2> QED BY <1>4, <1>5, <2>1 DEF SettingsPasses
  <1>6. CASE v.can_manage /\ \E c \in DOMAIN v.channels : s = [do |-> "save_channel", id |-> c]
    <2>1. s.do = "save_channel"
      BY <1>6
    <2> QED BY <1>4, <1>6, <2>1 DEF SettingsPasses
  <1>7. ASSUME v.me_owner, NEW c \in DOMAIN v.channels,
               s = [do |-> "set_private", id |-> c, private |-> ~v.channels[c].private]
        PROVE  SettingsPasses(h, me, s)
    <2>1. s.do = "set_private" /\ s.id = c /\ s.private \in BOOLEAN
      BY <1>7
    <2>2. \A e \in PrivateEdits(h, s.id, s.private) : OverrideOk(h, h, me, e)
      BY <1>7, <1>a, <2>1, OwnerOverrides
    <2> QED BY <2>1, <2>2 DEF SettingsPasses
  <1>8. ASSUME v.can_manage, NEW c \in DOMAIN v.channels, s = [do |-> "delete_channel", id |-> c]
        PROVE  SettingsPasses(h, me, s)
    <2>1. s.do = "delete_channel" /\ s.id = c
      BY <1>8
    <2>2. ChannelDeleteOk(h, h, me, [id |-> s.id])
      BY <1>8, <1>a, <2>1 DEF ChannelDeleteOk
    <2> QED BY <2>1, <2>2 DEF SettingsPasses
  <1>9. ASSUME v.can_ban, NEW t \in h.bans, s = [do |-> "unban", who |-> t]
        PROVE  SettingsPasses(h, me, s)
    <2>1. s.do = "unban" /\ s.who = t
      BY <1>9
    <2>2. UnbanOk(h, me, s.who)
      BY <1>9, <1>a, <2>1 DEF UnbanOk
    <2> QED BY <2>1, <2>2 DEF SettingsPasses
  <1> QED BY <1>b, <1>1, <1>2, <1>3, <1>5, <1>6, <1>7, <1>8, <1>9

\* An invite of whoever may make one lets in everybody not kept out.
LEMMA InviteOffered ==
    ASSUME NEW h, Good(h), NEW me \in People, NEW now \in Nat, Has(h, me, "CREATE_INVITE")
    PROVE  AppInvite(h, me, now)
  <1> SUFFICES ASSUME NEW p \in People \ (Members(h) \cup h.bans), NEW code \in Codes
               PROVE  JoinOk([h EXCEPT !.invites =
                        @ \cup {[code |-> code, author |-> me, at |-> now, expires |-> None]}],
                        p, code, now)
    BY DEF AppInvite
  <1> DEFINE i == [code |-> code, author |-> me, at |-> now, expires |-> None]
             k == [h EXCEPT !.invites = @ \cup {i}]
  <1>1. /\ k.invites = h.invites \cup {i} /\ k.owner = h.owner /\ k.roles = h.roles
        /\ k.members = h.members /\ k.bans = h.bans
    BY DEF Good, IsGroup, FieldNames
  <1>2. i.code = code /\ i.author = me /\ i.at = now /\ i.expires = None
    OBVIOUS
  <1> HIDE DEF i, k
  <1>3. Base(k, me) = Base(h, me)
    BY <1>1 DEF Base, BaseOf, Members
  <1>4. Honoured(k, code, now)
    BY <1>1, <1>2, <1>3, NoneAssumption DEF Honoured, Has
  <1>5. JoinOk(k, p, code, now)
    BY <1>1, <1>4 DEF JoinOk, Members
  <1> QED BY <1>5 DEF k, i

\* The window offers what judge accepts.
LEMMA WindowOffers ==
    ASSUME NEW h, Good(h), NEW me \in People, NEW now \in Nat,
           NEW s \in WindowPresses(GroupView(h, me, now))
    PROVE  WindowPasses(h, me, s, now)
  <1> DEFINE v == GroupView(h, me, now)
  <1>a. /\ v.public = h.public /\ v.reading = Reading(h, me)
        /\ v.can_invite => Has(h, me, "CREATE_INVITE")
        /\ \A c \in DOMAIN v.channels : v.channels[c] = ChannelView(h, me, c)
        /\ \A c \in DOMAIN v.channels :
             c \in DOMAIN h.channels /\ (me \in Members(h) => "VIEW_CHANNEL" \in Effective(h, me, c))
    BY ViewFields DEF Has
  <1> HIDE DEF v
  <1>b. \/ v.reading /\ s = [do |-> "join_reading"]
        \/ v.public /\ s = [do |-> "public_link"]
        \/ v.can_invite /\ s = [do |-> "invite"]
        \/ \E c \in DOMAIN v.channels :
             v.channels[c].can_moderate /\ s = [do |-> "remove_message", id |-> c]
    BY DEF WindowPresses, v
  <1>1. CASE v.reading /\ s = [do |-> "join_reading"]
    <2>1. s.do = "join_reading" /\ JoinOk(h, me, None, now)
      BY <1>1, <1>a DEF Reading, JoinOk, Honoured
    <2> QED BY <2>1 DEF WindowPasses
  <1>2. CASE v.public /\ s = [do |-> "public_link"]
    <2>1. s.do = "public_link" /\ h.public
      BY <1>2, <1>a
    <2> QED BY <2>1 DEF WindowPasses
  <1>3. CASE v.can_invite /\ s = [do |-> "invite"]
    <2>1. s.do = "invite" /\ AppInvite(h, me, now)
      BY <1>3, <1>a, InviteOffered
    <2> QED BY <2>1 DEF WindowPasses
  <1>4. ASSUME NEW c \in DOMAIN v.channels, v.channels[c].can_moderate,
               s = [do |-> "remove_message", id |-> c]
        PROVE  WindowPasses(h, me, s, now)
    <2>1. s.do = "remove_message" /\ s.id = c
      BY <1>4
    <2>2. me \in Members(h) /\ "MANAGE_MESSAGES" \in Effective(h, me, c)
      BY <1>4, <1>a, ChannelViewFields
    <2>3. JudgeInChannel(h, me, s.id, {"VIEW_CHANNEL", "MANAGE_MESSAGES"})
      BY <1>4, <1>a, <2>1, <2>2 DEF JudgeInChannel
    <2> QED BY <2>1, <2>3 DEF WindowPasses
  <1> QED BY <1>b, <1>1, <1>2, <1>3, <1>4

\* An open composer's message is accepted: of the spans of a member, the
\* removals are over and the mute to come is the one in the record.
LEMMA ComposerOffers ==
    ASSUME NEW h, Good(h), NEW me \in People, NEW now \in Nat, Timed(h, now),
           NEW c, ComposerOpen(GroupView(h, me, now), c)
    PROVE  JudgeMessage(h, me, c, now) \/ OutlivedMute(h, me, now)
  <1> DEFINE v == GroupView(h, me, now)
  <1>a. /\ c \in DOMAIN v.channels /\ ~v.muted /\ ~v.waiting /\ v.channels[c].can_send
    BY DEF ComposerOpen
  <1>b. /\ c \in DOMAIN h.channels
        /\ me \in Members(h) => "VIEW_CHANNEL" \in Effective(h, me, c)
        /\ v.channels[c] = ChannelView(h, me, c)
        /\ v.muted = (me \in Members(h) /\ MutedNow(h, me, now))
        /\ v.waiting = (me \in Members(h) /\ Waiting(h, me, now))
    BY <1>a, ViewFields
  <1> HIDE DEF v
  <1>c. /\ me \in Members(h) /\ "SEND_MESSAGES" \in Effective(h, me, c)
        /\ "VIEW_CHANNEL" \in Effective(h, me, c)
        /\ ~MutedNow(h, me, now) /\ ~Waiting(h, me, now)
    BY <1>a, <1>b, ChannelViewFields
  <1>1. JudgeInChannel(h, me, c, {"VIEW_CHANNEL", "SEND_MESSAGES"})
    BY <1>b, <1>c DEF JudgeInChannel
  <1>2. ASSUME NEW s \in h.silences, s.who = me, Covers(s, now) PROVE OutlivedMute(h, me, now)
    <2>1. s \in Silence /\ s.until \in Nat \cup {None} /\ s.mute \in BOOLEAN
      BY DEF Good, IsGroup, Silence
    <2>2. s.mute
      <3> SUFFICES ASSUME ~s.mute PROVE FALSE
        BY <2>1
      <3>1. s \in Removals(h, me)
        BY <1>2 DEF Removals
      <3>2. s.until # None
        BY <1>c, <3>1 DEF Good, Safe, SpansFollowMembershipIn
      <3>3. s.until <= now
        BY <3>2 DEF Timed
      <3> QED BY <1>2, <2>1, <3>2, <3>3, NoneAssumption DEF Covers
    <2>3. s.until \in Nat /\ s.until > now
      BY <1>2, <2>2, NoneAssumption DEF Timed, Covers
    <2>4. me \notin DOMAIN h.mutes
      BY <1>2, <1>c, <2>2, <2>3 DEF Timed, MutedNow
    <2> QED BY <1>2, <2>2, <2>4 DEF OutlivedMute
  <1> QED BY <1>1, <1>2, <1>c DEF JudgeMessage, Silenced

\* Every button the dialogs, the banner and the composer show is one whose
\* action this node's own judgement passes, in every state a group can come
\* to, but for a mute that outlived its entry.
THEOREM OfferedIsHonoured == Spec => []OffersAreHonoured
  <1>1. IInv /\ RInv => OffersAreHonoured
    <2> SUFFICES ASSUME IInv, RInv PROVE OffersAreHonoured
      OBVIOUS
    <2>1. Good(g) /\ at \in Nat /\ Timed(g, at)
      BY DEF IInv, RInv
    <2> QED BY <2>1, SettingsOffers, WindowOffers, MemberOffers, ComposerOffers
            DEF OffersAreHonoured
  <1> QED BY <1>1, StandingInvariance, PTL

-----------------------------------------------------------------------------
(* Snapshots. *)

\* No edit deletes the default role.
Rooted == /\ DEFAULT_ROLE \in DOMAIN g.roles
          /\ draft # None => DEFAULT_ROLE \in DOMAIN draft.next.roles

\* Every edit of a batch leaves the draft its default role.
LEMMA EditStepRooted ==
    ASSUME IInv, Rooted, EditStep PROVE Rooted'
  <1>1. CASE RefuseEdit
    BY <1>1 DEF RefuseEdit, Rooted
  <1>2. ASSUME NEW k, draft # None, Drafted(k), DEFAULT_ROLE \in DOMAIN k.roles PROVE Rooted'
    <2>1. g' = g /\ draft'.next = k
      BY <1>2 DEF Drafted
    <2> QED BY <1>2, <2>1 DEF Rooted
  <1>3. draft # None => /\ DOMAIN draft.next = FieldNames
                        /\ DEFAULT_ROLE \in DOMAIN draft.next.roles
    BY DEF IInv, DraftInv, Good, IsGroup, Rooted
  <1>4. CASE EditName
    BY <1>2, <1>3, <1>4 DEF EditName, NameDo, FieldNames
  <1>5. CASE EditAbout
    BY <1>2, <1>3, <1>5 DEF EditAbout, AboutDo, FieldNames
  <1>6. CASE EditPublic
    BY <1>2, <1>3, <1>6 DEF EditPublic, PublicDo, FieldNames
  <1>7. CASE EditNewcomerWait
    BY <1>2, <1>3, <1>7 DEF EditNewcomerWait, NewcomerWaitDo, FieldNames
  <1>8. CASE EditChannel
    BY <1>2, <1>3, <1>8 DEF EditChannel, ChannelDo, FieldNames
  <1>9. CASE EditChannelDelete
    BY <1>2, <1>3, <1>9 DEF EditChannelDelete, ChannelDeleteDo, FieldNames
  <1>10. CASE EditOverride
    BY <1>2, <1>3, <1>10 DEF EditOverride, OverrideDo, FieldNames
  <1>11. CASE EditRole
    BY <1>2, <1>3, <1>11 DEF EditRole, RoleDo, Insert, FieldNames
  <1>12. CASE EditRoleDelete
    BY <1>2, <1>3, <1>12 DEF EditRoleDelete, RoleDeleteOk, RoleDeleteDo, Without, FieldNames
  <1> QED BY <1>1, <1>4, <1>5, <1>6, <1>7, <1>8, <1>9, <1>10, <1>11, <1>12 DEF EditStep

\* A group always has its default role.
LEMMA RootedInvariance == Spec => [](IInv /\ RInv /\ Rooted)
  <1>1. Init => Rooted
    <2>1. DEFAULT_ROLE \in DOMAIN DefaultRoles
      BY DEF DefaultRoles, DEFAULT_ROLE
    <2> QED BY <2>1 DEF Init, Genesis, Rooted
  <1>2. ASSUME IInv, RInv, Rooted, [Next]_vars PROVE Rooted'
    <2>1. ASSUME NEW a \in People, ActBy(a), draft = None PROVE Rooted'
      <3>1. g'.roles = g.roles
        BY <1>2, <2>1, PeopleKeep
      <3>2. draft' = None
        BY <2>1 DEF ActBy, Put, Remove, Unban, Mute, MuteRefused, Join, Leave, RecordInvite
      <3> QED BY <1>2, <3>1, <3>2 DEF Rooted
    <2>2. ASSUME NEW a \in People, ActBy(a), draft # None PROVE Rooted'
      BY <1>2, <2>2 DEF CommitEdit, Rooted, ActBy, Put, Remove, Unban, Mute, MuteRefused, Join,
                        Leave, RecordInvite
    <2>3. ASSUME NEW a \in People, BeginEdit(a) PROVE Rooted'
      BY <1>2, <2>3 DEF BeginEdit, Rooted
    <2>4. CASE EditStep
      BY <1>2, <2>4, EditStepRooted
    <2>5. CASE Tick
      BY <1>2, <2>5 DEF Tick, Rooted
    <2>6. CASE Compact
      <3>1. g'.roles = g.roles
        BY <1>2, <2>6 DEF Compact, Compacted, IInv, Good, IsGroup, FieldNames
      <3> QED BY <1>2, <2>6, <3>1 DEF Compact, Rooted
    <2>7. CASE UNCHANGED vars
      BY <1>2, <2>7 DEF vars, Rooted
    <2> QED BY <1>2, <2>1, <2>2, <2>3, <2>4, <2>5, <2>6, <2>7 DEF Next
  <1> QED BY <1>1, <1>2, StandingInvariance, PTL DEF Spec

\* What a node that holds the four events of one snapshot of h reads there.
SnapshotOf(h, d) == FromPieces([k \in STATE_KINDS |-> ToSnapshot(h, d)], TRUE)

\* Signing a snapshot and reading it is what Compacted says, but for the
\* invites, which are actions and travel on their own; and nothing that a
\* permission question looks at is lost on the way.
LEMMA SnapshotReads ==
    ASSUME NEW h, Good(h), OwnerBare(h), DEFAULT_ROLE \in DOMAIN h.roles, NEW d \in Nat
    PROVE  /\ SnapshotOf(h, d) = [Compacted(h, d) EXCEPT !.invites = {}]
           /\ Standing(SnapshotOf(h, d)) = Standing(h)
  <1> DEFINE s == ToSnapshot(h, d)
             held == {[k \in STATE_KINDS |-> s][l] : l \in STATE_KINDS}
             named == [p \in DOMAIN h.members |->
                        IF p \in DOMAIN h.members
                        THEN (h.members[p] \cap DOMAIN h.roles) \ {DEFAULT_ROLE} ELSE {}]
             read == SnapshotOf(h, d)
  <1>1. /\ s.seq = h.seq + 1 /\ s.at = d /\ s.name = h.name /\ s.about = h.about
        /\ s.public = h.public /\ s.newcomer_wait = h.newcomer_wait
        /\ s.channels = h.channels /\ s.overrides = h.overrides /\ s.roles = h.roles
        /\ s.owner = h.owner /\ s.members = h.members /\ s.bans = h.bans /\ s.mutes = h.mutes
    BY DEF ToSnapshot
  <1> HIDE DEF s
  <1>2. held = {s}
    BY DEF STATE_KINDS
  <1> HIDE DEF held
  <1>3. h.seq \in Nat /\ h.seq + 1 \in Nat
    BY DEF Good, IsGroup
  <1>4. (CHOOSE t \in {x.at : x \in held} : \A x \in held : x.at <= t) = d
    <2>1. {x.at : x \in held} = {d} /\ \A x \in held : x.at <= d
      BY <1>1, <1>2
    <2>2. \E t \in {x.at : x \in held} : \A x \in held : x.at <= t
      BY <2>1
    <2> QED BY <2>1, <2>2
  <1>5. (CHOOSE q \in {x.seq : x \in held} : \A x \in held : x.seq <= q) = h.seq + 1
    <2>1. {x.seq : x \in held} = {h.seq + 1} /\ \A x \in held : x.seq <= h.seq + 1
      BY <1>1, <1>2, <1>3
    <2>2. \E q \in {x.seq : x \in held} : \A x \in held : x.seq <= q
      BY <2>1
    <2> QED BY <2>1, <2>2
  <1>6. read =
          [seq |-> h.seq + 1, cutoff |-> d,
           name |-> h.name, about |-> h.about, public |-> h.public,
           newcomer_wait |-> h.newcomer_wait, joined |-> EmptyMap,
           owner |-> h.owner, named_owner |-> h.owner,
           channels |-> h.channels, overrides |-> h.overrides, roles |-> h.roles,
           members |-> IF h.owner = None THEN named ELSE Insert(named, h.owner, {}),
           invites |-> {}, bans |-> h.bans, mutes |-> h.mutes,
           silences |-> MutesAsSilences(h.mutes, d)]
    BY <1>1, <1>4, <1>5 DEF SnapshotOf, FromPieces, STATE_KINDS, s, held
  <1>a. /\ h.members = [p \in DOMAIN h.members |-> h.members[p]]
        /\ \A p \in DOMAIN h.members : h.members[p] \subseteq DOMAIN h.roles \ {DEFAULT_ROLE}
    BY DEF Good, Safe, NothingLeftBehindIn, Members, IsGroup, IsMap
  <1>b. h.owner # None => h.owner \in DOMAIN h.members /\ h.members[h.owner] = {}
    BY DEF OwnerBare, Good, Safe, OwnerStandsIn, Members
  <1>c. named = h.members
    <2>1. \A p \in DOMAIN h.members : named[p] = h.members[p]
      BY <1>a
    <2> QED BY <1>a, <2>1
  <1>7. (IF h.owner = None THEN named ELSE Insert(named, h.owner, {})) = h.members
    <2> HIDE DEF named
    <2>1. CASE h.owner # None
      <3>1. DOMAIN h.members \cup {h.owner} = DOMAIN h.members
        BY <1>b, <2>1
      <3> QED BY <1>a, <1>b, <1>c, <2>1, <3>1 DEF Insert
    <2> QED BY <1>c, <2>1
  <1>8. [p \in DOMAIN h.members |-> IF p = h.owner THEN {}
                        ELSE (h.members[p] \cap DOMAIN h.roles) \ {DEFAULT_ROLE}] = h.members
    BY NoneAssumption DEF OwnerBare, Good, Safe, NothingLeftBehindIn, Members, IsGroup, IsMap
  <1>9. [Compacted(h, d) EXCEPT !.invites = {}] = read
    <2>1. DOMAIN h = FieldNames
      BY DEF Good, IsGroup
    <2> HIDE DEF named, read
    <2>2. read = [x \in FieldNames |-> read[x]]
      BY <1>6 DEF FieldNames
    <2> DEFINE c == [Compacted(h, d) EXCEPT !.invites = {}]
    <2>3. /\ DOMAIN c = FieldNames
          /\ c.seq = h.seq + 1 /\ c.cutoff = d /\ c.name = h.name /\ c.about = h.about
          /\ c.public = h.public /\ c.newcomer_wait = h.newcomer_wait /\ c.joined = EmptyMap
          /\ c.owner = h.owner /\ c.named_owner = h.owner /\ c.channels = h.channels
          /\ c.overrides = h.overrides /\ c.roles = h.roles /\ c.members = h.members
          /\ c.invites = {} /\ c.bans = h.bans /\ c.mutes = h.mutes
          /\ c.silences = MutesAsSilences(h.mutes, d)
      BY <1>8, <2>1 DEF Compacted, FieldNames
    <2>4. c = [x \in FieldNames |-> c[x]]
      BY <2>1 DEF Compacted
    <2> HIDE DEF c
    <2>5. /\ read.seq = h.seq + 1 /\ read.cutoff = d /\ read.name = h.name
          /\ read.about = h.about /\ read.public = h.public
          /\ read.newcomer_wait = h.newcomer_wait /\ read.joined = EmptyMap
          /\ read.owner = h.owner /\ read.named_owner = h.owner
          /\ read.channels = h.channels /\ read.overrides = h.overrides
          /\ read.roles = h.roles /\ read.members = h.members /\ read.invites = {}
          /\ read.bans = h.bans /\ read.mutes = h.mutes
          /\ read.silences = MutesAsSilences(h.mutes, d)
      BY <1>6, <1>7
    <2>6. \A x \in FieldNames : c[x] = read[x]
      BY <2>3, <2>5 DEF FieldNames
    <2>7. c = read
      BY <2>2, <2>4, <2>6
    <2> QED BY <2>7 DEF c
  <1>10. Standing(read) = Standing(h)
    <2> HIDE DEF read, named
    <2> QED BY <1>6, <1>7 DEF Standing
  <1> QED BY <1>9, <1>10

\* Compaction keeps every standing: in every state a group can come to, its
\* snapshot, signed as four events at any time and read back by fold, is the
\* compacted state Compact goes on from, and has the same owner, members and
\* their roles, roles, bans, mutes, channels, overrides and door as before.
THEOREM SnapshotsKeepStanding ==
    Spec => [](\A d \in Nat :
                /\ SnapshotOf(g, d) = [Compacted(g, d) EXCEPT !.invites = {}]
                /\ Standing(SnapshotOf(g, d)) = Standing(g))
  <1> DEFINE Kept == \A d \in Nat :
                /\ SnapshotOf(g, d) = [Compacted(g, d) EXCEPT !.invites = {}]
                /\ Standing(SnapshotOf(g, d)) = Standing(g)
  <1>1. IInv /\ RInv /\ Rooted => Kept
    BY SnapshotReads DEF IInv, RInv, Rooted
  <1> QED BY <1>1, RootedInvariance, PTL

=============================================================================
