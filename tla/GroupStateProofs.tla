-------------------------- MODULE GroupStateProofs --------------------------
(***************************************************************************)
(* Theorems about GroupState, for every set of people, roles and channels  *)
(* and every value of the bounds.                                          *)
(*                                                                         *)
(* Each operation of GroupRules gets one lemma: applied to a well-formed,  *)
(* safe record by an action that is valid against it, it gives another.    *)
(* The inductive invariant adds what holds between g and the draft of an   *)
(* edit under way.                                                         *)
(***************************************************************************)
EXTENDS GroupState, TLAPS

-----------------------------------------------------------------------------
(* Spans. *)

\* let_back_in leaves spans, of the same people and kinds.
LEMMA LetBackInSpans ==
    ASSUME NEW h, h.silences \subseteq Silence, NEW p \in People, NEW t \in Nat
    PROVE  /\ LetBackIn(h, p, t) \subseteq Silence
           /\ \A s \in LetBackIn(h, p, t) : \E r \in h.silences :
                /\ s.who = r.who /\ s.mute = r.mute
                /\ s.who # p \/ s.mute => s = r
                /\ s.who = p /\ ~s.mute => s.until # None
           /\ \A r \in h.silences : r.who # p => r \in LetBackIn(h, p, t)
  BY NoneAssumption DEF LetBackIn, Silence

\* Ending the mutes of p leaves spans, and every removal span as it was.
LEMMA EndMutesSpans ==
    ASSUME NEW h, DOMAIN h = FieldNames, h.silences \subseteq Silence,
           NEW p \in People, NEW t \in Nat
    PROVE  /\ EndMutes(h, p, t).silences \subseteq Silence
           /\ \A s \in EndMutes(h, p, t).silences : \E r \in h.silences :
                s.who = r.who /\ s.mute = r.mute /\ (~s.mute => s = r)
           /\ \A r \in h.silences : ~r.mute => r \in EndMutes(h, p, t).silences
  <1>1. EndMutes(h, p, t).silences =
          {IF s.who = p /\ s.mute /\ Covers(s, t) THEN [s EXCEPT !.until = t] ELSE s :
              s \in h.silences}
    BY DEF EndMutes, FieldNames
  <1> QED BY <1>1 DEF Silence
-----------------------------------------------------------------------------
(* The safe records, and the operations that lead from one to another. *)

Safe(h) == /\ OwnerStandsIn(h)
           /\ BannedAreOutIn(h)
           /\ NothingLeftBehindIn(h)
           /\ SpansFollowMembershipIn(h)

Good(h) == IsGroup(h) /\ Safe(h)

\* A valid 9000 keeps the record well-formed and safe.
LEMMA PutGood ==
    ASSUME NEW h, Good(h), NEW a \in People, NEW t \in People,
           NEW roles \in SUBSET RoleIds, NEW now \in Nat, PutOk(h, a, t, roles)
    PROVE  Good(PutDo(h, t, roles, now))
  <1> DEFINE k == PutDo(h, t, roles, now)
             wanted == roles \ {DEFAULT_ROLE}
  <1> HIDE DEF k
  <1>1. /\ DOMAIN k = FieldNames
        /\ k.members = Insert(h.members, t, wanted)
        /\ k.silences = IF t \in Members(h) THEN h.silences ELSE LetBackIn(h, t, now)
        /\ k.seq = h.seq /\ k.cutoff = h.cutoff /\ k.name = h.name /\ k.about = h.about
        /\ k.public = h.public /\ k.newcomer_wait = h.newcomer_wait /\ k.joined = h.joined
        /\ k.owner = h.owner /\ k.named_owner = h.named_owner /\ k.channels = h.channels
        /\ k.overrides = h.overrides /\ k.roles = h.roles /\ k.invites = h.invites
        /\ k.bans = h.bans /\ k.mutes = h.mutes
    BY DEF k, Good, IsGroup, PutDo, FieldNames
  <1>2. /\ IsMap(k.members, People, SUBSET RoleIds)
        /\ Members(k) = Members(h) \cup {t}
        /\ k.members[t] = wanted
        /\ \A p \in Members(h) : p # t => k.members[p] = h.members[p]
    <2>1. IsMap(h.members, People, SUBSET RoleIds) /\ wanted \in SUBSET RoleIds
      BY DEF Good, IsGroup
    <2> HIDE DEF wanted
    <2> QED BY <2>1, <1>1 DEF Members, IsMap, Insert
  <1>3. k.silences \subseteq Silence
    BY <1>1, LetBackInSpans DEF Good, IsGroup
  <1>4. IsGroup(k)
    BY <1>1, <1>2, <1>3 DEF Good, IsGroup
  <1>5. t # h.owner /\ wanted \subseteq DOMAIN h.roles /\ (t \in Members(h) \/ t \notin h.bans)
    BY DEF PutOk
  <1>6. OwnerStandsIn(k)
    <2>1. \A s \in k.silences : \E r \in h.silences : s.who = r.who
      BY <1>1, LetBackInSpans DEF Good, IsGroup
    <2> QED BY <2>1, <1>1, <1>2, <1>5 DEF Good, Safe, OwnerStandsIn
  <1>7. BannedAreOutIn(k)
    BY <1>1, <1>2, <1>5 DEF Good, Safe, BannedAreOutIn
  <1>8. NothingLeftBehindIn(k)
    BY <1>1, <1>2, <1>5 DEF Good, Safe, NothingLeftBehindIn
  <1>9. SpansFollowMembershipIn(k)
    <2> SUFFICES ASSUME NEW p \in People, Removals(k, p) # {}
                 PROVE  p \in Members(k) <=> \A s \in Removals(k, p) : s.until # None
      BY DEF SpansFollowMembershipIn
    <2>1. CASE t \in Members(h)
      BY <2>1, <1>1, <1>2 DEF Good, Safe, SpansFollowMembershipIn, Removals
    <2>2. CASE t \notin Members(h) /\ p = t
      BY <2>2, <1>1, <1>2, LetBackInSpans DEF Good, IsGroup, Removals
    <2>3. CASE t \notin Members(h) /\ p # t
      <3>1. Removals(k, p) = Removals(h, p)
        BY <2>3, <1>1, LetBackInSpans DEF Good, IsGroup, Removals
      <3> QED BY <3>1, <2>3, <1>2 DEF Good, Safe, SpansFollowMembershipIn
    <2> QED BY <2>1, <2>2, <2>3
  <1> QED BY <1>4, <1>6, <1>7, <1>8, <1>9 DEF k, Good, Safe

\* k is h with at most its people changed: who is in, who is silenced, how.
SamePolicy(h, k) ==
    /\ DOMAIN k = FieldNames
    /\ k.seq = h.seq /\ k.cutoff = h.cutoff /\ k.name = h.name /\ k.about = h.about
    /\ k.public = h.public /\ k.newcomer_wait = h.newcomer_wait
    /\ k.owner = h.owner /\ k.named_owner = h.named_owner /\ k.channels = h.channels
    /\ k.overrides = h.overrides /\ k.roles = h.roles /\ k.invites = h.invites

\* Someone is out, by a kick, a ban or a leave: k has them out of the members,
\* the mutes and the newcomers, with an open span, and changes nothing else
\* but, perhaps, to ban them.
LEMMA OutGood ==
    ASSUME NEW h, Good(h), NEW t \in People, NEW now \in Nat, t # h.owner,
           NEW k, SamePolicy(h, k),
           k.members = Without(h.members, t),
           k.mutes = Without(h.mutes, t),
           k.joined = Without(h.joined, t),
           k.silences = SilenceOf(h, t, now, None, FALSE),
           k.bans = h.bans \/ k.bans = h.bans \cup {t}
    PROVE  Good(k)
  <1>1. /\ IsMap(k.members, People, SUBSET RoleIds)
        /\ Members(k) = Members(h) \ {t}
        /\ \A p \in Members(k) : k.members[p] = h.members[p]
    BY DEF Good, IsGroup, IsMap, Without, Members
  <1>2. /\ IsMap(k.mutes, People, Nat) /\ DOMAIN k.mutes = DOMAIN h.mutes \ {t}
        /\ IsMap(k.joined, People, Nat) /\ DOMAIN k.joined = DOMAIN h.joined \ {t}
    <2>1. IsMap(h.mutes, People, Nat) /\ IsMap(h.joined, People, Nat)
      BY DEF Good, IsGroup
    <2> QED BY <2>1 DEF IsMap, Without
  <1>3. k.silences \subseteq Silence
    <2>1. h.silences \subseteq Silence
      BY DEF Good, IsGroup
    <2>2. \A m \in BOOLEAN : [who |-> t, from |-> now, until |-> None, mute |-> m] \in Silence
      BY DEF Silence
    <2>3. [who |-> t, from |-> now, until |-> None, mute |-> FALSE] \in Silence
      BY <2>2, Zenon
    <2> QED BY <2>1, <2>3 DEF SilenceOf
  <1>4. IsGroup(k)
    BY <1>1, <1>2, <1>3 DEF Good, IsGroup, SamePolicy
  <1>a. k.bans \subseteq h.bans \cup {t} /\ k.owner = h.owner
    BY DEF SamePolicy
  <1>b. \A s \in k.silences : s \in h.silences \/ s.who = t
    BY DEF SilenceOf
  <1>5. OwnerStandsIn(k)
    BY <1>1, <1>2, <1>a, <1>b DEF Good, Safe, OwnerStandsIn
  <1>6. BannedAreOutIn(k)
    BY <1>1, <1>a DEF Good, Safe, BannedAreOutIn
  <1>7. NothingLeftBehindIn(k)
    BY <1>1, <1>2 DEF Good, Safe, NothingLeftBehindIn, SamePolicy
  <1>8. SpansFollowMembershipIn(k)
    <2> SUFFICES ASSUME NEW p \in People, Removals(k, p) # {}
                 PROVE  p \in Members(k) <=> \A s \in Removals(k, p) : s.until # None
      BY DEF SpansFollowMembershipIn
    <2>1. CASE p = t
      <3> DEFINE open == [who |-> t, from |-> now, until |-> None, mute |-> FALSE]
      <3>1. open \in k.silences /\ open.who = t /\ ~open.mute /\ open.until = None
        BY DEF SilenceOf
      <3> HIDE DEF open
      <3> QED BY <3>1, <2>1, <1>1 DEF Removals
    <2>2. CASE p # t
      <3>1. Removals(k, p) = Removals(h, p)
        BY <2>2 DEF Removals, SilenceOf
      <3> QED BY <3>1, <2>2, <1>1 DEF Good, Safe, SpansFollowMembershipIn
    <2> QED BY <2>1, <2>2
  <1> QED BY <1>4, <1>5, <1>6, <1>7, <1>8 DEF Good, Safe

\* A valid 9001 keeps the record well-formed and safe.
LEMMA RemoveGood ==
    ASSUME NEW h, Good(h), NEW a \in People, NEW t \in People, NEW ban \in BOOLEAN,
           NEW now \in Nat, RemoveOk(h, a, t, ban)
    PROVE  Good(RemoveDo(h, t, ban, now))
  <1> DEFINE k == RemoveDo(h, t, ban, now)
  <1>1. t # h.owner
    BY DEF RemoveOk
  <1>2. /\ SamePolicy(h, k)
        /\ k.members = Without(h.members, t)
        /\ k.silences = SilenceOf(h, t, now, None, FALSE)
        /\ k.bans = h.bans \/ k.bans = h.bans \cup {t}
    BY DEF Good, IsGroup, RemoveDo, FieldNames, SamePolicy
  <1>3. /\ k.mutes = IF t \in Members(h) THEN Without(h.mutes, t) ELSE h.mutes
        /\ k.joined = IF t \in Members(h) THEN Without(h.joined, t) ELSE h.joined
    BY DEF Good, IsGroup, RemoveDo, FieldNames
  <1>4. t \notin Members(h) => t \notin DOMAIN h.mutes /\ t \notin DOMAIN h.joined
    BY DEF Good, Safe, NothingLeftBehindIn
  <1>5. \A f : IsMap(f, People, Nat) /\ t \notin DOMAIN f => Without(f, t) = f
    BY DEF IsMap, Without
  <1>6. k.mutes = Without(h.mutes, t) /\ k.joined = Without(h.joined, t)
    BY <1>3, <1>4, <1>5 DEF Good, IsGroup
  <1> QED BY <1>1, <1>2, <1>6, OutGood

\* A valid 9022 keeps the record well-formed and safe.
LEMMA LeaveGood ==
    ASSUME NEW h, Good(h), NEW a \in People, NEW now \in Nat, LeaveOk(h, a)
    PROVE  Good(LeaveDo(h, a, now))
  <1> DEFINE k == LeaveDo(h, a, now)
  <1>1. /\ SamePolicy(h, k)
        /\ k.members = Without(h.members, a)
        /\ k.mutes = Without(h.mutes, a)
        /\ k.joined = Without(h.joined, a)
        /\ k.silences = SilenceOf(h, a, now, None, FALSE)
        /\ k.bans = h.bans
    BY DEF Good, IsGroup, LeaveDo, FieldNames, SamePolicy
  <1>2. a # h.owner
    BY DEF LeaveOk
  <1> QED BY <1>1, <1>2, OutGood

\* A valid unban keeps the record well-formed and safe: it lets nobody in.
LEMMA UnbanGood ==
    ASSUME NEW h, Good(h), NEW t \in People
    PROVE  Good(UnbanDo(h, t))
  <1> DEFINE k == UnbanDo(h, t)
  <1>1. /\ SamePolicy(h, k)
        /\ k.members = h.members /\ k.mutes = h.mutes /\ k.joined = h.joined
        /\ k.silences = h.silences /\ k.bans = h.bans \ {t}
    BY DEF Good, IsGroup, UnbanDo, FieldNames, SamePolicy
  <1> HIDE DEF k
  <1>2. IsGroup(k)
    BY <1>1 DEF Good, IsGroup, SamePolicy
  <1>3. Safe(k)
    BY <1>1 DEF Good, Safe, SamePolicy, OwnerStandsIn, BannedAreOutIn, NothingLeftBehindIn,
               SpansFollowMembershipIn, Removals, Members
  <1> QED BY <1>2, <1>3 DEF k, Good

\* Spans whose removals are those of h, and whose people are people of h's
\* spans or other members than the owner, fit h's members as h's spans do.
LEMMA SpansGood ==
    ASSUME NEW h, Good(h), NEW k, SamePolicy(h, k),
           k.members = h.members, k.joined = h.joined, k.bans = h.bans,
           IsMap(k.mutes, People, Nat), DOMAIN k.mutes \subseteq Members(h),
           h.owner \notin DOMAIN k.mutes,
           k.silences \subseteq Silence,
           \A s \in k.silences : s.who # h.owner \/ \E r \in h.silences : r.who = s.who,
           \A s \in Silence : ~s.mute => (s \in k.silences <=> s \in h.silences)
    PROVE  Good(k)
  <1>1. IsGroup(k)
    BY DEF Good, IsGroup, SamePolicy
  <1>2. OwnerStandsIn(k)
    BY DEF Good, Safe, SamePolicy, OwnerStandsIn, Members
  <1>3. BannedAreOutIn(k) /\ NothingLeftBehindIn(k)
    BY DEF Good, Safe, SamePolicy, BannedAreOutIn, NothingLeftBehindIn, Members
  <1>4. \A p \in People : Removals(k, p) = Removals(h, p)
    BY DEF Good, IsGroup, Removals
  <1>5. SpansFollowMembershipIn(k)
    BY <1>4 DEF Good, Safe, SpansFollowMembershipIn, Members
  <1> QED BY <1>1, <1>2, <1>3, <1>5 DEF Good, Safe

\* A 9030 refused at its last check changes only the ends of mute spans.
LEMMA EndMutesGood ==
    ASSUME NEW h, Good(h), NEW t \in People, NEW now \in Nat
    PROVE  Good(EndMutes(h, t, now))
  <1> DEFINE k == EndMutes(h, t, now)
  <1>1. /\ SamePolicy(h, k)
        /\ k.members = h.members /\ k.mutes = h.mutes /\ k.joined = h.joined
        /\ k.bans = h.bans
    BY DEF Good, IsGroup, EndMutes, FieldNames, SamePolicy
  <1>2. DOMAIN h = FieldNames /\ h.silences \subseteq Silence /\ IsMap(h.mutes, People, Nat)
    BY DEF Good, IsGroup
  <1>3. /\ DOMAIN h.mutes \subseteq Members(h)
        /\ h.owner # None => h.owner \notin DOMAIN h.mutes
    BY DEF Good, Safe, NothingLeftBehindIn, OwnerStandsIn
  <1>4. h.owner \notin DOMAIN h.mutes
    BY <1>2, <1>3, NoneAssumption DEF IsMap
  <1>5. /\ k.silences \subseteq Silence
        /\ \A s \in k.silences : \E r \in h.silences : r.who = s.who
        /\ \A s \in Silence : ~s.mute => (s \in k.silences <=> s \in h.silences)
    BY <1>2, EndMutesSpans
  <1> HIDE DEF k
  <1>6. Good(k)
    BY <1>1, <1>2, <1>3, <1>4, <1>5, SpansGood
  <1> QED BY <1>6 DEF k

\* A valid 9030 keeps the record well-formed and safe.
LEMMA MuteGood ==
    ASSUME NEW h, Good(h), NEW a \in People, NEW t \in People, NEW now \in Nat,
           NEW until \in Nat \cup {None}, MuteOk(h, a, t, until, now)
    PROVE  Good(MuteDo(h, t, until, now))
  <1> DEFINE e == EndMutes(h, t, now)
             k == MuteDo(h, t, until, now)
             span == [who |-> t, from |-> now, until |-> until, mute |-> TRUE]
  <1>1. Good(e) /\ e.owner = h.owner /\ e.mutes = h.mutes /\ Members(e) = Members(h)
    <2>1. e.owner = h.owner /\ e.mutes = h.mutes /\ e.members = h.members
      BY DEF Good, IsGroup, EndMutes, FieldNames
    <2> QED BY <2>1, EndMutesGood DEF Members
  <1>2. t # h.owner /\ t \in Members(h) /\ (until = None \/ until \in Nat)
    BY DEF MuteOk, MuteAllowed
  <1> HIDE DEF e
  <1>3. /\ SamePolicy(e, k)
        /\ k.members = e.members /\ k.joined = e.joined /\ k.bans = e.bans
        /\ k.mutes = IF until = None THEN Without(e.mutes, t) ELSE Insert(e.mutes, t, until)
        /\ k.silences = IF until = None THEN e.silences ELSE e.silences \cup {span}
    BY <1>1 DEF e, Good, IsGroup, MuteDo, FieldNames, SamePolicy, SilenceOf
  <1> HIDE DEF k
  <1>4. /\ IsMap(e.mutes, People, Nat) /\ e.silences \subseteq Silence
        /\ DOMAIN e.mutes \subseteq Members(e)
        /\ e.owner # None => e.owner \notin DOMAIN e.mutes
    BY <1>1 DEF Good, IsGroup, Safe, NothingLeftBehindIn, OwnerStandsIn
  <1>5. /\ IsMap(k.mutes, People, Nat)
        /\ DOMAIN k.mutes \subseteq DOMAIN e.mutes \cup {t}
    BY <1>2, <1>3, <1>4 DEF IsMap, Insert, Without
  <1>6. DOMAIN k.mutes \subseteq Members(e) /\ e.owner \notin DOMAIN k.mutes
    BY <1>1, <1>2, <1>4, <1>5, NoneAssumption DEF IsMap
  <1>7. span \in Silence /\ span.mute /\ span.who = t
    <2>1. \A m \in BOOLEAN : [who |-> t, from |-> now, until |-> until, mute |-> m] \in Silence
      BY <1>2 DEF Silence
    <2> QED BY <2>1, Zenon
  <1> HIDE DEF span
  <1>8. /\ k.silences \subseteq Silence
        /\ \A s \in k.silences : s.who # e.owner \/ \E r \in e.silences : r.who = s.who
        /\ \A s \in Silence : ~s.mute => (s \in k.silences <=> s \in e.silences)
    BY <1>1, <1>2, <1>3, <1>4, <1>7
  <1>9. Good(k)
    BY <1>1, <1>3, <1>5, <1>6, <1>8, SpansGood
  <1> QED BY <1>9 DEF k

\* A valid 9021 keeps the record well-formed and safe.
LEMMA JoinGood ==
    ASSUME NEW h, Good(h), NEW a \in People, NEW now \in Nat, NEW code, JoinOk(h, a, code, now)
    PROVE  Good(JoinDo(h, a, now))
  <1> DEFINE k == JoinDo(h, a, now)
  <1>1. /\ SamePolicy(h, k)
        /\ k.members = Insert(h.members, a, {}) /\ k.joined = Insert(h.joined, a, now)
        /\ k.silences = LetBackIn(h, a, now) /\ k.mutes = h.mutes /\ k.bans = h.bans
    BY DEF Good, IsGroup, JoinDo, FieldNames, SamePolicy
  <1> HIDE DEF k
  <1>2. a \notin Members(h) /\ a \notin h.bans
    BY DEF JoinOk
  <1>3. /\ IsMap(k.members, People, SUBSET RoleIds)
        /\ Members(k) = Members(h) \cup {a}
        /\ k.members[a] = {}
        /\ \A p \in Members(h) : k.members[p] = h.members[p]
    BY <1>1, <1>2 DEF Good, IsGroup, IsMap, Insert, Members
  <1>4. IsMap(k.joined, People, Nat) /\ DOMAIN k.joined = DOMAIN h.joined \cup {a}
    <2>1. IsMap(h.joined, People, Nat)
      BY DEF Good, IsGroup
    <2> QED BY <2>1, <1>1 DEF IsMap, Insert
  <1>5. /\ k.silences \subseteq Silence
        /\ \A s \in k.silences : \E r \in h.silences : s.who = r.who
        /\ \A s \in Removals(k, a) : s.until # None
        /\ \A p \in People : p # a => Removals(k, p) = Removals(h, p)
    <2>1. h.silences \subseteq Silence
      BY DEF Good, IsGroup
    <2> QED BY <2>1, <1>1, LetBackInSpans DEF Removals
  <1>6. IsGroup(k)
    BY <1>1, <1>3, <1>4, <1>5 DEF Good, IsGroup, SamePolicy
  <1>7. OwnerStandsIn(k)
    <2>1. h.owner # None => h.owner \in Members(h)
      BY DEF Good, Safe, OwnerStandsIn
    <2> QED BY <2>1, <1>1, <1>2, <1>3, <1>4, <1>5 DEF Good, Safe, OwnerStandsIn, SamePolicy
  <1>8. BannedAreOutIn(k)
    BY <1>1, <1>2, <1>3 DEF Good, Safe, BannedAreOutIn
  <1>9. NothingLeftBehindIn(k)
    BY <1>1, <1>3, <1>4 DEF Good, Safe, NothingLeftBehindIn, SamePolicy
  <1>10. SpansFollowMembershipIn(k)
    BY <1>3, <1>5 DEF Good, Safe, SpansFollowMembershipIn
  <1>11. Good(k)
    BY <1>6, <1>7, <1>8, <1>9, <1>10 DEF Good, Safe
  <1> QED BY <1>11 DEF k

\* A 9009 recorded keeps the record well-formed and safe.
LEMMA InviteGood ==
    ASSUME NEW h, Good(h), NEW i \in Invite
    PROVE  Good([h EXCEPT !.invites = @ \cup {i}])
  <1> DEFINE k == [h EXCEPT !.invites = @ \cup {i}]
  <1>1. /\ DOMAIN k = FieldNames
        /\ k.invites = h.invites \cup {i}
        /\ k.seq = h.seq /\ k.cutoff = h.cutoff /\ k.name = h.name /\ k.about = h.about
        /\ k.public = h.public /\ k.newcomer_wait = h.newcomer_wait /\ k.joined = h.joined
        /\ k.owner = h.owner /\ k.named_owner = h.named_owner /\ k.channels = h.channels
        /\ k.overrides = h.overrides /\ k.roles = h.roles /\ k.members = h.members
        /\ k.bans = h.bans /\ k.mutes = h.mutes /\ k.silences = h.silences
    BY DEF Good, IsGroup, FieldNames
  <1> HIDE DEF k
  <1>2. IsGroup(k)
    BY <1>1 DEF Good, IsGroup
  <1>3. Safe(k)
    BY <1>1 DEF Good, Safe, OwnerStandsIn, BannedAreOutIn, NothingLeftBehindIn,
               SpansFollowMembershipIn, Removals, Members
  <1> QED BY <1>2, <1>3 DEF k, Good

-----------------------------------------------------------------------------
(* Edits: the people stay, and stay as they are. *)

SamePeople(h, k) ==
    /\ DOMAIN k = FieldNames
    /\ k.seq = h.seq /\ k.cutoff = h.cutoff
    /\ k.owner = h.owner /\ k.named_owner = h.named_owner
    /\ k.joined = h.joined /\ k.invites = h.invites /\ k.bans = h.bans
    /\ k.mutes = h.mutes /\ k.silences = h.silences
    /\ Members(k) = Members(h)

\* An edit that keeps the people and leaves no role or override dangling
\* keeps the record well-formed and safe.
LEMMA EditGood ==
    ASSUME NEW h, Good(h), NEW k, SamePeople(h, k),
           k.name \in Texts, k.about \in Texts, k.public \in BOOLEAN, k.newcomer_wait \in Nat,
           IsMap(k.channels, Channels, Channel),
           k.overrides \subseteq Override,
           IsMap(k.roles, RoleIds, RoleDef),
           IsMap(k.members, People, SUBSET RoleIds),
           \A p \in Members(k) : k.members[p] \subseteq DOMAIN k.roles \ {DEFAULT_ROLE},
           \A v \in k.overrides : v.channel \in DOMAIN k.channels
    PROVE  Good(k)
  <1>1. IsGroup(k)
    BY DEF Good, IsGroup, SamePeople
  <1>2. OwnerStandsIn(k) /\ BannedAreOutIn(k) /\ NothingLeftBehindIn(k)
    BY DEF Good, Safe, SamePeople, OwnerStandsIn, BannedAreOutIn, NothingLeftBehindIn
  <1>3. SpansFollowMembershipIn(k)
    BY DEF Good, Safe, SamePeople, SpansFollowMembershipIn, Removals
  <1> QED BY <1>1, <1>2, <1>3 DEF Good, Safe

\* k is what edits signed by a, judged against h, may make of h: the people
\* are those of h, holding no new role, and every role's permissions are as
\* they were or within what a holds in h.
DraftOf(h, a, k) ==
    /\ k.owner = h.owner
    /\ Members(k) = Members(h)
    /\ \A p \in Members(h) : k.members[p] \subseteq h.members[p]
    /\ \A r \in DOMAIN k.roles :
        \/ k.roles[r].perms \subseteq Base(h, a)
        \/ r \in DOMAIN h.roles /\ k.roles[r].perms = h.roles[r].perms

\* The edits that touch neither people, roles, channels nor overrides.
LEMMA TextEdits ==
    ASSUME NEW h, NEW a, NEW d, Good(d), DraftOf(h, a, d), NEW k, SamePeople(d, k),
           k.name \in Texts, k.about \in Texts, k.public \in BOOLEAN, k.newcomer_wait \in Nat,
           k.members = d.members, k.roles = d.roles,
           k.channels = d.channels, k.overrides = d.overrides
    PROVE  Good(k) /\ DraftOf(h, a, k)
  <1>1. Good(k)
    BY EditGood DEF Good, IsGroup, Safe, NothingLeftBehindIn, Members
  <1> QED BY <1>1 DEF DraftOf, SamePeople

\* A name edit keeps the draft good.
LEMMA NameGood ==
    ASSUME NEW h, NEW a, NEW d, Good(d), DraftOf(h, a, d), NEW text \in Texts
    PROVE  LET k == NameDo(d, [text |-> text]) IN Good(k) /\ DraftOf(h, a, k)
  <1> DEFINE k == NameDo(d, [text |-> text])
  <1>1. /\ SamePeople(d, k) /\ k.name = text /\ k.about = d.about /\ k.public = d.public
        /\ k.newcomer_wait = d.newcomer_wait /\ k.members = d.members /\ k.roles = d.roles
        /\ k.channels = d.channels /\ k.overrides = d.overrides
    BY DEF Good, IsGroup, NameDo, FieldNames, SamePeople, Members
  <1>2. d.about \in Texts /\ d.public \in BOOLEAN /\ d.newcomer_wait \in Nat
    BY DEF Good, IsGroup
  <1> HIDE DEF k
  <1>3. Good(k) /\ DraftOf(h, a, k)
    BY <1>1, <1>2, TextEdits
  <1> QED BY <1>3 DEF k

\* An about edit keeps the draft good.
LEMMA AboutGood ==
    ASSUME NEW h, NEW a, NEW d, Good(d), DraftOf(h, a, d), NEW text \in Texts
    PROVE  LET k == AboutDo(d, [text |-> text]) IN Good(k) /\ DraftOf(h, a, k)
  <1> DEFINE k == AboutDo(d, [text |-> text])
  <1>1. /\ SamePeople(d, k) /\ k.about = text /\ k.name = d.name /\ k.public = d.public
        /\ k.newcomer_wait = d.newcomer_wait /\ k.members = d.members /\ k.roles = d.roles
        /\ k.channels = d.channels /\ k.overrides = d.overrides
    BY DEF Good, IsGroup, AboutDo, FieldNames, SamePeople, Members
  <1>2. d.name \in Texts /\ d.public \in BOOLEAN /\ d.newcomer_wait \in Nat
    BY DEF Good, IsGroup
  <1> HIDE DEF k
  <1>3. Good(k) /\ DraftOf(h, a, k)
    BY <1>1, <1>2, TextEdits
  <1> QED BY <1>3 DEF k

\* A visibility edit keeps the draft good.
LEMMA PublicGood ==
    ASSUME NEW h, NEW a, NEW d, Good(d), DraftOf(h, a, d), NEW public \in BOOLEAN
    PROVE  LET k == PublicDo(d, [public |-> public]) IN Good(k) /\ DraftOf(h, a, k)
  <1> DEFINE k == PublicDo(d, [public |-> public])
  <1>1. /\ SamePeople(d, k) /\ k.public = public /\ k.name = d.name /\ k.about = d.about
        /\ k.newcomer_wait = d.newcomer_wait /\ k.members = d.members /\ k.roles = d.roles
        /\ k.channels = d.channels /\ k.overrides = d.overrides
    BY DEF Good, IsGroup, PublicDo, FieldNames, SamePeople, Members
  <1>2. d.name \in Texts /\ d.about \in Texts /\ d.newcomer_wait \in Nat
    BY DEF Good, IsGroup
  <1> HIDE DEF k
  <1>3. Good(k) /\ DraftOf(h, a, k)
    BY <1>1, <1>2, TextEdits
  <1> QED BY <1>3 DEF k

\* A newcomer_wait edit keeps the draft good.
LEMMA NewcomerWaitGood ==
    ASSUME NEW h, NEW a, NEW d, Good(d), DraftOf(h, a, d), NEW secs \in Nat
    PROVE  LET k == NewcomerWaitDo(d, [secs |-> secs]) IN Good(k) /\ DraftOf(h, a, k)
  <1> DEFINE k == NewcomerWaitDo(d, [secs |-> secs])
  <1>1. /\ SamePeople(d, k) /\ k.newcomer_wait = secs /\ k.name = d.name /\ k.about = d.about
        /\ k.public = d.public /\ k.members = d.members /\ k.roles = d.roles
        /\ k.channels = d.channels /\ k.overrides = d.overrides
    BY DEF Good, IsGroup, NewcomerWaitDo, FieldNames, SamePeople, Members
  <1>2. d.name \in Texts /\ d.about \in Texts /\ d.public \in BOOLEAN
    BY DEF Good, IsGroup
  <1> HIDE DEF k
  <1>3. Good(k) /\ DraftOf(h, a, k)
    BY <1>1, <1>2, TextEdits
  <1> QED BY <1>3 DEF k

\* The edits of channels and overrides: people and roles stay as they are.
LEMMA ChannelEdits ==
    ASSUME NEW h, NEW a, NEW d, Good(d), DraftOf(h, a, d), NEW k, SamePeople(d, k),
           k.name = d.name, k.about = d.about, k.public = d.public,
           k.newcomer_wait = d.newcomer_wait, k.members = d.members, k.roles = d.roles,
           IsMap(k.channels, Channels, Channel), k.overrides \subseteq Override,
           \A v \in k.overrides : v.channel \in DOMAIN k.channels
    PROVE  Good(k) /\ DraftOf(h, a, k)
  <1>1. /\ d.name \in Texts /\ d.about \in Texts /\ d.public \in BOOLEAN
        /\ d.newcomer_wait \in Nat /\ IsMap(d.roles, RoleIds, RoleDef)
        /\ IsMap(d.members, People, SUBSET RoleIds)
        /\ \A p \in Members(d) : d.members[p] \subseteq DOMAIN d.roles \ {DEFAULT_ROLE}
    BY DEF Good, IsGroup, Safe, NothingLeftBehindIn
  <1>2. Good(k)
    BY <1>1, EditGood DEF Members
  <1> QED BY <1>2 DEF DraftOf, SamePeople

\* A channel created or replaced keeps the draft good.
LEMMA ChannelGood ==
    ASSUME NEW h, NEW a, NEW d, Good(d), DraftOf(h, a, d), NEW id \in Channels,
           NEW kind \in {"text", "voice"}, NEW slowmode \in Nat
    PROVE  LET k == ChannelDo(d, [id |-> id, kind |-> kind, slowmode |-> slowmode])
           IN Good(k) /\ DraftOf(h, a, k)
  <1> DEFINE k == ChannelDo(d, [id |-> id, kind |-> kind, slowmode |-> slowmode])
             c == [kind |-> kind, slowmode |-> slowmode]
  <1>1. /\ SamePeople(d, k) /\ k.name = d.name /\ k.about = d.about /\ k.public = d.public
        /\ k.newcomer_wait = d.newcomer_wait /\ k.members = d.members /\ k.roles = d.roles
        /\ k.channels = Insert(d.channels, id, c) /\ k.overrides = d.overrides
    BY DEF Good, IsGroup, ChannelDo, FieldNames, SamePeople, Members
  <1>2. c \in Channel
    BY DEF Channel
  <1>3. /\ IsMap(d.channels, Channels, Channel) /\ d.overrides \subseteq Override
        /\ \A v \in d.overrides : v.channel \in DOMAIN d.channels
    BY DEF Good, IsGroup, Safe, NothingLeftBehindIn
  <1> HIDE DEF k, c
  <1>4. /\ IsMap(k.channels, Channels, Channel)
        /\ \A v \in k.overrides : v.channel \in DOMAIN k.channels
    BY <1>1, <1>2, <1>3 DEF IsMap, Insert
  <1>5. Good(k) /\ DraftOf(h, a, k)
    BY <1>1, <1>3, <1>4, ChannelEdits
  <1> QED BY <1>5 DEF k

\* A channel deleted, its overrides with it, keeps the draft good.
LEMMA ChannelDeleteGood ==
    ASSUME NEW h, NEW a, NEW d, Good(d), DraftOf(h, a, d), NEW id \in Channels
    PROVE  LET k == ChannelDeleteDo(d, [id |-> id]) IN Good(k) /\ DraftOf(h, a, k)
  <1> DEFINE k == ChannelDeleteDo(d, [id |-> id])
  <1>1. /\ SamePeople(d, k) /\ k.name = d.name /\ k.about = d.about /\ k.public = d.public
        /\ k.newcomer_wait = d.newcomer_wait /\ k.members = d.members /\ k.roles = d.roles
        /\ k.channels = Without(d.channels, id)
        /\ k.overrides = {v \in d.overrides : v.channel # id}
    BY DEF Good, IsGroup, ChannelDeleteDo, FieldNames, SamePeople, Members
  <1>2. /\ IsMap(d.channels, Channels, Channel) /\ d.overrides \subseteq Override
        /\ \A v \in d.overrides : v.channel \in DOMAIN d.channels
    BY DEF Good, IsGroup, Safe, NothingLeftBehindIn
  <1> HIDE DEF k
  <1>3. /\ IsMap(k.channels, Channels, Channel) /\ k.overrides \subseteq Override
        /\ \A v \in k.overrides : v.channel \in DOMAIN k.channels
    BY <1>1, <1>2 DEF IsMap, Without
  <1>4. Good(k) /\ DraftOf(h, a, k)
    BY <1>1, <1>3, ChannelEdits
  <1> QED BY <1>4 DEF k

\* An override of a channel that exists keeps the draft good.
LEMMA OverrideGood ==
    ASSUME NEW h, NEW a, NEW d, Good(d), DraftOf(h, a, d), NEW c \in Channels,
           NEW r \in RoleIds, NEW allow \in SUBSET ALL, NEW deny \in SUBSET ALL,
           OverrideOk(h, d, a, [channel |-> c, role |-> r, allow |-> allow, deny |-> deny])
    PROVE  LET k == OverrideDo(d, [channel |-> c, role |-> r, allow |-> allow, deny |-> deny])
           IN Good(k) /\ DraftOf(h, a, k)
  <1> DEFINE k == OverrideDo(d, [channel |-> c, role |-> r, allow |-> allow, deny |-> deny])
             v == [channel |-> c, role |-> r, allow |-> allow \cap CHANNEL_SCOPED,
                   deny |-> deny \cap CHANNEL_SCOPED]
  <1>1. /\ SamePeople(d, k) /\ k.name = d.name /\ k.about = d.about /\ k.public = d.public
        /\ k.newcomer_wait = d.newcomer_wait /\ k.members = d.members /\ k.roles = d.roles
        /\ k.channels = d.channels
        /\ k.overrides \subseteq d.overrides \cup {v}
    BY DEF Good, IsGroup, OverrideDo, FieldNames, SamePeople, Members
  <1>2. v \in Override /\ v.channel = c /\ c \in DOMAIN d.channels
    BY DEF Override, OverrideOk
  <1>3. /\ IsMap(d.channels, Channels, Channel) /\ d.overrides \subseteq Override
        /\ \A w \in d.overrides : w.channel \in DOMAIN d.channels
    BY DEF Good, IsGroup, Safe, NothingLeftBehindIn
  <1> HIDE DEF k, v
  <1>4. k.overrides \subseteq Override /\ \A w \in k.overrides : w.channel \in DOMAIN k.channels
    BY <1>1, <1>2, <1>3
  <1>5. Good(k) /\ DraftOf(h, a, k)
    BY <1>1, <1>3, <1>4, ChannelEdits
  <1> QED BY <1>5 DEF k

\* A role created or replaced, within what its author may grant, keeps the
\* draft good.
LEMMA RoleGood ==
    ASSUME NEW h, NEW a, NEW d, Good(d), DraftOf(h, a, d), NEW id \in RoleIds,
           NEW perms \in SUBSET ALL, NEW position \in Int,
           RoleOk(h, a, [id |-> id, perms |-> perms, position |-> position])
    PROVE  LET k == RoleDo(d, [id |-> id, perms |-> perms, position |-> position])
           IN Good(k) /\ DraftOf(h, a, k)
  <1> DEFINE k == RoleDo(d, [id |-> id, perms |-> perms, position |-> position])
             def == [perms |-> perms, position |-> position]
  <1>1. /\ SamePeople(d, k) /\ k.name = d.name /\ k.about = d.about /\ k.public = d.public
        /\ k.newcomer_wait = d.newcomer_wait /\ k.members = d.members
        /\ k.channels = d.channels /\ k.overrides = d.overrides
        /\ k.roles = Insert(d.roles, id, def)
    BY DEF Good, IsGroup, RoleDo, FieldNames, SamePeople, Members
  <1>2. def \in RoleDef /\ def.perms \subseteq Base(h, a)
    BY DEF RoleDef, RoleOk, CanGrant
  <1>3. /\ d.name \in Texts /\ d.about \in Texts /\ d.public \in BOOLEAN
        /\ d.newcomer_wait \in Nat /\ IsMap(d.roles, RoleIds, RoleDef)
        /\ IsMap(d.members, People, SUBSET RoleIds)
        /\ IsMap(d.channels, Channels, Channel) /\ d.overrides \subseteq Override
    BY DEF Good, IsGroup
  <1>4. /\ \A p \in Members(d) : d.members[p] \subseteq DOMAIN d.roles \ {DEFAULT_ROLE}
        /\ \A w \in d.overrides : w.channel \in DOMAIN d.channels
    BY DEF Good, Safe, NothingLeftBehindIn
  <1> HIDE DEF k, def
  <1>5. /\ IsMap(k.roles, RoleIds, RoleDef) /\ DOMAIN k.roles = DOMAIN d.roles \cup {id}
        /\ k.roles[id] = def
        /\ \A r \in DOMAIN d.roles : r # id => k.roles[r] = d.roles[r]
    BY <1>1, <1>2, <1>3 DEF IsMap, Insert
  <1>6. \A p \in Members(k) : k.members[p] \subseteq DOMAIN k.roles \ {DEFAULT_ROLE}
    BY <1>1, <1>4, <1>5 DEF SamePeople
  <1>7. Good(k)
    BY <1>1, <1>3, <1>4, <1>5, <1>6, EditGood
  <1>8. DraftOf(h, a, k)
    BY <1>1, <1>2, <1>5 DEF DraftOf, SamePeople
  <1> QED BY <1>7, <1>8 DEF k

\* A role deleted, from everyone who holds it too, keeps the draft good.
LEMMA RoleDeleteGood ==
    ASSUME NEW h, NEW a, NEW d, Good(d), DraftOf(h, a, d), NEW id \in RoleIds
    PROVE  LET k == RoleDeleteDo(d, [id |-> id]) IN Good(k) /\ DraftOf(h, a, k)
  <1> DEFINE k == RoleDeleteDo(d, [id |-> id])
  <1>1. /\ DOMAIN k = FieldNames
        /\ k.seq = d.seq /\ k.cutoff = d.cutoff /\ k.owner = d.owner
        /\ k.named_owner = d.named_owner /\ k.joined = d.joined /\ k.invites = d.invites
        /\ k.bans = d.bans /\ k.mutes = d.mutes /\ k.silences = d.silences
        /\ k.name = d.name /\ k.about = d.about /\ k.public = d.public
        /\ k.newcomer_wait = d.newcomer_wait /\ k.channels = d.channels
        /\ k.roles = Without(d.roles, id)
        /\ k.members = [p \in DOMAIN d.members |-> d.members[p] \ {id}]
        /\ k.overrides = {v \in d.overrides : v.role # id}
    BY DEF Good, IsGroup, RoleDeleteDo, FieldNames
  <1>2. /\ d.name \in Texts /\ d.about \in Texts /\ d.public \in BOOLEAN
        /\ d.newcomer_wait \in Nat /\ IsMap(d.roles, RoleIds, RoleDef)
        /\ IsMap(d.members, People, SUBSET RoleIds)
        /\ IsMap(d.channels, Channels, Channel) /\ d.overrides \subseteq Override
    BY DEF Good, IsGroup
  <1>3. /\ \A p \in Members(d) : d.members[p] \subseteq DOMAIN d.roles \ {DEFAULT_ROLE}
        /\ \A w \in d.overrides : w.channel \in DOMAIN d.channels
    BY DEF Good, Safe, NothingLeftBehindIn
  <1> HIDE DEF k
  <1>4. /\ Members(k) = Members(d)
        /\ \A p \in Members(d) : k.members[p] = d.members[p] \ {id}
        /\ IsMap(k.members, People, SUBSET RoleIds)
    BY <1>1, <1>2 DEF Members, IsMap
  <1>5. /\ IsMap(k.roles, RoleIds, RoleDef) /\ DOMAIN k.roles = DOMAIN d.roles \ {id}
        /\ \A r \in DOMAIN k.roles : k.roles[r] = d.roles[r]
    BY <1>1, <1>2 DEF IsMap, Without
  <1>6. SamePeople(d, k)
    BY <1>1, <1>4 DEF SamePeople
  <1>7. \A p \in Members(k) : k.members[p] \subseteq DOMAIN k.roles \ {DEFAULT_ROLE}
    BY <1>3, <1>4, <1>5
  <1>8. k.overrides \subseteq Override /\ \A w \in k.overrides : w.channel \in DOMAIN k.channels
    BY <1>1, <1>2, <1>3
  <1>9. Good(k)
    BY <1>1, <1>2, <1>4, <1>5, <1>6, <1>7, <1>8, EditGood
  <1>10. DraftOf(h, a, k)
    BY <1>1, <1>4, <1>5 DEF DraftOf
  <1> QED BY <1>9, <1>10 DEF k

-----------------------------------------------------------------------------
(* Snapshots. *)

\* What a snapshot of a good record folds to is good: the spans of removals
\* are gone, and so is every newcomer's wait.
LEMMA CompactedGood ==
    ASSUME NEW h, Good(h), NEW now \in Nat
    PROVE  Good(Compacted(h, now))
  <1> DEFINE k == Compacted(h, now)
  <1>1. /\ DOMAIN k = FieldNames
        /\ k.seq = h.seq + 1 /\ k.cutoff = now /\ k.owner = h.owner /\ k.named_owner = h.owner
        /\ k.joined = EmptyMap /\ k.invites = h.invites /\ k.bans = h.bans
        /\ k.mutes = h.mutes /\ k.silences = MutesAsSilences(h.mutes, now)
        /\ k.name = h.name /\ k.about = h.about /\ k.public = h.public
        /\ k.newcomer_wait = h.newcomer_wait /\ k.channels = h.channels
        /\ k.roles = h.roles /\ k.overrides = h.overrides
        /\ k.members = [p \in DOMAIN h.members |-> IF p = h.owner THEN {}
                            ELSE (h.members[p] \cap DOMAIN h.roles) \ {DEFAULT_ROLE}]
    BY DEF Good, IsGroup, Compacted, FieldNames
  <1>2. IsMap(h.members, People, SUBSET RoleIds) /\ IsMap(h.mutes, People, Nat)
    BY DEF Good, IsGroup
  <1> HIDE DEF k
  <1>3. /\ Members(k) = Members(h)
        /\ \A p \in Members(h) : k.members[p] \subseteq DOMAIN h.roles \ {DEFAULT_ROLE}
        /\ IsMap(k.members, People, SUBSET RoleIds)
    BY <1>1, <1>2 DEF Members, IsMap
  <1>4. IsMap(k.joined, People, Nat) /\ DOMAIN k.joined = {}
    BY <1>1 DEF EmptyMap, IsMap
  <1>5. \A s \in k.silences : s \in Silence /\ s.mute /\ s.who \in DOMAIN h.mutes
    <2> SUFFICES ASSUME NEW q \in DOMAIN h.mutes, NEW s,
                        s = [who |-> q, from |-> now, until |-> h.mutes[q], mute |-> TRUE]
                 PROVE  s \in Silence /\ s.mute /\ s.who \in DOMAIN h.mutes
      BY <1>1 DEF MutesAsSilences
    <2>1. q \in People /\ h.mutes[q] \in Nat
      BY <1>2 DEF IsMap
    <2>2. \A m \in BOOLEAN :
            [who |-> q, from |-> now, until |-> h.mutes[q], mute |-> m] \in Silence
      BY <2>1 DEF Silence
    <2>3. s \in Silence
      BY <2>2, Zenon
    <2> QED BY <2>3
  <1>6. IsGroup(k)
    BY <1>1, <1>3, <1>4, <1>5 DEF Good, IsGroup
  <1>7. OwnerStandsIn(k) /\ BannedAreOutIn(k)
    BY <1>1, <1>3, <1>4, <1>5 DEF Good, Safe, OwnerStandsIn, BannedAreOutIn
  <1>8. NothingLeftBehindIn(k)
    BY <1>1, <1>3, <1>4 DEF Good, Safe, NothingLeftBehindIn
  <1>9. SpansFollowMembershipIn(k)
    BY <1>5 DEF SpansFollowMembershipIn, Removals
  <1> QED BY <1>6, <1>7, <1>8, <1>9 DEF k, Good, Safe

\* A new group is well-formed and safe.
LEMMA GenesisGood ==
    ASSUME NEW public \in BOOLEAN
    PROVE  Good(Genesis(Owner, FirstText, public, General, 1))
  <1> DEFINE k == Genesis(Owner, FirstText, public, General, 1)
  <1>1. /\ DOMAIN k = FieldNames
        /\ k.seq = 0 /\ k.cutoff = 1 /\ k.owner = Owner /\ k.named_owner = Owner
        /\ k.joined = EmptyMap /\ k.invites = {} /\ k.bans = {}
        /\ k.mutes = EmptyMap /\ k.silences = {}
        /\ k.name = FirstText /\ k.about = FirstText /\ k.public = public
        /\ k.newcomer_wait = 0
        /\ k.channels = [c \in {General} |-> [kind |-> "text", slowmode |-> 0]]
        /\ k.roles = DefaultRoles /\ k.overrides = {}
        /\ k.members = [p \in {Owner} |-> {}]
    BY DEF Genesis, FieldNames
  <1> HIDE DEF k
  <1>2. IsMap(k.joined, People, Nat) /\ IsMap(k.mutes, People, Nat) /\ DOMAIN EmptyMap = {}
    BY <1>1 DEF EmptyMap, IsMap
  <1>3. IsMap(k.channels, Channels, Channel)
    <2>1. [kind |-> "text", slowmode |-> 0] \in Channel
      BY DEF Channel
    <2> QED BY <2>1, <1>1, GenesisAssumption DEF IsMap
  <1>4. IsMap(k.roles, RoleIds, RoleDef)
    <2>1. /\ DEFAULT_MEMBER \subseteq ALL /\ DEFAULT_MODERATOR \subseteq ALL
          /\ DEFAULT_ADMIN \subseteq ALL
      BY DEF DEFAULT_MEMBER, DEFAULT_MODERATOR, DEFAULT_ADMIN, ALL
    <2>2. /\ [perms |-> DEFAULT_MEMBER, position |-> 0] \in RoleDef
          /\ [perms |-> DEFAULT_MODERATOR, position |-> 10] \in RoleDef
          /\ [perms |-> DEFAULT_ADMIN, position |-> 20] \in RoleDef
      BY <2>1 DEF RoleDef
    <2> QED BY <2>2, <1>1, DefaultRoleAssumption DEF IsMap, DefaultRoles, DEFAULT_ROLE
  <1>5. /\ IsMap(k.members, People, SUBSET RoleIds) /\ Members(k) = {Owner}
        /\ k.members[Owner] = {}
    BY <1>1, GenesisAssumption DEF IsMap, Members
  <1>6. IsGroup(k)
    BY <1>1, <1>2, <1>3, <1>4, <1>5, GenesisAssumption DEF IsGroup
  <1>7. Safe(k)
    BY <1>1, <1>2, <1>5 DEF Safe, OwnerStandsIn, BannedAreOutIn, NothingLeftBehindIn,
                            SpansFollowMembershipIn, Removals
  <1> QED BY <1>6, <1>7 DEF k, Good

-----------------------------------------------------------------------------
(* The inductive invariant. *)

DraftInv ==
    draft # None =>
        /\ draft = [by |-> draft.by, next |-> draft.next, left |-> draft.left]
        /\ draft.by \in People
        /\ draft.left \in Nat
        /\ Good(draft.next)
        /\ DraftOf(g, draft.by, draft.next)

IInv == Good(g) /\ at \in Nat /\ DraftInv

\* A step of a batch whose edit keeps the draft good keeps the invariant.
LEMMA DraftedInv ==
    ASSUME IInv, draft # None, NEW k, Drafted(k), Good(k), DraftOf(g, draft.by, k)
    PROVE  IInv'
  <1>1. g' = g /\ at' = at /\ draft' = [by |-> draft.by, next |-> k, left |-> draft.left - 1]
        /\ draft.left > 0
    BY DEF Drafted
  <1>2. /\ draft'.by = draft.by /\ draft'.next = k /\ draft'.left = draft.left - 1
        /\ draft' = [by |-> draft'.by, next |-> draft'.next, left |-> draft'.left]
    BY <1>1
  <1>3. draft'.left \in Nat /\ draft.by \in People
    BY <1>1, <1>2 DEF IInv, DraftInv
  <1> QED BY <1>1, <1>2, <1>3 DEF IInv, DraftInv

\* Every edit of a batch keeps the invariant.
LEMMA EditStepInv ==
    ASSUME IInv, EditStep PROVE IInv'
  <1> USE InputsAssumption
  <1>1. CASE EditName
    <2>1. draft # None /\ Good(draft.next) /\ DraftOf(g, draft.by, draft.next)
      BY <1>1 DEF EditName, IInv, DraftInv
    <2>2. PICK text \in Texts : Drafted(NameDo(draft.next, [text |-> text]))
      BY <1>1 DEF EditName
    <2> DEFINE k == NameDo(draft.next, [text |-> text])
    <2>3. Good(k) /\ DraftOf(g, draft.by, k)
      BY <2>1, <2>2, NameGood
    <2> HIDE DEF k
    <2> QED BY <2>1, <2>2, <2>3, DraftedInv DEF k
  <1>2. CASE EditAbout
    <2>1. draft # None /\ Good(draft.next) /\ DraftOf(g, draft.by, draft.next)
      BY <1>2 DEF EditAbout, IInv, DraftInv
    <2>2. PICK text \in Texts : Drafted(AboutDo(draft.next, [text |-> text]))
      BY <1>2 DEF EditAbout
    <2> DEFINE k == AboutDo(draft.next, [text |-> text])
    <2>3. Good(k) /\ DraftOf(g, draft.by, k)
      BY <2>1, <2>2, AboutGood
    <2> HIDE DEF k
    <2> QED BY <2>1, <2>2, <2>3, DraftedInv DEF k
  <1>3. CASE EditPublic
    <2>1. draft # None /\ Good(draft.next) /\ DraftOf(g, draft.by, draft.next)
      BY <1>3 DEF EditPublic, IInv, DraftInv
    <2>2. PICK public \in Publics : Drafted(PublicDo(draft.next, [public |-> public]))
      BY <1>3 DEF EditPublic
    <2> DEFINE k == PublicDo(draft.next, [public |-> public])
    <2>3. Good(k) /\ DraftOf(g, draft.by, k)
      BY <2>1, <2>2, PublicGood
    <2> HIDE DEF k
    <2> QED BY <2>1, <2>2, <2>3, DraftedInv DEF k
  <1>4. CASE EditNewcomerWait
    <2>1. draft # None /\ Good(draft.next) /\ DraftOf(g, draft.by, draft.next)
      BY <1>4 DEF EditNewcomerWait, IInv, DraftInv
    <2>2. PICK secs \in SecsInputs : Drafted(NewcomerWaitDo(draft.next, [secs |-> secs]))
      BY <1>4 DEF EditNewcomerWait
    <2> DEFINE k == NewcomerWaitDo(draft.next, [secs |-> secs])
    <2>3. Good(k) /\ DraftOf(g, draft.by, k)
      BY <2>1, <2>2, NewcomerWaitGood
    <2> HIDE DEF k
    <2> QED BY <2>1, <2>2, <2>3, DraftedInv DEF k
  <1>5. CASE EditChannel
    <2>1. draft # None /\ Good(draft.next) /\ DraftOf(g, draft.by, draft.next)
      BY <1>5 DEF EditChannel, IInv, DraftInv
    <2>2. PICK id \in Channels, kind \in {"text", "voice"}, slowmode \in SecsInputs :
            Drafted(ChannelDo(draft.next, [id |-> id, kind |-> kind, slowmode |-> slowmode]))
      BY <1>5 DEF EditChannel
    <2> DEFINE k == ChannelDo(draft.next, [id |-> id, kind |-> kind, slowmode |-> slowmode])
    <2>3. Good(k) /\ DraftOf(g, draft.by, k)
      BY <2>1, <2>2, ChannelGood
    <2> HIDE DEF k
    <2> QED BY <2>1, <2>2, <2>3, DraftedInv DEF k
  <1>6. CASE EditChannelDelete
    <2>1. draft # None /\ Good(draft.next) /\ DraftOf(g, draft.by, draft.next)
      BY <1>6 DEF EditChannelDelete, IInv, DraftInv
    <2>2. PICK id \in Channels : Drafted(ChannelDeleteDo(draft.next, [id |-> id]))
      BY <1>6 DEF EditChannelDelete
    <2> DEFINE k == ChannelDeleteDo(draft.next, [id |-> id])
    <2>3. Good(k) /\ DraftOf(g, draft.by, k)
      BY <2>1, <2>2, ChannelDeleteGood
    <2> HIDE DEF k
    <2> QED BY <2>1, <2>2, <2>3, DraftedInv DEF k
  <1>7. CASE EditOverride
    <2>1. draft # None /\ Good(draft.next) /\ DraftOf(g, draft.by, draft.next)
      BY <1>7 DEF EditOverride, IInv, DraftInv
    <2>2. PICK c \in Channels, r \in RoleIds, allow \in ScopedSets, deny \in ScopedSets :
            LET e == [channel |-> c, role |-> r, allow |-> allow, deny |-> deny]
            IN OverrideOk(g, draft.next, draft.by, e) /\ Drafted(OverrideDo(draft.next, e))
      BY <1>7 DEF EditOverride
    <2> DEFINE k == OverrideDo(draft.next, [channel |-> c, role |-> r, allow |-> allow, deny |-> deny])
    <2>3. Good(k) /\ DraftOf(g, draft.by, k)
      BY <2>1, <2>2, OverrideGood
    <2> HIDE DEF k
    <2> QED BY <2>1, <2>2, <2>3, DraftedInv DEF k
  <1>8. CASE EditRole
    <2>1. draft # None /\ Good(draft.next) /\ DraftOf(g, draft.by, draft.next)
      BY <1>8 DEF EditRole, IInv, DraftInv
    <2>2. PICK id \in RoleIds, perms \in PermSets, position \in PositionInputs :
            LET e == [id |-> id, perms |-> perms, position |-> position]
            IN RoleOk(g, draft.by, e) /\ Drafted(RoleDo(draft.next, e))
      BY <1>8 DEF EditRole
    <2> DEFINE k == RoleDo(draft.next, [id |-> id, perms |-> perms, position |-> position])
    <2>3. Good(k) /\ DraftOf(g, draft.by, k)
      BY <2>1, <2>2, RoleGood
    <2> HIDE DEF k
    <2> QED BY <2>1, <2>2, <2>3, DraftedInv DEF k
  <1>9. CASE EditRoleDelete
    <2>1. draft # None /\ Good(draft.next) /\ DraftOf(g, draft.by, draft.next)
      BY <1>9 DEF EditRoleDelete, IInv, DraftInv
    <2>2. PICK id \in RoleIds : Drafted(RoleDeleteDo(draft.next, [id |-> id]))
      BY <1>9 DEF EditRoleDelete
    <2> DEFINE k == RoleDeleteDo(draft.next, [id |-> id])
    <2>3. Good(k) /\ DraftOf(g, draft.by, k)
      BY <2>1, <2>2, RoleDeleteGood
    <2> HIDE DEF k
    <2> QED BY <2>1, <2>2, <2>3, DraftedInv DEF k
  <1>10. CASE RefuseEdit
    BY <1>10 DEF RefuseEdit, IInv, DraftInv
  <1> QED BY <1>1, <1>2, <1>3, <1>4, <1>5, <1>6, <1>7, <1>8, <1>9, <1>10 DEF EditStep

\* Every action applied for a person keeps the invariant.
LEMMA ActByInv ==
    ASSUME IInv, NEW a \in People, ActBy(a) PROVE IInv'
  <1> USE InputsAssumption DEF IInv
  <1>1. CASE draft = None /\ draft' = None /\ at' = at /\ Good(g')
    BY <1>1 DEF DraftInv
  <1>2. CASE Put(a)
    <2>1. PICK t \in People, roles \in RoleSets :
            PutOk(g, a, t, roles) /\ g' = PutDo(g, t, roles, at)
      BY <1>2 DEF Put
    <2>2. Good(g')
      BY <2>1, PutGood
    <2> QED BY <1>1, <1>2, <2>2 DEF Put
  <1>3. CASE Remove(a)
    <2>1. PICK t \in People, ban \in BOOLEAN :
            RemoveOk(g, a, t, ban) /\ g' = RemoveDo(g, t, ban, at)
      BY <1>3 DEF Remove
    <2>2. Good(g')
      BY <2>1, RemoveGood
    <2> QED BY <1>1, <1>3, <2>2 DEF Remove
  <1>4. CASE Unban(a)
    BY <1>1, <1>4, UnbanGood DEF Unban
  <1>5. CASE Mute(a)
    <2>1. PICK t \in People, until \in Untils \cup {None} :
            MuteOk(g, a, t, until, at) /\ g' = MuteDo(g, t, until, at)
      BY <1>5 DEF Mute
    <2>2. Good(g')
      BY <2>1, MuteGood
    <2> QED BY <1>1, <1>5, <2>2 DEF Mute
  <1>6. CASE MuteRefused(a)
    BY <1>1, <1>6, EndMutesGood DEF MuteRefused
  <1>7. CASE Join(a)
    BY <1>1, <1>7, JoinGood DEF Join
  <1>8. CASE Leave(a)
    BY <1>1, <1>8, LeaveGood DEF Leave
  <1>9. CASE RecordInvite(a)
    <2>1. PICK code \in Codes, expires \in Untils \cup {None} :
            g' = [g EXCEPT !.invites =
                    @ \cup {[code |-> code, author |-> a, at |-> at, expires |-> expires]}]
      BY <1>9 DEF RecordInvite
    <2>2. [code |-> code, author |-> a, at |-> at, expires |-> expires] \in Invite
      BY DEF Invite
    <2>3. Good(g')
      BY <2>1, <2>2, InviteGood
    <2> QED BY <1>1, <1>9, <2>3 DEF RecordInvite
  <1>10. CASE draft # None /\ draft.by = a /\ CommitEdit
    BY <1>10 DEF CommitEdit, DraftInv
  <1> QED BY <1>2, <1>3, <1>4, <1>5, <1>6, <1>7, <1>8, <1>9, <1>10 DEF ActBy

\* The invariant holds of every new group, and every step keeps it.
LEMMA Inductive ==
    /\ Init => IInv
    /\ IInv /\ [Next]_vars => IInv'
  <1>1. Init => IInv
    BY GenesisGood, InputsAssumption DEF Init, IInv, DraftInv
  <1>2. ASSUME IInv, [Next]_vars PROVE IInv'
    <2>1. CASE \E a \in People : ActBy(a)
      BY <1>2, <2>1, ActByInv
    <2>2. CASE \E a \in People : BeginEdit(a)
      <3>1. PICK a \in People : BeginEdit(a)
        BY <2>2
      <3>2. /\ g' = g /\ at' = at /\ draft' = [by |-> a, next |-> g, left |-> MaxBatch]
        BY <3>1 DEF BeginEdit
      <3>3. /\ draft'.by = a /\ draft'.next = g /\ draft'.left = MaxBatch
            /\ draft' = [by |-> draft'.by, next |-> draft'.next, left |-> draft'.left]
        BY <3>2
      <3>4. DraftOf(g, a, g)
        BY DEF DraftOf
      <3> QED BY <1>2, <3>2, <3>3, <3>4, BoundsAssumption DEF IInv, DraftInv
    <2>3. CASE EditStep
      BY <1>2, <2>3, EditStepInv
    <2>4. CASE Tick
      BY <1>2, <2>4 DEF Tick, IInv, DraftInv
    <2>5. CASE Compact
      <3>1. Good(Compacted(g, at + 1))
        BY <1>2, CompactedGood DEF IInv
      <3> QED BY <1>2, <2>5, <3>1 DEF Compact, IInv, DraftInv
    <2>6. CASE UNCHANGED vars
      BY <1>2, <2>6 DEF vars, IInv, DraftInv
    <2> QED BY <1>2, <2>1, <2>2, <2>3, <2>4, <2>5, <2>6 DEF Next
  <1> QED BY <1>1, <1>2

\* The invariant holds throughout.
LEMMA Invariance == Spec => []IInv
  BY Inductive, PTL DEF Spec

-----------------------------------------------------------------------------
(* The theorems. *)

\* Every state of the group, and of a batch under way, is well-formed: the
\* maps of struct GroupState only hold people, roles, channels and times.
THEOREM TypeCorrect == Spec => []TypeOK
  <1>1. IInv => TypeOK
    BY DEF IInv, DraftInv, Good, TypeOK
  <1> QED BY <1>1, Invariance, PTL

\* Whatever people sign, in whatever order, and however often the group is
\* compacted, the owner stays a member, unbanned, unmuted and unsilenced.
THEOREM OwnerAlwaysStands == Spec => []OwnerStands
  <1>1. IInv => OwnerStands
    BY DEF IInv, Good, Safe, OwnerStands
  <1> QED BY <1>1, Invariance, PTL

\* No order of joins, puts, bans and unbans makes a banned person a member.
THEOREM BannedAlwaysOut == Spec => []BannedAreOut
  <1>1. IInv => BannedAreOut
    BY DEF IInv, Good, Safe, BannedAreOut
  <1> QED BY <1>1, Invariance, PTL

\* No mute, wait, role or override outlives what it belongs to.
THEOREM NothingEverLeftBehind == Spec => []NothingLeftBehind
  <1>1. IInv => NothingLeftBehind
    BY DEF IInv, Good, Safe, NothingLeftBehind
  <1> QED BY <1>1, Invariance, PTL

\* Removal spans are open exactly while the person removed is out.
THEOREM SpansAlwaysFollow == Spec => []SpansFollowMembership
  <1>1. IInv => SpansFollowMembership
    BY DEF IInv, Good, Safe, SpansFollowMembership
  <1> QED BY <1>1, Invariance, PTL

-----------------------------------------------------------------------------
(* No escalation. *)

\* Nobody gains by k, made of h for a, but what a had, or a the default role's.
NoGain(h, a, k) ==
    \A p \in People :
        Base(k, p) \ Base(h, p) \subseteq IF p = a THEN BaseOf(h, {}) ELSE Base(h, a)

\* Whoever keeps or loses their membership, under the same roles, gains nothing.
LEMMA FewerGain ==
    ASSUME NEW h, NEW k, NEW a, k.owner = h.owner, k.roles = h.roles,
           Members(k) \subseteq Members(h),
           \A p \in Members(k) : k.members[p] = h.members[p]
    PROVE  NoGain(h, a, k)
  <1>1. \A held : BaseOf(k, held) = BaseOf(h, held)
    BY DEF BaseOf
  <1>2. \A p \in People : Base(k, p) \subseteq Base(h, p)
    BY <1>1 DEF Base
  <1> QED BY <1>2 DEF NoGain

\* The default role's permissions are every member's, and no one's exceed ALL.
LEMMA BaseBounds ==
    ASSUME NEW h, Good(h), NEW a \in Members(h)
    PROVE  /\ BaseOf(h, {}) \subseteq Base(h, a)
           /\ \A held : BaseOf(h, held) \subseteq ALL
  <1>1. \A r \in DOMAIN h.roles : h.roles[r].perms \subseteq ALL
    BY DEF Good, IsGroup, IsMap, RoleDef
  <1>2. \A held : BaseOf(h, held) \subseteq ALL
    BY <1>1 DEF BaseOf
  <1>3. \A held : BaseOf(h, {}) \subseteq BaseOf(h, held)
    BY DEF BaseOf
  <1> QED BY <1>2, <1>3 DEF Base

\* A 9000 gives its target the default role's permissions, those of roles
\* they held, and those of roles its author could grant.
LEMMA PutNoGain ==
    ASSUME NEW h, Good(h), NEW a \in People, NEW t \in People,
           NEW roles \in SUBSET RoleIds, NEW now \in Nat, PutOk(h, a, t, roles)
    PROVE  NoGain(h, a, PutDo(h, t, roles, now))
  <1> DEFINE k == PutDo(h, t, roles, now)
             wanted == roles \ {DEFAULT_ROLE}
             held == IF t \in Members(h) THEN h.members[t] ELSE {}
  <1>1. k.owner = h.owner /\ k.roles = h.roles /\ k.members = Insert(h.members, t, wanted)
    BY DEF Good, IsGroup, PutDo, FieldNames
  <1>2. /\ Members(k) = Members(h) \cup {t}
        /\ k.members[t] = wanted
        /\ \A p \in Members(h) : p # t => k.members[p] = h.members[p]
    BY <1>1 DEF Insert, Members
  <1>3. /\ a \in Members(h) /\ t # h.owner
        /\ wanted # held =>
             UNION {h.roles[r].perms : r \in ((wanted \ held) \cup (held \ wanted)) \cap wanted}
                \subseteq Base(h, a)
    BY DEF PutOk, CanGrant
  <1> HIDE DEF k, wanted
  <1>4. \A x : BaseOf(k, x) = BaseOf(h, x)
    BY <1>1 DEF BaseOf
  <1>5. \A p \in People : p # t => Base(k, p) = Base(h, p)
    BY <1>1, <1>2, <1>4 DEF Base
  <1>6. Base(k, t) \subseteq Base(h, t) \cup Base(h, a)
    <2> SUFFICES ASSUME NEW x \in Base(k, t), x \notin Base(h, a) PROVE x \in Base(h, t)
      OBVIOUS
    <2>1. x \in BaseOf(h, wanted)
      BY <1>1, <1>2, <1>3, <1>4 DEF Base
    <2>2. PICK r \in ({DEFAULT_ROLE} \cup wanted) \cap DOMAIN h.roles : x \in h.roles[r].perms
      BY <2>1 DEF BaseOf
    <2>3. r # DEFAULT_ROLE
      <3>1. r = DEFAULT_ROLE => x \in BaseOf(h, {})
        BY <2>2 DEF BaseOf
      <3> QED BY <3>1, <1>3, BaseBounds
    <2>4. r \in held
      BY <1>3, <2>2, <2>3
    <2>5. t \in Members(h) /\ x \in BaseOf(h, h.members[t])
      BY <2>2, <2>4 DEF BaseOf
    <2> QED BY <2>5, <1>3 DEF Base
  <1>7. NoGain(h, a, k)
    BY <1>5, <1>6 DEF NoGain
  <1> QED BY <1>7 DEF k

\* A 9021 gives its author the default role's permissions and no more.
LEMMA JoinNoGain ==
    ASSUME NEW h, Good(h), NEW a \in People, NEW now \in Nat, a \notin Members(h)
    PROVE  NoGain(h, a, JoinDo(h, a, now))
  <1> DEFINE k == JoinDo(h, a, now)
  <1>1. k.owner = h.owner /\ k.roles = h.roles /\ k.members = Insert(h.members, a, {})
    BY DEF Good, IsGroup, JoinDo, FieldNames
  <1> HIDE DEF k
  <1>2. /\ Members(k) = Members(h) \cup {a}
        /\ k.members[a] = {}
        /\ \A p \in Members(h) : k.members[p] = h.members[p]
    BY <1>1 DEF Insert, Members
  <1>3. \A x : BaseOf(k, x) = BaseOf(h, x)
    BY <1>1 DEF BaseOf
  <1>4. \A p \in People : p # a => Base(k, p) = Base(h, p)
    BY <1>1, <1>2, <1>3 DEF Base
  <1>5. Base(k, a) \subseteq Base(h, a) \cup BaseOf(h, {})
    BY <1>1, <1>2, <1>3 DEF Base
  <1>6. NoGain(h, a, k)
    BY <1>4, <1>5 DEF NoGain
  <1> QED BY <1>6 DEF k

\* A batch of edits, however long, gives nobody what its author lacked.
LEMMA DraftNoGain ==
    ASSUME NEW h, Good(h), NEW a \in People, NEW k, Good(k), DraftOf(h, a, k)
    PROVE  NoGain(h, a, k)
  <1> SUFFICES ASSUME NEW p \in People, NEW x \in Base(k, p), x \notin Base(h, a)
               PROVE  x \in Base(h, p)
    BY DEF NoGain
  <1>1. CASE p = h.owner
    <2>1. p = k.owner
      BY <1>1 DEF DraftOf
    <2> QED BY <1>1, <2>1 DEF Base
  <1>2. CASE p # h.owner
    <2>1. p \in Members(k) /\ p \in Members(h) /\ x \in BaseOf(k, k.members[p])
      BY <1>2 DEF Base, DraftOf
    <2>2. PICK r \in ({DEFAULT_ROLE} \cup k.members[p]) \cap DOMAIN k.roles :
            x \in k.roles[r].perms
      BY <2>1 DEF BaseOf
    <2>3. r \in DOMAIN h.roles /\ k.roles[r].perms = h.roles[r].perms
      BY <2>2 DEF DraftOf
    <2>4. r \in {DEFAULT_ROLE} \cup h.members[p]
      BY <2>1, <2>2 DEF DraftOf
    <2>5. x \in BaseOf(h, h.members[p])
      BY <2>2, <2>3, <2>4 DEF BaseOf
    <2> QED BY <2>1, <2>5, <1>2 DEF Base
  <1> QED BY <1>1, <1>2

\* The escalation rule holds of every step, for everyone, at any rank and
\* with any roles: see NoEscalation.
THEOREM NobodyEscalates == Spec => NoEscalation
  <1>1. ASSUME IInv, NEW a \in People, ActBy(a) PROVE NoGain(g, a, g')
    <2> USE <1>1, InputsAssumption DEF IInv
    <2>1. CASE Put(a)
      BY <2>1, PutNoGain DEF Put
    <2>2. CASE Remove(a)
      <3>1. PICK t \in People, ban \in BOOLEAN : g' = RemoveDo(g, t, ban, at)
        BY <2>2 DEF Remove
      <3>2. g'.owner = g.owner /\ g'.roles = g.roles /\ g'.members = Without(g.members, t)
        BY <3>1 DEF RemoveDo, Good, IsGroup, FieldNames
      <3> QED BY <3>2, FewerGain DEF Without, Members
    <2>3. CASE Unban(a)
      <3>1. g'.owner = g.owner /\ g'.roles = g.roles /\ g'.members = g.members
        BY <2>3 DEF Unban, UnbanDo, Good, IsGroup, FieldNames
      <3> QED BY <3>1, FewerGain DEF Members
    <2>4. CASE Mute(a)
      <3>1. g'.owner = g.owner /\ g'.roles = g.roles /\ g'.members = g.members
        BY <2>4 DEF Mute, MuteDo, EndMutes, Good, IsGroup, FieldNames
      <3> QED BY <3>1, FewerGain DEF Members
    <2>5. CASE MuteRefused(a)
      <3>1. g'.owner = g.owner /\ g'.roles = g.roles /\ g'.members = g.members
        BY <2>5 DEF MuteRefused, EndMutes, Good, IsGroup, FieldNames
      <3> QED BY <3>1, FewerGain DEF Members
    <2>6. CASE Join(a)
      BY <2>6, JoinNoGain DEF Join, JoinOk
    <2>7. CASE Leave(a)
      <3>1. g'.owner = g.owner /\ g'.roles = g.roles /\ g'.members = Without(g.members, a)
        BY <2>7 DEF Leave, LeaveDo, Good, IsGroup, FieldNames
      <3> QED BY <3>1, FewerGain DEF Without, Members
    <2>8. CASE RecordInvite(a)
      <3>1. g'.owner = g.owner /\ g'.roles = g.roles /\ g'.members = g.members
        BY <2>8 DEF RecordInvite, Good, IsGroup, FieldNames
      <3> QED BY <3>1, FewerGain DEF Members
    <2>9. CASE draft # None /\ draft.by = a /\ CommitEdit
      BY <2>9, DraftNoGain DEF CommitEdit, DraftInv
    <2> QED BY <2>1, <2>2, <2>3, <2>4, <2>5, <2>6, <2>7, <2>8, <2>9 DEF ActBy
  <1> DEFINE Step == \A a \in People : ActBy(a) =>
                        \A p \in People :
                            Base(g', p) \ Base(g, p) \subseteq
                                IF p = a THEN BaseOf(g, {}) ELSE Base(g, a)
  <1>2. IInv => Step
    BY <1>1 DEF NoGain
  <1> HIDE DEF Step
  <1>3. IInv /\ [Next]_vars => [Step]_vars
    BY <1>2
  <1>4. Spec => [][Step]_vars
    BY <1>3, Invariance, PTL DEF Spec
  <1> QED BY <1>4 DEF NoEscalation, Step

=============================================================================
