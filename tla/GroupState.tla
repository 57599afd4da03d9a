----------------------------- MODULE GroupState -----------------------------
(***************************************************************************)
(* One group, as the fold of crates/hit-group/src/state.rs drives it: the  *)
(* valid actions of its people, applied one after the other in time order. *)
(*                                                                         *)
(*   g      the group's record (GroupRules)                                *)
(*   at     the time of the action being applied, in whole seconds         *)
(*   draft  the `next` of the 9002 being applied and its signer, or None:  *)
(*          the edits of a batch are judged against g, applied to the      *)
(*          draft, and take effect together or not at all                  *)
(*                                                                         *)
(* An invalid action is skipped and is a stuttering step, with one         *)
(* exception the code makes: a 9030 refused at its last check has already  *)
(* ended the mute spans covering its time (MuteRefused).                   *)
(***************************************************************************)
EXTENDS GroupRules

CONSTANTS Owner,           \* who made the group
          General,         \* its first channel
          FirstText,       \* its first name
          MaxTime,         \* bound: the last second modelled
          MaxInvites,      \* bound: invites recorded
          Editors,         \* bound: the people whose 9002s are modelled
          MaxBatch,        \* bound: edits in one 9002
          Untils,          \* the times a mute or an invite may end at
          Publics,         \* the visibilities a group may be given
          RoleSets,        \* the roles a 9000 may carry
          PermSets,        \* the permissions a role edit may carry
          PositionInputs,  \* the positions a role edit may carry
          ScopedSets,      \* the permissions an override may allow or deny
          SecsInputs       \* slowmodes and newcomer waits an edit may carry

ASSUME GenesisAssumption == Owner \in People /\ General \in Channels /\ FirstText \in Texts
ASSUME BoundsAssumption == MaxTime \in Nat /\ MaxInvites \in Nat /\ MaxBatch \in Nat
ASSUME InputsAssumption == /\ Untils \subseteq Nat
                           /\ Publics \subseteq BOOLEAN
                           /\ Editors \subseteq People
                           /\ RoleSets \subseteq SUBSET RoleIds
                           /\ PermSets \subseteq SUBSET ALL
                           /\ PositionInputs \subseteq Int
                           /\ ScopedSets \subseteq SUBSET ALL
                           /\ SecsInputs \subseteq Nat

VARIABLES g, at, draft

vars == <<g, at, draft>>

Init ==
    /\ at = 1
    /\ g \in {Genesis(Owner, FirstText, public, General, 1) : public \in Publics}
    /\ draft = None

-----------------------------------------------------------------------------
(* Actions on people. *)

Put(a) ==
    /\ draft = None
    /\ \E t \in People, roles \in RoleSets :
        /\ PutOk(g, a, t, roles)
        /\ g' = PutDo(g, t, roles, at)
    /\ UNCHANGED <<at, draft>>

Remove(a) ==
    /\ draft = None
    /\ \E t \in People, ban \in BOOLEAN :
        /\ RemoveOk(g, a, t, ban)
        /\ g' = RemoveDo(g, t, ban, at)
    /\ UNCHANGED <<at, draft>>

Unban(a) ==
    /\ draft = None
    /\ \E t \in People :
        /\ UnbanOk(g, a, t)
        /\ g' = UnbanDo(g, t)
    /\ UNCHANGED <<at, draft>>

Mute(a) ==
    /\ draft = None
    /\ \E t \in People, until \in Untils \cup {None} :
        /\ MuteOk(g, a, t, until, at)
        /\ g' = MuteDo(g, t, until, at)
    /\ UNCHANGED <<at, draft>>

MuteRefused(a) ==
    /\ draft = None
    /\ \E t \in People, until \in Untils \cup {None} :
        /\ MuteAllowed(g, a, t)
        /\ ~MuteOk(g, a, t, until, at)
        /\ g' = EndMutes(g, t, at)
    /\ UNCHANGED <<at, draft>>

Join(a) ==
    /\ draft = None
    /\ \E code \in Codes \cup {None} : JoinOk(g, a, code, at)
    /\ g' = JoinDo(g, a, at)
    /\ UNCHANGED <<at, draft>>

Leave(a) ==
    /\ draft = None
    /\ LeaveOk(g, a)
    /\ g' = LeaveDo(g, a, at)
    /\ UNCHANGED <<at, draft>>

\* A 9009: recorded whoever signed it, honoured or not at each join.
RecordInvite(a) ==
    /\ draft = None
    /\ Cardinality(g.invites) < MaxInvites
    /\ \E code \in Codes, expires \in Untils \cup {None} :
        g' = [g EXCEPT !.invites =
                @ \cup {[code |-> code, author |-> a, at |-> at, expires |-> expires]}]
    /\ UNCHANGED <<at, draft>>

-----------------------------------------------------------------------------
(* Edits: one 9002, its edits one by one. *)

BeginEdit(a) ==
    /\ draft = None
    /\ a \in Members(g) \cap Editors
    /\ draft' = [by |-> a, next |-> g, left |-> MaxBatch]
    /\ UNCHANGED <<g, at>>

\* The batch goes on with `next` in place of the draft's.
Drafted(next) ==
    /\ draft.left > 0
    /\ draft' = [by |-> draft.by, next |-> next, left |-> draft.left - 1]
    /\ UNCHANGED <<g, at>>

EditName ==
    /\ draft # None
    /\ \E text \in Texts : LET e == [text |-> text] IN
        NameOk(g, draft.by, e) /\ Drafted(NameDo(draft.next, e))

EditAbout ==
    /\ draft # None
    /\ \E text \in Texts : LET e == [text |-> text] IN
        AboutOk(g, draft.by, e) /\ Drafted(AboutDo(draft.next, e))

EditPublic ==
    /\ draft # None
    /\ \E public \in Publics :
        PublicOk(g, draft.by) /\ Drafted(PublicDo(draft.next, [public |-> public]))

EditNewcomerWait ==
    /\ draft # None
    /\ \E secs \in SecsInputs : LET e == [secs |-> secs] IN
        NewcomerWaitOk(g, draft.by, e) /\ Drafted(NewcomerWaitDo(draft.next, e))

EditChannel ==
    /\ draft # None
    /\ \E id \in Channels, kind \in {"text", "voice"}, slowmode \in SecsInputs :
        LET e == [id |-> id, kind |-> kind, slowmode |-> slowmode] IN
        ChannelOk(g, draft.by, e) /\ Drafted(ChannelDo(draft.next, e))

EditChannelDelete ==
    /\ draft # None
    /\ \E id \in Channels : LET e == [id |-> id] IN
        /\ ChannelDeleteOk(g, draft.next, draft.by, e)
        /\ Drafted(ChannelDeleteDo(draft.next, e))

EditOverride ==
    /\ draft # None
    /\ \E c \in Channels, r \in RoleIds, allow \in ScopedSets, deny \in ScopedSets :
        LET e == [channel |-> c, role |-> r, allow |-> allow, deny |-> deny] IN
        /\ OverrideOk(g, draft.next, draft.by, e)
        /\ Drafted(OverrideDo(draft.next, e))

EditRole ==
    /\ draft # None
    /\ \E id \in RoleIds, perms \in PermSets, position \in PositionInputs :
        LET e == [id |-> id, perms |-> perms, position |-> position] IN
        RoleOk(g, draft.by, e) /\ Drafted(RoleDo(draft.next, e))

EditRoleDelete ==
    /\ draft # None
    /\ \E id \in RoleIds : LET e == [id |-> id] IN
        RoleDeleteOk(g, draft.by, e) /\ Drafted(RoleDeleteDo(draft.next, e))

\* Every edit passed: the batch takes effect.
CommitEdit ==
    /\ draft # None
    /\ g' = draft.next
    /\ draft' = None
    /\ UNCHANGED at

\* An edit of the batch is refused (a label may always be): none takes effect.
RefuseEdit ==
    /\ draft # None
    /\ draft' = None
    /\ UNCHANGED <<g, at>>

EditStep == \/ EditName \/ EditAbout \/ EditPublic \/ EditNewcomerWait
            \/ EditChannel \/ EditChannelDelete \/ EditOverride
            \/ EditRole \/ EditRoleDelete \/ RefuseEdit

-----------------------------------------------------------------------------
(* The next action is dated a second later. *)
Tick ==
    /\ draft = None
    /\ at < MaxTime
    /\ at' = at + 1
    /\ UNCHANGED <<g, draft>>

\* A holder of the group key signs a snapshot of g, dated one second after
\* every action it folds.
Compact ==
    /\ draft = None
    /\ at < MaxTime
    /\ at' = at + 1
    /\ g' = Compacted(g, at + 1)
    /\ UNCHANGED draft

\* What a applies to the group in one step.
ActBy(a) == \/ Put(a) \/ Remove(a) \/ Unban(a) \/ Mute(a) \/ MuteRefused(a)
            \/ Join(a) \/ Leave(a) \/ RecordInvite(a)
            \/ (draft # None /\ draft.by = a /\ CommitEdit)

Next == \/ \E a \in People : ActBy(a) \/ BeginEdit(a)
        \/ EditStep
        \/ Tick
        \/ Compact

Spec == Init /\ [][Next]_vars

-----------------------------------------------------------------------------
TypeOK == /\ IsGroup(g)
          /\ at \in Nat
          /\ draft # None => /\ draft = [by |-> draft.by, next |-> draft.next, left |-> draft.left]
                             /\ draft.by \in People
                             /\ IsGroup(draft.next)
                             /\ draft.left \in Nat

-----------------------------------------------------------------------------
(* Invariants.  Each is a predicate of a group's record, so that it can be  *)
(* stated of the draft of an edit too.                                      *)

OwnerStandsIn(h) ==
    h.owner # None =>
        /\ h.owner \in Members(h)
        /\ h.owner \notin h.bans
        /\ h.owner \notin DOMAIN h.mutes
        /\ h.owner \notin DOMAIN h.joined
        /\ \A s \in h.silences : s.who # h.owner

\* Nobody acts on the owner, the owner included (state.rs, `outranks` and the
\* TheOwner refusals): whatever was applied, the owner is a member, not
\* banned, not muted, not a newcomer, and under no silence.
OwnerStands == OwnerStandsIn(g)

BannedAreOutIn(h) == h.bans \cap Members(h) = {}

\* A banned person is never a member: every way in (Put, Join) looks at the
\* bans, and a ban takes its target out.
BannedAreOut == BannedAreOutIn(g)

NothingLeftBehindIn(h) ==
    /\ DOMAIN h.mutes \subseteq Members(h)
    /\ DOMAIN h.joined \subseteq Members(h)
    /\ \A p \in Members(h) : h.members[p] \subseteq DOMAIN h.roles \ {DEFAULT_ROLE}
    /\ \A o \in h.overrides : o.channel \in DOMAIN h.channels

\* A mute, a newcomer's wait and a role are a member's, and an override a
\* channel's: no removal, leave or deletion of a role or channel leaves one
\* behind for when the person or the channel comes back.  (That an override's
\* role is there too is not said: a batch that deletes a role and then
\* overrides a channel for it is judged against the state before, and leaves
\* one, which counts again once a role of that id is made.)
NothingLeftBehind == NothingLeftBehindIn(g)

\* Removal spans of p: of a kick, a ban or a leave.
Removals(h, p) == {s \in h.silences : s.who = p /\ ~s.mute}

SpansFollowMembershipIn(h) ==
    \A p \in People :
        Removals(h, p) # {} =>
            (p \in Members(h) <=> \A s \in Removals(h, p) : s.until # None)

\* Someone with a removal span on record is a member exactly when none of
\* their removal spans is open: a kick, ban or leave silences until the
\* person is let back in, however often they come and go.
SpansFollowMembership == SpansFollowMembershipIn(g)

\* A new mute replaces the one in force: at no time is a person covered by
\* two mute spans, even when muted anew after being kicked and let back in.
OneMuteAtATime ==
    \A p \in People :
        Cardinality({s \in g.silences : s.who = p /\ s.mute /\ Covers(s, at)}) <= 1

-----------------------------------------------------------------------------
(* What a step may never do. *)

\* The escalation rule, on what people end up holding: a step applied for a
\* leaves nobody with a group-wide permission they lacked and a lacked too,
\* except that joining gives the default role's.
NoEscalation ==
    [][\A a \in People : ActBy(a) =>
        \A p \in People :
            Base(g', p) \ Base(g, p) \subseteq
                IF p = a THEN BaseOf(g, {}) ELSE Base(g, a)]_vars

\* The rank of p: the highest position p holds, or nothing.
Top(h, p) == {m \in Positions(h, p) : \A n \in Positions(h, p) : n <= m}

\* The rank rule: unless a is the owner, a step applied for a takes nothing
\* from the standing of a member a does not outrank -- they stay, at their
\* rank -- and puts nobody at or above a's own rank.
RankIsRespected ==
    [][\A a \in People : ActBy(a) /\ a # g.owner =>
        \A p \in People :
            /\ p \in Members(g) /\ ~Outranks(g, a, p) =>
                 /\ p \in Members(g') \/ p = a
                 /\ p \in Members(g') => Top(g', p) = Top(g, p)
            /\ \A m \in Positions(g', p) \ Positions(g, p) : RankAbove(g, a, m)]_vars

\* What state.rs says of an override edit: "an override cannot hand out what
\* its author lacks there".  Nobody's permissions in the channel grow by the
\* edit beyond what its author has in that channel.
OverrideGrantsWithinReach ==
    [][EditOverride =>
        \A c \in Channels, p \in People :
            Effective(draft'.next, p, c) \ Effective(draft.next, p, c)
                \subseteq Effective(g, draft.by, c)]_vars

=============================================================================
