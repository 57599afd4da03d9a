----------------------------- MODULE GroupRules -----------------------------
(***************************************************************************)
(* The rules of a group, as hit-group computes them: who may do what, and  *)
(* what an action, once valid, makes of the group.  Everything here is a   *)
(* constant-level operator on the record `g`, the state of one group       *)
(* (struct GroupState of crates/hit-group/src/state.rs); the modules that  *)
(* extend this one decide when the operators are applied.                  *)
(*                                                                         *)
(* Abstractions of data.  A permission is a name, and a bitset a set of    *)
(* names, so Permissions::sanitized is the identity on every set the model *)
(* builds.  People, roles, channels and invite codes are values of small   *)
(* sets; a name or an `about` is a value of Texts, or BadText for one the  *)
(* label check refuses.  A BTreeMap is a function with a partial domain, a *)
(* Vec searched only with `any`/`find` is a set.  The ids of the actions   *)
(* applied are kept by the fold (GroupFold), not in the record.            *)
(***************************************************************************)
EXTENDS Integers, FiniteSets

CONSTANTS People,    \* public keys of persons
          RoleIds,   \* role ids, DEFAULT_ROLE among them
          Channels,  \* channel ids
          Codes,     \* invite codes
          Texts,     \* names and descriptions the label check accepts
          None,      \* the absent Option
          MAX_SLOWMODE, MAX_NEWCOMER_WAIT, PUBLIC_NEWCOMER_FLOOR   \* in seconds

DEFAULT_ROLE == "member"
OWNER_MARK == "owner"

\* One text that fails its length check (label's, or the one against MAX_ABOUT).
BadText == "bad text"

ASSUME DefaultRoleAssumption == {DEFAULT_ROLE, "mod", "admin"} \subseteq RoleIds
ASSUME OwnerMarkAssumption == OWNER_MARK \notin RoleIds
ASSUME NoneAssumption == None \notin Int /\ None \notin People /\ None \notin Codes
ASSUME TextAssumption == BadText \notin Texts
ASSUME LimitsAssumption ==
    MAX_SLOWMODE \in Nat /\ MAX_NEWCOMER_WAIT \in Nat /\ PUBLIC_NEWCOMER_FLOOR \in Nat

-----------------------------------------------------------------------------
(* Permissions: perm.rs. *)

ALL == {"VIEW_CHANNEL", "SEND_MESSAGES", "MANAGE_MESSAGES", "MANAGE_CHANNELS",
        "CREATE_INVITE", "MANAGE_INVITES", "KICK_MEMBERS", "BAN_MEMBERS",
        "MUTE_MEMBERS", "MANAGE_ROLES", "MANAGE_GROUP", "ATTACH_FILES"}

\* What a per-channel override may allow or deny.
CHANNEL_SCOPED == {"VIEW_CHANNEL", "SEND_MESSAGES", "MANAGE_MESSAGES", "ATTACH_FILES"}

DEFAULT_MEMBER == {"VIEW_CHANNEL", "SEND_MESSAGES", "CREATE_INVITE", "ATTACH_FILES"}

DEFAULT_MODERATOR ==
    DEFAULT_MEMBER \cup {"MANAGE_MESSAGES", "KICK_MEMBERS", "BAN_MEMBERS", "MUTE_MEMBERS"}

DEFAULT_ADMIN ==
    DEFAULT_MODERATOR \cup {"MANAGE_CHANNELS", "MANAGE_INVITES", "MANAGE_ROLES"}

-----------------------------------------------------------------------------
(* Maps. *)

\* f is a partial function from S to T: a value of a BTreeMap.
IsMap(f, S, T) == DOMAIN f \subseteq S /\ f \in [DOMAIN f -> T]

Insert(f, k, v) == [x \in DOMAIN f \cup {k} |-> IF x = k THEN v ELSE f[x]]

Without(f, k) == [x \in DOMAIN f \ {k} |-> f[x]]

EmptyMap == [x \in {} |-> None]

-----------------------------------------------------------------------------
(* The state of a group. *)

RoleDef == [perms : SUBSET ALL, position : Int]
Channel == [kind : {"text", "voice"}, slowmode : Nat]
Override == [channel : Channels, role : RoleIds,
             allow : SUBSET CHANNEL_SCOPED, deny : SUBSET CHANNEL_SCOPED]
Silence == [who : People, from : Nat, until : Nat \cup {None}, mute : BOOLEAN]
Invite == [code : Codes, author : People, at : Nat, expires : Nat \cup {None}]

\* The fields of struct GroupState, less the id of the group.
FieldNames ==
    {"seq", "cutoff", "name", "about", "public", "newcomer_wait", "joined", "owner",
     "named_owner", "channels", "overrides", "roles", "members", "invites", "bans",
     "mutes", "silences"}

IsGroup(g) ==
    /\ DOMAIN g = FieldNames
    /\ g.seq \in Nat /\ g.cutoff \in Nat
    /\ g.name \in Texts /\ g.about \in Texts
    /\ g.public \in BOOLEAN /\ g.newcomer_wait \in Nat
    /\ IsMap(g.joined, People, Nat)
    /\ g.owner \in People \cup {None} /\ g.named_owner \in People \cup {None}
    /\ IsMap(g.channels, Channels, Channel)
    /\ g.overrides \subseteq Override
    /\ IsMap(g.roles, RoleIds, RoleDef)
    /\ IsMap(g.members, People, SUBSET RoleIds)
    /\ g.invites \subseteq Invite
    /\ g.bans \subseteq People
    /\ IsMap(g.mutes, People, Nat)
    /\ g.silences \subseteq Silence

Members(g) == DOMAIN g.members

Covers(s, t) == s.from <= t /\ (s.until # None => t < s.until)

-----------------------------------------------------------------------------
(* The answers: base, effective, rank and what follows from them. *)

\* What holding `held` and the default role grants, group-wide.
BaseOf(g, held) ==
    UNION {g.roles[r].perms : r \in ({DEFAULT_ROLE} \cup held) \cap DOMAIN g.roles}

Base(g, p) == IF p = g.owner THEN ALL
              ELSE IF p \in Members(g) THEN BaseOf(g, g.members[p]) ELSE {}

EffectiveOf(g, held, c) ==
    LET mine == {o \in g.overrides : o.channel = c /\ o.role \in held \cup {DEFAULT_ROLE}}
        allow == UNION {o.allow : o \in mine} \cap CHANNEL_SCOPED
        deny == UNION {o.deny : o \in mine} \cap CHANNEL_SCOPED
    IN (BaseOf(g, held) \ deny) \cup allow

Effective(g, p, c) == IF p = g.owner THEN ALL
                      ELSE IF p \in Members(g) THEN EffectiveOf(g, g.members[p], c) ELSE {}

\* The positions of the roles p holds.  Their maximum is Rank; with none of
\* them p is at Rank::FLOOR, below every position.
Positions(g, p) ==
    IF p \in Members(g) THEN {g.roles[r].position : r \in g.members[p] \cap DOMAIN g.roles}
    ELSE {}

\* rank(p) > Rank(n)
RankAbove(g, p, n) == \E m \in Positions(g, p) : m > n

\* rank(p) > rank(q)
RankOver(g, p, q) ==
    \E m \in Positions(g, p) : \A n \in Positions(g, q) : m > n

Outranks(g, a, t) == t # g.owner /\ (a = g.owner \/ RankOver(g, a, t))

\* Mutant: a role at one's own rank counts as outranked.
OutranksRoleAtRank(g, a, role) ==
    a = g.owner \/ \E m \in Positions(g, a) : m >= role.position

OutranksRole(g, a, role) == a = g.owner \/ RankAbove(g, a, role.position)

CanGrant(g, a, granting) == granting \subseteq Base(g, a)

Has(g, a, perm) == perm \in Base(g, a)

-----------------------------------------------------------------------------
(* Actions: GroupState::apply.  XOk(g, a, ...) holds when the action signed *)
(* by a is valid against g; XDo(g, ...) is the state it then makes.         *)

SilenceOf(g, who, from, until, mute) ==
    g.silences \cup {[who |-> who, from |-> from, until |-> until, mute |-> mute]}

\* let_back_in: the open removal spans of `who` end at t.
LetBackIn(g, who, t) ==
    {IF s.who = who /\ ~s.mute /\ s.until = None THEN [s EXCEPT !.until = t] ELSE s :
        s \in g.silences}

\* 9000: put t in the group with exactly `roles` beyond the default one.
PutOk(g, a, t, roles) ==
    LET wanted == roles \ {DEFAULT_ROLE}
        held == IF t \in Members(g) THEN g.members[t] ELSE {}
        changed == (wanted \ held) \cup (held \ wanted)
    IN /\ a \in Members(g)
       /\ t # g.owner
       /\ wanted \subseteq DOMAIN g.roles
       /\ t \notin Members(g) => t \notin g.bans /\ Has(g, a, "CREATE_INVITE")
       /\ wanted # held =>
            /\ Has(g, a, "MANAGE_ROLES")
            /\ t \in Members(g) => Outranks(g, a, t)
            /\ \A r \in changed : r \in DOMAIN g.roles /\ OutranksRole(g, a, g.roles[r])
            /\ CanGrant(g, a, UNION {g.roles[r].perms : r \in changed \cap wanted})

\* Mutant: putting someone back in leaves their removal span open.
PutDoNotLetBackIn(g, t, roles, at) == [g EXCEPT !.members = Insert(@, t, roles \ {DEFAULT_ROLE})]

PutDo(g, t, roles, at) ==
    [g EXCEPT !.members = Insert(@, t, roles \ {DEFAULT_ROLE}),
              !.silences = IF t \in Members(g) THEN @ ELSE LetBackIn(g, t, at)]

\* 9001: remove t, and with `ban` keep them out.
RemoveOk(g, a, t, ban) ==
    /\ a \in Members(g)
    /\ t # g.owner
    /\ t \in Members(g) \/ ban
    /\ Has(g, a, IF ban THEN "BAN_MEMBERS" ELSE "KICK_MEMBERS")
    /\ Outranks(g, a, t)

RemoveDo(g, t, ban, at) ==
    [g EXCEPT !.members = Without(@, t),
              !.mutes = IF t \in Members(g) THEN Without(@, t) ELSE @,
              !.joined = IF t \in Members(g) THEN Without(@, t) ELSE @,
              !.silences = SilenceOf(g, t, at, None, FALSE),
              !.bans = IF ban THEN @ \cup {t} ELSE @]

\* 9001 with `unban`: lifts a ban and adds nobody.
UnbanOk(g, a, t) ==
    /\ a \in Members(g)
    /\ Has(g, a, "BAN_MEMBERS")
    /\ t \in g.bans

UnbanDo(g, t) == [g EXCEPT !.bans = @ \ {t}]

\* 9030.  MuteAllowed is every check made before the state is touched; the
\* spans of mutes covering `at` are then closed (EndMutes) whether or not the
\* rest of the action is valid (MuteOk).
MuteAllowed(g, a, t) ==
    /\ a \in Members(g)
    /\ t # g.owner
    /\ t \in Members(g)
    /\ Has(g, a, "MUTE_MEMBERS")
    /\ Outranks(g, a, t)

\* Mutant: a new mute leaves the one in force running.
EndMutesNot(g, t, at) == g

EndMutes(g, t, at) ==
    [g EXCEPT !.silences =
        {IF s.who = t /\ s.mute /\ Covers(s, at) THEN [s EXCEPT !.until = at] ELSE s : s \in @}]

MuteOk(g, a, t, until, at) ==
    /\ MuteAllowed(g, a, t)
    /\ IF until = None THEN t \in DOMAIN g.mutes ELSE until > at

\* Mutant: lifting a mute stores "no end" as its end.
MuteDoNoEnd(g, t, until, at) ==
    LET lifted == EndMutes(g, t, at)
    IN [lifted EXCEPT !.mutes = Insert(@, t, until),
                      !.silences = SilenceOf(lifted, t, at, until, TRUE)]

MuteDo(g, t, until, at) ==
    LET lifted == EndMutes(g, t, at)
    IN IF until = None
       THEN [lifted EXCEPT !.mutes = Without(@, t)]
       ELSE [lifted EXCEPT !.mutes = Insert(@, t, until),
                           !.silences = SilenceOf(lifted, t, at, until, TRUE)]

\* 9021.  Without a code the door of a public group; with one, an invite
\* valid at the join's time whose author may still invite.
Honoured(g, code, at) ==
    IF code = None THEN g.public
    ELSE \E i \in g.invites :
            /\ i.code = code
            /\ i.at <= at
            /\ i.expires # None => at <= i.expires
            /\ Has(g, i.author, "CREATE_INVITE")

\* Mutant: a join does not look at the bans.
JoinOkBanned(g, a, code, at) == a \notin Members(g) /\ Honoured(g, code, at)

JoinOk(g, a, code, at) ==
    /\ a \notin Members(g)
    /\ Honoured(g, code, at)
    /\ a \notin g.bans

JoinDo(g, a, at) ==
    [g EXCEPT !.silences = LetBackIn(g, a, at),
              !.members = Insert(@, a, {}),
              !.joined = Insert(@, a, at)]

\* Mutant: the owner may leave.
LeaveOkOwner(g, a) == a \in Members(g)

\* 9022
LeaveOk(g, a) == a # g.owner /\ a \in Members(g)

LeaveDo(g, a, at) ==
    [g EXCEPT !.members = Without(@, a),
              !.mutes = Without(@, a),
              !.joined = Without(@, a),
              !.silences = SilenceOf(g, a, at, None, FALSE)]

-----------------------------------------------------------------------------
(* 9002: GroupState::edit.  Each edit e of a batch is judged against the    *)
(* state `before` the batch and applied to `g`, what the edits before it    *)
(* made.                                                                    *)

NameOk(before, a, e) == Has(before, a, "MANAGE_GROUP") /\ e.text # BadText
NameDo(g, e) == [g EXCEPT !.name = e.text]

AboutOk(before, a, e) == Has(before, a, "MANAGE_GROUP") /\ e.text # BadText
AboutDo(g, e) == [g EXCEPT !.about = e.text]

PublicOk(before, a) == a = before.owner
PublicDo(g, e) == [g EXCEPT !.public = e.public]

NewcomerWaitOk(before, a, e) ==
    Has(before, a, "MANAGE_CHANNELS") /\ e.secs <= MAX_NEWCOMER_WAIT
NewcomerWaitDo(g, e) == [g EXCEPT !.newcomer_wait = e.secs]

ChannelOk(before, a, e) ==
    Has(before, a, "MANAGE_CHANNELS") /\ e.slowmode <= MAX_SLOWMODE
ChannelDo(g, e) ==
    [g EXCEPT !.channels = Insert(@, e.id, [kind |-> e.kind, slowmode |-> e.slowmode])]

ChannelDeleteOk(before, g, a, e) ==
    Has(before, a, "MANAGE_CHANNELS") /\ e.id \in DOMAIN g.channels
\* Mutant: a channel goes and its overrides stay.
ChannelDeleteDoOnly(g, e) == [g EXCEPT !.channels = Without(@, e.id)]

ChannelDeleteDo(g, e) ==
    [g EXCEPT !.channels = Without(@, e.id),
              !.overrides = {o \in @ : o.channel # e.id}]

OverrideOk(before, g, a, e) ==
    /\ Has(before, a, "MANAGE_ROLES")
    /\ e.channel \in DOMAIN g.channels
    /\ e.role \in DOMAIN before.roles
    /\ OutranksRole(before, a, before.roles[e.role])
    /\ e.allow \cap CHANNEL_SCOPED \subseteq Effective(before, a, e.channel)
OverrideDo(g, e) ==
    LET allow == e.allow \cap CHANNEL_SCOPED
        deny == e.deny \cap CHANNEL_SCOPED
        others == {o \in g.overrides : ~(o.channel = e.channel /\ o.role = e.role)}
    IN [g EXCEPT !.overrides =
            IF allow = {} /\ deny = {} THEN others
            ELSE others \cup {[channel |-> e.channel, role |-> e.role,
                               allow |-> allow, deny |-> deny]}]

\* Mutant: a role is edited without asking what its permissions are.
RoleOkAnyPerms(before, a, e) ==
    /\ Has(before, a, "MANAGE_ROLES")
    /\ e.id # OWNER_MARK
    /\ IF e.id = DEFAULT_ROLE
       THEN a = before.owner /\ e.position = 0
       ELSE /\ e.position > 0
            /\ e.id \in DOMAIN before.roles => OutranksRole(before, a, before.roles[e.id])
            /\ OutranksRole(before, a, e)

RoleOk(before, a, e) ==
    /\ Has(before, a, "MANAGE_ROLES")
    /\ e.id # OWNER_MARK
    /\ IF e.id = DEFAULT_ROLE
       THEN a = before.owner /\ e.position = 0
       ELSE /\ e.position > 0
            /\ e.id \in DOMAIN before.roles => OutranksRole(before, a, before.roles[e.id])
            /\ OutranksRole(before, a, e)
    /\ CanGrant(before, a, e.perms)
RoleDo(g, e) ==
    [g EXCEPT !.roles = Insert(@, e.id, [perms |-> e.perms, position |-> e.position])]

RoleDeleteOk(before, a, e) ==
    /\ Has(before, a, "MANAGE_ROLES")
    /\ e.id # DEFAULT_ROLE
    /\ e.id \in DOMAIN before.roles
    /\ OutranksRole(before, a, before.roles[e.id])
RoleDeleteDo(g, e) ==
    [g EXCEPT !.roles = Without(@, e.id),
              !.members = [p \in DOMAIN @ |-> @[p] \ {e.id}],
              !.overrides = {o \in @ : o.role # e.id}]

-----------------------------------------------------------------------------
(* A new group: its snapshot at seq 0, the role ladder and the owner alone. *)
(* Its description is empty; here it is the text of its name.               *)

DefaultRoles ==
    [r \in {"member", "mod", "admin"} |->
        CASE r = "member" -> [perms |-> DEFAULT_MEMBER, position |-> 0]
          [] r = "mod" -> [perms |-> DEFAULT_MODERATOR, position |-> 10]
          [] r = "admin" -> [perms |-> DEFAULT_ADMIN, position |-> 20]]

Genesis(owner, text, public, channel, at) ==
    [seq |-> 0, cutoff |-> at, name |-> text, about |-> text, public |-> public,
     newcomer_wait |-> 0, joined |-> EmptyMap, owner |-> owner, named_owner |-> owner,
     channels |-> [c \in {channel} |-> [kind |-> "text", slowmode |-> 0]],
     overrides |-> {}, roles |-> DefaultRoles,
     members |-> [p \in {owner} |-> {}],
     invites |-> {}, bans |-> {}, mutes |-> EmptyMap, silences |-> {}]

-----------------------------------------------------------------------------
(* What a snapshot of g, dated `at`, folds to when its own actions are all  *)
(* older than it: to_snapshot, Snapshot::sign, then the first half of fold. *)

MutesAsSilences(mutes, cutoff) ==
    {[who |-> p, from |-> cutoff, until |-> mutes[p], mute |-> TRUE] :
        p \in {q \in DOMAIN mutes : mutes[q] > cutoff}}

Compacted(g, at) ==
    [g EXCEPT !.seq = @ + 1,
              !.cutoff = at,
              !.named_owner = g.owner,
              !.members = [p \in DOMAIN @ |-> IF p = g.owner THEN {}
                                              ELSE (@[p] \cap DOMAIN g.roles) \ {DEFAULT_ROLE}],
              !.joined = EmptyMap,
              !.silences = MutesAsSilences(g.mutes, at)]

-----------------------------------------------------------------------------
(* Messages: judge_message and the rules it rests on. *)

NewcomerWait(g) == IF g.public /\ g.newcomer_wait < PUBLIC_NEWCOMER_FLOOR
                   THEN PUBLIC_NEWCOMER_FLOOR ELSE g.newcomer_wait

\* posts_from(p, t) is Some: p is a newcomer still waiting at t.
Waiting(g, p, t) ==
    /\ NewcomerWait(g) # 0
    /\ p \in DOMAIN g.joined
    /\ g.joined[p] + NewcomerWait(g) > t

Silenced(g, p, t) == \E s \in g.silences : s.who = p /\ Covers(s, t)

JudgeInChannel(g, p, c, needed) ==
    c \in DOMAIN g.channels /\ p \in Members(g) /\ needed \subseteq Effective(g, p, c)

JudgeMessage(g, p, c, t) ==
    /\ JudgeInChannel(g, p, c, {"VIEW_CHANNEL", "SEND_MESSAGES"})
    /\ ~Silenced(g, p, t)
    /\ ~Waiting(g, p, t)

=============================================================================
