------------------------------ MODULE Console -------------------------------
(***************************************************************************)
(* What the app offers a person over an open group, and what its buttons   *)
(* ask the group for: the views of crates/hit-app-core/src/state.rs, the   *)
(* settings and member dialogs and the composer of crates/hit-desktop.     *)
(*                                                                         *)
(* Everything here is read off one state of the group, h: the one this     *)
(* node holds, which is also the one its own judgement is made against.    *)
(* A press is a record of what the button sends; the Passes operators are  *)
(* this node's judgement of it.  Names and texts are ones the label check  *)
(* accepts.                                                                *)
(***************************************************************************)
EXTENDS GroupState

\* Mutant: a role below one's own, whatever it permits.
MayAssignAnyPerms(h, me, r) ==
    /\ r \in DOMAIN h.roles \ {DEFAULT_ROLE}
    /\ Has(h, me, "MANAGE_ROLES")
    /\ OutranksRole(h, me, h.roles[r])

\* GroupState::may_assign: the roles `me` may hand out.
MayAssign(h, me, r) ==
    /\ r \in DOMAIN h.roles \ {DEFAULT_ROLE}
    /\ Has(h, me, "MANAGE_ROLES")
    /\ OutranksRole(h, me, h.roles[r])
    /\ CanGrant(h, me, h.roles[r].perms)

\* GroupState::muted_until: a mute with an end still to come.
MutedNow(h, p, now) == p \in DOMAIN h.mutes /\ h.mutes[p] > now

\* is_private: an override denies the default role the sight of the channel.
IsPrivate(h, c) ==
    \E o \in h.overrides : o.channel = c /\ o.role = DEFAULT_ROLE /\ "VIEW_CHANNEL" \in o.deny

ChannelView(h, me, c) ==
    [private |-> IsPrivate(h, c),
     can_send |-> me \in Members(h) /\ "SEND_MESSAGES" \in Effective(h, me, c),
     can_moderate |-> me \in Members(h) /\ "MANAGE_MESSAGES" \in Effective(h, me, c)]

\* Mutant: the banned read on.
ReadingBanned(h, me) == me \notin Members(h) /\ h.public

\* Not in the public group, and free to be.
Reading(h, me) == me \notin Members(h) /\ h.public /\ me \notin h.bans

\* App::groups, of one group: a member's view, or a reader's.
GroupView(h, me, now) ==
    LET member == me \in Members(h)
        base == IF member THEN Base(h, me) ELSE {}
        shown == {c \in DOMAIN h.channels : member => "VIEW_CHANNEL" \in Effective(h, me, c)}
    IN  [channels |-> [c \in shown |-> ChannelView(h, me, c)],
         public |-> h.public,
         me_owner |-> member /\ me = h.owner,
         can_invite |-> "CREATE_INVITE" \in base,
         can_rename |-> "MANAGE_GROUP" \in base,
         can_manage |-> "MANAGE_CHANNELS" \in base,
         can_ban |-> "BAN_MEMBERS" \in base,
         muted |-> member /\ MutedNow(h, me, now),
         waiting |-> member /\ Waiting(h, me, now),
         reading |-> Reading(h, me)]

\* App::members, of the member t.
MemberView(h, me, t, now) ==
    LET may == IF Outranks(h, me, t) THEN Base(h, me) ELSE {}
    IN  [can_kick |-> "KICK_MEMBERS" \in may, can_ban |-> "BAN_MEMBERS" \in may,
         can_mute |-> "MUTE_MEMBERS" \in may, can_set_roles |-> "MANAGE_ROLES" \in may,
         muted |-> MutedNow(h, t, now)]

\* App::roles: every role but the default one, and whether it is assignable.
RoleViews(h, me) == [r \in DOMAIN h.roles \ {DEFAULT_ROLE} |-> MayAssign(h, me, r)]

\* App::bans
Bans(h) == h.bans

\* Chat::load_bans: read only for whoever may lift one, by the view v.
LoadBans(h, v) == IF v.can_ban THEN Bans(h) ELSE {}

\* Chat::open_member: what the role toggles can be brought to, starting from
\* what t holds and toggling the assignable ones.
RoleChoices(h, me, t) ==
    LET rows == RoleViews(h, me)
        held == h.members[t] \cap DOMAIN rows
        free == {r \in DOMAIN rows : rows[r]}
    IN  {(held \ free) \cup s : s \in SUBSET free}

\* Chat::render: no word of refusal under the composer of channel c, in the view v.
ComposerOpen(v, c) ==
    /\ c \in DOMAIN v.channels
    /\ ~v.reading /\ ~v.muted /\ ~v.waiting
    /\ v.channels[c].can_send

-----------------------------------------------------------------------------
(* The buttons. *)

\* The member dialog of t: save roles, mute and lift, kick, ban.
MemberPresses(h, me, t, now) ==
    LET v == MemberView(h, me, t, now) IN
    UNION {
        IF v.can_set_roles /\ DOMAIN RoleViews(h, me) # {}
        THEN {[do |-> "set_roles", who |-> t, roles |-> s] : s \in RoleChoices(h, me, t)} ELSE {},
        IF v.can_mute THEN {[do |-> "mute", who |-> t, minutes |-> 1]} ELSE {},
        IF v.can_mute /\ v.muted THEN {[do |-> "mute", who |-> t, minutes |-> None]} ELSE {},
        IF v.can_kick THEN {[do |-> "kick", who |-> t]} ELSE {},
        IF v.can_ban THEN {[do |-> "ban", who |-> t]} ELSE {}}

\* The settings dialog: name and description, visibility, newcomers,
\* channels (mods only: the owner's; delete: while two are shown), bans.
SettingsPresses(h, v) ==
    UNION {
        IF v.can_rename THEN {[do |-> d] : d \in {"rename_group", "set_about"}} ELSE {},
        IF v.me_owner THEN {[do |-> "set_public", public |-> ~v.public]} ELSE {},
        IF v.can_manage THEN {[do |-> "set_newcomer_wait"], [do |-> "new_channel"]} ELSE {},
        IF v.can_manage THEN {[do |-> "save_channel", id |-> c] : c \in DOMAIN v.channels} ELSE {},
        IF v.can_manage /\ v.me_owner
        THEN {[do |-> "set_private", id |-> c, private |-> ~v.channels[c].private] :
                c \in DOMAIN v.channels} ELSE {},
        IF v.can_manage /\ Cardinality(DOMAIN v.channels) > 1
        THEN {[do |-> "delete_channel", id |-> c] : c \in DOMAIN v.channels} ELSE {},
        {[do |-> "unban", who |-> t] : t \in LoadBans(h, v)}}

\* The window beside the dialogs: the banner's join, the invite dialog (an
\* invite, or a public group's link), a moderator's removal in a channel.
WindowPresses(v) ==
    UNION {
        IF v.reading THEN {[do |-> "join_reading"]} ELSE {},
        IF v.public THEN {[do |-> "public_link"]}
        ELSE IF v.can_invite THEN {[do |-> "invite"]} ELSE {},
        {[do |-> "remove_message", id |-> c] :
            c \in {d \in DOMAIN v.channels : v.channels[d].can_moderate}}}

-----------------------------------------------------------------------------
(* What the App makes of a press, and this node's judgement of it. *)

\* App::mute: minutes from now, or the lift.
AppMute(h, me, t, minutes, now) ==
    MuteOk(h, me, t, IF minutes = None THEN None ELSE now + minutes, now)

\* App::save_channel: a new channel takes a free id; one there keeps its kind.
AppSaveChannel(h, me, id) ==
    LET kind == IF id \in DOMAIN h.channels THEN h.channels[id].kind ELSE "text"
    IN  ChannelOk(h, me, [id |-> id, kind |-> kind, slowmode |-> 0])

\* App::set_channel_private: one override per role -- denied to the default
\* one, allowed to every other -- or all of them taken away.
PrivateEdits(h, c, private) ==
    LET view(on) == IF on THEN {"VIEW_CHANNEL"} ELSE {}
    IN  {[channel |-> c, role |-> r,
          allow |-> view(private /\ r # DEFAULT_ROLE),
          deny |-> view(private /\ r = DEFAULT_ROLE)] : r \in DOMAIN h.roles}

\* App::invite, Node::invite: the 9009 is judged, and a join with it at once.
AppInvite(h, me, now) ==
    /\ Has(h, me, "CREATE_INVITE")
    /\ \A p \in People \ (Members(h) \cup h.bans), code \in Codes :
        JoinOk([h EXCEPT !.invites =
                    @ \cup {[code |-> code, author |-> me, at |-> now, expires |-> None]}],
               p, code, now)

\* A press of the member dialog, signed (Node::put, ban, mute...) and judged here.
MemberPasses(h, me, s, now) ==
    CASE s.do = "set_roles" -> PutOk(h, me, s.who, s.roles)
      [] s.do = "mute" -> AppMute(h, me, s.who, s.minutes, now)
      [] s.do = "kick" -> RemoveOk(h, me, s.who, FALSE)
      [] s.do = "ban" -> RemoveOk(h, me, s.who, TRUE)

\* A press of the settings dialog: one edit or several (Node::edit), or an unban.
SettingsPasses(h, me, s) ==
    CASE s.do = "unban" -> UnbanOk(h, me, s.who)
      [] s.do = "set_private" -> \A e \in PrivateEdits(h, s.id, s.private) : OverrideOk(h, h, me, e)
      [] s.do = "save_channel" -> AppSaveChannel(h, me, s.id)
      [] s.do = "new_channel" -> \A c \in Channels \ DOMAIN h.channels : AppSaveChannel(h, me, c)
      [] s.do = "delete_channel" -> ChannelDeleteOk(h, h, me, [id |-> s.id])
      [] s.do = "rename_group" -> NameOk(h, me, [text |-> FirstText])
      [] s.do = "set_about" -> AboutOk(h, me, [text |-> FirstText])
      [] s.do = "set_public" -> PublicOk(h, me)
      [] s.do = "set_newcomer_wait" -> NewcomerWaitOk(h, me, [secs |-> 0])

\* A press in the window.
WindowPasses(h, me, s, now) ==
    CASE s.do = "public_link" -> h.public
      [] s.do = "join_reading" -> JoinOk(h, me, None, now)
      [] s.do = "invite" -> AppInvite(h, me, now)
      [] s.do = "remove_message" -> JudgeInChannel(h, me, s.id, {"VIEW_CHANNEL", "MANAGE_MESSAGES"})

-----------------------------------------------------------------------------
(* Property. *)

\* A mute that outlived its entry: its person was removed or left, which
\* takes the entry and not the span, and has come back.
OutlivedMute(h, p, now) ==
    p \notin DOMAIN h.mutes /\ \E s \in h.silences : s.who = p /\ s.mute /\ Covers(s, now)

\* dialogs.slint: "Each button is offered only when this node's judgement
\* would pass it".  Whatever was done to the group, everything the dialogs,
\* the banner and the composer offer someone is accepted from them; the one
\* exception is the composer of someone under a mute that outlived its entry.
OffersAreHonoured ==
    draft = None =>
        \A me \in People :
            LET v == GroupView(g, me, at) IN
            /\ \A s \in SettingsPresses(g, v) : SettingsPasses(g, me, s)
            /\ \A s \in WindowPresses(v) : WindowPasses(g, me, s, at)
            /\ \A t \in Members(g) :
                \A s \in MemberPresses(g, me, t, at) : MemberPasses(g, me, s, at)
            /\ \A c \in Channels : ComposerOpen(v, c) =>
                    JudgeMessage(g, me, c, at) \/ OutlivedMute(g, me, at)

=============================================================================
