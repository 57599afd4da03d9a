----------------------------- MODULE WireForms ------------------------------
(***************************************************************************)
(* What a group's events look like on the wire: built by one app, read by  *)
(* another, perhaps of another version (crates/hit-event/src/group.rs);    *)
(* and, with PersonForms, what people's own events and links look like.    *)
(*                                                                         *)
(*   meant   what was built: an action, a message..., or a whole snapshot  *)
(*   wire    its events, each a kind, a signer and the rows of its tags    *)
(*   hands   how many times another hand than this build's changed it      *)
(*   spoilt  it was made into something no version writes                  *)
(***************************************************************************)
EXTENDS PersonForms

CONSTANT WireMaxChanges   \* bound: hands at work

ASSUME WireConstants == WireMaxChanges \in Nat

VARIABLES meant, wire, hands, spoilt

wirevars == <<meant, wire, hands, spoilt>>

STATE_KINDS == <<"39000", "39001", "39002", "39003">>
ACTION_KINDS == {"9000", "9001", "9002", "9030", "9009", "9021", "9022"}
CHANNEL_KINDS == {"9", "7", "5", "9005", "9436"}
OTHER_KINDS == {"20436", "20437", "9007"}   \* presence, voice presence, the owner's half

IsState(kind) == kind \in ToSet(STATE_KINDS)
IsGroupKind(kind) == IsState(kind) \/ kind \in ACTION_KINDS \cup CHANNEL_KINDS \cup OTHER_KINDS

GroupOf(ev) == IF IsState(ev.kind) THEN As("hex", FirstValue(ev, "d"))
               ELSE IF IsGroupKind(ev.kind) THEN As("hex", FirstValue(ev, "h")) ELSE None

ChannelOf(ev) ==
    IF ev.kind \in CHANNEL_KINDS \cup {"20437"} THEN As("txt", FirstValue(ev, "channel")) ELSE None

TargetsOf(ev) ==
    LET rs == SelectSeq(Rows(ev, "e", 1), LAMBDA r : As("hex", r.vals[1]) # None)
    IN  [i \in DOMAIN rs |-> rs[i].vals[1][2]]

-----------------------------------------------------------------------------
(* Built. *)

Signed(kind, rows) == Ev(kind, "person", <<Row("h", <<Hex("group")>>)>> \o rows)

VisibilityTags(public) == IF public THEN <<Row("public", <<>>), Row("open", <<>>)>>
                          ELSE <<Row("private", <<>>), Row("closed", <<>>)>>

ChannelTag(c) == Row("channel", <<Txt(c.id), Txt(c.name), Txt(c.kind), Num(c.slowmode)>>)
OverrideTag(v) == Row("override", <<Txt(v.channel), Txt(v.role), Num(v.allow), Num(v.deny)>>)
RoleTag(r) == Row("role", <<Txt(r.id), Txt(r.name), Num(r.perms), Num(r.position)>>)

\* Edit::to_tag
EditTag(e) ==
    CASE e.edit \in {"name", "about"} -> Row(e.edit, <<Txt(e.text)>>)
      [] e.edit = "public" -> Row(IF e.public THEN "public" ELSE "private", <<>>)
      [] e.edit = "newcomer_wait" -> Row("newcomer_wait", <<Num(e.secs)>>)
      [] e.edit = "channel" -> ChannelTag(e.channel)
      [] e.edit = "override" -> OverrideTag(e.override)
      [] e.edit = "role" -> RoleTag(e.role)
      [] e.edit \in {"channel-delete", "role-delete"} -> Row(e.edit, <<Txt(e.id)>>)

PutUser(m) == Signed("9000", <<Row("p", <<Hex(m.target)>> \o Each(m.roles, Txt))>>)

\* remove_user, ban_user, unban_user
RemoveUser(m) ==
    Signed("9001", <<Row("p", <<Hex(m.target)>>)>> \o
        (CASE m.act = "unban" -> <<Row("unban", <<>>)>>
           [] m.act = "remove" -> IF m.ban THEN <<Row("ban", <<>>)>> ELSE <<>>))

MuteUser(m) ==
    Signed("9030", <<Row("p", <<Hex(m.target), Num(IF m.until = None THEN 0 ELSE m.until)>>)>>)

EditMetadata(m) == Signed("9002", [i \in DOMAIN m.edits |-> EditTag(m.edits[i])])

CreateInvite(m) ==
    Signed("9009", <<Row("code", <<Txt(m.code)>>)>> \o
                   (IF m.expires = None THEN <<>> ELSE <<Row("expiration", <<Num(m.expires)>>)>>))

\* join, join_public
JoinWith(m) == Signed("9021", IF m.code = None THEN <<>> ELSE <<Row("code", <<Txt(m.code)>>)>>)

\* Attachment::to_tag
Imeta(f) == Row("imeta", <<<<"url", f.hash>>, <<"m", f.mime>>, <<"size", f.size>>, <<"name", f.name>>>>)

InChannel(c) == <<Row("channel", <<Txt(c)>>)>>

MessageWith(m) == Signed("9", InChannel(m.channel) \o [i \in DOMAIN m.files |-> Imeta(m.files[i])])

ReactionTo(m) ==
    Signed("7", InChannel(m.channel) \o <<Row("e", <<Hex(m.targets[1])>>), Row("p", <<Hex("author")>>),
                                         Row("k", <<Num(9)>>)>>)

\* deletion, delete_event
DeletionOf(kind, m) ==
    Signed(kind, InChannel(m.channel) \o [i \in DOMAIN m.targets |-> Row("e", <<Hex(m.targets[i])>>)])

VoicePresence(m) ==
    Signed("20437", InChannel(m.channel) \o <<Row("state", <<Txt(IF m.inside THEN "in" ELSE "out")>>)>>)

\* Snapshot::sign: four events, signed by the group itself.
SignSnapshot(s) ==
    LET base(kind, rows) ==
            Ev(kind, "group", <<Row("d", <<Hex("group")>>), Row("seq", <<Num(s.seq)>>)>> \o rows)
        held == {p \in DOMAIN s.members : s.members[p] # {}}
    IN  << base("39000",
               <<Row("name", <<Txt(s.name)>>)>> \o VisibilityTags(s.public)
               \o (IF s.newcomer_wait > 0 THEN <<Row("newcomer_wait", <<Num(s.newcomer_wait)>>)>> ELSE <<>>)
               \o (IF s.about # "" THEN <<Row("about", <<Txt(s.about)>>)>> ELSE <<>>)
               \o [i \in DOMAIN s.channels |-> ChannelTag(s.channels[i])]
               \o [i \in DOMAIN s.overrides |-> OverrideTag(s.overrides[i])]),
           base("39001",
               (IF s.owner = None THEN <<>> ELSE <<Row("p", <<Hex(s.owner), Txt("owner")>>)>>)
               \o Each(held, LAMBDA p : Row("p", <<Hex(p)>> \o Each(s.members[p], Txt)))),
           base("39002",
               Each(DOMAIN s.members, LAMBDA p : Row("p", <<Hex(p)>>))
               \o Each(s.bans, LAMBDA p : Row("ban", <<Hex(p)>>))
               \o Each(DOMAIN s.mutes, LAMBDA p : Row("mute", <<Hex(p), Num(s.mutes[p])>>))),
           base("39003", Each(DOMAIN s.roles, LAMBDA i : RoleTag(s.roles[i]))) >>

Build(m) ==
    CASE m.act = "put" -> <<PutUser(m)>>
      [] m.act \in {"remove", "unban"} -> <<RemoveUser(m)>>
      [] m.act = "mute" -> <<MuteUser(m)>>
      [] m.act = "edit" -> <<EditMetadata(m)>>
      [] m.act = "invite" -> <<CreateInvite(m)>>
      [] m.act = "join" -> <<JoinWith(m)>>
      [] m.act = "leave" -> <<Signed("9022", <<>>)>>
      [] m.act = "message" -> <<MessageWith(m)>>
      [] m.act = "reaction" -> <<ReactionTo(m)>>
      [] m.act = "deletion" -> <<DeletionOf("5", m)>>
      [] m.act = "removal" -> <<DeletionOf("9005", m)>>
      [] m.act = "voice" -> <<VoicePresence(m)>>
      [] m.act = "snapshot" -> SignSnapshot(m)
      [] m.act = "zap" -> Carrier(Signed("9436", InChannel(m.channel)), m)
      [] OTHER -> BuildPersonal(m)

-----------------------------------------------------------------------------
(* Read. *)

\* A channel's row without a slowmode is one of an older build.
ParseChannel(v) ==
    LET slow == IF Len(v) < 4 THEN 0 ELSE As("num", v[4])
    IN  IF Len(v) < 3 \/ slow = None \/ v[3] \notin {Txt("text"), Txt("voice")} THEN None
        ELSE [id |-> v[1][2], name |-> v[2][2], kind |-> v[3][2], slowmode |-> slow]

ParseOverride(v) ==
    IF Len(v) < 4 \/ As("num", v[3]) = None \/ As("num", v[4]) = None THEN None
    ELSE [channel |-> v[1][2], role |-> v[2][2], allow |-> v[3][2], deny |-> v[4][2]]

ParseRole(v) ==
    IF Len(v) < 4 \/ As("num", v[3]) = None \/ As("num", v[4]) = None THEN None
    ELSE [id |-> v[1][2], name |-> v[2][2], perms |-> v[3][2], position |-> v[4][2]]

\* Edit::parse: an edit, one to ignore, or None for a malformed known one.
ParseEdit(r) ==
    LET v == r.vals
        one(x, e) == IF x = None THEN None ELSE e
    IN  CASE r.tag \in {"public", "private"} -> [edit |-> "public", public |-> r.tag = "public"]
          [] r.tag \in {"name", "about"} -> IF v = <<>> THEN None ELSE [edit |-> r.tag, text |-> v[1][2]]
          [] r.tag \in {"channel-delete", "role-delete"} ->
               IF v = <<>> THEN None ELSE [edit |-> r.tag, id |-> v[1][2]]
          [] r.tag = "newcomer_wait" ->
               IF v = <<>> THEN None
               ELSE one(As("num", v[1]), [edit |-> r.tag, secs |-> v[1][2]])
          [] r.tag = "channel" -> one(ParseChannel(v), [edit |-> r.tag, channel |-> ParseChannel(v)])
          [] r.tag = "override" -> one(ParseOverride(v), [edit |-> r.tag, override |-> ParseOverride(v)])
          [] r.tag = "role" -> one(ParseRole(v), [edit |-> r.tag, role |-> ParseRole(v)])
          [] OTHER -> [edit |-> "ignored"]

\* Every edit or none; an event of none is no edit.
ParseEdits(ev) ==
    LET all == [i \in DOMAIN ev.rows |-> ParseEdit(ev.rows[i])]
        kept == SelectSeq(all, LAMBDA e : e.edit # "ignored")
    IN  IF (\E i \in DOMAIN all : all[i] = None) \/ kept = <<>> THEN None
        ELSE [act |-> "edit", edits |-> kept]

\* Bug: a mute until 0 is read as a mute that has run out, not as a lift.
LiftAsZero(n) == n

\* `(until > 0).then(...)`: 0 on the wire is no time at all, the lift of a mute.
LiftOf(n) == IF n > 0 THEN n ELSE None

ParseAction(ev) ==
    LET target == As("hex", FirstValue(ev, "p"))
        row    == FirstRow(ev, "p", 1)
        untils == SelectSeq(Rows(ev, "p", 2), LAMBDA r : As("num", r.vals[2]) # None)
        code   == FirstValue(ev, "code")
        expiry == FirstValue(ev, "expiration")
    IN  IF GroupOf(ev) = None THEN None
        ELSE CASE ev.kind = "9000" /\ target # None ->
                    [act |-> "put", target |-> target,
                     roles |-> {row[i][2] : i \in 2..Len(row)}]
               [] ev.kind = "9001" /\ target # None ->
                    IF Has(ev, "unban") THEN [act |-> "unban", target |-> target]
                    ELSE [act |-> "remove", target |-> target, ban |-> Has(ev, "ban")]
               [] ev.kind = "9030" /\ target # None /\ untils # <<>> ->
                    [act |-> "mute", target |-> target, until |-> LiftOf(untils[1].vals[2][2])]
               [] ev.kind = "9002" -> ParseEdits(ev)
               [] ev.kind = "9009" /\ code # None /\ (expiry = None \/ As("num", expiry) # None) ->
                    [act |-> "invite", code |-> code[2],
                     expires |-> IF expiry = None THEN None ELSE expiry[2]]
               [] ev.kind = "9021" -> [act |-> "join", code |-> IF code = None THEN None ELSE code[2]]
               [] ev.kind = "9022" -> [act |-> "leave"]
               [] OTHER -> None

\* One bad file, or one too many, and the message is no message.
AttachmentsOf(ev) ==
    LET field(v, k, else) ==
            LET at == {i \in DOMAIN v : v[i][1] = k} IN IF at = {} THEN else ELSE v[Least(at)][2]
        read(v) == LET a == [hash |-> field(v, "url", None), size |-> field(v, "size", None),
                             mime |-> field(v, "m", "application/octet-stream"),
                             name |-> field(v, "name", "file")]
                   IN  IF a.hash # None /\ IsValid(a) THEN a ELSE None
        files == All(Rows(ev, "imeta", 0), read)
    IN  IF files # None /\ Len(files) <= MAX_ATTACHMENTS THEN files ELSE None

VoiceInside(ev) == FirstValue(ev, "state") = Txt("in")

\* parse_state's four readers; each makes its part of the group.
ParseMetadata(ev) ==
    LET wait == Rows(ev, "newcomer_wait", 1)
        chs  == All(Rows(ev, "channel", 0), ParseChannel)
        ovs  == All(Rows(ev, "override", 0), ParseOverride)
        text(v) == IF v = None THEN "" ELSE v[2]
    IN  IF chs = None \/ ovs = None \/ (\E i \in DOMAIN wait : As("num", wait[i].vals[1]) = None)
        THEN None
        ELSE [name |-> text(LastValue(ev, "name")), about |-> text(LastValue(ev, "about")),
              public |-> Has(ev, "public") /\ ~Has(ev, "private"),
              newcomer_wait |-> IF wait = <<>> THEN 0 ELSE wait[Len(wait)].vals[1][2],
              channels |-> chs, overrides |-> ovs]

ParseAdmins(ev) ==
    LET rows == Rows(ev, "p", 1)
        marked == {i \in DOMAIN rows : \E k \in 2..Len(rows[i].vals) : rows[i].vals[k] = Txt("owner")}
        held(i) == {rows[i].vals[k][2] : k \in 2..Len(rows[i].vals)}
        of(p) == {i \in DOMAIN rows \ marked : rows[i].vals[1][2] = p}
    IN  IF \E i \in DOMAIN rows : As("hex", rows[i].vals[1]) = None THEN None
        ELSE [owner |-> IF marked = {} THEN None ELSE rows[Greatest(marked)].vals[1][2],
              assigned |-> [p \in {rows[i].vals[1][2] : i \in DOMAIN rows \ marked} |->
                               held(Greatest(of(p)))]]

ParseMembers(ev) ==
    LET people(tag) == {Rows(ev, tag, 1)[i].vals[1] : i \in DOMAIN Rows(ev, tag, 1)}
        mutes == Rows(ev, "mute", 2)
        of(p) == mutes[Greatest({i \in DOMAIN mutes : mutes[i].vals[1][2] = p})].vals[2][2]
    IN  IF \/ \E v \in people("p") \cup people("ban") : As("hex", v) = None
           \/ \E i \in DOMAIN mutes : As("hex", mutes[i].vals[1]) = None \/ As("num", mutes[i].vals[2]) = None
        THEN None
        ELSE [members |-> {v[2] : v \in people("p")}, bans |-> {v[2] : v \in people("ban")},
              mutes |-> [p \in {mutes[i].vals[1][2] : i \in DOMAIN mutes} |-> of(p)]]

ParseRoles(ev) == All(Rows(ev, "role", 0), ParseRole)

\* parse_state: signed by the group it names, with a `seq`, its known rows well formed.
ParseState(ev) ==
    IF \/ GroupOf(ev) = None \/ ev.by # GroupOf(ev) \/ As("num", FirstValue(ev, "seq")) = None
    THEN None
    ELSE CASE ev.kind = "39000" -> ParseMetadata(ev)
           [] ev.kind = "39001" -> ParseAdmins(ev)
           [] ev.kind = "39002" -> ParseMembers(ev)
           [] ev.kind = "39003" -> ParseRoles(ev)

\* Permissions::sanitized: the bits this build knows.
ALL_PERMS == 1
Sanitized(perms) == perms % (ALL_PERMS + 1)

DefaultRole == [id |-> "member", name |-> "member", perms |-> 0, position |-> 0]

\* The roles of the fold: none called `owner`, the last of each id, no bit
\* beyond this build's, and the default one in any case.
FoldedRoles(rs) ==
    LET ids == {rs[i].id : i \in DOMAIN rs} \ {"owner"}
        last(id) == rs[Greatest({i \in DOMAIN rs : rs[i].id = id})]
    IN  [id \in ids \cup {"member"} |->
            IF id \in ids THEN [last(id) EXCEPT !.perms = Sanitized(@)] ELSE DefaultRole]

\* What a fold starts from: all four, and a member's roles from the admins'
\* rows, as far as there are such roles.  `owner` is the one named; that the
\* group has its half of the bargain, a 9007, is GroupFold's.
Assembled(w) ==
    LET p == [i \in 1..4 |-> ParseState(w[i])]
        roles == FoldedRoles(p[4])
        known(ids) == (ids \cap DOMAIN roles) \ {"member"}
    IN  IF \E i \in 1..4 : p[i] = None THEN None
        ELSE [act |-> "snapshot", seq |-> Greatest({FirstValue(w[i], "seq")[2] : i \in 1..4}),
              name |-> p[1].name, public |-> p[1].public, newcomer_wait |-> p[1].newcomer_wait,
              about |-> p[1].about, channels |-> p[1].channels, overrides |-> p[1].overrides,
              owner |-> p[2].owner,
              members |-> [m \in p[3].members |->
                              IF m \in DOMAIN p[2].assigned THEN known(p[2].assigned[m]) ELSE {}],
              bans |-> p[3].bans, mutes |-> p[3].mutes, roles |-> roles]

Read(w) ==
    LET ev == w[1]
        in_channel(m) == IF GroupOf(ev) = None \/ ChannelOf(ev) = None THEN None ELSE m
    IN  CASE ~Verified(w) -> None
          [] IsState(ev.kind) -> Assembled(w)
          [] ev.kind \in ACTION_KINDS -> ParseAction(ev)
          [] ev.kind = "9" /\ AttachmentsOf(ev) # None ->
               in_channel([act |-> "message", channel |-> ChannelOf(ev), files |-> AttachmentsOf(ev)])
          [] ev.kind \in {"7", "5", "9005"} ->
               in_channel([act |-> (CASE ev.kind = "7" -> "reaction" [] ev.kind = "5" -> "deletion"
                                      [] ev.kind = "9005" -> "removal"),
                           channel |-> ChannelOf(ev), targets |-> TargetsOf(ev)])
          [] ev.kind = "20437" ->
               in_channel([act |-> "voice", channel |-> ChannelOf(ev), inside |-> VoiceInside(ev)])
          [] ev.kind = "9436" /\ CarriedZap(w) # None ->
               in_channel([channel |-> ChannelOf(ev)] @@ CarriedZap(w))
          [] OTHER -> ReadPersonal(w)

-----------------------------------------------------------------------------
(* What is built: what the app's own checks let through. *)

AnyChannel == [id : WireTexts, name : {"name"}, kind : {"text", "voice"}, slowmode : 0..1]
AnyOverride == [channel : WireTexts, role : {"mod"}, allow : 0..1, deny : {0}]
AnyRole == [id : {"mod", "member"}, name : {"name"}, perms : 0..1, position : {1}]
AnyFile == [hash : WireTexts, size : WireSizes, mime : {"type"}, name : {"name"}]

AnyEdit ==
    [edit : {"name", "about"}, text : WireTexts \cup {""}] \cup [edit : {"public"}, public : BOOLEAN]
    \cup [edit : {"newcomer_wait"}, secs : 0..1] \cup [edit : {"channel"}, channel : AnyChannel]
    \cup [edit : {"override"}, override : AnyOverride] \cup [edit : {"role"}, role : AnyRole]
    \cup [edit : {"channel-delete", "role-delete"}, id : WireTexts]

Partial(values) == UNION {[S -> values] : S \in SUBSET WirePeople}

AnySnapshot(seqs, names, meta, waits, chs, ovs, people, bans, mutes, owners, roles) ==
    [act : {"snapshot"}, seq : seqs, name : names, public : meta, newcomer_wait : waits,
     about : names \cup {""}, channels : chs, overrides : ovs, members : people, bans : bans,
     mutes : mutes, owner : owners, roles : roles]

\* The roles of a group: the default one, and perhaps another.
AnyRoles ==
    LET mod == [id |-> "mod", name |-> "name", perms |-> 1, position |-> 1]
    IN  {[i \in S |-> IF i = "mod" THEN mod ELSE [DefaultRole EXCEPT !.perms = n]] :
            S \in {{"member"}, {"member", "mod"}}, n \in 0..1}

\* to_snapshot of a state there can be: the owner is a plain member and not
\* muted, nobody banned is a member, and what is assigned is there.
GivenByState(s) ==
    /\ s.owner # None => /\ s.owner \in DOMAIN s.members \ DOMAIN s.mutes
                         /\ s.members[s.owner] = {}
    /\ s.bans \cap DOMAIN s.members = {}
    /\ \A p \in DOMAIN s.members : s.members[p] \subseteq DOMAIN s.roles \ {"member"}
    /\ \A i \in DOMAIN s.overrides : /\ s.overrides[i].role \in DOMAIN s.roles
                                     /\ \E j \in DOMAIN s.channels :
                                            s.channels[j].id = s.overrides[i].channel

Meanings ==
    LET nobody == Partial({{}})
        few(S) == {CHOOSE x \in S : TRUE}
        some == CHOOSE c \in AnyChannel : c.slowmode = 0
    IN  PersonalMeanings
        \cup [act : {"zap"}, channel : WireTexts, provider : {"provider"}, recipient : WirePeople,
              target : WireTexts, sender : WirePeople \cup {None}, amount : 1..2]
        \cup [act : {"put"}, target : WirePeople, roles : SUBSET {"mod", "member"}]
        \cup [act : {"remove"}, target : WirePeople, ban : BOOLEAN]
        \cup [act : {"unban"}, target : WirePeople]
        \cup [act : {"mute"}, target : WirePeople, until : {None, 1}]
        \cup [act : {"edit"}, edits : {<<e>> : e \in AnyEdit}
                                      \cup {<<d, e>> : d \in [edit : {"public"}, public : BOOLEAN], e \in AnyEdit}]
        \cup [act : {"invite"}, code : WireTexts, expires : {None, 1}]
        \cup [act : {"join"}, code : WireTexts \cup {None}]
        \cup [act : {"leave"}]
        \cup [act : {"message"}, channel : WireTexts, files : UpTo(AnyFile, MAX_ATTACHMENTS)]
        \cup [act : {"reaction"}, channel : WireTexts, targets : UpTo(WireTexts, 1) \ {<<>>}]
        \cup [act : {"deletion", "removal"}, channel : WireTexts, targets : UpTo(WireTexts, 2)]
        \cup [act : {"voice"}, channel : WireTexts, inside : BOOLEAN]
        \cup {s \in AnySnapshot(1..2, WireTexts, BOOLEAN, 0..1, {<<>>, <<some>>},
                               {<<>>} \cup {<<v>> : v \in AnyOverride}, few(nobody), {{}}, few(nobody),
                               {None}, AnyRoles) : GivenByState(s)}
        \cup {s \in AnySnapshot({1}, {""}, {FALSE}, {0}, {<<>>}, {<<>>}, Partial(SUBSET {"mod"}),
                               SUBSET WirePeople, Partial({2}), WirePeople \cup {None},
                               AnyRoles) : GivenByState(s)}

WireInit ==
    /\ meant \in Meanings
    /\ wire = Build(meant)
    /\ hands = 0
    /\ spoilt = FALSE

Rewrite(i, rows, bad) ==
    /\ hands < WireMaxChanges
    /\ wire' = [wire EXCEPT ![i].rows = rows]
    /\ hands' = hands + 1
    /\ spoilt' = (spoilt \/ bad)
    /\ UNCHANGED meant

Unread == Txt("later")   \* a value that is neither a number nor anything this build knows

\* A newer build: a row of its own anywhere, a value of its own at a row's end
\* (not the `p` row of a 9000, whose further values are the roles to hand out, nor in
\* a link or a profile, which have no rows to lengthen).
AddUnknown ==
    \E i \in DOMAIN wire : \E k \in 1..(Len(wire[i].rows) + 1) :
        wire[i].kind \notin CODED /\ Rewrite(i, InsertAt(wire[i].rows, k, Row("later", <<Unread>>)), FALSE)

Lengthen ==
    \E i \in DOMAIN wire : \E j \in DOMAIN wire[i].rows :
        /\ wire[i].rows[j].tag = "p" => IsState(wire[i].kind)
        /\ wire[i].kind \notin UNLISTED
        /\ wire[i].rows[j].tag = "channel" => Len(wire[i].rows[j].vals) # 3
        /\ Rewrite(i, [wire[i].rows EXCEPT ![j].vals = Append(@, Unread)], FALSE)

\* A newer build: a permission this one does not know; and a role by the name of the
\* owner's mark, which the fold passes over.
MorePermissions ==
    \E i \in DOMAIN wire : \E j \in DOMAIN wire[i].rows :
        /\ wire[i].kind = "39003" /\ wire[i].rows[j].tag = "role"
        /\ Rewrite(i, [wire[i].rows EXCEPT ![j].vals[3] = Num(@[2] + ALL_PERMS + 1)], FALSE)

OwnerRole ==
    \E i \in DOMAIN wire :
        /\ wire[i].kind = "39003"
        /\ Rewrite(i, Append(wire[i].rows, RoleTag([DefaultRole EXCEPT !.id = "owner"])), FALSE)

\* A default role that permits nothing need not be written.
NoDefaultRole ==
    \E i \in DOMAIN wire : \E j \in DOMAIN wire[i].rows :
        /\ wire[i].kind = "39003" /\ wire[i].rows[j] = RoleTag(DefaultRole)
        /\ Rewrite(i, RemoveAt(wire[i].rows, j), FALSE)

\* An older build: a channel without a slowmode, a group without its visibility.
OldChannel ==
    \E i \in DOMAIN wire : \E j \in DOMAIN wire[i].rows :
        LET r == wire[i].rows[j]
        IN  /\ r.tag = "channel" /\ Len(r.vals) = 4 /\ r.vals[4] = Num(0)
            /\ Rewrite(i, [wire[i].rows EXCEPT ![j].vals = SubSeq(@, 1, 3)], FALSE)

OldVisibility ==
    /\ wire[1].kind = "39000" /\ Has(wire[1], "private")
    /\ Rewrite(1, SelectSeq(wire[1].rows, LAMBDA r : r.tag \notin {"private", "closed"}), FALSE)

\* No build's: a number that is none, a file out of bounds, one file too many, a
\* signature that is not one, a state event that somebody else signed.
Garble ==
    \E i \in DOMAIN wire : \E j \in DOMAIN wire[i].rows : \E k \in DOMAIN wire[i].rows[j].vals :
        LET r == wire[i].rows[j]
        IN  /\ r.tag # "k"
            /\ \/ r.vals[k][1] = "num" /\ Rewrite(i, [wire[i].rows EXCEPT ![j].vals[k] = Unread], TRUE)
               \/ r.vals[k][1] = "size" /\ \E n \in {None, 0, MAX_ATTACHMENT_BYTES + 1} :
                    Rewrite(i, [wire[i].rows EXCEPT ![j].vals[k] = <<"size", n>>], TRUE)

OneFileMore ==
    /\ meant.act = "message" /\ Len(meant.files) = MAX_ATTACHMENTS
    /\ \E f \in AnyFile : Rewrite(1, Append(wire[1].rows, Imeta(f)), TRUE)

Spoil(w) ==
    /\ hands < WireMaxChanges
    /\ wire' = w
    /\ hands' = hands + 1
    /\ spoilt' = TRUE
    /\ UNCHANGED meant

Forge == \E i \in DOMAIN wire : /\ wire[i].kind \notin UNSIGNED
                                /\ Spoil([wire EXCEPT ![i].ok = FALSE])

Resign == \E i \in DOMAIN wire : /\ IsState(wire[i].kind)
                                 /\ Spoil([wire EXCEPT ![i].by = "person"])

\* A rumor that says somebody else wrote it.
Impersonate == \E p \in WirePeople : /\ meant.act = "dm" /\ p # meant.from
                                     /\ Spoil([wire EXCEPT ![2].by = p])

\* A receipt of one zap carried, or quoted, as another's.
Misdirect ==
    /\ meant.act = "zap"
    /\ \E i \in DOMAIN wire : \E j \in DOMAIN wire[i].rows :
        /\ wire[i].rows[j].tag \in {"e", "p", "amount", "bolt11"}
        /\ Spoil([wire EXCEPT ![i].rows[j].vals[1] =
                     IF @[1] = "num" THEN Num(@[2] + 1) ELSE Hex("another")])

\* An invoice with a field, and a hash of a length, that this build does not know.
AddField ==
    /\ meant.act = "invoice" /\ hands < WireMaxChanges
    /\ \E more \in {Field(9, <<16>>), Field(PAYMENT, Zeros(HASH_WORDS + 1))} :
        wire' = <<Coded("invoice", EncodeInvoice(meant, more))>>
    /\ hands' = hands + 1
    /\ UNCHANGED <<meant, spoilt>>

\* A word mistyped, or two that changed places; another prefix over the same words.
Mistype ==
    /\ wire[1].kind \in CODED
    /\ LET ws == wire[1].words
       IN  \/ \E i \in DOMAIN ws : Spoil([wire EXCEPT ![1].words[i] = (@ + 1) % 32])
          \/ \E i \in 1..(Len(ws) - 1) :
                /\ ws[i] # ws[i + 1]
                /\ Spoil([wire EXCEPT ![1].words[i] = ws[i + 1], ![1].words[i + 1] = ws[i]])
          \/ Spoil([wire EXCEPT ![1].hrp[Len(wire[1].hrp)] = (@ + 1) % 4])

\* Another wallet's: the amount by another multiplier ...
OtherMultiplier ==
    /\ meant.act = "invoice" /\ meant.amount_msat # None /\ hands < WireMaxChanges
    /\ \E i \in 0..3 :
        /\ meant.amount_msat % Per(i) = 0
        /\ wire' = <<Coded("invoice", Bech32(<<BITCOIN, meant.amount_msat \div Per(i), i>>,
                                            InvoiceWords(meant, <<>>)))>>
    /\ hands' = hands + 1
    /\ UNCHANGED <<meant, spoilt>>

\* ... and nobody's: none, one that no u64 holds, half a millisat.
BadAmount ==
    /\ meant.act = "invoice"
    /\ \E a \in {<<0, 1>>, <<U64_MAX \div Per(0) + 1, 0>>, <<5, 4>>} :
        Spoil(<<Coded("invoice", Bech32(<<BITCOIN>> \o a, InvoiceWords(meant, <<>>)))>>)

WireNext == \/ AddField \/ Mistype \/ OtherMultiplier \/ BadAmount \/ AddUnknown \/ Lengthen
            \/ MorePermissions \/ OwnerRole \/ NoDefaultRole \/ OldChannel \/ OldVisibility
            \/ Garble \/ OneFileMore \/ Forge \/ Resign \/ Impersonate \/ Misdirect

-----------------------------------------------------------------------------

\* What is read is exactly what was meant, whether this build wrote it, an older
\* one or a newer one ("Unknown tags are ignored, so a newer build can add
\* some"); and what no build writes is not read at all, in part neither.
ReadsAsMeant == Read(wire) = IF spoilt THEN None ELSE meant
=============================================================================
