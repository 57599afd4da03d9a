---------------------------- MODULE PersonForms -----------------------------
(***************************************************************************)
(* Direct messages, zap receipts, announcements, profiles, lists and links *)
(* as they are built and read: dm.rs, zap.rs, announce.rs and profile.rs   *)
(* of crates/hit-event, invite.rs and contact.rs of crates/hit-proto.      *)
(*                                                                         *)
(* A meaning is a record with `act`; what is built is a sequence of events *)
(* (see Tags).  Lengths of texts and the ciphers are left out; in a zap's  *)
(* receipt the invoice is its amount, on its own it is encoded (Invoices). *)
(***************************************************************************)
EXTENDS Tags, Invoices, TLC

CODED == {"invoice", "lnurl"}                 \* text with a checksum, of Invoices
UNSIGNED == {"14", "15", "link", "contact"} \cup CODED   \* a rumor in its seal, and text
UNLISTED == {"0", "link", "contact"}          \* what is not made of rows of values

\* Verified::check
Verified(w) == \A i \in DOMAIN w : w[i].ok

-----------------------------------------------------------------------------
(* Direct messages: a rumor, sealed by its author, wrapped for one reader. *)

WithDevice(m) == IF m.device = None THEN <<>> ELSE <<Row("device", <<Hex(m.device)>>)>>

\* wrap_dm, wrap_dm_file
Rumor(m) ==
    IF m.file = None
    THEN Ev("14", m.from, WithDevice(m) \o <<Row("p", <<Hex(m.to)>>), Row("content", <<Txt(m.text)>>)>>)
    ELSE Ev("15", m.from,
            WithDevice(m) \o
            <<Row("p", <<Hex(m.to)>>), Row("content", <<Hex(m.file.hash)>>),
              Row("file-type", <<Txt(m.file.mime)>>), Row("encryption-algorithm", <<Txt("aes-gcm")>>),
              Row("decryption-key", <<Hex(m.file.key)>>), Row("size", <<Num(m.file.size)>>),
              Row("name", <<Txt(m.file.name)>>)>>)

\* wrap_rumor: signed by nobody's key, naming its reader; the seal by the author.
WrapDm(m) == << [seal |-> m.from] @@ Ev("1059", "throwaway", <<Row("p", <<Hex(m.reader)>>)>>), Rumor(m) >>

\* Who a wrap is for: its one `p`.
RecipientOf(ev) == LET ps == Rows(ev, "p", 1) IN IF Len(ps) = 1 THEN As("hex", ps[1].vals[1]) ELSE None

\* An empty file is a file: its size counts as 1 to the attachments' rule.
ParseFile(rumor) ==
    LET value(tag, else) == LET v == FirstValue(rumor, tag) IN IF v = None THEN else ELSE v[2]
        size == As("num", FirstValue(rumor, "size"))
        f == [hash |-> As("hex", FirstValue(rumor, "content")), size |-> size,
              mime |-> value("file-type", "application/octet-stream"), name |-> value("name", "file"),
              key |-> value("decryption-key", None)]
    IN  IF /\ value("encryption-algorithm", None) = "aes-gcm"
           /\ f.hash # None /\ f.key # None /\ size # None
           /\ IsValid([f EXCEPT !.size = Greater(size, 1)])
        THEN f ELSE None

\* open_dm, by the person me; the seal's signer must be the rumor's author.
OpenDm(me, w) ==
    LET rumor == w[2]
        file == IF rumor.kind = "15" THEN ParseFile(rumor) ELSE None
        device == As("hex", FirstValue(rumor, "device"))
    IN  IF \/ RecipientOf(w[1]) # me \/ w[1].seal # rumor.by
           \/ rumor.kind \notin {"14", "15"} \/ (rumor.kind = "15" /\ file = None)
           \/ Rows(rumor, "p", 1) = <<>>
        THEN None
        ELSE [act |-> "dm", reader |-> me, from |-> w[1].seal, to |-> FirstValue(rumor, "p")[2],
              text |-> IF file = None THEN FirstValue(rumor, "content")[2] ELSE "",
              file |-> file, device |-> IF device = w[1].seal THEN device ELSE None]

InboxList(m) ==
    Ev("10050", "person", [i \in DOMAIN m.anchors |->
        Row("anchor", <<Hex(m.anchors[i].person), Hex(m.anchors[i].device)>>)])

\* inboxes_of: a row whose person is no key is passed over.
InboxesOf(ev) ==
    LET rs == SelectSeq(Rows(ev, "anchor", 1), LAMBDA r : As("hex", r.vals[1]) # None)
    IN  [i \in DOMAIN rs |->
            [person |-> rs[i].vals[1][2],
             device |-> IF Len(rs[i].vals) > 1 THEN As("hex", rs[i].vals[2]) ELSE None]]

-----------------------------------------------------------------------------
(* Zaps: a request, quoted in the provider's receipt, carried into a group. *)

ZapRequest(m) ==
    Ev("9734", IF m.sender = None THEN "throwaway" ELSE m.sender,
       <<Row("amount", <<Num(m.amount)>>), Row("p", <<Hex(m.recipient)>>), Row("e", <<Hex(m.target)>>)>>
       \o (IF m.sender = None THEN <<Row("anon", <<>>)>> ELSE <<>>))

\* The provider's: what NIP-57 has it sign.
ZapReceipt(m) ==
    Ev("9735", m.provider, <<Row("p", <<Hex(m.recipient)>>), Row("e", <<Hex(m.target)>>),
                             Row("bolt11", <<Num(m.amount)>>)>>)

\* carrier: the channel's event `base`, around the receipt.
Carrier(base, m) ==
    << [base EXCEPT !.rows = @ \o <<Row("e", <<Hex(m.target)>>), Row("p", <<Hex(m.recipient)>>),
                                    Row("k", <<Num(9735)>>)>>],
       ZapReceipt(m), ZapRequest(m) >>

\* The request's recipient and target on the receipt too, its amount on the invoice.
CheckReceipt(receipt, request) ==
    LET asked  == As("num", FirstValue(request, "amount"))
        to(ev) == As("hex", FirstValue(ev, "p"))
        on(ev) == As("hex", FirstValue(ev, "e"))
    IN  IF \/ receipt.kind # "9735" \/ request.kind # "9734" \/ ~receipt.ok \/ ~request.ok
           \/ asked = None \/ As("num", FirstValue(receipt, "bolt11")) # asked
           \/ to(request) = None \/ on(request) = None
           \/ to(receipt) # to(request) \/ on(receipt) # on(request)
        THEN None
        ELSE [act |-> "zap", provider |-> receipt.by, recipient |-> to(request), target |-> on(request),
              sender |-> IF Has(request, "anon") THEN None ELSE request.by, amount |-> asked]

\* carried: and on the carrier.
CarriedZap(w) ==
    LET zap == CheckReceipt(w[2], w[3])
    IN  IF \/ zap = None
           \/ As("hex", FirstValue(w[1], "e")) # zap.target
           \/ As("hex", FirstValue(w[1], "p")) # zap.recipient
        THEN None ELSE zap

-----------------------------------------------------------------------------
(* Announcements and lists, on public relays. *)

Announce(m) ==
    Ev("39436", "group", <<Row("d", <<Txt("")>>), Row("name", <<Txt(m.name)>>),
                           Row("members", <<Num(m.members)>>), Row("link", <<Txt(m.link)>>)>>
                         \o (IF m.about = "" THEN <<>> ELSE <<Row("about", <<Txt(m.about)>>)>>))

Withdraw == Ev("39436", "group", <<Row("d", <<Txt("")>>), Row("private", <<>>)>>)

\* announce::read
Heard(ev) ==
    LET first(tag) == LET rs == Rows(ev, tag, 0)
                      IN  IF rs = <<>> \/ rs[1].vals = <<>> THEN None ELSE rs[1].vals[1]
        name == As("txt", first("name"))
        link == As("txt", first("link"))
        members == As("num", first("members"))
    IN  IF first("d") # Txt("") THEN None
        ELSE IF Has(ev, "private") THEN [act |-> "withdrawal"]
        ELSE IF name \in {None, ""} \/ link = None \/ members = None THEN None
        ELSE [act |-> "announcement", name |-> name, link |-> link, members |-> members,
              about |-> IF first("about") = None THEN "" ELSE first("about")[2]]

GroupsList(m) == Ev("10009", "person", [i \in DOMAIN m.groups |-> Row("group", <<Hex(m.groups[i]), Txt("")>>)])

ReadGroupsList(ev) ==
    LET rs == SelectSeq(Rows(ev, "group", 1), LAMBDA r : As("hex", r.vals[1]) # None)
    IN  [i \in DOMAIN rs |-> rs[i].vals[1][2]]

-----------------------------------------------------------------------------
(* Profiles: a row for each field, changed one at a time, the rest kept. *)

\* The previous profile with a field set, or without it.
WithField(ev, field, value) ==
    [ev EXCEPT !.rows = SelectSeq(@, LAMBDA r : r.tag # field)
                        \o (IF value = None THEN <<>> ELSE <<Row(field, <<value>>)>>)]

WithName(ev, name) == WithField(ev, "name", Txt(name))
AsAnchor(ev, name) == WithField(WithName(ev, name), "bot", Txt("true"))
WithRelay(ev, url) == WithField(ev, "relay", IF url = None THEN None ELSE Txt(url))
WithLud16(ev, to) ==
    WithField(WithField(ev, "lud16", IF to = None THEN None ELSE Txt(to.address)),
              "zap_pubkey", IF to = None THEN None ELSE Hex(to.key))

\* Another client's profile, taken over and edited field by field, the address
\* set and perhaps taken away again.
Profile(m) ==
    LET theirs == Ev("0", "person", <<Row("display_name", <<Txt("theirs")>>), Row("picture", <<Txt(m.picture)>>)>>)
        named  == IF m.bot THEN AsAnchor(theirs, m.name) ELSE WithName(theirs, m.name)
        paid   == WithLud16(named, [address |-> "old", key |-> "old"])
    IN  WithRelay(WithLud16(paid, m.pays), m.relay)

NameOf(ev) ==
    LET names == SelectSeq(<<FirstValue(ev, "name"), FirstValue(ev, "display_name")>>,
                           LAMBDA v : v # None /\ v # Txt(""))
    IN  IF names = <<>> THEN None ELSE names[1][2]
IsAnchor(ev) == FirstValue(ev, "bot") = Txt("true")
RelayOf(ev) == As("txt", FirstValue(ev, "relay"))
Lud16Of(ev) == As("txt", FirstValue(ev, "lud16"))
ZapPubkeyOf(ev) == As("hex", FirstValue(ev, "zap_pubkey"))

ReadProfile(ev) ==
    [act |-> "profile", name |-> NameOf(ev), bot |-> IsAnchor(ev), relay |-> RelayOf(ev),
     pays |-> IF Lud16Of(ev) = None THEN None ELSE [address |-> Lud16Of(ev), key |-> ZapPubkeyOf(ev)],
     picture |-> As("txt", FirstValue(ev, "picture"))]

-----------------------------------------------------------------------------
(* Links: one pair for the group or person, one for each device to dial. *)

Device(d) == IF d.addr = None THEN <<Hex(d.id)>> ELSE <<Hex(d.id), Num(d.addr)>>

Pairs(tag, devices) == [i \in 1..Lesser(Len(devices), MAX_PEERS) |-> Row(tag, Device(devices[i]))]

InviteLink(m) ==
    Ev("link", "text", <<Row("g", <<Hex("group")>>)>>
                       \o (IF m.code = None THEN <<>> ELSE <<Row("c", <<Txt(m.code)>>)>>)
                       \o Pairs("p", m.devices))

ContactLink(m) == Ev("contact", "text", <<Row("p", <<Hex(m.person)>>)>> \o Pairs("d", m.devices))

ParseDevice(v) ==
    IF As("hex", v[1]) = None \/ (Len(v) > 1 /\ As("num", v[2]) = None) THEN None
    ELSE [id |-> v[1][2], addr |-> IF Len(v) > 1 THEN v[2][2] ELSE None]

\* The first MAX_PEERS are read, and one of them malformed refuses the link.
ParseDevices(ev, tag) ==
    LET rs == Rows(ev, tag, 1) IN All(SubSeq(rs, 1, Lesser(Len(rs), MAX_PEERS)), ParseDevice)

ParseInvite(ev) ==
    LET code == LastValue(ev, "c")
        devices == ParseDevices(ev, "p")
    IN  IF As("hex", LastValue(ev, "g")) = None \/ devices = None THEN None
        ELSE [act |-> "link", code |-> IF code = None THEN None ELSE code[2], devices |-> devices]

\* A contact link without a device to dial is none.
ParseContact(ev) ==
    LET devices == ParseDevices(ev, "d")
    IN  IF As("hex", LastValue(ev, "p")) = None \/ devices \in {None, <<>>} THEN None
        ELSE [act |-> "contact", person |-> LastValue(ev, "p")[2], devices |-> devices]

-----------------------------------------------------------------------------

Coded(kind, text) == Ev(kind, None, <<>>) @@ text

BuildPersonal(m) ==
    CASE m.act = "dm" -> WrapDm(m)
      [] m.act = "inbox" -> <<InboxList(m)>>
      [] m.act = "announcement" -> <<Announce(m)>>
      [] m.act = "withdrawal" -> <<Withdraw>>
      [] m.act = "groups" -> <<GroupsList(m)>>
      [] m.act = "profile" -> <<Profile(m)>>
      [] m.act = "link" -> <<InviteLink(m)>>
      [] m.act = "contact" -> <<ContactLink(m)>>
      [] m.act = "invoice" -> <<Coded("invoice", EncodeInvoice(m, <<>>))>>
      [] m.act = "lnurl" -> <<Coded("lnurl", LnurlEncode(m))>>

ReadPersonal(w) ==
    LET ev == w[1]
    IN  CASE ev.kind = "1059" -> OpenDm(RecipientOf(ev), w)
          [] ev.kind = "10050" -> [act |-> "inbox", anchors |-> InboxesOf(ev)]
          [] ev.kind = "39436" -> Heard(ev)
          [] ev.kind = "10009" -> [act |-> "groups", groups |-> ReadGroupsList(ev)]
          [] ev.kind = "0" -> ReadProfile(ev)
          [] ev.kind = "link" -> ParseInvite(ev)
          [] ev.kind = "contact" -> ParseContact(ev)
          [] ev.kind = "invoice" -> DecodeInvoice(ev)
          [] ev.kind = "lnurl" -> LnurlDecode(ev)
          [] OTHER -> None

AnyDmFile == [hash : WireTexts, size : WireSizes \cup {0}, mime : {"type"}, name : {"name"}, key : {"key"}]
AnyDevice == [id : WireTexts, addr : {None, 1}]

\* An invoice for a zap of each size, or with a description, or for the payer to choose.
AnyInvoice ==
    [act : {"invoice"}, amount_msat : {1, Per(3), Per(1) + 1, Per(0)}, timestamp : {33},
     payment_hash : {<<255, 1>>}, description_hash : {<<0, 129>>}, description : {None},
     expiry : {0, DEFAULT_EXPIRY}]
    \cup [act : {"invoice"}, amount_msat : {None}, timestamp : {0}, payment_hash : {None},
          description_hash : {None}, description : UpTo({200}, 3), expiry : {32}]

PersonalMeanings ==
    {m \in [act : {"dm"}, from : WirePeople, to : WirePeople, reader : WirePeople, text : WireTexts,
            device : WirePeople \cup {None}, file : {None}]
           \cup [act : {"dm"}, from : WirePeople, to : WirePeople, reader : WirePeople, text : {""},
                 device : WirePeople \cup {None}, file : AnyDmFile] :
        m.reader \in {m.from, m.to} /\ m.device \in {m.from, None}}
    \cup [act : {"inbox"}, anchors : UpTo([person : WirePeople, device : WireTexts], 2)]
    \cup [act : {"announcement"}, name : WireTexts, link : WireTexts, members : 0..1, about : WireTexts \cup {""}]
    \cup [act : {"withdrawal"}]
    \cup [act : {"groups"}, groups : UpTo(WireTexts, 2)]
    \cup [act : {"profile"}, name : WireTexts, bot : BOOLEAN, relay : WireTexts \cup {None},
          pays : [address : WireTexts, key : WireTexts] \cup {None}, picture : WireTexts]
    \cup [act : {"link"}, code : WireTexts \cup {None}, devices : UpTo(AnyDevice, MAX_PEERS)]
    \cup [act : {"contact"}, person : WirePeople, devices : UpTo(AnyDevice, MAX_PEERS) \ {<<>>}]
    \cup AnyInvoice \cup [act : {"lnurl"}, url : UpTo({200}, 2)]
=============================================================================
