# Verification of HIT_ENTER: groups, nodes and the services over them

TLA+ models of the parts of this repository that decide who may do what in a
group, that keep every device's view of a group the same, and that carry calls,
files, direct messages, zaps and screens over it; the TLC configurations that
check them on small instances; and TLAPS proofs, for every instance, of all the
safety properties but one.

To check everything, in this directory: `tlc -config <name>.cfg <module>` for
each run listed below, and `tlapm <module>.tla` for each module of proofs.

## 1. The system

HIT_ENTER is a peer-to-peer chat. Every person's devices store signed events,
exchange them by gossip and by set reconciliation, and compute the state of a
group by themselves; no server arbitrates. Parts, with what each keeps, does and
needs to get right:

| Part | State | Operations | Hard behaviour | What makes it correct |
|---|---|---|---|---|
| **hit-group** `state.rs`, `perm.rs`, `lib.rs` | one `GroupState` per carried group: members and roles, bans, mutes, spans of silence, channels, overrides, invites | `fold`, `apply` (9000, 9001, 9002, 9003, 9021, 9022, 9030), `to_snapshot`, `judge*`, permission and rank answers | long sequences of legal actions; batches; actions of one second | bans hold, the owner stands, no escalation, rank respected, spans follow membership, all replicas fold to one state |
| **hit-event** `group.rs`, `replace.rs`, `binding.rs`, `dm.rs` | the book of device bindings; otherwise formats | `Snapshot::sign`/`parse_state`, `replaces`, `BindingBook::insert`, gift wraps | renewal and revocation in one second | replacement is a total order; a revoked device stays revoked |
| **hit-store** | SQLite: events, deletions, expiries, blob grants, wraps | `insert`, `is_deleted`, `apply_deletion`, `remove`, `authored_in`, `cap_wraps`, `expire_wraps` | replaceable slots, caps, two processes on one file | each call one transaction; a withdrawal works in either order |
| **hit-node** `lib.rs` | the store, the folds (`Groups`), the binding book, `fold_lock`, presence, voice rooms, per-device waits of the sync loop | `accept_event`, `compact`, `refold_if_changed`, `purge_silenced`, `spawn_sync_loop`, `start` | many deliveries at once, each cut at any await; crash between insert and fold | nothing silenced is kept, nothing removed without cause, every delivery returns |
| **hit-node** `sync.rs`, `gossip.rs`, `relay.rs`, `blobs.rs` | gated connections, sessions | reconcile, broadcast, revoke, serve blobs | membership asked before and used after an await | only members are served; a removed member is cut off |
| **hit-proto** | none | framing, hello, invite and contact links | none of its own | round trips |
| **hit-voice** | calls, jitter buffer, drift estimate, devices | ring, answer, decline, hang up; `push`, `pop` | both sides dial; sequence wrap; starved restart | one call at most; frames in order, none played twice |
| **hit-zap** | a payment under way | invoice, pay, fee, receipt watch | timeout of a payment that settles later | nobody pays twice unknowingly |
| **hit-app-core**, **hit-desktop**, **hit-cli**, **hit-anchor** | identity and onboarding progress, `published.json`, the window's lists, the bridge's sessions; the anchor's secrets | views and commands over a node; publishing; the CLI opens the node's database itself | crash within onboarding or publishing; a channel that lags; CLI and node on one store | what is said to be backed up is; nothing is missed on the screen or on a subscription; what a dialog offers passes; the running node notices |
| `spikes/`, scripts | | experiments, tests | | |

Interactions: the app, gossip, a sync session and the relay all enter events
through `Inner::accept_event`. It takes `fold_lock` (for writing when the event
changes a group's state, else for reading), asks `Groups::judge`, stores the
event, and, for a state change, folds the group anew and purges what the new
state silences. The holder of a group's key from time to time publishes a
snapshot, four replaceable events of one `seq`, that stands for everything
before its date. The CLI writes to the same SQLite file; the sync loop's
`refold_if_changed` is how the running node finds out. A change of a group's
state reaches the gossip gate (`group_changed`), the voice rooms (`upkeep`) and,
over two broadcast channels, the window.

`PROJECT.json` lists each part with its status, and under `hazards` each place
where an order of events, a cut or a boundary could break it.

## 2. Modules

```
GroupRules            rules as operators on one group's record
  ├─ GroupState           one group, action by action
  │    └─ Console             what the app offers      ── MCGroupState
  └─ Snapshots            a state as four signed events, and back
       └─ GroupFold           a group's events to its state
            ├─ GroupNode          replicas, compaction     ── MCGroupNode
            └─ AcceptPipeline     accept_event at its awaits ── MCAcceptPipeline

NodeBase              what the services' modules share
  ├─ Bindings, GossipGate, Inbox, Files, SharedStore, Joining    hit-node
  ├─ VoiceCall (implements PhoneLine), Jitter                    hit-voice
  ├─ Zaps                                                        hit-zap
  ├─ Window, Onboarding, Publishing                 hit-app-core, hit-desktop
  ├─ Bridge                                                      hit-anchor
  ├─ Tags ─ (with Invoices) PersonForms ─ WireForms              formats
  │        all of the above composed in                ── MCParts
  └─ SyncLoop, SyncSession, VoiceCall, VoiceRoom       ── MCProgress

Proofs (TLAPS), each extending what it is about
  GroupStateProofs      GroupState
  StandingProofs        GroupState again, with Console and Snapshots
  FoldProofs            GroupFold, GroupNode
  PipelineProofs        AcceptPipeline
  NodeProofs            GossipGate, Inbox, Files, SharedStore, Joining
  SyncProofs            Bindings, SyncLoop, SyncSession
  VoiceProofs           VoiceCall, and that it implements PhoneLine; Jitter
  AppProofs             Onboarding, Zaps, Bridge, Publishing, Window
```

### Groups

**GroupRules** translates `hit-group/src/state.rs` and `perm.rs`. A group is a
record with the fields of `struct GroupState`. Each action and each edit has an
`...Ok` operator (its early returns) and a `...Do` operator (its assignments):
`PutOk`/`PutDo` are the 9000, `RemoveOk`/`RemoveDo` the 9001, and so on. The
questions asked of a state (`Base`, `Effective`, `Outranks`, `CanGrant`,
`JudgeMessage`, `Silenced`) have the code's names. A permission is a name and a
bitset a set of names; a text is a value of `Texts`, or `BadText` for one that
fails its length check; times are whole seconds, as Nostr's.

**GroupState** applies them. `g` is the group, `at` the time of the action, and
`draft` the `next` of a 9002 under way: `apply` clones the state, judges every
edit against the *old* state, applies it to the clone and keeps the clone only
if all pass. Taking the batch apart edit by edit keeps it checkable and
provable, and nothing else happens while it is open. A refused action is a
stuttering step, except a 9030 refused by its last checks, which in the code
has already closed mute spans (`MuteRefused`). `Compact` replaces the group by
what its own snapshot folds to.

**Console** reads off a group's state what the views of `hit-app-core` report
and what the settings, member and channel dialogs, the banner and the composer
of `hit-desktop` therefore offer, and what each button sends; the `...Passes`
operators are the node's judgement of it, by GroupRules.

**Snapshots** is `to_snapshot` and the first half of `GroupState::fold`: what
the four state events held say, each perhaps of another snapshot. **GroupFold**
is the whole fold, as a function of the events held: the four state events; the
owner's 9007; the actions.
Actions run second by second; within a second, passes in the order of ids until
one applies nothing. Its loops are recursive functions, of the edit, the id, the
pass and the second, so that the prover can follow them; `MAX_ID` and
`MAX_SECOND` are the greatest id and date there are, not bounds of the model.

**GroupNode** has several nodes, each with the actions, state events and 9007
it holds and the fold it judges by. An action reaches a node in any order or
never, and is let in if folding it with all that is held applies it. The
holder of the key compacts as the code does, without `fold_lock`: it reads the
fold (`ReadFold`), later the dates of what is held by then, signs (`SignSnapshot`)
and publishes the four events one by one (`PublishPiece`); actions are accepted
between any two of these, and it may crash. One compaction runs at a time. Here
`accept_event` is one step.

**AcceptPipeline** takes `accept_event` apart at its awaits: lock, judge,
`is_deleted`, `removed_by_moderator`, `too_soon`, insert, apply, refold, purge,
remove. Two deliveries run at once under tokio's `RwLock`; a delivery may be
dropped at any await (the sync loop's `SYNC_TIMEOUT`), the process may die and
start again, and the sync loop's `refold_if_changed` may run. The variable `cut`
records that a state change was cut between its insert and its purge.

### The node's services

**Bindings**: one device of a person, its own node, siblings, friends and
strangers. Renewal, revocation, gossip of either in any order, restarts that
reload the book from the database, and the hello that presents a binding. The
book and the store decide replacement separately, and both are here: a binding
is in the book first (`TakeBinding`, `LearnBinding`, `Hello`), and in the
database once an awaited insert returns (`StoreBinding`), which may fail or be
dropped with its delivery (`CutDelivery`, recorded in `dropped` until the next
start).

**GossipGate**: the hook's membership check, the accept and `admit` of a
connection are three steps, `group_changed` is taken apart at its awaits, and
runs from two callers, one of which (the boot) holds no lock; the other may be
dropped by the sync loop's timeout where it awaits (`CutChange`).

**Inbox**: a direct message's wraps at the sender, the recipient's anchor and
the recipient's device: hand-over, sync, expiry by arrival and the cap, whose
reading and deleting are two transactions.

**Files**: attaching, fetching, granting by direct message, the cache's cap, and
the collector, whose reading of what is live and whose sweep are two steps.

**SharedStore**: the command line signs into the database a node serves; its
judgement and its insert are two steps; the node looks by counts.

**Joining**: `follow` and `join` by several tasks at once, with peers that do
not answer, syncs cut at any event, kills and restarts. A group is on disk, or
only in memory, or merely in the store.

**SyncLoop**: waits, dues, busy set and reports of `spawn_sync_loop`, step by
step. **SyncSession**: both sides of one session with its fetch chunks, retries
of what was refused, and pushes, while other events arrive; what a store lets in
depends on what it holds (`Needs`), and what it shows on what it holds of the
reader (`Shows`). Negentropy is the exact difference of the two sets.

### Voice, zaps, the application

**VoiceCall** is `call.rs` for 1:1 calls: every knock is a connection with a
listener at the other end, every await a step; answers, declines, hang-ups,
give-ups and lost closes cross at will. **PhoneLine** is what a person is
promised (one line per device, from free to one person to free), and
`IsAPhoneLine` says that VoiceCall implements it under a refinement mapping
from `current` and `ringing`. **VoiceRoom** is a voice channel: presence, the
gate, dialling from both sides and the upkeep, while rights change.
**Jitter** is one stream through the buffer, with the sequence number of a
packet its frame modulo `WRAP`. Four history variables serve the properties:
`newestFrame`, the frame whose packet `newest` is; `due`, where the sender was at
the last tick; `fresh`, that the packet of that frame has been pushed since; and
`quiet`, the ticks *on time* in a row that played nothing. A tick is on time when
the sender took one frame since the last and the packet before it is here.

**Zaps**: two zap dialogs with a wallet that may answer late, wrongly or never,
the fee and its retry, QR codes, the receipt and its carriers. An invoice that
was put to a wallet or shown stays payable, so what timed out may settle later;
`givenUp` records the fees whose first invoice was so given up.

**Onboarding**: making, importing, backing up and starting an identity, with a
kill between any two writes and a keychain that loses keys at any time; a backup
to a file runs beside the rest in four steps: the key is read and encrypted, the
file written, the stage asked for, the identity marked. **Publishing**: the
announcements of a public group, their record, a crash before the record is
written, and a browser that asks all relays at once, hears each when it answers
and compares the answers one by one. **Window**: the
window as a cache over two lagging channels, with loads that may fail (and leave
an empty list) and deliveries cut before they tell anyone. **Bridge**: a session
of the anchor's websocket relay, whose read of the store may fail (and is then
answered with nothing), and the same cut deliveries.

**Tags**, **PersonForms**, **WireForms** and **Invoices** are the formats: what
each builder writes as rows of tags, and what each parser reads of it, also when
a newer or an older build or a careless hand was at work. A snapshot is read as
the fold reads its four pieces (`Assembled`): no role called `owner`, unknown
permission bits dropped, the default role added, roles that do not exist taken
off the members. What is built is what `to_snapshot` gives of a state there can
be (`GivenByState`); the other hand may add a bit, a role `owner` or a longer row,
or leave the default role out. Bolt11 and LNURL down
to their five-bit words and the bech32 checksum, more than any property but
`ReadsAsMeant` needs.

### Composition

The services of `MCParts` share no state, and so do those of `MCProgress`: each
of these two modules is a sum. A behaviour is one part's, chosen by `part` at the
start, the other parts stay as they began, and each part's states are exactly
those of its own specification. Services that do interact are in one
module (the store's tables with the node's calls on them, the wallet with its
dialogs, both ends of a session or call); a group's change enters the others as
an environment action (`inside`, `may`, `rights`), since how it travels is
GroupNode's and AcceptPipeline's question.

`PROJECT.json` maps each definition to its lines.

## 3. Runs

| Run | Checks | Shows |
|---|---|---|
| `group_membership` | `TypeOK`, `OwnerStands`, `BannedAreOut`, `OffersAreHonoured`, `SpansFollowMembership`, `OneMuteAtATime` | whatever three people do to each other in two seconds, with compactions: bans hold, the owner stands, spans follow membership, and every button offered passes |
| `group_edits` | `OffersAreHonoured`, `NothingLeftBehind`, `NoEscalation`, `RankIsRespected` | assignments and batches of edits of every kind hand out nothing their author lacks, touch nobody from below and leave no role without its definition, no override without its channel |
| `replicas` | `Agreement`, `SkipTheSame`, `CompactionKeepsTheState` | two nodes that took different subsets of the same actions in different orders agree once settled, if they know the same invites, and a whole snapshot says what its reading saw, whatever is accepted meanwhile |
| `accept` | `NothingSilencedIsKept`, `NothingGoesWithoutCause`, `EveryDeliveryReturns` | `fold_lock` keeps a ban and the banned person's messages apart, nothing is removed without cause, every delivery returns |
| `parts` | the table below | the safety of fourteen services |
| `progress` | `OneSyncAtATime`, `NothingAcceptableIsLeft`, `EveryTargetIsTried`, `SidesConverge`, `CallsEnd`, `IsAPhoneLine`, `RightsTakeEffect` | one sync per device, and every target tried again for ever; a session leaves out nothing its store would take, and sessions converge; calls end (but for the one named below) and are one phone line's; a mute or ban takes effect in a call |
| `override_reach`, `half_snapshot`, `mute_lift`, `withdrawal`, `long_silence`, `second_follow` | one property each | violated: see Findings |

Of `parts`, and what each property excuses because the code does not promise it:

| Property | Module | Says | Excused |
|---|---|---|---|
| `RevocationHolds` | Bindings | a device is admitted only on a binding later than every revocation the node's database ever took | a revocation whose insert has not returned; a binding the device's own node renews by itself, later, not having seen it |
| `StoreAndBookAgree` | Bindings | the book and the database hold the same | the book is ahead: by what is being stored, or `dropped`: a delivery failed at its insert since the start. The database has an expired binding not loaded at a start; an older revocation handed in after it then enters the book alone |
| `OnExactlyAsMember` | GossipGate | gossip runs, and its ALPN is served, exactly while our person is a member | `crossed`: a change during the boot's own `group_changed`; `failed`: no subscription, or it was cut; `staleAlpns`: a stop cut before the ALPN was taken back |
| `PutOutIsCutOff` | GossipGate | who was put out is not connected | `stray`: handshakes the change overtook |
| `LetGoStaysGone` | Inbox | a wrap the anchor let go at its age does not come back to it | what the cap dropped |
| `OursIsNotSwept` | Files | our own carried files and granted ones survive a sweep | `late`: became so after the collector's reading |
| `HeardByTheRightPerson` | VoiceCall | audio goes only to whom the call is with | |
| `HeardSoon` | Jitter | no more than `MAX_DRY + DELAY` ticks on time in a row play nothing, across wraps, loss and pauses | pauses of half a turn of the numbers (see `long_silence`) |
| `FeeGoesOneWay` | Zaps | the wallet is asked for the fee only once the zap settled; the fee goes by the wallet or by one code in one dialog; one invoice | the fee's code may be shown for a zap not paid; `givenUp`: a second wallet invoice after the first was asked for and given up, and both may settle |
| `CountedOnce` | Zaps | what is counted is what was paid, once | |
| `LooksFindWrites` | SharedStore | after a look the node judges by what the disk holds | `hidden`: a write that keeps the count, or before the first look |
| `NothingIsMissed` | Window | when all is handled, all of the open channel and the direct messages are shown | `picked`: `refresh_groups` chose a channel and loaded nothing; `blank`: the pane's last load failed; `hushed`: stored by a delivery cut before it told anyone |
| `BackedUpIsHeld` | Onboarding | who is called backed up is, also after lost keys and kills | `mistaken`: made in the place of a key that was lost while a file of it was being written |
| `OnlyWhatIsPublic` | Publishing | nothing of a group never public is out; what a browser lists has no withdrawal of its date or later among what it heard | an announcement whose record a crash lost is not withdrawn |
| `SubscriberMissesNothing` | Bridge | an open subscription misses no readable post | `excused`: unreadable when it came by, over the limit, or lost with a notice; `unanswered`: held when the last REQ's read failed; `muffled`: stored by a delivery cut before it told anyone, and not asked for since |
| `ReadsAsMeant` | WireForms | what is read is what was meant, or nothing | |
| `JoinedIsKept` | Joining | joined groups are on disk and carried; nothing unfound is carried | `putDown`: see Findings |

`OffersAreHonoured` excuses the composer of a returning person under a mute that
outlived its entry (`OutlivedMute`): the code closes the entry and not the span.
`CompactionKeepsTheState` says what a compaction keeps: what its reading saw is
neither lost nor applied twice, and what is dated at or after the snapshot is
applied on top. What was accepted after the reading and is dated before the
snapshot no longer counts, and the property does not forbid it. `CallsEnd`
excuses one call by name (`Abandoned`): the callee's, when the answered knock
was given up on the caller's side in the same moment; it is not up, `upkeep` ends
only the answered ones, and the person has to hang up. Without the excuse TLC
finds it. `NothingLeftBehind` does not say that an override's role exists; that
no mute outlives its member is in `group_edits` without a mute (`Untils` is empty
there), and rests on the proof of `NothingEverLeftBehind`.

### Bounds

- `group_membership`: an owner and two interchangeable others (enough for an
  actor, a target and a witness), a public group (so that joining, waiting and
  the floor happen), `MaxTime` = 2, so that two actions fall in one second or in
  two and a compaction may come between. `MCMaxSpans` = 5 caps how many spans of
  silence a state may hold to be explored further: two people can each have an
  open or closed removal span and a mute.
- `group_edits`: all in one second (time plays no part in these rules),
  `MaxBatch` = 2 edits in a 9002, which is what it takes for one edit to prepare
  the ground for the next; `PermSets` holds one set with and one beyond what an
  admin may grant, `PositionInputs` the admin's rank and one below it. At
  any time there are role edits among three people, or every other edit, invites
  and joins between two of whom none is a moderator (`MCOneTheme`). `Editors`, `RoleSets`, `ScopedSets`, `SecsInputs`, `Untils`
  and `MaxInvites` are the other inputs' bounds.
- `replicas`: `Signings` is every set of three actions out of two groups of six
  or seven chosen to interfere: a ban and an unban in one second whose ids order
  them the wrong way round, a kick and a counter-kick, a demotion, an invite and
  the join that uses it, a role deleted. `Clocks` = {3} puts the holder's
  clock after, in or before the second of the newest event it holds; `MaxSeq` = 2 allows one
  compaction, whole or cut by a crash. One set of four has the moderator invite, a
  member kicked and back by the invite, and then the moderator removed, so that the
  invite comes too late at one node. `MAX_ID` and `MAX_SECOND` are the greatest of
  the ids and dates used.
- `accept`: two deliveries at a time, six events each delivered once
  (`MaxDeliveries`) and one fault (`MaxFaults`). Duplicate deliveries add only
  an early return: an event in the store changes nothing.
- `parts`: Bindings has five seconds, a lifetime of four, one revocation, a
  sibling and a friend, one insert awaited at a time (`MaxStoring`) and the friend's
  node the one at which it may fail (`Failing`), so that renewal, expiry and revocation fall in one second and a
  start after an expiry leaves the binding in the database unloaded (that an older
  revocation is handed in after such a start takes eight seconds, and is left to the proof
  of `BookFollowsStore`); the inbox a cap of one
  and two wraps, one dated back; the cache is filled by the larger of two files;
  the phones are three in a chain, A calling B while B calls C, with three calls and one
  lost close; `WRAP` = 32 and frames 30 to 38 cross a wrap, with a pause that
  starves the buffer; the zaps are one above and one below the fee's minimum,
  with one change of the provider's key; the database has two groups, two actions and one
  compaction; the broadcast channels hold one event (`BUS`, `FEED`), so that both
  lag, and the bridge answers with one of two posts (`MAX_EVENTS`); one load or delivery goes wrong at a time at the window
  (`MaxMisses`) and one at the bridge (`MaxMuffled`), and one thing is clicked or changed
  (`MaxClicks`); there are three identities and two lost keys; two
  relays, one of which the person may drop (`RelayLists`), and two changes
  of visibility in two seconds (an announcement said again after `ANNOUNCE_EVERY` takes a
  third, and is left to the proof of `OnlyPublicIsListed`); one change of a form by another hand;
  two tasks that open links, and a chain of two group events. `THOUSAND`, `U64_MAX` and the
  `..._WORDS` scale an invoice down with its overflow and its field lengths kept.
  Larger instances were run once, on their own, and passed: two inserts awaited at once
  (2.9 million states) and a stranger's node besides (535 thousand) for Bindings, two clicks at the
  window (4.6 million), three posts and a feed of two at the bridge (273 thousand), a relay that
  is picked again (344 thousand); for all sizes there are
  the proofs.
- `progress`: two devices and a backoff of at most two passes; four events of one
  second that depend on each other, in chunks of two, with one failed session; a
  person with two phones and one with one, both dialling; two talkers with one
  change of rights and two connections made.
- `long_silence`: `WRAP` = 32 and a pause of 20, more than half. `second_follow`:
  one task, one peer, one event.

Deadlock is checked where the system can always go on. It is off in the runs of
GroupNode, AcceptPipeline and the services: these have finitely many events,
calls or changes and then rest.

### Fairness

- `AcceptPipeline`: each delivery that can take a step eventually does, since
  the runtime polls a woken task until it finishes. It is written out as weak
  fairness over `Ready`, which says when a delivery waits for nobody. That
  suffices for `EveryDeliveryReturns` because finitely many deliveries compete
  for the lock; tokio's lock is fair in addition.
- `SyncLoop`: the loop makes its passes (`WF` of `Pass`), and every sync ends
  (`SyncEnds`), if by `SYNC_TIMEOUT`.
- `SyncSession`: a session under way goes on or fails (`SessionStep`).
- `VoiceCall`: the listener's task, the give-up and ring-out timers and a call's
  own task each run on.
- `VoiceRoom`: `upkeep` runs every second, presence lapses, and a dial that was
  answered or refused is finished by its task.

Nothing is assumed about arrivals, what people do, or the absence of losses
and faults.

### Findings

- **`override_reach`**: the comment at `state.rs:595` says an override cannot
  hand out what its author lacks in the channel. The code checks the bits the
  *new* override allows; dropping a deny also hands its bit out, to the author's
  own role if they like.
- **`mute_lift`**: a 9030 closes the target's mute spans before its last two
  checks, so a refused one is not skipped without effect as `state.rs:18` says.
  A node that took a lift before the kick that makes it invalid holds it, and
  one that did not refuses it; both apply the same actions and silence the
  person at different times. (`SkipTheSame` and `Agreement` do hold: the
  standing of everyone is the same.)
- **`half_snapshot`**: after the first of a snapshot's four events the cutoff is
  the new one and the members event still the old: a ban folded by the new
  snapshot is in neither. It lasts until the third event is in, or for good at
  a node that stops in between. `docs/PROTOCOL.md:127` has the four published
  together.
- **`withdrawal`**: a message and its withdrawal both hold `fold_lock` for
  reading. The message's `is_deleted` may be answered before the withdrawal is
  stored, and the message stored after the withdrawal was applied. The comment
  on `Store::is_deleted` says refused, whichever arrived first.
- **`long_silence`**: `jitter.rs:15` says a pause resets the buffer. A starved
  restart keeps `newest`, and the sender's numbers count on through a mute:
  after more than 32768 frames, some eleven minutes, the next frames unwrap to a
  turn behind and are dropped as late until the numbers have gone round.
- **`second_follow`**: what a follow fetched stays in the store when the group
  is put down. The next follow carries the group with no state; its sync brings
  nothing new, so nothing is folded, and it ends in "not a public group" until a
  new event of the group arrives.

Met while modelling, and not stated as properties: a deletion or 9005 stored by
a delivery that is then cut is never applied, since its redelivery is a
duplicate; nor is a message so stored ever told to the window or the bridge's
clients; an action accepted while a compaction reads and signs, and dated before
the snapshot, is in neither from then on (`compact` takes no `fold_lock`); a
binding whose insert fails is in the book until the next start; a
`group_changed` dropped by the timeout leaves a member without gossip, or an
ALPN answered with no instance, until the next change; a failed read of the
groups, the messages or the direct messages empties the window's list, and one
of the store is an empty answer to a bridge's client; the fee's code is shown
when `zap_wait` is over, paid or not, and `docs/DESIGN.md:679` has it after the
zap is paid; a fee invoice that timed out may settle beside its retry; a callee
who answers a knock just given up is left in a call that only a hang-up ends
(`call.rs:24` has calls end when either side hangs up); a key lost while a file
of it is being encrypted, and replaced, has the new identity marked as backed up;
a batch that deletes a role and overrides a channel for it leaves the override,
which counts again when a role of that id is made; `start` folds and does not purge, and the first look of
`refold_if_changed` takes that fold for current; an invite is judged by what its
author may do when it arrives (`hit-group/src/lib.rs:335`) and a join by what the
author may do at the join's date, so a node that gets the invite after the
author's removal refuses both it and a join before the removal that others
applied (without `SameInvites`, `SkipTheSame` and `Agreement` fail so in
`replicas`; that there is no other way is what `SettledSkipTheSame` proves); two
messages of one author handled at once both pass slowmode (the code says
slowmode is for honest clients); a snapshot drops newcomers' waits and the mute
span of somebody kicked and let back in; `follow` decides before an await that
nobody carries the group and may, when it fails, put down one joined meanwhile;
an announcement sent and not recorded before a crash is not withdrawn; an unread
mark moves past a message that arrives late; two changes of a profile at once
lose one; a connection that serves files asks once whose it is; a pass of `keep_inbox` under
way when the inbox is switched off, or a kill within `set_inbox`, leaves the list
naming anchors for as long as it is off; a returning
person under an old mute's span is offered a composer whose messages are
refused.

## 4. Proofs

Thirty-six theorems in eight modules, each for every value of the constants. No
bound matters to any of them, and no set need be finite unless said below. They
state every invariant and every action property of the passing runs but
`ReadsAsMeant`.

| Theorem | Module | Statement |
|---|---|---|
| `TypeCorrect` | GroupStateProofs | `Spec => []TypeOK` |
| `OwnerAlwaysStands` | | `Spec => []OwnerStands` |
| `BannedAlwaysOut` | | `Spec => []BannedAreOut` |
| `NothingEverLeftBehind` | | `Spec => []NothingLeftBehind` |
| `SpansAlwaysFollow` | | `Spec => []SpansFollowMembership` |
| `NobodyEscalates` | | `Spec => NoEscalation` |
| `MutesReplaceEachOther` | StandingProofs | `Spec => []OneMuteAtATime` |
| `RanksAreRespected` | | `Spec => RankIsRespected` |
| `OfferedIsHonoured` | | `Spec => []OffersAreHonoured` |
| `SnapshotsKeepStanding` | | in every state the four events of a snapshot read back to `Compacted`, and to the same `Standing` |
| `SettledSkipTheSame` | FoldProofs | `NSpec => []SkipTheSame` |
| `SettledAgree` | | `NSpec => []Agreement` |
| `CompactionsKeepTheState` | | `NSpec => CompactionKeepsTheState` |
| `RefusedLeaveNoTrace` | | actions the fold leaves out one by one it leaves out together: with and without them it applies the same and ends in the same group, silences apart |
| `SkippedAreInvalid` | | a live action left out by the fold is invalid against what its second ends with |
| `IntakeKeepsNothingSilenced` | PipelineProofs | `PSpec => []NothingSilencedIsKept` |
| `IntakeRemovesWithCause` | | `PSpec => NothingGoesWithoutCause` |
| `AudioGoesToTheRightPerson` | VoiceProofs | `CSpec => []HeardByTheRightPerson` |
| `CallsImplementPhoneLine` | | `CSpec => IsAPhoneLine` |
| `OnTimeIsHeard` | | `JSpec /\ []Timely => []HeardSoon` |
| `BookFollowsStore` | SyncProofs | `BSpec => []StoreAndBookAgree` |
| `RevokedStaysOut` | | `BSpec => []RevocationHolds` |
| `LoopSyncsOnce` | | `LSpec => []OneSyncAtATime` |
| `SessionLeavesNothing` | | `SSpec => []NothingAcceptableIsLeft` |
| `GossipRunsAsMember` | NodeProofs | `GSpec => []OnExactlyAsMember` |
| `GossipCutsOff` | | `GSpec => []PutOutIsCutOff` |
| `AnchorLetsGoForGood` | | `ISpec => []LetGoStaysGone` |
| `SweepSparesOurs` | | `FSpec => OursIsNotSwept` |
| `NextLookFindsWrites` | | `HSpec => []LooksFindWrites` |
| `JoiningKeeps` | | `QSpec => []JoinedIsKept` |
| `OnboardingKeepsBackups` | AppProofs | `OSpec => []BackedUpIsHeld` |
| `ZapFeeGoesOneWay` | | `ZSpec => []FeeGoesOneWay` |
| `ZapsAreCountedOnce` | | `ZSpec => []CountedOnce` |
| `BridgeMissesNothing` | | `BridgeSpec => []SubscriberMissesNothing` |
| `OnlyPublicIsListed` | | `USpec => []OnlyWhatIsPublic` |
| `WindowMissesNothing` | | `WSpec => []NothingIsMissed` |

### Assumptions

All are named in the module that declares the constants, and TLC evaluates them
in each run.

- Groups: the three built-in roles are role ids and `OWNER_MARK` is not one;
  `None` is no number, person or code; the limits are naturals; the first owner,
  channel and name are of their sets; the inputs are of their types.
- Everywhere: `None`, Rust's `Option::None`, is none of the values it stands
  beside; limits, clocks and bounds are naturals.
- Channels are not of length nought (`BUS`, `FEED`), nor is a link's list of
  peers (`LINK_PEERS`), the sync backoff (`MAX_BACKOFF`) or a fetch's chunk.
- Bindings: `DEFAULT_TTL` is at most `MAX_TTL` and at least four seconds (it is
  a week); the device's own node is none of the others.
- Publishing: the lists a person may pick are of relays there are. Joining: the
  anchors' devices are finitely many. Window: a direct message is
  no reaction (`group.rs` makes reactions of groups only).
- SyncSession: what an event needs, and what it shows, are events, and its rank
  is a number.
- GroupFold: `MAX_ID` and `MAX_SECOND` are naturals. GroupNode: what people sign
  is of the kinds `parse_action` knows, two events of one id are one event (an id
  is a hash), and the snapshot the group is at has a date.
- Jitter: `DELAY` and `CATCH_UP` together are less than half a turn of the numbers,
  and as many packets as `DELAY` can be held.
- AcceptPipeline: no delivery is an invite, since an invite's judgement and its
  refold differ from the other actions' and GroupNode has them.

Two theorems have a hypothesis beside these. `CompactionsKeepTheState` takes it
that no snapshot is `None`. `OnTimeIsHeard` is about the behaviours in which
`Timely` always holds: every packet on the way is within half a turn of the
newest heard, for a `u16` some eleven minutes. Every state of Jitter with the
constants of `parts` satisfies it, pauses included, and `long_silence` is what
happens without it.

### The arguments

**A group's record** (`IInv`). A record is *good* if it has its type and
satisfies the four invariants (`Good`). One lemma per operation (`PutGood`,
`RemoveGood`, `MuteGood`, `RoleDeleteGood`, `CompactedGood`, ...) shows that
what is valid against a good record leads to a good one. They need each other,
hence one invariant: that changing the roles of a member, which looks at no ban,
keeps the banned out rests on no member being banned; that nobody silences the
owner, on the owner being a member; that closing a returning person's removal
spans closes all of them, on the shape of spans. An edit is judged against `g`
and applied to the draft, so `IInv` also says that the draft is good and what it
still shares with `g`: owner, members with roles taken away only, nobody added,
and every role's permissions either `g`'s or within the author's (`DraftOf`).
That last part is what `NobodyEscalates` needs: whatever two edits of a batch do
together, when it takes effect nobody's permissions contain a bit that they and
the author lacked.

**Standing** (`RInv`, on top of `IInv`). *Timed*: of two mutes of a person one is
over, and the one that is not is the one the record holds, if it holds one.
*Ladder*: among any positions of the group's roles one is the highest. That
there are finitely many roles would do, but would need an induction on their
number; said of the positions, one more role keeps it in one step. *BelowOnly*,
of a draft: what its edits moved, deleted or took was below the author, and what
they put is. Then whoever the author does not outrank keeps the top of their
ladder. `OfferedIsHonoured` needs the timed spans for the composer and the type
for the rest. `SnapshotsKeepStanding` adds that no edit deletes the default role
(`Rooted`), and that the owner holds none; so what `fold` adds, drops or sorts out
when it reads a snapshot (the missing default role, roles that do not exist, the
owner's) is nothing, for a snapshot of a state a group can come to.

**The fold.** Two nodes hold different sets of actions, and each would refuse
what only the other holds: why are they then in the same state? Because to hold
what the fold refuses changes nothing (`RefusedLeaveNoTrace`): both states are
that of the actions of the two together. Now an action is refused by folding it
*alone* with what is held, and the claim is about *all* of them; and the loop of
`apply_second` runs until a pass applies nothing, so that one action more may in
principle mean one more pass and a later chance for the others. The proof goes
through the loops from inside out. *An action* answers alike, and does alike, on
two records that are `Like`: equal but for silences, which no rule asks about
and which a refused 9030 does touch (`mute_lift`). *A pass* with the refused
actions among the pending walks beside the one without them, `Like` at each id.
*The loop*: both go on together as long as the smaller has something to apply;
once it has not, it is `Stuck`, and a pass over refused actions is quiet
(`QuietPass`). An action refused when folded alone is refused at each pass of its
second, and so it is in the common walk. *The seconds* follow one another. That
`MAX_ID` passes are enough (`UntilNoneApplies`), and so that the model's loop is
the code's, which has no bound: each pass but the last takes an id from those
pending. With it comes `SkippedAreInvalid`. `NodeInv` says that each node judges
by the fold of what it holds.

For a compaction, `Whole` is what makes a record survive its own snapshot: the
default role is there, members hold roles there are, the owner is a member and
holds none. What the four pieces say, of whichever snapshots they are, is made
whole by `FromPieces`, and each action keeps it, and the seq (`Kept`). `ReadingInv`
says of a compaction under way that what it read is whole, that what it saw is
still held, and that the snapshot signed of it is dated after all it saw, which
the second reading still finds. `HolderInv` adds that the key's holder has the
owner's 9007, and that no node has a newer piece than the holder (`NotNewer`), so
that no piece that comes in replaces one just published (`PublishedInv`). The
four then stand alone (`SnapshotStands`): the fold applies only what is live
(`OnlyLiveApply`), and nothing seen is.

These are inductions over data, and the library's induction rules are out of the
provers' reach (they take an operator). They are done here over sets: that `<` is
well-founded on the naturals gives a set of them a least element (`LeastNat`,
from `WFMin`), and from that a set that holds 0 and, below `N`, with each number
the next holds all up to `N` (`UpTo`). The same way each recursive function is
shown to be there at all, and so to satisfy its equation.

**Intake** (`PInv`). A writer is alone; a delivery past its lock holds it in the
mode its event needs; a message past `judge` is outside every silence of the
state, which cannot change under a read lock; a state change past its refold has
folded what is stored, and past its purge's look has found what the fold
silences; and unless one is half done, or was cut, the store is clean. The fold
itself stays closed in this proof: all it uses is that the fold reads the
state-changing events and no message.

**Bindings** (`BInv`). What a node's database holds is at least as new as every
revocation stored, in the order in which book and store replace; the two agree,
or the book is ahead by what is on its way or was dropped, or the database holds
an expired binding alone; and the book is no older than anything on its way, so
that an insert that returns late does not put the database ahead. The first statement of
`StoreAndBookAgree` did not survive this proof: after a start that does not load
an expired binding, an older revocation handed in again enters the book and not
the database. Nothing is admitted by it, and the property now says so. TLC finds
the case with `MaxClock` = 8, for which the `parts` run is too large; it has five.

**Voice** (`CInv`). A connection goes from a call to a device of the person the
call is with, who is not the caller; the call a knock goes into is with who
knocks; a call's peer is a connection with the right person. For the refinement
each step is shown to keep `CInv` and to be, on the window's `Line` and `Bell`, a
step of PhoneLine or none.

**The jitter buffer** (`JInv`). *Placed*: the newest number and the newest frame
differ by whole turns, and nothing held is newer. With `Timely` it makes `unwrap`
exact (`UnwrapsInPlace`): the numbers differ from the frames by one and the same
shift from then on, whichever turn the stream began in. *OnCourse*: either the
buffer is playing, and its quiet ticks are the ones it counts as dry
(`RunningDry`), so they end in a packet played or, after `MAX_DRY`, in a fresh
start; or it ran dry and `j` packets came on time since (`Refilling`). These are
consecutive and the newest, so they are held, the overflow only takes the oldest;
at `DELAY` of them it plays, and while there are fewer, `quiet` is at most
`MAX_DRY + 1 + j`. A buffer that starts sooner, from older packets it held, is
too far behind and skips ahead, or is `DELAY` behind already; in both cases the
packet of its turn is among those. TLC had checked `JInv` on three instances.

**Sync.** `LInv`: a busy device has a task and no report, or a report and no task,
any other has neither. `SInv`: what was fetched is in the store, to be tried, or
waiting; and in a round that let nothing in so far, what was tried is still
refused, because nothing in the store changed since.

**The node's services.** GossipGate: what a `group_changed` that met no other has
established at each of its awaits, and what it leaves if it is cut there. Inbox: what a week's end dropped is past the
age `judge` takes, and gets no younger. Files: what a sweep under way will not
take. SharedStore: a look recorded no more than there is, and less after a
write the count tells of. Joining: a join is on the disk before anybody is
asked; what is carried without being on the disk is by a follow that will put it
down or find it public.

**The application.** Onboarding: what a backup under way has written is held, and
while no key was lost it is the named identity, which cannot be replaced under
it. Zaps: a fee is in one place, with the wallet's task, in the pending zap or in
one dialog's code, and each place says which invoices there can be. Bridge and
Window: each item is shown, or in one of the places it can still come from, or
the reader fell behind and will be told, or one of the named histories has it.
Publishing: nothing was said of a group never public; the newest so far stands
among all the answers compared, whichever order they came in.

### Only model-checked

- `ReadsAsMeant`: Invoices, and so PersonForms and WireForms, use bitwise
  operators and recursion that the prover cannot take; and that a changed invoice
  is not read as another rests on the checksum, which is true of the changes
  `parts` makes and not of all.
- All liveness: `EveryDeliveryReturns`, `EveryTargetIsTried`, `SidesConverge`,
  `CallsEnd`, `RightsTakeEffect`; fairness and `ENABLED` are out of the prover's
  reach.

`SilencesAgree` and the properties of the other violated runs are false.

## 5. Plan

The system's parts are modelled as far as section 6 allows, and the invariants
and action properties are proved but for `ReadsAsMeant`. Left, in this order:

1. The two tasks that sign a person's inbox list (`set_inbox`, `keep_inbox`),
   which Inbox takes as an input; their hazard has no property yet.
2. That `Apply` leads from a good record to a good one, which would carry the
   invariants of GroupState over to what GroupFold gives.
3. A safety property of VoiceRoom, of which only liveness is checked.

## 6. Not modelled

- Signatures, ciphers and hashes: an event says who signed it and whether it was
  changed. Lengths of texts and framing: stateless checks of data.
- Negentropy's rounds, HyParView and PlumTree, the transfer and storage of blobs:
  libraries. A session finds the exact difference; gossip brings any event in any
  order or not at all; the blob store loses nothing but in a sweep.
- HTTP, the wallet's relay, the providers and public relays: external, answering
  late, wrongly or never.
- Audio devices, the codec and drift: signal processing in floating point.
- The store's query language and migrations; who is served a blob (asked at each
  request, without state); connection routing and the device's key file.
- The desktop's layout, themes and notifications; unread marks, settings and the
  ranking of a browse: views and single-value files.
- The anchor's flags and its translation of a fold to NIP-29, the command line's
  printing and argument parsing, the spikes and scripts.
