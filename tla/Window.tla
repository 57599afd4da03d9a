------------------------------- MODULE Window -------------------------------
(***************************************************************************)
(* What the desktop window shows (crates/hit-desktop/src/chat.rs and       *)
(* chat/dms.rs) against what the node holds.  The window is a cache: two   *)
(* tasks of crates/hit-app-core/src/events.rs read the node's two          *)
(* broadcast channels and queue UiEvents, one task hands those to the      *)
(* chat, and clicks run beside it; every handler holds the chat's lock     *)
(* across the questions it asks the app.                                   *)
(*                                                                         *)
(*   store     the items the node's store holds                            *)
(*   coming    the items yet to reach the node                             *)
(*   untold    stored, and not yet sent on the events channel              *)
(*   unsaid    dropped, and not yet sent on the removed channel            *)
(*   bus,drops the two channels, of BUS events each, and whether the       *)
(*   lagged    reader of each fell behind                                  *)
(*   rx        the queue of UiEvents                                       *)
(*   visible   the channels the group has for this person (None: no group) *)
(*   trial     a public group that `follow` carries and may put down again *)
(*   cached, channel, shown, dms                                           *)
(*             State's groups, open channel, messages and dms              *)
(*   doing     the handler that holds the lock between two questions       *)
(*   picked    history: refresh_groups opened another channel by itself,   *)
(*             and nothing was loaded since                                *)
(*   blank     history: the panes whose last load failed, which empties    *)
(*             them (unwrap_or_default) and is not tried again             *)
(*   hushed    history: the items stored by a delivery that was cut before *)
(*             it told anyone                                              *)
(*   clicks    bound: what the person has done                             *)
(***************************************************************************)
EXTENDS NodeBase, Sequences, SequencesExt, FiniteSets

CONSTANTS Items,        \* messages, reactions and direct messages
          PlaceOf,      \* each one's channel, or DM for a direct message
          ReactsTo,     \* the message a reaction is to, None for the others
          MineItems,    \* the items this person signs, by sending or reacting
          Order,        \* the group's text channels, first one first
          DM,
          BUS,          \* what a channel holds for a slow reader
          MaxClicks,    \* bound: clicks
          MaxMisses     \* bound: panes blank and items hushed at once

\* A reaction is always to a message of a group (reaction in
\* crates/hit-event/src/group.rs tags both).
ASSUME WindowConstants ==
    /\ BUS \in Nat \ {0} /\ None \notin Items
    /\ \A i \in Items : PlaceOf[i] = DM => ReactsTo[i] = None

VARIABLES store, coming, untold, unsaid, bus, drops, lagged, rx, visible, trial,
          cached, channel, shown, dms, doing, picked, clicks, blank, hushed

nodeVars == <<store, coming, untold, unsaid, bus, drops, lagged, visible, trial, hushed>>
chatVars == <<cached, channel, shown, dms, doing, picked, clicks, blank>>
wvars == <<nodeVars, rx, chatVars>>

\* The bound on what goes wrong at once.
Few(panes, items) == Cardinality(panes) + Cardinality(items) <= MaxMisses

Trial == "trial"   \* the followed group, which has no channel yet

Item(i) == [type |-> "item", id |-> i]
GroupEvent == [type |-> "group"]
Gone(i) == [type |-> "gone", id |-> i]
Resync == [type |-> "resync"]

WInit ==
    /\ store = {} /\ coming = Items
    /\ untold = {} /\ unsaid = {}
    /\ bus = <<>> /\ drops = <<>> /\ lagged = {}
    /\ rx = <<>>
    /\ visible \in {{}, ToSet(Order)} /\ trial = FALSE
    /\ cached = {} /\ channel = None
    /\ shown = {} /\ dms = {}
    /\ doing = "start"
    /\ picked = FALSE
    /\ clicks = 0
    /\ blank = {} /\ hushed = {}

(***************************************************************************)
(* The node: items and group changes reach the store and then the          *)
(* channels; a channel overwrites its oldest event when it is full.        *)
(***************************************************************************)
Sent(q, e) == Append(IF Len(q) = BUS THEN Tail(q) ELSE q, e)
Lag(q, name) == lagged' = IF Len(q) = BUS THEN lagged \cup {name} ELSE lagged

\* accept_event inserts; it tells the window only at its end.
StoreItem(i) ==
    /\ i \in coming \ MineItems
    /\ PlaceOf[i] = DM \/ PlaceOf[i] \in visible
    /\ coming' = coming \ {i}
    /\ store' = store \cup {i}
    /\ untold' = untold \cup {i}
    /\ UNCHANGED <<unsaid, bus, drops, lagged, rx, visible, trial, hushed, chatVars>>

TellItem(i) ==
    /\ i \in untold
    /\ untold' = untold \ {i}
    /\ bus' = Sent(bus, Item(i)) /\ Lag(bus, "bus")
    /\ UNCHANGED <<store, coming, unsaid, drops, rx, visible, trial, hushed, chatVars>>

\* A session's timeout, or an error, ends accept_event between its insert or
\* its removal and the word of it; what is held is not accepted again.
CutTelling(i) ==
    /\ \/ /\ i \in untold
          /\ untold' = untold \ {i} /\ hushed' = hushed \cup {i}
          /\ Few(blank, hushed')
          /\ UNCHANGED unsaid
       \/ /\ i \in unsaid
          /\ unsaid' = unsaid \ {i}
          /\ UNCHANGED <<untold, hushed>>
    /\ UNCHANGED <<store, coming, bus, drops, lagged, rx, visible, trial, chatVars>>

\* Withdrawn, removed by a moderator or silenced.
DropItem(i) ==
    /\ i \in store /\ PlaceOf[i] # DM
    /\ store' = store \ {i}
    /\ unsaid' = unsaid \cup {i}
    /\ UNCHANGED <<coming, untold, bus, drops, lagged, rx, visible, trial, hushed, chatVars>>

TellRemoved(i) ==
    /\ i \in unsaid
    /\ unsaid' = unsaid \ {i}
    /\ drops' = Sent(drops, Gone(i)) /\ Lag(drops, "drops")
    /\ UNCHANGED <<store, coming, untold, bus, rx, visible, trial, hushed, chatVars>>

\* The group is made, or a channel of it opens or closes for this person; a
\* delivery cut after its fold tells nobody.
GroupChanges(s) ==
    /\ s # visible /\ s # {}
    /\ clicks < MaxClicks /\ clicks' = clicks + 1
    /\ visible' = s
    /\ \/ bus' = Sent(bus, GroupEvent) /\ Lag(bus, "bus")
       \/ UNCHANGED <<bus, lagged>>
    /\ UNCHANGED <<store, coming, untold, unsaid, drops, rx, trial, hushed,
                   cached, channel, shown, dms, doing, picked, blank>>

\* follow carries a group in memory, and puts it down when no peer serves it.
Follow ==
    /\ trial' = ~trial
    /\ ~trial => clicks < MaxClicks
    /\ clicks' = IF trial THEN clicks ELSE clicks + 1
    /\ UNCHANGED <<store, coming, untold, unsaid, bus, drops, lagged, visible, hushed,
                   rx, cached, channel, shown, dms, doing, picked, blank>>

(***************************************************************************)
(* The pumps: a reader that fell behind is told so, and the window reads   *)
(* everything again.                                                       *)
(***************************************************************************)
\* Mutant: a reader that fell behind goes on with the next event.
EmitSilent(name, q) == Append(rx, Head(q))

Emit(name, q) == IF name \in lagged THEN Append(rx, Resync) ELSE Append(rx, Head(q))

PumpEvents ==
    /\ doing # "start"
    /\ bus # <<>>
    /\ rx' = Emit("bus", bus)
    /\ bus' = IF "bus" \in lagged THEN bus ELSE Tail(bus)
    /\ lagged' = lagged \ {"bus"}
    /\ UNCHANGED <<store, coming, untold, unsaid, drops, visible, trial, hushed, chatVars>>

PumpDrops ==
    /\ doing # "start"
    /\ drops # <<>>
    /\ rx' = Emit("drops", drops)
    /\ drops' = IF "drops" \in lagged THEN drops ELSE Tail(drops)
    /\ lagged' = lagged \ {"drops"}
    /\ UNCHANGED <<store, coming, untold, unsaid, bus, visible, trial, hushed, chatVars>>

(***************************************************************************)
(* The chat.                                                               *)
(***************************************************************************)
Carried == visible \cup (IF trial THEN {Trial} ELSE {})

\* The first group that is ready, and its first text channel.
FirstText(s) ==
    CASE s \cap ToSet(Order) # {} -> SelectSeq(Order, LAMBDA c : c \in s)[1]
      [] Trial \in s -> Trial
      [] OTHER -> None

\* App::messages: a channel's messages, and the reactions to those held.
LoadMessages(c) == {i \in store : /\ PlaceOf[i] = c
                                  /\ ReactsTo[i] # None => ReactsTo[i] \in store}

\* What App::groups answers, or nothing when it fails.
GroupsRead == {Carried, {}}

\* refresh_groups: a group not among those read is left for the first there
\* is, whose messages it does not load.
OpenIn(g) == IF channel = Trial THEN Trial \in g
             ELSE channel # None /\ g \cap ToSet(Order) # {}
Kept(g) == IF OpenIn(g) THEN channel ELSE FirstText(g)

\* load_messages: a read that fails leaves an empty list.
Load(c) ==
    \/ shown' = LoadMessages(c) /\ blank' = blank \ {"messages"}
    \/ /\ c \in ToSet(Order)
       /\ shown' = {} /\ blank' = blank \cup {"messages"} /\ Few(blank', hushed)

\* start_chat subscribes before its first refresh reads anything.
StartChat ==
    /\ doing = "start"
    /\ doing' = "groups"
    /\ bus' = <<>> /\ drops' = <<>> /\ lagged' = {}
    /\ UNCHANGED <<store, coming, untold, unsaid, visible, trial, hushed, rx,
                   cached, channel, shown, dms, picked, clicks, blank>>

\* Chat::refresh, with the node running on between its questions, each of
\* which may fail.
RefreshStep ==
    /\ \/ /\ doing = "groups" /\ doing' = "messages"
          /\ \E g \in GroupsRead : cached' = g /\ channel' = Kept(g)
          /\ UNCHANGED <<shown, dms, picked, blank>>
       \/ /\ doing = "messages" /\ doing' = "dms"
          /\ Load(channel) /\ picked' = FALSE
          /\ UNCHANGED <<cached, channel, dms>>
       \/ /\ doing = "dms" /\ doing' = "idle"
          /\ \/ dms' = LoadMessages(DM) /\ blank' = blank \ {"dms"}
             \/ dms' = {} /\ blank' = blank \cup {"dms"} /\ Few(blank', hushed)
          /\ UNCHANGED <<cached, channel, shown, picked>>
    /\ UNCHANGED <<nodeVars, rx, clicks>>

Open(c) ==
    /\ channel' = c
    /\ Load(c)
    /\ picked' = FALSE

\* select_group and select_channel, and `opened` after a join or a creation.
Select(c) ==
    /\ doing = "idle" /\ clicks < MaxClicks
    /\ c \in cached /\ c # channel
    /\ clicks' = clicks + 1
    /\ Open(c)
    /\ UNCHANGED <<nodeVars, rx, cached, dms, doing>>

\* arrived, reacted and dm_arrived.
Arrived(i) ==
    /\ dms' = IF PlaceOf[i] = DM THEN dms \cup {i} ELSE dms
    /\ shown' = IF PlaceOf[i] = channel
                   /\ (ReactsTo[i] # None => ReactsTo[i] \in shown)
                THEN shown \cup {i} ELSE shown

\* send, react and send_dm: stored, told and shown under one lock.
Say(i) ==
    /\ doing = "idle" /\ clicks < MaxClicks
    /\ i \in MineItems \cap coming
    /\ PlaceOf[i] \in {channel, DM}
    /\ ReactsTo[i] # None => ReactsTo[i] \in shown
    /\ clicks' = clicks + 1
    /\ coming' = coming \ {i} /\ store' = store \cup {i}
    /\ bus' = Sent(bus, Item(i)) /\ Lag(bus, "bus")
    /\ Arrived(i)
    /\ UNCHANGED <<untold, unsaid, drops, visible, trial, hushed, rx, cached, channel,
                   doing, picked, blank>>

\* gone: an item and what hangs on it.
ShownWithout(s, i) == {j \in s : j # i /\ ReactsTo[j] # i}

\* take_back and react on one's own: dropped from the store and the window.
TakeBack(i) ==
    /\ doing = "idle" /\ clicks < MaxClicks
    /\ i \in shown \cap store
    /\ clicks' = clicks + 1
    /\ store' = store \ {i}
    /\ drops' = Sent(drops, Gone(i)) /\ Lag(drops, "drops")
    /\ shown' = ShownWithout(shown, i)
    /\ UNCHANGED <<coming, untold, unsaid, bus, visible, trial, hushed, rx,
                   cached, channel, dms, doing, picked, blank>>

\* The groups read again: an open channel that counts as closed is left for
\* the first one of its group, if it has any, and that one loaded.
Regrouped(closed) ==
    /\ \E g \in GroupsRead :
        /\ cached' = g
        /\ IF Kept(g) \in closed \ (g \cap ToSet(Order))
           THEN Open(IF Kept(g) \in ToSet(Order) THEN FirstText(g) ELSE Kept(g))
           ELSE /\ channel' = Kept(g)
                /\ picked' = (picked \/ Kept(g) # channel)
                /\ UNCHANGED <<shown, blank>>
    /\ UNCHANGED <<dms, doing>>

\* One UiEvent, handled under the lock.
OnEvent ==
    /\ doing = "idle" /\ rx # <<>>
    /\ rx' = Tail(rx)
    /\ LET e == Head(rx)
       IN  \/ /\ e.type = "item" /\ Arrived(e.id)
              /\ UNCHANGED <<cached, channel, doing, picked, blank>>
           \/ /\ e.type = "gone" /\ shown' = ShownWithout(shown, e.id)
              /\ UNCHANGED <<cached, channel, dms, doing, picked, blank>>
           \/ /\ e.type = "group" /\ Regrouped(ToSet(Order))
           \/ /\ e.type = "resync" /\ doing' = "groups"
              /\ UNCHANGED <<cached, channel, shown, dms, picked, blank>>
    /\ UNCHANGED <<nodeVars, clicks>>

\* moderate, after its step: with no group, or one without channels, it
\* empties the list too.
Moderate ==
    /\ doing = "idle" /\ clicks < MaxClicks
    /\ clicks' = clicks + 1
    /\ Regrouped(ToSet(Order) \cup {Trial, None})
    /\ UNCHANGED <<nodeVars, rx>>

WNext ==
    \/ \E i \in Items : \/ StoreItem(i) \/ TellItem(i) \/ CutTelling(i)
                      \/ DropItem(i) \/ TellRemoved(i)
    \/ \E s \in SUBSET ToSet(Order) : GroupChanges(s)
    \/ Follow
    \/ PumpEvents \/ PumpDrops
    \/ StartChat \/ RefreshStep \/ OnEvent \/ Moderate
    \/ \E c \in cached : Select(c)
    \/ \E i \in Items : Say(i) \/ TakeBack(i)

WSpec == WInit /\ [][WNext]_wvars

(***************************************************************************)
(* Everything the node told has been handled.                              *)
(***************************************************************************)
Quiet == /\ doing = "idle"
         /\ untold = {} /\ unsaid = {} /\ bus = <<>> /\ drops = <<>> /\ rx = <<>>

\* Once everything told has been handled, every message the store holds for
\* the open channel, and every direct message, is on the screen, whatever
\* was missed, dropped, clicked or closed meanwhile.  Three things excuse a
\* missing one, each a history variable: refresh_groups picked a channel by
\* itself and loaded nothing (picked), the last load of the pane failed
\* (blank), and the delivery that stored the item was cut before it told
\* anyone (hushed).
NothingIsMissed ==
    Quiet =>
      /\ ~picked /\ "messages" \notin blank =>
           {i \in LoadMessages(channel) \ hushed : ReactsTo[i] = None} \subseteq shown
      /\ "dms" \notin blank => LoadMessages(DM) \ hushed \subseteq dms
=============================================================================
