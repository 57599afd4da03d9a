------------------------------- MODULE Joining -------------------------------
(***************************************************************************)
(* One device that opens a group's links: `follow` and `join` of           *)
(* crates/hit-node/src/lib.rs, called by App::join and App::join_reading   *)
(* (crates/hit-app-core/src/state.rs).  A public group is read from memory *)
(* only; a joined one is named on disk.  What was fetched stays in the     *)
(* store in either case, whatever becomes of the group.                    *)
(*                                                                         *)
(*   chain    the group's events, at its peers: each a snapshot (state) or *)
(*            an action, with what the group is after it                   *)
(*   onDisk   the group is in the store's table of groups                  *)
(*   inMemory Groups carries it                                            *)
(*   view     the state Groups holds for it, or None                       *)
(*   copies   the events of chain this device's store holds                *)
(*   reading  App's link to a group that is read                           *)
(*   looked   how many of its events refold_if_changed last counted        *)
(*   opening  per task, the call that is under way                         *)
(*   putDown  history: a follow that began on a group nobody carried put   *)
(*            it down after another call had opened it                     *)
(***************************************************************************)
EXTENDS NodeBase, SequencesExt

CONSTANTS Openers,      \* tasks of the app that may open a link at once
          AnchorDevices,\* the devices of the group's anchors
          LINK_PEERS,   \* invite::MAX_PEERS
          MaxChain      \* bound: events of the group

\* The calls that may be under way.
LinkPeers == AnchorDevices \cup {"maker"}
FollowCalls == [op : {"follow"}, at : {"dial", "check"}, already : BOOLEAN,
                left : Seq(LinkPeers), served : BOOLEAN]
JoinCalls == [op : {"join"}, at : {"carry", "dial", "sync"}, coded : BOOLEAN, read : BOOLEAN,
              left : Seq(LinkPeers), delivered : BOOLEAN]

ASSUME JoiningConstants ==
    /\ IsFiniteSet(AnchorDevices) /\ LINK_PEERS \in Nat \ {0}
    /\ None \notin FollowCalls \cup JoinCalls

VARIABLES chain, onDisk, inMemory, view, copies, looked, reading, opening, putDown

qvars == <<chain, onDisk, inMemory, view, copies, looked, reading, opening, putDown>>
appVars == <<chain, onDisk, copies, looked, putDown>>

Now == chain[Len(chain)]

\* The state in memory lists this person.
IsMember == IF view = None THEN FALSE ELSE view.member

\* invite_peers: the anchors' devices first, then the one that made the link.
InvitePeers == SubSeq(SetToSeq(AnchorDevices), 1, Lesser(Cardinality(AnchorDevices), LINK_PEERS - 1))
               \o <<"maker">>

\* GroupState::fold of what the store holds: nothing without a snapshot.
FoldOf(S) == IF \E i \in S : chain[i].state THEN chain[Greatest(S)] ELSE None

QInit ==
    /\ chain \in {<<[state |-> TRUE, public |-> p, member |-> FALSE]>> : p \in BOOLEAN}
    /\ onDisk = FALSE /\ inMemory = FALSE
    /\ view = None
    /\ copies = {} /\ looked = None
    /\ reading = FALSE
    /\ opening = [t \in Openers |-> None]
    /\ putDown = FALSE

-----------------------------------------------------------------------------
(* The group, at its peers. *)

Grow(e) == /\ Len(chain) < MaxChain
           /\ chain' = Append(chain, e)
           /\ UNCHANGED <<onDisk, inMemory, view, copies, looked, reading, opening, putDown>>

TurnPublic == Grow([Now EXCEPT !.state = FALSE, !.public = ~@])
SignSnapshotAgain == Grow([Now EXCEPT !.state = TRUE])

-----------------------------------------------------------------------------
(* A sync with one of them, perhaps cut after the events up to `last`. *)

\* What a peer offers: the last snapshot and what came after it, to anyone
\* while the group is public and to members always.
PeerOffers ==
    IF Now.public \/ Now.member
    THEN {i \in DOMAIN chain : \A j \in DOMAIN chain : chain[j].state => j <= i}
    ELSE {}

\* accept_event of each: a group must be carried, an action needs a state to
\* be judged by, and only what is new to the store is folded.
Accepts(last) ==
    LET new == {i \in PeerOffers \ copies : i <= last}
        taken == IF ~inMemory THEN {}
                 ELSE IF view # None \/ \E i \in new : chain[i].state THEN new ELSE {}
    IN  /\ copies' = copies \cup taken
        /\ view' = IF taken = {} THEN view ELSE FoldOf(copies')

LoopSync ==
    /\ inMemory
    /\ \E last \in DOMAIN chain : Accepts(last)
    /\ UNCHANGED <<chain, onDisk, inMemory, looked, reading, opening, putDown>>

\* refold_if_changed: the first count after a start changes nothing.
LookAgain ==
    /\ inMemory /\ looked # Cardinality(copies)
    /\ looked' = Cardinality(copies)
    /\ view' = IF looked = None THEN view ELSE FoldOf(copies)
    /\ UNCHANGED <<chain, onDisk, inMemory, copies, reading, opening, putDown>>

-----------------------------------------------------------------------------
(* The calls. *)

Call(t, c) == opening' = [opening EXCEPT ![t] = c]

\* Groups::carry
CarryInMemory == inMemory' = TRUE /\ UNCHANGED view

\* App::join, with a public group's link: follow.
OpenPublicLink(t) ==
    /\ opening[t] = None
    /\ ~IsMember
    /\ CarryInMemory
    /\ Call(t, [op |-> "follow", at |-> "dial", already |-> inMemory, left |-> InvitePeers,
                served |-> FALSE])
    /\ UNCHANGED <<appVars, reading>>

JoinCall(coded, read) ==
    [op |-> "join", at |-> "carry", coded |-> coded, read |-> read, left |-> InvitePeers,
     delivered |-> FALSE]

\* Mutant: the group goes to the disk when the join has succeeded.
JoinKeepsLater(t, coded, read) == Call(t, JoinCall(coded, read)) /\ UNCHANGED onDisk

\* join: to the disk, before anybody is asked.
JoinKeeps(t, coded, read) == Call(t, JoinCall(coded, read)) /\ onDisk' = TRUE

\* App::join, with an invite.
OpenInvite(t) ==
    /\ opening[t] = None
    /\ ~IsMember
    /\ JoinKeeps(t, TRUE, FALSE)
    /\ UNCHANGED <<chain, inMemory, view, copies, looked, reading, putDown>>

\* App::join_reading: by the link it came by, or the group's own.
JoinReading(t) ==
    /\ opening[t] = None
    /\ inMemory /\ view # None /\ ~view.member
    /\ reading \/ view.public
    /\ JoinKeeps(t, FALSE, TRUE)
    /\ UNCHANGED <<chain, inMemory, view, copies, looked, reading, putDown>>

Carry(t) ==
    /\ opening[t] # None /\ opening[t].at = "carry"
    /\ CarryInMemory
    /\ Call(t, [opening[t] EXCEPT !.at = "dial"])
    /\ UNCHANGED <<appVars, reading>>

\* The next peer does not answer.
NextPeer(t) ==
    /\ opening[t] # None /\ opening[t].at = "dial" /\ opening[t].left # <<>>
    /\ Call(t, [opening[t] EXCEPT !.left = Tail(@)])
    /\ UNCHANGED <<appVars, inMemory, view, reading>>

\* follow: a sync, whole or cut ...
FollowSync(t) ==
    /\ opening[t] # None /\ opening[t].op = "follow" /\ opening[t].at = "dial"
    /\ opening[t].left # <<>>
    /\ \E last \in DOMAIN chain :
        /\ Accepts(last)
        /\ Call(t, [opening[t] EXCEPT !.left = Tail(@),
                                      !.at = IF last = Len(chain) THEN "check" ELSE "dial",
                                      !.served = @ \/ (last = Len(chain) /\ Now.public)])
    /\ UNCHANGED <<chain, onDisk, inMemory, looked, reading, putDown>>

\* ... and whether it brought a public group.
FollowCheck(t) ==
    /\ opening[t] # None /\ opening[t].at = "check"
    /\ LET found == view # None /\ view.public
       IN  /\ Call(t, IF found THEN None ELSE [opening[t] EXCEPT !.at = "dial"])
           /\ reading' = (reading \/ found)
    /\ UNCHANGED <<appVars, inMemory, view>>

\* What it put in memory it takes out again.
PutsDown(c) == ~c.already

FollowGivesUp(t) ==
    /\ opening[t] # None /\ opening[t].op = "follow" /\ opening[t].at = "dial"
    /\ opening[t].left = <<>>
    /\ inMemory' = (inMemory /\ ~PutsDown(opening[t]))
    /\ view' = IF inMemory' THEN view ELSE None
    /\ putDown' = (putDown \/ (~opening[t].already /\ (onDisk \/ reading)))
    /\ Call(t, None)
    /\ UNCHANGED <<chain, onDisk, copies, looked, reading>>

\* join: the 9021 handed to a peer, which applies it; the answer may be lost.
Deliver9021(t, heard) ==
    /\ opening[t] # None /\ opening[t].op = "join" /\ opening[t].at = "dial"
    /\ opening[t].left # <<>>
    /\ LET c == opening[t]
           passes == ~Now.member /\ (c.coded \/ Now.public)
       IN  /\ IF passes /\ ~c.delivered
              THEN /\ Len(chain) < MaxChain
                   /\ chain' = Append(chain, [Now EXCEPT !.state = FALSE, !.member = TRUE])
              ELSE UNCHANGED chain
           /\ Call(t, [c EXCEPT !.left = Tail(@), !.delivered = @ \/ passes,
                                !.at = IF heard /\ (passes \/ c.delivered)
                                       THEN "sync" ELSE "dial"])
    /\ UNCHANGED <<onDisk, inMemory, view, copies, looked, reading, putDown>>

JoinSync(t) ==
    /\ opening[t] # None /\ opening[t].at = "sync"
    /\ \E last \in DOMAIN chain :
        /\ Accepts(last)
        /\ reading' = (reading /\ ~(opening[t].read /\ last = Len(chain)))
    /\ Call(t, None)
    /\ UNCHANGED <<chain, onDisk, inMemory, looked, putDown>>

JoinGivesUp(t) ==
    /\ opening[t] # None /\ opening[t].op = "join" /\ opening[t].at = "dial"
    /\ opening[t].left = <<>>
    /\ Call(t, None)
    /\ UNCHANGED <<appVars, inMemory, view, reading>>

\* The app ends, or is killed, and starts: what the disk names is carried.
StartAgain ==
    /\ inMemory' = onDisk
    /\ view' = IF onDisk THEN FoldOf(copies) ELSE None
    /\ reading' = FALSE /\ looked' = None
    /\ opening' = [t \in Openers |-> None]
    /\ UNCHANGED <<chain, onDisk, copies, putDown>>

QNext ==
    \/ TurnPublic \/ SignSnapshotAgain \/ LoopSync \/ LookAgain \/ StartAgain
    \/ \E t \in Openers :
        \/ OpenPublicLink(t) \/ OpenInvite(t) \/ JoinReading(t) \/ Carry(t) \/ NextPeer(t)
        \/ FollowSync(t) \/ FollowCheck(t) \/ FollowGivesUp(t)
        \/ \E heard \in BOOLEAN : Deliver9021(t, heard)
        \/ JoinSync(t) \/ JoinGivesUp(t)

QSpec == QInit /\ [][QNext]_qvars

-----------------------------------------------------------------------------

Idle == \A t \in Openers : opening[t] = None

\* "In memory only — a restart puts it down; joining keeps it": a group whose
\* member this person became is on the disk, wherever the app was killed; what is
\* on the disk or being read is carried, unless a follow put down what another call
\* had opened meanwhile; and a follow leaves nothing carried that it did not
\* find public.
JoinedIsKept ==
    /\ Now.member => onDisk
    /\ onDisk \/ reading => \/ inMemory \/ putDown
                          \/ \E t \in Openers : opening[t] # None /\ opening[t].at = "carry"
    /\ Idle /\ inMemory /\ ~onDisk => reading

\* follow: it "syncs it from the link's peers, which serve a public group to
\* anyone".  A follow that such a peer served never runs out of peers.
ServedIsFound ==
    \A t \in Openers : LET c == opening[t] IN
        c # None /\ c.op = "follow" /\ c.at = "dial" /\ c.left = <<>> => ~c.served
=============================================================================
