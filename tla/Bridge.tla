------------------------------- MODULE Bridge -------------------------------
(***************************************************************************)
(* One session of the anchor's ws:// bridge (crates/hit-anchor/src/ws.rs): *)
(* a Nostr client that connects, authenticates (NIP-42) or not, asks for a *)
(* group's posts, and is then sent new ones as the node tells of them.     *)
(* Sessions share nothing but the node, so one stands for all.  The        *)
(* session is one task: while it answers a REQ it takes nothing from its   *)
(* feed, which queues, and drops its oldest entry when full.               *)
(*                                                                         *)
(*   posted    what the node holds                                         *)
(*   untelling stored by accept_event, not yet sent to the subscribers     *)
(*   rights    the client's person is a member of the group                *)
(*   session   "off", "on", "asking" (a REQ is being answered)             *)
(*   reader    the session has authenticated                               *)
(*   feed      its receiver; behind: entries of it were overwritten        *)
(*   answer    what the REQ's query found, not yet sent; subbed: in subs   *)
(*   given     what the client was sent                                    *)
(*   excused   what it was not owed: unreadable when it came by, cut by a  *)
(*             limit, or skipped with a notice to subscribe again          *)
(*   unanswered history: what was held when the last REQ's read failed,    *)
(*             which is answered with nothing and an EOSE                  *)
(*   muffled   history: stored by a delivery that was cut before it told   *)
(*             anyone, and not asked for since                             *)
(***************************************************************************)
EXTENDS NodeBase, Naturals, Sequences, SequencesExt, FiniteSets

CONSTANTS Posts,        \* posts of one group, numbered by their date
          Hidden,       \* those in a channel only members view
          MAX_EVENTS,   \* most of them one filter is answered with
          FEED,         \* room in a receiver
          MaxChanges,   \* bound: the rights change this often
          MaxMuffled    \* bound: posts whose delivery was cut, at once

ASSUME BridgeAssumption == /\ Posts \subseteq Nat /\ Hidden \subseteq Posts
                           /\ None \notin Posts
                           /\ FEED \in Nat \ {0}

VARIABLES posted, untelling, rights, changes, session, reader, feed, behind,
          answer, subbed, given, excused, unanswered, muffled

nodeSide == <<posted, untelling, rights, changes>>
misses == <<unanswered, muffled>>
connection == <<session, reader, answer, subbed, given, excused, unanswered>>
wsvars == <<posted, untelling, rights, changes, session, reader, feed, behind,
            answer, subbed, given, excused, unanswered, muffled>>

StateEvent == None

BridgeInit ==
    /\ posted = {} /\ untelling = {}
    /\ rights = FALSE /\ changes = 0
    /\ session = "off" /\ reader = FALSE
    /\ feed = <<>> /\ behind = FALSE
    /\ answer = {} /\ subbed = FALSE
    /\ given = {} /\ excused = {}
    /\ unanswered = {} /\ muffled = {}

\* may_read, for the person who authenticated or for a fresh key.
Readable(p) == p \notin Hidden \/ (reader /\ rights)

\* The node's channel: a session that is off has no receiver.
Feeds(e) ==
    IF session = "off" THEN UNCHANGED <<feed, behind>>
    ELSE /\ feed' = Append(IF Len(feed) = FEED THEN Tail(feed) ELSE feed, e)
         /\ behind' = (behind \/ Len(feed) = FEED)

(***************************************************************************)
(* The node.                                                               *)
(***************************************************************************)
\* accept_event, for what arrives from the mesh: the insert ...
ArrivesAtAnchor(p) ==
    /\ p \in Posts \ posted
    /\ posted' = posted \cup {p}
    /\ untelling' = untelling \cup {p}
    /\ UNCHANGED <<rights, changes, feed, behind, muffled, connection>>

\* ... and the end of it ...
TellsBridge(p) ==
    /\ p \in untelling
    /\ untelling' = untelling \ {p}
    /\ Feeds(p)
    /\ UNCHANGED <<posted, rights, changes, muffled, connection>>

\* ... which a session's timeout, or an error, may keep it from reaching.
CutAtAnchor(p) ==
    /\ p \in untelling /\ Cardinality(muffled) < MaxMuffled
    /\ untelling' = untelling \ {p}
    /\ muffled' = muffled \cup {p}
    /\ UNCHANGED <<posted, rights, changes, feed, behind, connection>>

\* A join, a kick or a role: the fold changes, then the action is told of,
\* unless its delivery is cut.
RightsChange ==
    /\ changes < MaxChanges /\ changes' = changes + 1
    /\ rights' = ~rights
    /\ Feeds(StateEvent) \/ UNCHANGED <<feed, behind>>
    /\ UNCHANGED <<posted, untelling, muffled, connection>>

(***************************************************************************)
(* The session.                                                            *)
(***************************************************************************)
\* session: the receiver is there before the first message is read.
Connect ==
    /\ session = "off"
    /\ session' = "on"
    /\ UNCHANGED <<nodeSide, feed, behind, reader, answer, subbed, given, excused,
                   misses>>

\* check_auth accepts: the challenge is the session's, the date is recent.
\* What was refused before is not looked at again.
Authenticate ==
    /\ session = "on" /\ ~reader
    /\ reader' = TRUE
    /\ UNCHANGED <<nodeSide, session, feed, behind, answer, subbed, given, excused, misses>>

\* The newest MAX_EVENTS posts, and of them the readable ones: the limit
\* comes first.
NewestPosts == {p \in posted : Cardinality({q \in posted : q > p}) < MAX_EVENTS}

\* Req: the query; a REQ on a known id is answered like a new one.  A read
\* that fails is answered with nothing, and no notice.
Req ==
    /\ session = "on"
    /\ session' = "asking"
    /\ \/ /\ answer' = {p \in NewestPosts : Readable(p)}
          /\ excused' = {p \in posted : p \notin NewestPosts \/ ~Readable(p)}
          /\ unanswered' = {} /\ muffled' = {}
       \/ /\ answer' = {} /\ excused' = {}
          /\ unanswered' = posted /\ UNCHANGED muffled
    /\ UNCHANGED <<nodeSide, feed, behind, reader, subbed, given>>

\* One event of the answer, which goes out newest first.
SendAnswer ==
    /\ session = "asking" /\ answer # {}
    /\ given' = given \cup {Greatest(answer)}
    /\ answer' = answer \ {Greatest(answer)}
    /\ UNCHANGED <<nodeSide, feed, behind, session, reader, subbed, excused, misses>>

\* Mutant: the session listens from the end of its first answer on.
EoseThenListen ==
    /\ session = "asking" /\ answer = {}
    /\ session' = "on" /\ subbed' = TRUE
    /\ feed' = IF subbed THEN feed ELSE <<>>
    /\ UNCHANGED <<nodeSide, behind, reader, answer, given, excused, misses>>

\* The subscription is kept, and EOSE sent.
Eose ==
    /\ session = "asking" /\ answer = {}
    /\ session' = "on" /\ subbed' = TRUE
    /\ UNCHANGED <<nodeSide, feed, behind, reader, answer, given, excused, misses>>

CloseSub ==
    /\ session = "on" /\ subbed
    /\ subbed' = FALSE
    /\ UNCHANGED <<nodeSide, session, feed, behind, reader, answer, given, excused, misses>>

\* An EVENT of the client: only after authentication, and through the
\* node's gate; the session waits until the node is done with it.
ClientPosts(p) ==
    /\ session = "on" /\ reader /\ rights
    /\ p \in Posts \ posted
    /\ posted' = posted \cup {p}
    /\ Feeds(p)
    /\ UNCHANGED <<untelling, rights, changes, muffled, connection>>

\* A kind 9735 from anyone: carry_zap turns it into an event of the group.
ZapCarried(p) ==
    /\ session = "on" /\ ~reader
    /\ p \in Posts \ (posted \cup Hidden)
    /\ posted' = posted \cup {p}
    /\ Feeds(p)
    /\ UNCHANGED <<untelling, rights, changes, muffled, connection>>

\* live: what the reader may not see, the group's own state, and what no
\* subscription asked for is passed over.
Live ==
    /\ session = "on" /\ ~behind /\ feed # <<>>
    /\ feed' = Tail(feed)
    /\ LET p == Head(feed)
       IN  IF p # StateEvent /\ Readable(p) /\ subbed
           THEN given' = given \cup {p} /\ UNCHANGED excused
           ELSE excused' = excused \cup ({p} \ {StateEvent}) /\ UNCHANGED given
    /\ UNCHANGED <<nodeSide, behind, session, reader, answer, subbed, misses>>

\* Lagged: the client is told to subscribe again.
LaggedNotice ==
    /\ session = "on" /\ behind
    /\ behind' = FALSE
    /\ excused' = excused \cup (posted \ (untelling \cup ToSet(feed)))
    /\ UNCHANGED <<nodeSide, feed, session, reader, answer, subbed, given, misses>>

\* The socket closes, or a send on it fails.
EndSession ==
    /\ session # "off"
    /\ session' = "off" /\ reader' = FALSE /\ subbed' = FALSE
    /\ feed' = <<>> /\ behind' = FALSE /\ answer' = {}
    /\ given' = {} /\ excused' = {} /\ unanswered' = {}
    /\ UNCHANGED <<nodeSide, muffled>>

BridgeNext ==
    \/ \E p \in Posts : \/ ArrivesAtAnchor(p) \/ TellsBridge(p) \/ CutAtAnchor(p)
                        \/ ClientPosts(p) \/ ZapCarried(p)
    \/ RightsChange \/ Connect \/ Authenticate \/ Req \/ SendAnswer \/ Eose
    \/ CloseSub \/ Live \/ LaggedNotice \/ EndSession

BridgeSpec == BridgeInit /\ [][BridgeNext]_wsvars

(***************************************************************************)
(* What a subscriber is promised.                                          *)
(***************************************************************************)
\* An open subscription misses nothing: whatever is stored, told, asked and
\* sent in whatever order, each post the client may read was sent, is
\* still on its way, or was not owed to it (unreadable when it came by,
\* beyond the limit, or lost with a notice).  Two histories excuse a post
\* that was owed: the last REQ's read failed while it was held
\* (unanswered), or its delivery was cut after the insert and no REQ has
\* read the store since (muffled).
SubscriberMissesNothing ==
    session = "on" /\ subbed /\ ~behind =>
        \A p \in posted : \/ p \in given \cup excused
                          \/ p \in untelling \cup ToSet(feed)
                          \/ p \in unanswered \cup muffled
                          \/ ~Readable(p)
=============================================================================
