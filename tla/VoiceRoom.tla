----------------------------- MODULE VoiceRoom -----------------------------
(***************************************************************************)
(* A voice channel among people with one device each: presence, the gate,  *)
(* dialling and the upkeep of a call (crates/hit-voice/src/call.rs, and    *)
(* the presence in crates/hit-node/src/lib.rs).                            *)
(*                                                                         *)
(*   may     per person, what the group gives them: "out" (may not join),  *)
(*           "hear" (may join, not speak) or "speak"                       *)
(*   inside  the devices with a call in the channel                        *)
(*   seen    per device, whom its presence map has in the room             *)
(*   peers   per device in a call, whom it plays and sends to: the Peer's  *)
(*           connection and whether they are heard                         *)
(*   readers per device, the connections of its call with a reader         *)
(*   links   the open connections                                          *)
(*   dials   dials in flight, and admits between the gate and add_peer     *)
(*                                                                         *)
(* Everybody folds the same group at once: how the change of may travels   *)
(* is GroupNode's.  A lost announcement is one nobody hears.               *)
(***************************************************************************)
EXTENDS NodeBase, Sequences

CONSTANTS Talkers,      \* people, each with one device: 1, 2, ... by device id
          MAX_VOICE,    \* Config.max
          MaxTurns,     \* bound: changes of what the group gives
          MaxLinks      \* bound: connections made

ASSUME RoomConstants == Talkers \subseteq Nat /\ {MAX_VOICE, MaxTurns, MaxLinks} \subseteq Nat

VARIABLES may, inside, seen, peers, readers, links, dials, turns, serial

rvars == <<may, inside, seen, peers, readers, links, dials, turns, serial>>

\* Voice::rights.
MayJoin(p) == may[p] # "out"
IsHeard(p) == may[p] = "speak"

RInit ==
    /\ may = [p \in Talkers |-> "speak"]
    /\ inside = {}
    /\ seen = [d \in Talkers |-> {}]
    /\ peers = [d \in Talkers |-> << >>]
    /\ readers = [d \in Talkers |-> {}]
    /\ links = {}
    /\ dials = {}
    /\ turns = 0 /\ serial = 0

Has(d, p) == p \in DOMAIN peers[d]
Without(f, S) == [p \in DOMAIN f \ S |-> f[p]]

-----------------------------------------------------------------------------

\* A role, a mute, a kick: the group gives p something else.
Regroup(p, w) ==
    /\ turns < MaxTurns /\ may[p] # w
    /\ may' = [may EXCEPT ![p] = w]
    /\ turns' = turns + 1
    /\ UNCHANGED <<inside, seen, peers, readers, links, dials, serial>>

\* announce_voice(true) reaches a device: accept_event takes it unless they may not join.
Announce(p, d) ==
    /\ p \in inside /\ MayJoin(p)
    /\ p \notin seen[d]
    /\ seen' = [seen EXCEPT ![d] = @ \cup {p}]
    /\ UNCHANGED <<may, inside, peers, readers, links, dials, turns, serial>>

\* An "out" reaches a device, or, voice_participants, an "in" is older than the window.
Lapse(d, p) ==
    /\ p \in seen[d] /\ (p \notin inside \/ ~MayJoin(p))
    /\ seen' = [seen EXCEPT ![d] = @ \ {p}]
    /\ UNCHANGED <<may, inside, peers, readers, links, dials, turns, serial>>

\* Voice::join: not when the room this device knows of is full.
JoinRoom(d) ==
    /\ d \notin inside /\ MayJoin(d)
    /\ Cardinality(seen[d] \ {d}) + 1 <= MAX_VOICE
    /\ inside' = inside \cup {d}
    /\ seen' = [seen EXCEPT ![d] = @ \cup {d}]
    /\ UNCHANGED <<may, peers, readers, links, dials, turns, serial>>

\* Voice::leave: everybody is hung up on, and an "out" is announced.  A dial of the call goes on.
LeaveRoom(d) ==
    /\ d \in inside
    /\ inside' = inside \ {d}
    /\ links' = links \ {peers[d][p].link : p \in DOMAIN peers[d]}
    /\ peers' = [peers EXCEPT ![d] = << >>]
    /\ readers' = [readers EXCEPT ![d] = {}]
    /\ seen' = [seen EXCEPT ![d] = @ \ {d}]
    /\ UNCHANGED <<may, dials, turns, serial>>

-----------------------------------------------------------------------------

\* upkeep dials whom it should: the lower device id of each pair.
ToDial(d) == {p \in seen[d] : p # d /\ d < p /\ ~Has(d, p) /\ MayJoin(p)}

\* Mutant: nobody who has gone from the room is hung up on.
StaysAll(d) == DOMAIN peers[d]

\* upkeep: whom the presence map still has.
Stays(d) == DOMAIN peers[d] \cap seen[d]

\* upkeep, one second: hang up on who left, check again who is heard, dial who is missing.
Upkeep(d) ==
    /\ d \in inside
    /\ links' = links \ {peers[d][p].link : p \in DOMAIN peers[d] \ Stays(d)}
    /\ peers' = [peers EXCEPT ![d] =
                    [p \in Stays(d) |-> [peers[d][p] EXCEPT !.heard = IsHeard(p)]]]
    /\ dials' = dials \cup {[from |-> d, to |-> p, at |-> "way", heard |-> FALSE, link |-> 0] : p \in ToDial(d)}
    /\ UNCHANGED <<may, inside, seen, readers, turns, serial>>

\* admit: in that call, someone who may join, and room left for them.
Gate(d, p) ==
    /\ d \in inside /\ MayJoin(p)
    /\ Has(d, p) \/ Cardinality(DOMAIN peers[d]) + 1 < MAX_VOICE

\* The listener reads the join line.
AdmitDial(x) ==
    /\ x \in dials /\ x.at = "way"
    /\ dials' = (dials \ {x}) \cup
                (IF Gate(x.to, x.from) THEN {[x EXCEPT !.at = "ok", !.heard = IsHeard(x.from)]} ELSE {})
    /\ UNCHANGED <<may, inside, seen, peers, readers, links, turns, serial>>

\* add_peer, into d's call if it still runs: the peer it replaces is hung up on.  A call that
\* is over holds the connection and plays nothing.
AddToRoom(d, p, l, heard) ==
    /\ peers' = IF d \notin inside THEN peers
                ELSE [peers EXCEPT ![d] = [q \in DOMAIN @ \cup {p} |->
                        IF q = p THEN [link |-> l, heard |-> heard] ELSE @[q]]]
    /\ readers' = IF d \in inside THEN [readers EXCEPT ![d] = @ \cup {<<l, p>>}] ELSE readers
    /\ links' = (links \cup {l}) \ (IF d \in inside /\ Has(d, p) THEN {peers[d][p].link} ELSE {})
    /\ UNCHANGED <<may, inside, seen, turns>>

\* accept: the yes is written.
ListenerAdds(x) ==
    /\ x \in dials /\ x.at = "ok" /\ serial < MaxLinks
    /\ AddToRoom(x.to, x.from, serial + 1, x.heard)
    /\ serial' = serial + 1
    /\ dials' = (dials \ {x}) \cup {[x EXCEPT !.at = "open", !.link = serial + 1]}

\* dial: the yes is read.
DiallerAdds(x) ==
    /\ x \in dials /\ x.at = "open" /\ x.link \in links
    /\ AddToRoom(x.from, x.to, x.link, IsHeard(x.to))
    /\ dials' = dials \ {x}
    /\ UNCHANGED serial

\* A dial that is refused, times out or is lost: its connection is dropped.
DialFails(x) ==
    /\ x \in dials
    /\ dials' = dials \ {x}
    /\ links' = links \ {x.link}
    /\ UNCHANGED <<may, inside, seen, peers, readers, turns, serial>>

\* The reader of a connection that closed takes its person out, whichever connection they have now.
ReaderGone(d, p) ==
    /\ \E l \in 1 .. serial :
        /\ <<l, p>> \in readers[d] /\ l \notin links
        /\ readers' = [readers EXCEPT ![d] = @ \ {<<l, p>>}]
    /\ peers' = [peers EXCEPT ![d] = Without(@, {p})]
    /\ UNCHANGED <<may, inside, seen, links, dials, turns, serial>>

RNext ==
    \/ \E p \in Talkers : \E w \in {"out", "hear", "speak"} : Regroup(p, w)
    \/ \E d \in Talkers :
        \/ JoinRoom(d) \/ LeaveRoom(d) \/ Upkeep(d)
        \/ \E p \in Talkers : Announce(p, d) \/ Lapse(d, p) \/ ReaderGone(d, p)
    \/ \E x \in dials : AdmitDial(x) \/ ListenerAdds(x) \/ DiallerAdds(x) \/ DialFails(x)

RSpec == RInit /\ [][RNext]_rvars

\* The upkeep runs every second, presence lapses, and a
\* dial has its timeout.
RFairness ==
    /\ \A d \in Talkers : /\ WF_rvars(Upkeep(d))
                          /\ \A p \in Talkers : WF_rvars(Lapse(d, p))
    /\ WF_rvars(\E x \in dials :
            x.at # "way" /\ (ListenerAdds(x) \/ DiallerAdds(x) \/ DialFails(x)))

FairRSpec == RSpec /\ RFairness

-----------------------------------------------------------------------------

Fits(p) == \A d \in inside : Has(d, p) =>
    MayJoin(p) /\ (peers[d][p].heard => IsHeard(p))

\* "A mute or a ban mid-call takes effect": who may no longer speak is soon played by nobody,
\* and who may no longer join is soon sent nothing (upkeep, voice_participants, admit).
RightsTakeEffect ==
    \A p \in Talkers : \A w \in {"out", "hear"} : may[p] = w ~> (may[p] # w \/ Fits(p))
=============================================================================
