----------------------------- MODULE VoiceCall -----------------------------
(***************************************************************************)
(* 1:1 calls between the devices of some people                            *)
(* (crates/hit-voice/src/call.rs).                                         *)
(*                                                                         *)
(*   calls    per call made so far: the device it is on, who it is with,   *)
(*            whether its tasks run (live), whether it was answered (up),  *)
(*            its one peer's connection, and the knocks ring_out awaits    *)
(*   current  per device, Voice.call                                       *)
(*   ringing  per device, Voice.ringing: the knock it rings for, or None   *)
(*   knocks   per connection <<call, device>>, where the listener is with  *)
(*            it (at), what the person decided, the call it goes into, the *)
(*            reply that left, and whether the connection is open          *)
(*                                                                         *)
(* A step ends at an await of the code.  Who may call whom, and the        *)
(* binding a knock carries, hold: the people share a group.                *)
(***************************************************************************)
EXTENDS NodeBase

CONSTANTS Phones,      \* devices
          OwnerOf,     \* whose device it is
          Dials,       \* who may be seen to call whom: pairs of a device and a person
          MaxCalls,    \* bound: calls made or answered
          MaxLost      \* bound: connections lost by the network

VARIABLES calls, current, ringing, knocks, lost

cvars == <<calls, current, ringing, knocks, lost>>

Persons == {OwnerOf[d] : d \in Phones}

ASSUME VoiceConstants ==
    /\ MaxCalls \in Nat /\ MaxLost \in Nat
    /\ None \notin Int \cup Persons   \* no call, person, connection or state of a line
    /\ None \notin Int \X Phones /\ None \notin [with : Persons, talking : BOOLEAN]

DevicesOf(p) == {d \in Phones : OwnerOf[d] = p}
CallIds == 1 .. MaxCalls
NewCall == Cardinality(DOMAIN calls) + 1
From(k) == calls[k[1]].dev          \* the device that knocks
Caller(k) == OwnerOf[From(k)]

CInit ==
    /\ calls = << >>
    /\ current = [d \in Phones |-> None]
    /\ ringing = [d \in Phones |-> None]
    /\ knocks = << >>
    /\ lost = 0

-----------------------------------------------------------------------------
(* What the actions are made of. *)

Closed(kn, K) == [k \in DOMAIN kn |-> IF k \in K THEN [kn[k] EXCEPT !.open = FALSE] ELSE kn[k]]

\* Call::stop: its tasks are aborted, the knocks they await dropped, and the peer hung up on.
Stop(c) ==
    /\ calls' = [calls EXCEPT ![c].live = FALSE, ![c].peer = None, ![c].out = {}]
    /\ knocks' = Closed(knocks, calls[c].out \cup ({calls[c].peer} \ {None}))

\* Voice::end, for a call on its device: nothing unless it is the current one.
End(c) ==
    IF current[calls[c].dev] = c
    THEN Stop(c) /\ current' = [current EXCEPT ![calls[c].dev] = None]
    ELSE UNCHANGED <<calls, knocks, current>>

\* Voice::start: the new call is the current one, whatever was.
Start(d, with, out) ==
    /\ NewCall \in CallIds
    /\ calls' = [c \in DOMAIN calls \cup {NewCall} |->
                    IF c # NewCall THEN calls[c]
                    ELSE [dev |-> d, with |-> with, live |-> TRUE, up |-> FALSE,
                          peer |-> None, out |-> out]]
    /\ current' = [current EXCEPT ![d] = NewCall]

\* add_peer, and then answered: into a stopped call too.
AddPeer(c, k) ==
    /\ calls' = [calls EXCEPT ![c].peer = k, ![c].up = TRUE]
    /\ knocks' = [Closed(knocks, {calls[c].peer} \ {None, k}) EXCEPT ![k].at = "in"]

-----------------------------------------------------------------------------
(* The person at a device. *)

\* Voice::call.
CallOut(d, p) ==
    /\ current[d] = None /\ <<d, p>> \in Dials /\ p # OwnerOf[d]
    /\ Start(d, p, {NewCall} \X DevicesOf(p))
    /\ knocks' = [k \in DOMAIN knocks \cup ({NewCall} \X DevicesOf(p)) |->
                    IF k \in DOMAIN knocks THEN knocks[k]
                    ELSE [at |-> "way", decide |-> None, into |-> None, reply |-> None, open |-> TRUE]]
    /\ UNCHANGED <<ringing, lost>>

\* Voice::answer.  A knock that no longer listens ends the call at once: "they hung up".
PickUpPhone(d) ==
    LET k == ringing[d] IN
    /\ current[d] = None /\ k # None
    /\ ringing' = [ringing EXCEPT ![d] = None]
    /\ IF knocks[k].at = "rings"
       THEN Start(d, Caller(k), {}) /\ knocks' = [knocks EXCEPT ![k].decide = "yes"]
       ELSE UNCHANGED <<calls, current, knocks>>
    /\ UNCHANGED lost

\* Voice::decline.
Decline(d) ==
    LET k == ringing[d] IN
    /\ k # None
    /\ ringing' = [ringing EXCEPT ![d] = None]
    /\ knocks' = IF knocks[k].at = "rings" THEN [knocks EXCEPT ![k].decide = "no"] ELSE knocks
    /\ UNCHANGED <<calls, current, lost>>

\* Voice::leave, of a 1:1 call.
HangUp(d) ==
    /\ current[d] # None
    /\ End(current[d])
    /\ UNCHANGED <<ringing, lost>>

-----------------------------------------------------------------------------
(* A knock at the listener: accept and ring_in. *)

Refuse(k, kn) == [kn EXCEPT ![k].at = "done", ![k].reply = "no"]

\* Mutant: a device in a call rings all the same.
KnockInCall(k) ==
    LET d == k[2] IN
    /\ knocks[k].at = "way" /\ knocks[k].open
    /\ IF ringing[d] # None
       THEN knocks' = Refuse(k, knocks) /\ UNCHANGED ringing
       ELSE knocks' = [knocks EXCEPT ![k].at = "rings"] /\ ringing' = [ringing EXCEPT ![d] = k]
    /\ UNCHANGED <<calls, current, lost>>

\* The join line is read: the device is busy, or rings.
Knock(k) ==
    LET d == k[2] IN
    /\ knocks[k].at = "way" /\ knocks[k].open
    /\ IF current[d] # None \/ ringing[d] # None
       THEN knocks' = Refuse(k, knocks) /\ UNCHANGED ringing
       ELSE knocks' = [knocks EXCEPT ![k].at = "rings"] /\ ringing' = [ringing EXCEPT ![d] = k]
    /\ UNCHANGED <<calls, current, lost>>

\* select!: the ring ran out, or the caller is gone.  Ready with the decision at once,
\* either may be taken.
GiveUp(k) ==
    /\ knocks[k].at = "rings"
    /\ knocks' = [knocks EXCEPT ![k].at = "stopping"]
    /\ UNCHANGED <<calls, current, ringing, lost>>

\* Stop ringing, unless the person already took this one; "no answer".
StopRinging(k) ==
    LET d == k[2] IN
    /\ knocks[k].at = "stopping"
    /\ ringing' = [ringing EXCEPT ![d] = IF @ = k THEN None ELSE @]
    /\ knocks' = Refuse(k, knocks)
    /\ UNCHANGED <<calls, current, lost>>

\* Mutant: into whatever call the device is in.
IntoAnyCall(k) == current[k[2]] # None

\* The current call is the one with the caller.
IntoCall(k) == current[k[2]] # None /\ calls[current[k[2]]].with = Caller(k)

\* select!: the person decided.
Decided(k) ==
    /\ knocks[k].at = "rings" /\ knocks[k].decide # None
    /\ knocks' = IF knocks[k].decide = "yes" /\ IntoCall(k)
                 THEN [knocks EXCEPT ![k].at = "taken", ![k].into = current[k[2]]]
                 ELSE Refuse(k, knocks)
    /\ UNCHANGED <<calls, current, ringing, lost>>

\* accept: the yes is written, and the caller becomes the call's peer; a yes that cannot be
\* written ends the call.
WriteYes(k) ==
    /\ knocks[k].at = "taken"
    /\ IF knocks[k].open
       THEN knocks' = [knocks EXCEPT ![k].at = "written", ![k].reply = "yes"]
            /\ UNCHANGED <<calls, current>>
       ELSE LET c == knocks[k].into IN
            IF current[calls[c].dev] = c
            THEN /\ calls' = [calls EXCEPT ![c].live = FALSE, ![c].peer = None, ![c].out = {}]
                 /\ knocks' = [Closed(knocks, calls[c].out \cup ({calls[c].peer} \ {None}))
                                 EXCEPT ![k].at = "done"]
                 /\ current' = [current EXCEPT ![calls[c].dev] = None]
            ELSE knocks' = [knocks EXCEPT ![k].at = "done"] /\ UNCHANGED <<calls, current>>
    /\ UNCHANGED <<ringing, lost>>

PutThrough(k) ==
    /\ knocks[k].at = "written"
    /\ AddPeer(knocks[k].into, k)
    /\ UNCHANGED <<current, ringing, lost>>

Listener(k) == Knock(k) \/ StopRinging(k) \/ Decided(k) \/ WriteYes(k) \/ PutThrough(k)

-----------------------------------------------------------------------------
(* The caller's ring_out. *)

\* The first yes is the call, and the other knocks are dropped.
HearYes(k) ==
    LET c == k[1] IN
    /\ k \in calls[c].out /\ knocks[k].reply = "yes"
    /\ calls' = [calls EXCEPT ![c].peer = k, ![c].up = TRUE, ![c].out = {}]
    /\ knocks' = Closed(knocks, (calls[c].out \cup ({calls[c].peer} \ {None})) \ {k})
    /\ UNCHANGED <<current, ringing, lost>>

\* A refusal, an error or the end of the patience; after the last, the call ends.
HearNo(k) ==
    LET c == k[1] IN
    /\ k \in calls[c].out
    /\ knocks[k].reply = "no" \/ ~knocks[k].open
    /\ knocks[k].reply # "yes"
    /\ IF calls[c].out = {k}
       THEN End(c)
       ELSE /\ calls' = [calls EXCEPT ![c].out = @ \ {k}]
            /\ knocks' = Closed(knocks, {k})
            /\ UNCHANGED current
    /\ UNCHANGED <<ringing, lost>>

\* Lost by the network, or the patience ran out before an answer.
Lose(k) ==
    /\ lost < MaxLost /\ knocks[k].open
    /\ knocks' = Closed(knocks, {k})
    /\ lost' = lost + 1
    /\ UNCHANGED <<calls, current, ringing>>

-----------------------------------------------------------------------------
(* The tasks of a call. *)

\* The reader of a connection that closed takes the peer out.
ReaderEnds(c) ==
    /\ calls[c].peer # None /\ ~knocks[calls[c].peer].open
    /\ calls' = [calls EXCEPT ![c].peer = None]
    /\ UNCHANGED <<current, ringing, knocks, lost>>

\* Mutant: an answered call with nobody in it goes on.
UpkeepUnanswered(c) ==
    /\ calls[c].live /\ ~calls[c].up /\ calls[c].peer = None /\ calls[c].out = {}
    /\ End(c)
    /\ UNCHANGED <<ringing, lost>>

\* upkeep, for a 1:1 call: "they hung up".
UpkeepDm(c) ==
    /\ calls[c].live /\ calls[c].up /\ calls[c].peer = None
    /\ End(c)
    /\ UNCHANGED <<ringing, lost>>

CallTask(c) == ReaderEnds(c) \/ UpkeepDm(c)
RingOut(k) == HearYes(k) \/ HearNo(k)

CNext ==
    \/ \E d \in Phones :
        \/ PickUpPhone(d) \/ Decline(d) \/ HangUp(d)
        \/ \E p \in Persons : CallOut(d, p)
    \/ \E k \in DOMAIN knocks : Listener(k) \/ GiveUp(k) \/ RingOut(k) \/ Lose(k)
    \/ \E c \in DOMAIN calls : CallTask(c)

CSpec == CInit /\ [][CNext]_cvars

\* Tasks run, a ring runs out after RING, and a caller's
\* patience after that.
KnockSet == CallIds \X Phones
CFairness ==
    /\ \A k \in KnockSet :
        /\ WF_cvars(k \in DOMAIN knocks /\ Listener(k))
        /\ WF_cvars(k \in DOMAIN knocks /\ GiveUp(k))
        /\ WF_cvars(k \in DOMAIN knocks /\ RingOut(k))
    /\ \A c \in CallIds : WF_cvars(c \in DOMAIN calls /\ CallTask(c))

FairCSpec == CSpec /\ CFairness

-----------------------------------------------------------------------------

OtherEnd(c, k) == IF k[1] = c THEN k[2] ELSE From(k)

\* A call's audio goes to the person the call is with and to nobody else, whoever answered,
\* hung up and called back meanwhile (audio_loop sends to call.peers; ring_in compares rooms).
HeardByTheRightPerson ==
    \A c \in DOMAIN calls : calls[c].peer # None =>
        OwnerOf[OtherEnd(c, calls[c].peer)] = calls[c].with

\* A device's call that is not the talk of two: not yet answered, made here or picked
\* up here, or answered and its connection gone.
Hanging(c) ==
    /\ c \in DOMAIN calls /\ current[calls[c].dev] = c
    /\ \/ ~calls[c].up
       \/ calls[c].peer = None \/ ~knocks[calls[c].peer].open

\* The one call nothing ends but the person (upkeep passes over what was never answered):
\* picked up here, while ring_in's select! took the end of the ring, or the caller's going,
\* instead of the answer that was ready too; no knock is left to put it through.
Abandoned(c) ==
    /\ ~calls[c].up
    /\ \A k \in DOMAIN knocks :
        /\ k[1] # c
        /\ ~ /\ k[2] = calls[c].dev /\ Caller(k) = calls[c].with
             /\ knocks[k].decide = "yes" /\ knocks[k].at \in {"rings", "taken", "written"}

\* A call that hangs does not hang for ever: it is answered or ends, on either side
\* ("When either side hangs up, the call ends."), but for an abandoned one.
CallsEnd == \A c \in CallIds : Hanging(c) ~> (~Hanging(c) \/ Abandoned(c))

\* The window's view of the calls is a PhoneLine.
Line == [d \in Phones |-> IF current[d] = None THEN None
                          ELSE [with |-> calls[current[d]].with, talking |-> calls[current[d]].up]]
Bell == [d \in Phones |-> IF ringing[d] = None THEN None ELSE Caller(ringing[d])]
Phone == INSTANCE PhoneLine WITH
    Lines <- Phones, People <- Persons, NoOne <- None, line <- Line, bell <- Bell
IsAPhoneLine == Phone!PSpec
=============================================================================
