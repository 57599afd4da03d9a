----------------------------- MODULE MCProgress -----------------------------
(***************************************************************************)
(* What must eventually happen, in one run: as in MCParts, a behaviour is  *)
(* one of the parts', under that part's fairness.                          *)
(***************************************************************************)
EXTENDS SyncLoop, SyncSession, VoiceCall, VoiceRoom, TLC

CONSTANTS d1, d2   \* SyncLoop: devices

VARIABLE part

\* In one second: the owner makes a moderator, who puts the other side's
\* person, who makes an invite; then a message of the moderator in a channel
\* only members view, served to that person by who holds the put.
MCEvents == {"mod", "put", "invite", "private"}
MCNeeds == "mod" :> {} @@ "put" :> {"mod"} @@ "invite" :> {"put"} @@ "private" :> {"mod"}
MCShows == "mod" :> {} @@ "put" :> {} @@ "invite" :> {} @@ "private" :> {"put"}
MCRank == "mod" :> 2 @@ "put" :> 2 @@ "invite" :> 2 @@ "private" :> 4
MCStarts == {<<{}, {}>>, <<{}, MCEvents>>, <<MCEvents, {}>>,
             <<{"mod", "private"}, {"mod", "put"}>>}

\* A has a phone, B has two, and they may call each other at once.
MCPhones == {"a", "b", "b2"}
MCOwnerOf == "a" :> "A" @@ "b" :> "B" @@ "b2" :> "B"
MCDials == {<<"a", "B">>, <<"b", "A">>}

ProgressInit ==
    /\ LInit /\ SInit /\ CInit /\ RInit
    /\ part \in {"loop", "session", "call", "room"}
    /\ part # "loop" => targets = {}               \* the parts that are off have
    /\ part # "session" => \A x \in Sides : has[x] = {}   \* nothing to do

SyncLoopStep == part = "loop" /\ LNext /\ UNCHANGED <<svars, cvars, rvars, part>>

SyncSessionStep == part = "session" /\ SNext /\ UNCHANGED <<lvars, cvars, rvars, part>>

VoiceCallStep == part = "call" /\ CNext /\ UNCHANGED <<lvars, svars, rvars, part>>

VoiceRoomStep == part = "room" /\ RNext /\ UNCHANGED <<lvars, svars, cvars, part>>

ProgressNext == SyncLoopStep \/ SyncSessionStep \/ VoiceCallStep \/ VoiceRoomStep

\* The parts' own fairness, of the part the behaviour is one of.
Fair ==
    /\ WF_lvars(part = "loop" /\ Pass)
    /\ \A d \in Peers : WF_lvars(part = "loop" /\ SyncEnds(d))
    /\ WF_svars(part = "session" /\ SessionStep)
    /\ \A k \in KnockSet :
        /\ WF_cvars(part = "call" /\ k \in DOMAIN knocks /\ Listener(k))
        /\ WF_cvars(part = "call" /\ k \in DOMAIN knocks /\ GiveUp(k))
        /\ WF_cvars(part = "call" /\ k \in DOMAIN knocks /\ RingOut(k))
    /\ \A c \in CallIds : WF_cvars(part = "call" /\ c \in DOMAIN calls /\ CallTask(c))
    /\ \A d \in Talkers :
        /\ WF_rvars(part = "room" /\ Upkeep(d))
        /\ \A p \in Talkers : WF_rvars(part = "room" /\ Lapse(d, p))
    /\ WF_rvars(part = "room" /\ \E x \in dials :
            x.at # "way" /\ (ListenerAdds(x) \/ DiallerAdds(x) \/ DialFails(x)))

ProgressSpec ==
    ProgressInit /\ [][ProgressNext]_<<lvars, svars, cvars, rvars, part>> /\ Fair
=============================================================================
