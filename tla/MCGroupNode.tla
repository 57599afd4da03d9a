---------------------------- MODULE MCGroupNode -----------------------------
(* GroupNode on small instances: the snapshot the group is at, and what its  *)
(* people may sign.                                                          *)
EXTENDS GroupNode

CONSTANTS o, a, b,   \* the owner, a moderator, a plain member
          n1, n2     \* two nodes, n1 with the group key

\* Seq 1: the owner made the group, put a in as a moderator and b in.
MCStart ==
    ToSnapshot(PutDo(PutDo(Genesis(o, "text", FALSE, "general", 1), a, {"mod"}, 1), b, {}, 1), 2)

PutE(id, by, at, t, roles) ==
    [id |-> id, by |-> by, at |-> at, kind |-> "put", target |-> t, roles |-> roles]
RemoveE(id, by, at, t, ban) ==
    [id |-> id, by |-> by, at |-> at, kind |-> "remove", target |-> t, ban |-> ban]
MuteE(id, by, at, t, until) ==
    [id |-> id, by |-> by, at |-> at, kind |-> "mute", target |-> t, until |-> until]

InviteO == [id |-> 1, by |-> o, at |-> 2, kind |-> "invite", code |-> "code", expires |-> 4]
InviteA == [id |-> 11, by |-> a, at |-> 2, kind |-> "invite", code |-> "code", expires |-> None]
JoinB == [id |-> 7, by |-> b, at |-> 4, kind |-> "join", code |-> "code"]
UnbanB == [id |-> 4, by |-> o, at |-> 3, kind |-> "unban", target |-> b]
MuteB == MuteE(2, a, 3, b, 6)
KickB == RemoveE(3, a, 3, b, FALSE)
BanB == RemoveE(8, a, 3, b, TRUE)
KickA == RemoveE(9, b, 4, a, FALSE)
Demote == PutE(5, o, 3, a, {})
Promote == PutE(6, o, 3, b, {"mod"})
DropMod == [id |-> 12, by |-> o, at |-> 4, kind |-> "edit",
            edits |-> <<[edit |-> "role-delete", id |-> "mod"]>>]

Triples(S) == {T \in SUBSET S : Cardinality(T) = 3}

\* b is muted, removed and comes back, while the owner may demote the moderator:
\* within second 3 the unban comes before the ban it needs, by id.  And b
\* made a moderator, while a and b turn on one another and the owner takes
\* the role away.  And b comes back by the moderator's invite before the owner
\* removes the moderator: whom the invite reaches after that will not have it.
MCSignings == Triples({InviteO, JoinB, UnbanB, MuteB, KickB, BanB, Demote})
              \cup Triples({KickB, BanB, KickA, Demote, Promote, DropMod})
              \cup {{InviteA, KickB, JoinB, RemoveE(10, o, 5, a, FALSE)}}

\* A ban, and nothing else.
MCBan == {{RemoveE(1, a, 2, b, TRUE)}}

\* b is muted, kicked, put back, and the mute lifted.
MCLift == {{MuteE(1, a, 2, b, 9), RemoveE(2, a, 3, b, FALSE),
            PutE(3, a, 4, b, {}), MuteE(4, a, 5, b, None)}}
=============================================================================
