---------------------------- MODULE MCGroupState ----------------------------
(* GroupState on small instances: the inputs of the edits. *)
EXTENDS Console, TLC

CONSTANTS o, a, b   \* the people: the owner and two interchangeable others

MCSymmetry == Permutations({a, b})

\* Bound: how many spans of silence a state may hold to be explored further.
MCMaxSpans == 5
MCFewSpans == Cardinality(g.silences) <= MCMaxSpans

\* No edit of roles or channels: people come, go, are muted and banned.
MCNoSets == {}
MCNoNumbers == {}

\* A single rung: a moderator, or a plain member (the default role may be named).
MCModOnly == {{}, {"mod", "member"}}

MCAdminOnly == {{}, {"admin"}}

\* One rung of the ladder at a time.
MCRoleSets == {{}, {"mod"}, {"admin"}}

\* Role edits that hand on the power to grant, or everything; at the rank
\* of an admin or below it.
MCPermSets == {{"VIEW_CHANNEL", "MANAGE_ROLES"}, ALL}
MCPositions == {15, 20}
MCScopedSets == {{}, {"VIEW_CHANNEL"}}
MCSecs == {0}

\* Bound, for batches of edits: role definitions among three people, or every
\* other edit between two of whom none is a moderator, at a time.
MCRolesOnly(h) ==
    /\ \A c \in DOMAIN h.channels : h.channels[c].kind = "text"
    /\ h.overrides = {} /\ h.invites = {}
MCTwoOnly(h) ==
    /\ b \notin Members(h) \cup h.bans \cup {s.who : s \in h.silences}
                \cup {i.author : i \in h.invites}
    /\ \A p \in Members(h) : "mod" \notin h.members[p]
    /\ \A x \in h.overrides : x.role # "mod"
    /\ \A r \in DOMAIN h.roles : h.roles[r] = DefaultRoles[r]
MCOneTheme ==
    LET held == {g'} \cup (IF draft' = None THEN {} ELSE {draft'.next}) IN
    (\A h \in held : MCRolesOnly(h)) \/ (\A h \in held : MCTwoOnly(h))
=============================================================================
