----------------------------- MODULE Snapshots ------------------------------
(***************************************************************************)
(* The snapshot of a group (crates/hit-group/src/state.rs, to_snapshot and *)
(* the first half of fold): how the state becomes four signed events, and  *)
(* what the four held say.                                                 *)
(*                                                                         *)
(* A snapshot is signed as four state events, one per kind of STATE_KINDS, *)
(* which are stored, sent and replaced one by one.  Here a state event is  *)
(* the snapshot it was signed from, and `pieces` maps each kind to the     *)
(* snapshot whose event of that kind is held, or None.                     *)
(***************************************************************************)
EXTENDS GroupRules

STATE_KINDS == {"metadata", "admins", "members", "roles"}

\* The order in which the holder of the group key publishes the four.
SignOrder == <<"metadata", "admins", "members", "roles">>

\* to_snapshot: g as the group key's holder signs it, dated `at`.
ToSnapshot(g, at) ==
    [seq |-> g.seq + 1, at |-> at, name |-> g.name, about |-> g.about, public |-> g.public,
     newcomer_wait |-> g.newcomer_wait, channels |-> g.channels, overrides |-> g.overrides,
     roles |-> g.roles, owner |-> g.owner, members |-> g.members, bans |-> g.bans,
     mutes |-> g.mutes]

\* replaces, for two state events of one kind: seq first, then the date.
\* Two snapshots of one seq and date have one signer here, and are equal.
Replaces(new, old) ==
    \/ old = None
    \/ new.seq > old.seq
    \/ new.seq = old.seq /\ new.at > old.at

\* The first half of fold: what the four pieces held say.  Each comes from
\* its own snapshot; nothing requires the four to be of one seq.
FromPieces(pieces, created) ==
    LET meta == pieces["metadata"]
        admins == pieces["admins"]
        mem == pieces["members"]
        held == {pieces[k] : k \in STATE_KINDS}
        cutoff == CHOOSE t \in {s.at : s \in held} : \A s \in held : s.at <= t
        roles == IF DEFAULT_ROLE \in DOMAIN pieces["roles"].roles THEN pieces["roles"].roles
                 ELSE Insert(pieces["roles"].roles, DEFAULT_ROLE, [perms |-> {}, position |-> 0])
        owner == IF created THEN admins.owner ELSE None
        named == [p \in DOMAIN mem.members |->
                    IF p \in DOMAIN admins.members
                    THEN (admins.members[p] \cap DOMAIN roles) \ {DEFAULT_ROLE} ELSE {}]
    IN [seq |-> CHOOSE q \in {s.seq : s \in held} : \A s \in held : s.seq <= q,
        cutoff |-> cutoff,
        name |-> meta.name, about |-> meta.about, public |-> meta.public,
        newcomer_wait |-> meta.newcomer_wait,
        joined |-> EmptyMap,
        owner |-> owner, named_owner |-> admins.owner,
        channels |-> meta.channels, overrides |-> meta.overrides, roles |-> roles,
        members |-> IF owner = None THEN named ELSE Insert(named, owner, {}),
        invites |-> {}, bans |-> mem.bans, mutes |-> mem.mutes,
        silences |-> MutesAsSilences(mem.mutes, cutoff)]

\* What the permission questions are answered from.
Standing(g) ==
    [owner |-> g.owner, members |-> g.members, roles |-> g.roles, bans |-> g.bans,
     mutes |-> g.mutes, channels |-> g.channels, overrides |-> g.overrides,
     public |-> g.public, wait |-> g.newcomer_wait]

=============================================================================
