----------------------------- MODULE GroupNode ------------------------------
(***************************************************************************)
(* Several nodes that carry one group (crates/hit-node/src/lib.rs): what   *)
(* each holds of it, which events it lets in, and how the group key's      *)
(* holder compacts it.                                                     *)
(*                                                                         *)
(*   signed     the actions signed, by anyone                               *)
(*   held       per node, the actions in its store                         *)
(*   pieces     per node, the state event of each kind in its store        *)
(*   created    per node, whether the owner's 9007 is in its store         *)
(*   state      per node, the fold the node judges by (Groups::carried)    *)
(*   signing    the compaction under way at the holder, or None: the state *)
(*              it read and the actions seen in it, the snapshot it signed *)
(*              (None until then) and what is left to publish of it        *)
(*                                                                         *)
(* accept_event is one step here: the node's fold_lock is held for writing *)
(* across judge, fold, insert and refold (AcceptPipeline takes it apart).  *)
(* Gossip, sync and delivery by another device lose, delay, duplicate and  *)
(* reorder; so an event may reach a node at any time or never, and a       *)
(* refused or known one changes nothing.  No date is ten minutes in any    *)
(* node's future, so the skew check never refuses.                         *)
(***************************************************************************)
EXTENDS GroupFold

CONSTANTS Nodes,
          Holder,     \* the node with the group key
          Start,      \* the snapshot the group is at
          Signings,   \* bound: the sets of actions people may have signed
          Clocks,     \* what the holder's clock may read when it compacts
          MaxSeq      \* bound: the seq of the last compaction

ASSUME NodesAssumption == Holder \in Nodes
ASSUME NodeBoundsAssumption == Clocks \subseteq Nat /\ MaxSeq \in Nat
ASSUME StartAssumption == Start # None /\ Start.at \in Nat /\ Start.seq \in Nat
ASSUME SigningsAssumption ==
    \A actions \in Signings : IdsDiffer(actions) /\ \A e \in actions : IsAction(e)

VARIABLES signed, held, pieces, created, state, signing

nvars == <<signed, held, pieces, created, state, signing>>

NInit ==
    /\ signed \in Signings
    /\ held = [n \in Nodes |-> {}]
    /\ pieces = [n \in Nodes |-> [k \in STATE_KINDS |-> Start]]
    /\ created = [n \in Nodes |-> n = Holder]
    /\ state = [n \in Nodes |-> Fold(pieces[n], created[n], {})]
    /\ signing = None

\* Mutant: what is dated at the cutoff is folded too.
IsFoldedAtCutoff(n, e) ==
    IF e.kind = "invite" THEN e.expires # None /\ e.expires < state[n].g.cutoff
    ELSE e.at <= state[n].g.cutoff

\* is_folded: the snapshot n judges by already stands for e.  (An invite must
\* also be expired by n's clock, which is past every cutoff.)
IsFolded(n, e) ==
    IF e.kind = "invite" THEN e.expires # None /\ e.expires < state[n].g.cutoff
    ELSE e.at < state[n].g.cutoff

\* Mutant: an action is judged by the state now, not folded in at its date.
AcceptsByState(n, e) ==
    /\ state[n] # None
    /\ ~IsFolded(n, e)
    /\ IF e.kind = "invite" THEN Has(state[n].g, e.by, "CREATE_INVITE")
       ELSE Apply(state[n].g, e).ok

\* judge, for an action: an invite by what its author may do now, any other
\* by folding it with everything held.
Accepts(n, e) ==
    /\ state[n] # None
    /\ ~IsFolded(n, e)
    /\ IF e.kind = "invite" THEN Has(state[n].g, e.by, "CREATE_INVITE")
       ELSE e \in Fold(pieces[n], created[n], held[n] \cup {e}).applied

ReceiveAction(n) ==
    /\ \E e \in signed \ held[n] :
        /\ Accepts(n, e)
        /\ held' = [held EXCEPT ![n] = @ \cup {e}]
    /\ state' = [state EXCEPT ![n] = Fold(pieces[n], created[n], held'[n])]
    /\ UNCHANGED <<signed, pieces, created, signing>>

\* The owner's 9007, let in once the pieces held name its signer the owner.
ReceiveCreate(n) ==
    /\ ~created[n]
    /\ state[n] # None
    /\ state[n].g.named_owner = Start.owner
    /\ created' = [created EXCEPT ![n] = TRUE]
    /\ state' = [state EXCEPT ![n] = Fold(pieces[n], TRUE, held[n])]
    /\ UNCHANGED <<signed, held, pieces, signing>>

\* Store::insert of one state event, in its slot, and the refold after it.
TakePiece(n, k, s) ==
    /\ Replaces(s, pieces[n][k])
    /\ pieces' = [pieces EXCEPT ![n][k] = s]
    /\ state' = [state EXCEPT ![n] = Fold(pieces'[n], created[n], held[n])]
    /\ UNCHANGED <<signed, held, created>>

ReceivePiece(n) ==
    /\ \E m \in Nodes \ {n}, k \in STATE_KINDS :
        pieces[m][k] # None /\ TakePiece(n, k, pieces[m][k])
    /\ UNCHANGED signing

\* The newest event of the group n's store holds.
NewestHeld(n) ==
    LET dates == {e.at : e \in held[n]} \cup {pieces[n][k].at : k \in STATE_KINDS}
    IN CHOOSE t \in dates : \A u \in dates : u <= t

\* compaction, its first reading: the state the store folds to.  It takes no
\* fold_lock, so actions go on being accepted after it.  (Of the two queries
\* of group_events the second is of state events, which here only the holder
\* signs, one compaction at a time.)
ReadFold ==
    /\ signing = None
    /\ state[Holder].g.seq < MaxSeq
    /\ signing' = [read |-> state[Holder].g, seen |-> held[Holder],
                   snap |-> None, left |-> SignOrder]
    /\ UNCHANGED <<signed, held, pieces, created, state>>

\* Mutant: the snapshot may be dated in the second of the newest action it folds.
SignSnapshotSameSecond ==
    /\ signing # None /\ signing.snap = None
    /\ \E now \in Clocks :
        LET at == IF now > NewestHeld(Holder) THEN now ELSE NewestHeld(Holder)
        IN signing' = [signing EXCEPT !.snap = ToSnapshot(signing.read, at)]
    /\ UNCHANGED <<signed, held, pieces, created, state>>

\* compaction, its second reading: what was read is signed, dated now, or if
\* the clock is behind, a second after every event of the group held by then.
SignSnapshot ==
    /\ signing # None /\ signing.snap = None
    /\ \E now \in Clocks :
        LET at == IF now > NewestHeld(Holder) THEN now ELSE NewestHeld(Holder) + 1
        IN signing' = [signing EXCEPT !.snap = ToSnapshot(signing.read, at)]
    /\ UNCHANGED <<signed, held, pieces, created, state>>

\* compact publishes the four one by one; fold_lock is free between them.
PublishPiece ==
    /\ signing # None /\ signing.snap # None
    /\ TakePiece(Holder, Head(signing.left), signing.snap)
    /\ signing' = IF Len(signing.left) = 1 THEN None
                  ELSE [signing EXCEPT !.left = Tail(signing.left)]

\* The holder stops during a compaction and starts again: start() folds what
\* is in the store, and the rest of the snapshot is gone.
Crash ==
    /\ signing # None
    /\ signing' = None
    /\ state' = [state EXCEPT ![Holder] =
                    Fold(pieces[Holder], created[Holder], held[Holder])]
    /\ UNCHANGED <<signed, held, pieces, created>>

NNext == \/ \E n \in Nodes : ReceiveAction(n) \/ ReceiveCreate(n) \/ ReceivePiece(n)
         \/ ReadFold \/ SignSnapshot \/ PublishPiece \/ Crash

NSpec == NInit /\ [][NNext]_nvars

-----------------------------------------------------------------------------
(* Properties. *)

\* What n and m hold of the group can no longer change by exchanging it: both
\* have a state, from the same snapshot, and each refuses what only the other
\* holds.
Settled(n, m) ==
    /\ state[n] # None /\ state[m] # None
    /\ pieces[n] = pieces[m]
    /\ created[n] = created[m]
    /\ \A e \in held[n] \ held[m] : ~Accepts(m, e)
    /\ \A e \in held[m] \ held[n] : ~Accepts(n, e)

\* They know the same invites.  One that comes late is refused for what its
\* author may do by then, and with it the joins by it that others applied: the
\* one way in which settled nodes may differ.
SameInvites(n, m) == InvitesIn(held[n]) = InvitesIn(held[m])

\* The point of the fold: nodes that took the same people's actions in
\* different orders, refused different ones and hold different sets of them
\* agree, once they have exchanged what they hold and know the same invites, on
\* who is in the group, with which roles, who is banned and who is muted.
Agreement ==
    \A n, m \in Nodes :
        Settled(n, m) /\ SameInvites(n, m) => Standing(state[n].g) = Standing(state[m].g)

\* "Every peer skips the same ones" (state.rs, the fold's rule 4): settled
\* nodes that know the same invites apply the same actions, whatever else
\* either holds.
SkipTheSame ==
    \A n, m \in Nodes :
        Settled(n, m) /\ SameInvites(n, m) => state[n].applied = state[m].applied

\* A compaction changes nothing it read: at the moment the last of its four
\* events is in, none of the actions its reading saw is applied a second time,
\* and if nothing dated at or after it was accepted meanwhile, every permission
\* question has the answer it had when the fold was read.  What was accepted
\* after that reading and is dated before the snapshot is in neither, and no
\* longer counts: the property says so, and does not forbid it.
CompactionKeepsTheState ==
    [][PublishPiece /\ Len(signing.left) = 1 =>
        LET since == held[Holder] \ signing.seen
        IN /\ state'[Holder].applied \subseteq since
           /\ (\A e \in since : e.at < signing.snap.at)
                => Standing(state'[Holder].g) = Standing(signing.read)]_nvars

\* "A snapshot is all four at one seq" (docs/PROTOCOL.md), and half a group
\* is not guessed at: while the four events are published, someone banned
\* both before them and by them stays banned.
HalfASnapshotKeepsBans ==
    [][PublishPiece =>
        signing.snap.bans \cap state[Holder].g.bans \subseteq state'[Holder].g.bans]_nvars

\* "An invalid action is skipped" (state.rs, the fold's rule 4): so settled
\* nodes also silence the same people at the same times.
SilencesAgree ==
    \A n, m \in Nodes :
        Settled(n, m) =>
            \A p \in People : \A t \in {e.at : e \in signed} :
                Silenced(state[n].g, p, t) <=> Silenced(state[m].g, p, t)

=============================================================================
