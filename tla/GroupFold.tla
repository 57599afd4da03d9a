----------------------------- MODULE GroupFold ------------------------------
(***************************************************************************)
(* GroupState::fold of crates/hit-group/src/state.rs: from the events a    *)
(* node holds for a group to the group's state.                            *)
(*                                                                         *)
(* Snapshots is its first half, from the four state events held.  The rest *)
(* applies the live actions to it.  An action is a record with an `id` (a  *)
(* number, for the order of ids), its signer `by`, its date `at`, its      *)
(* `kind` and what the kind carries.                                       *)
(***************************************************************************)
EXTENDS Snapshots, Sequences

CONSTANTS MAX_ID,      \* the greatest id (32 bytes); none is 0
          MAX_SECOND   \* the greatest date (64 bits); none is 0

ASSUME FoldAssumption == MAX_ID \in Nat /\ MAX_SECOND \in Nat

-----------------------------------------------------------------------------
(* Actions. *)

EditKinds == {"name", "about", "public", "newcomer_wait", "channel", "channel-delete",
              "override", "role", "role-delete"}

\* parse_action knows e.
IsAction(e) ==
    /\ e.id \in 1..MAX_ID /\ e.at \in 1..MAX_SECOND
    /\ e.kind \in {"put", "remove", "unban", "mute", "join", "leave", "edit", "invite"}
    /\ e.kind = "edit" => /\ Len(e.edits) \in Nat
                          /\ \A n \in 1..Len(e.edits) : e.edits[n].edit \in EditKinds

\* No two events have one id.
IdsDiffer(actions) == \A d, e \in actions : d.id = e.id => d = e

-----------------------------------------------------------------------------
(* The second half: the live actions, second by second. *)

EditOk(before, g, a, e) ==
    CASE e.edit = "name" -> NameOk(before, a, e)
      [] e.edit = "about" -> AboutOk(before, a, e)
      [] e.edit = "public" -> PublicOk(before, a)
      [] e.edit = "newcomer_wait" -> NewcomerWaitOk(before, a, e)
      [] e.edit = "channel" -> ChannelOk(before, a, e)
      [] e.edit = "channel-delete" -> ChannelDeleteOk(before, g, a, e)
      [] e.edit = "override" -> OverrideOk(before, g, a, e)
      [] e.edit = "role" -> RoleOk(before, a, e)
      [] e.edit = "role-delete" -> RoleDeleteOk(before, a, e)

EditDo(g, e) ==
    CASE e.edit = "name" -> NameDo(g, e)
      [] e.edit = "about" -> AboutDo(g, e)
      [] e.edit = "public" -> PublicDo(g, e)
      [] e.edit = "newcomer_wait" -> NewcomerWaitDo(g, e)
      [] e.edit = "channel" -> ChannelDo(g, e)
      [] e.edit = "channel-delete" -> ChannelDeleteDo(g, e)
      [] e.edit = "override" -> OverrideDo(g, e)
      [] e.edit = "role" -> RoleDo(g, e)
      [] e.edit = "role-delete" -> RoleDeleteDo(g, e)

\* One more edit of the 9002 e, judged against g, the state before it, and
\* applied to what the edits before it made; one that is invalid undoes them.
EditStep(g, e, acc, n) ==
    IF acc.ok /\ EditOk(g, acc.g, e.by, e.edits[n])
    THEN [ok |-> TRUE, g |-> EditDo(acc.g, e.edits[n])] ELSE [ok |-> FALSE, g |-> g]

\* A 9002 after each number of its edits.
Edited(g, e) ==
    LET after[n \in 0..Len(e.edits)] ==
            IF n = 0 THEN [ok |-> e.by \in Members(g), g |-> g]
            ELSE EditStep(g, e, after[n - 1], n)
    IN after

\* A 9002: every edit or none.
EditAll(g, e) == Edited(g, e)[Len(e.edits)]

\* apply: whether e is valid against g, and the state it leaves -- which a
\* refused 9030 may have touched.
Apply(g, e) ==
    LET Only(ok, done) == [ok |-> ok, g |-> IF ok THEN done ELSE g]
    IN CASE e.kind = "put" -> Only(PutOk(g, e.by, e.target, e.roles),
                                   PutDo(g, e.target, e.roles, e.at))
         [] e.kind = "remove" -> Only(RemoveOk(g, e.by, e.target, e.ban),
                                      RemoveDo(g, e.target, e.ban, e.at))
         [] e.kind = "unban" -> Only(UnbanOk(g, e.by, e.target), UnbanDo(g, e.target))
         [] e.kind = "mute" ->
                IF MuteOk(g, e.by, e.target, e.until, e.at)
                THEN [ok |-> TRUE, g |-> MuteDo(g, e.target, e.until, e.at)]
                ELSE [ok |-> FALSE, g |-> IF MuteAllowed(g, e.by, e.target)
                                          THEN EndMutes(g, e.target, e.at) ELSE g]
         [] e.kind = "join" -> Only(JoinOk(g, e.by, e.code, e.at), JoinDo(g, e.by, e.at))
         [] e.kind = "leave" -> Only(LeaveOk(g, e.by), LeaveDo(g, e.by, e.at))
         [] e.kind = "edit" -> EditAll(g, e)

\* What is left of the pass over `acc` when applying e gave r.
Retain(acc, e, r) ==
    [g |-> r.g,
     applied |-> IF r.ok THEN acc.applied \cup {e} ELSE acc.applied,
     pending |-> IF r.ok THEN acc.pending ELSE acc.pending \cup {e}]

\* The pass comes to the id n.
RetainStep(pending, acc, n) ==
    IF \E e \in pending : e.id = n
    THEN LET e == CHOOSE x \in pending : x.id = n IN Retain(acc, e, Apply(acc.g, e))
    ELSE acc

\* One pass over what is pending of a second, up to each id.
PassOver(s) ==
    LET after[n \in 0..MAX_ID] ==
            IF n = 0 THEN [g |-> s.g, applied |-> s.applied, pending |-> {}]
            ELSE RetainStep(s.pending, after[n - 1], n)
    IN after

\* One pass, in the order of ids.
RetainPass(s) == PassOver(s)[MAX_ID]

\* The loop's exit: a pass applied nothing, or left nothing.
Passed(before, after) ==
    [g |-> after.g, applied |-> after.applied, pending |-> after.pending,
     done |-> after.pending = before.pending \/ after.pending = {}]

\* The loop goes round once more, or is over.
LoopStep(acc) == IF acc.done THEN acc ELSE Passed(acc, RetainPass(acc))

\* The loop of apply_second after each number of passes.  Each but the last
\* applies an action, so there are no more of them than ids.
Passes(s, second) ==
    LET after[n \in 0..MAX_ID] ==
            IF n = 0 THEN [g |-> s.g, applied |-> s.applied, pending |-> second, done |-> FALSE]
            ELSE LoopStep(after[n - 1])
    IN after

\* What the fold goes on with.
Folded(s) == [g |-> s.g, applied |-> s.applied]

\* apply_second: passes until one is the last.
ApplySecond(s, second) == Folded(Passes(s, second)[MAX_ID])

\* The fold comes to the second t: its actions, if it has any.
SecondStep(live, acc, t) ==
    LET second == {e \in live : e.at = t}
    IN IF second = {} THEN acc ELSE ApplySecond(acc, second)

\* The second half of fold after each second.
Seconds(start, live) ==
    LET after[t \in 0..MAX_SECOND] ==
            IF t = 0 THEN [g |-> start, applied |-> {}]
            ELSE SecondStep(live, after[t - 1], t)
    IN after

\* The invites are recorded, whatever their age.
InvitesIn(actions) ==
    {[code |-> e.code, author |-> e.by, at |-> e.at, expires |-> e.expires] :
        e \in {x \in actions : x.kind = "invite"}}

\* The actions the snapshot does not stand for: dated at the cutoff or after.
LiveIn(start, actions) == {e \in actions : e.kind # "invite" /\ e.at >= start.cutoff}

\* The second half of fold: the live actions, second by second.
ApplyActions(start, actions) ==
    Seconds([start EXCEPT !.invites = InvitesIn(actions)], LiveIn(start, actions))[MAX_SECOND]

\* fold: None until the four pieces are held.  `applied` is the set of the
\* actions applied; `created` says whether the named owner's 9007 is held.
Fold(pieces, created, actions) ==
    IF \E k \in STATE_KINDS : pieces[k] = None THEN None
    ELSE ApplyActions(FromPieces(pieces, created), actions)

=============================================================================
