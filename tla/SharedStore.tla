----------------------------- MODULE SharedStore -----------------------------
(***************************************************************************)
(* Two processes on one database: a running node, and the command line     *)
(* (crates/hit-cli/src/main.rs), which signs into node.db while `run`      *)
(* serves it.  The node judges by the state it folded; its sync loop's     *)
(* refold_if_changed (crates/hit-node/src/lib.rs) is what makes it see     *)
(* what the other process wrote, by comparing counts.                      *)
(*                                                                         *)
(*   disk      per group, the actions stored and the snapshot's version    *)
(*   carriedOn the groups the carried_groups table names                   *)
(*   serving   the groups the running node carries in memory               *)
(*   fold      per group, what the node's state was folded from            *)
(*   folded    per group, the count the last look recorded (None: no look) *)
(*   command   the command between its judgement and its insert, or None   *)
(*   unseen    the groups with a write since the node's last look          *)
(*   hidden    history: the groups with a write no count tells of          *)
(***************************************************************************)
EXTENDS NodeBase

CONSTANTS Groups,        \* the groups there may be
          Made,          \* those made before the node started
          Acts,          \* the actions that may be signed into a group
          MaxCompactions \* bound: compactions of one group

ASSUME StoreConstants == Made \subseteq Groups /\ MaxCompactions \in Nat

VARIABLES disk, carriedOn, serving, fold, folded, command, unseen, hidden

hvars == <<disk, carriedOn, serving, fold, folded, command, unseen, hidden>>

Absent == [acts |-> {}, seq |-> 0]
New == [acts |-> {}, seq |-> 1]

\* group_events counts the snapshot's three events and every action.
Count(v) == IF v.seq = 0 THEN 0 ELSE 3 + Cardinality(v.acts)

HInit ==
    /\ disk = [g \in Groups |-> IF g \in Made THEN New ELSE Absent]
    /\ carriedOn = Made /\ serving = Made
    /\ fold = disk
    /\ folded = [g \in Groups |-> None]
    /\ command = None
    /\ unseen = {} /\ hidden = {}

\* What a write means for the node: a write the count does not tell of, and
\* any write before the first look, stays hidden until something refolds.
Written(g, v) ==
    /\ disk' = [disk EXCEPT ![g] = v]
    /\ unseen' = unseen \cup {g}
    /\ hidden' = IF folded[g] = None \/ Count(v) = Count(disk[g])
                 THEN hidden \cup {g} ELSE hidden

\* The command line judges what it signs by a fold of its own ...
JudgeOffline(g, a) ==
    /\ command = None
    /\ g \in carriedOn /\ a \notin disk[g].acts
    /\ command' = [group |-> g, act |-> a]
    /\ UNCHANGED <<disk, carriedOn, serving, fold, folded, unseen, hidden>>

\* ... and stores it; the node may have written between the two.
InsertOffline ==
    /\ command # None
    /\ LET v == disk[command.group]
       IN  Written(command.group, [v EXCEPT !.acts = @ \cup {command.act}])
    /\ command' = None
    /\ UNCHANGED <<carriedOn, serving, fold, folded>>

\* compact replaces the snapshot's events in place.
CompactOffline(g) ==
    /\ command = None
    /\ g \in carriedOn /\ disk[g].seq \in 1..MaxCompactions
    /\ Written(g, [disk[g] EXCEPT !.seq = @ + 1])
    /\ UNCHANGED <<carriedOn, serving, fold, folded, command>>

\* group create: the table, then the genesis.  The running node carries
\* what it read at its start, so it does not look at this group.
CreateOffline(g) ==
    /\ command = None
    /\ g \notin carriedOn
    /\ carriedOn' = carriedOn \cup {g}
    /\ Written(g, New)
    /\ UNCHANGED <<serving, fold, folded, command>>

\* Mutant: the node adds what it took to its fold, and counts the store.
NodeAcceptsAdds(g, a) ==
    /\ g \in serving /\ a \notin disk[g].acts
    /\ disk' = [disk EXCEPT ![g].acts = @ \cup {a}]
    /\ fold' = [fold EXCEPT ![g].acts = @ \cup {a}]
    /\ folded' = [folded EXCEPT ![g] = Count(disk'[g])]
    /\ UNCHANGED <<carriedOn, serving, command, unseen, hidden>>

\* The node takes an action: stored, and refolded from the store at once.
NodeAccepts(g, a) ==
    /\ g \in serving /\ a \notin disk[g].acts
    /\ disk' = [disk EXCEPT ![g].acts = @ \cup {a}]
    /\ fold' = [fold EXCEPT ![g] = disk'[g]]
    /\ hidden' = hidden \ {g}
    /\ unseen' = unseen \ {g}
    /\ UNCHANGED <<carriedOn, serving, folded, command>>

\* refold_if_changed for one carried group, under the write lock.
RefoldChanged(g) ==
    /\ g \in serving
    /\ folded[g] # Count(disk[g]) \/ g \in unseen
    /\ folded' = [folded EXCEPT ![g] = Count(disk[g])]
    /\ fold' = IF folded[g] \in {None, Count(disk[g])} THEN fold
               ELSE [fold EXCEPT ![g] = disk[g]]
    /\ hidden' = IF fold'[g] = disk[g] THEN hidden \ {g} ELSE hidden
    /\ unseen' = unseen \ {g}
    /\ UNCHANGED <<disk, carriedOn, serving, command>>

\* A restart carries and folds what the disk holds.
RestartRun ==
    /\ serving' = carriedOn
    /\ fold' = [g \in Groups |-> IF g \in carriedOn THEN disk[g] ELSE fold[g]]
    /\ folded' = [g \in Groups |-> None]
    /\ unseen' = {} /\ hidden' = {}
    /\ UNCHANGED <<disk, carriedOn, command>>

HNext ==
    \/ \E g \in Groups, a \in Acts : JudgeOffline(g, a) \/ NodeAccepts(g, a)
    \/ InsertOffline
    \/ \E g \in Groups : CompactOffline(g) \/ CreateOffline(g) \/ RefoldChanged(g)
    \/ RestartRun

HSpec == HInit /\ [][HNext]_hvars

(***************************************************************************)
(* What the command line wrote is judged by after the loop's next look.    *)
(***************************************************************************)
\* For a carried group that has been looked at since the last write, the
\* node's state is folded from what the disk holds, except for the two
\* kinds of write refold_if_changed cannot tell: one that replaces events
\* without changing their number, and one between the node's start and the
\* first look.
LooksFindWrites ==
    \A g \in serving :
        fold[g] # disk[g] => g \in unseen \cup hidden
=============================================================================
