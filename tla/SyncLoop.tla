------------------------------ MODULE SyncLoop ------------------------------
(***************************************************************************)
(* Node::spawn_sync_loop (crates/hit-node/src/lib.rs): which device the    *)
(* node syncs with, and when.  Time is counted in passes of the loop, one  *)
(* every `every`.                                                          *)
(*                                                                         *)
(*   at        the loop's place: "drain", "spawn" or "sleep"               *)
(*   targets   what sync_targets answers: devices of people a group is     *)
(*             shared with, hints and inbox anchors, never our own         *)
(*   wait      per device, its backoff in passes (None: no entry)          *)
(*   due       per device, passes until it may be tried (None: no entry)   *)
(*   busy      the devices the loop has a task for                         *)
(*   running   per device, the sync tasks under way                        *)
(*   reports   what tasks sent and the loop has not read: (device, ok)     *)
(*   heard     devices that completed a hello since the loop last looked   *)
(***************************************************************************)
EXTENDS NodeBase

CONSTANTS Peers,        \* the devices there are
          MAX_BACKOFF   \* five minutes, in passes

ASSUME BackoffAssumption == MAX_BACKOFF \in Nat \ {0}

VARIABLES at, targets, wait, due, busy, running, reports, heard

lvars == <<at, targets, wait, due, busy, running, reports, heard>>

LInit ==
    /\ at = "drain"
    /\ targets \in SUBSET Peers
    /\ wait = [d \in Peers |-> None] /\ due = [d \in Peers |-> None]
    /\ busy = {}
    /\ running = [d \in Peers |-> 0]
    /\ reports = {}
    /\ heard = {}

\* Twice the wait, between one pass and the longest backoff.
Doubled(w) == Lesser(Greater(2 * (IF w = None THEN 0 ELSE w), 1), MAX_BACKOFF)

NewWait(d, ok) == IF ok THEN 0 ELSE Doubled(wait[d])

\* Mutant: a device heard from is tried again although its task runs.
DrainForgets ==
    /\ at = "drain"
    /\ wait' = [d \in Peers |-> IF d \in heard THEN None ELSE wait[d]]
    /\ due' = [d \in Peers |-> IF d \in heard THEN None ELSE due[d]]
    /\ busy' = busy \ ({r[1] : r \in reports} \cup heard)
    /\ reports' = {} /\ heard' = {}
    /\ at' = "spawn"
    /\ UNCHANGED <<targets, running>>

\* Mutant: only a success frees the device.
DrainSuccessOnly ==
    /\ at = "drain"
    /\ wait' = [d \in Peers |-> IF <<d, TRUE>> \in reports THEN 0 ELSE wait[d]]
    /\ due' = [d \in Peers |-> IF <<d, TRUE>> \in reports THEN 1 ELSE due[d]]
    /\ busy' = busy \ {d \in Peers : <<d, TRUE>> \in reports}
    /\ reports' = {} /\ heard' = {}
    /\ at' = "spawn"
    /\ UNCHANGED <<targets, running>>

\* What the tasks reported is read first, then who was heard from: their
\* backoff goes, whatever was just read.
Drain ==
    LET reported == {r[1] : r \in reports}
        result(d) == CHOOSE r \in reports : r[1] = d
    IN
    /\ at = "drain"
    /\ wait' = [d \in Peers |->
            IF d \in heard THEN None
            ELSE IF d \in reported THEN NewWait(d, result(d)[2]) ELSE wait[d]]
    /\ due' = [d \in Peers |->
            IF d \in heard THEN None
            ELSE IF d \in reported THEN Greater(NewWait(d, result(d)[2]), 1) ELSE due[d]]
    /\ busy' = busy \ reported
    /\ reports' = {} /\ heard' = {}
    /\ at' = "spawn"
    /\ UNCHANGED <<targets, running>>

\* A task for every target that has none and is not waiting.
Spawn ==
    LET start == {d \in targets \ busy : due[d] = None \/ due[d] = 0} IN
    /\ at = "spawn"
    /\ busy' = busy \cup start
    /\ running' = [d \in Peers |-> running[d] + (IF d \in start THEN 1 ELSE 0)]
    /\ at' = "sleep"
    /\ UNCHANGED <<targets, wait, due, reports, heard>>

Sleep ==
    /\ at = "sleep"
    /\ at' = "drain"
    /\ due' = [d \in Peers |-> IF due[d] \in {None, 0} THEN due[d] ELSE due[d] - 1]
    /\ UNCHANGED <<targets, wait, busy, running, reports, heard>>

Pass == Drain \/ Spawn \/ Sleep

\* Between drain and spawn the loop reads inbox lists, refolds, renews and
\* expires, and all the while bindings come and lapse and people join and
\* leave: a device becomes a target, or stops being one.
Retarget(d) ==
    /\ targets' = IF d \in targets THEN targets \ {d} ELSE targets \cup {d}
    /\ UNCHANGED <<at, wait, due, busy, running, reports, heard>>

\* The task's dial gets as far as the hello (open), or the device's own
\* dial does (serve).
HeardFrom(d) ==
    /\ heard' = heard \cup {d}
    /\ UNCHANGED <<at, targets, wait, due, busy, running, reports>>

\* The sync ends: done, failed, or cut off by SYNC_TIMEOUT.
SyncEnds(d) ==
    /\ running[d] > 0
    /\ running' = [running EXCEPT ![d] = @ - 1]
    /\ \E ok \in BOOLEAN : reports' = reports \cup {<<d, ok>>}
    /\ UNCHANGED <<at, targets, wait, due, busy, heard>>

LNext == Pass \/ \E d \in Peers : Retarget(d) \/ HeardFrom(d) \/ SyncEnds(d)

\* The loop is polled, and SYNC_TIMEOUT ends every task.
LFairness == WF_lvars(Pass) /\ \A d \in Peers : WF_lvars(SyncEnds(d))

LSpec == LInit /\ [][LNext]_lvars /\ LFairness

-----------------------------------------------------------------------------
(* Properties. *)

\* However reports and hellos cross the loop's passes, a device has one sync
\* at a time, and the loop's busy set is exactly the devices that have one
\* under way or just reported.
OneSyncAtATime ==
    \A d \in Peers :
        running[d] + Cardinality({r \in reports : r[1] = d}) = (IF d \in busy THEN 1 ELSE 0)

\* "Syncs with every target every `every`, forever": a device that stays a
\* target is synced with again and again, however often it failed.
EveryTargetIsTried ==
    \A d \in Peers : <>[](d \in targets) => []<>(running[d] > 0)

=============================================================================
