--------------------------- MODULE AcceptPipeline ---------------------------
(***************************************************************************)
(* Inner::accept_event of crates/hit-node/src/lib.rs, the one way an event *)
(* enters a node, taken apart at its awaits: several deliveries run at     *)
(* once, and fold_lock (tokio's RwLock) is what keeps them apart.          *)
(*                                                                         *)
(*   store     the group's events in the node's database                   *)
(*   state     the fold the node judges by                                 *)
(*   seen      how many state-changing events refold_if_changed last read  *)
(*   writer    the delivery holding fold_lock for writing, or None         *)
(*   readers   the deliveries holding it for reading                       *)
(*   task      per delivery slot, None or the event, the step it is at and *)
(*             the stored messages it has found to remove                  *)
(*   left      per event, how often it may still be delivered: gossip and  *)
(*             each peer's sync bring the same event                       *)
(*   faults    deliveries cut short and crashes so far                     *)
(*   cut       a delivery was cut short after it stored a state-changing   *)
(*             event and before it purged                                  *)
(*                                                                         *)
(* A message stands for every kind of DELETABLE_KINDS.  The state changes  *)
(* delivered are the actions the fold applies; what lets in an invite, the *)
(* 9007 or a piece of a snapshot is GroupNode's.                           *)
(***************************************************************************)
EXTENDS GroupFold

CONSTANTS Tasks,          \* delivery slots: sync sessions, gossip, the app
          Start,          \* the snapshot the group is at
          Deliveries,     \* the events that may be delivered
          MaxDeliveries,  \* bound: deliveries of one event
          MaxFaults       \* bound: cut deliveries and crashes

\* What a delivery under way carries: its event, the step it is at, and the
\* stored messages it has found to remove.
Steps == {"lock", "judge", "is_deleted", "removed", "too_soon", "insert",
          "apply_deletion", "apply_removal", "refold", "purge", "remove"}
Job == [ev : Deliveries, pc : Steps, gone : SUBSET Deliveries]

ASSUME PipelineAssumption == MaxDeliveries \in Nat /\ MaxFaults \in Nat
ASSUME JobsAssumption == None \notin Tasks /\ None \notin Job
ASSUME DeliveriesAssumption == \A e \in Deliveries : e.kind # "invite"

VARIABLES store, state, seen, writer, readers, task, left, faults, cut

pvars == <<store, state, seen, writer, readers, task, left, faults, cut>>

Messages(S) == {e \in S : e.kind = "message"}

\* changes_state: the kinds the fold reads.
ChangesState(e) == e.kind \notin {"message", "deletion", "delete_event"}

Actions(S) == {e \in S : ChangesState(e)}

FoldOf(S) == Fold([k \in STATE_KINDS |-> Start], TRUE, Actions(S))

PInit ==
    /\ store = {}
    /\ state = FoldOf({})
    /\ seen = None
    /\ writer = None /\ readers = {}
    /\ task = [t \in Tasks |-> None]
    /\ left = [e \in Deliveries |-> MaxDeliveries]
    /\ faults = 0
    /\ cut = FALSE

-----------------------------------------------------------------------------
(* The steps of one delivery. *)

\* t is at step `pc`.
At(t, pc) == task[t] # None /\ task[t].pc = pc

GoTo(t, pc) == task' = [task EXCEPT ![t].pc = pc]

\* Mutant: the guard of a refused or stored event outlives its delivery.
ReturnLocked(t) ==
    /\ task' = [task EXCEPT ![t] = None]
    /\ UNCHANGED <<writer, readers>>

\* The verdict is returned; the guard of fold_lock is dropped.
Return(t) ==
    /\ task' = [task EXCEPT ![t] = None]
    /\ writer' = IF writer = t THEN None ELSE writer
    /\ readers' = readers \ {t}

Locked == UNCHANGED <<writer, readers>>

Deliver(t) ==
    /\ task[t] = None
    /\ \E e \in Deliveries :
        /\ left[e] > 0
        /\ left' = [left EXCEPT ![e] = @ - 1]
        /\ task' = [task EXCEPT ![t] = [ev |-> e, pc |-> "lock", gone |-> {}]]
    /\ UNCHANGED <<store, state, seen, writer, readers, faults, cut>>

\* Mutant: only a state-changing event takes the lock.
LockWritersOnly(t) ==
    /\ At(t, "lock")
    /\ IF ChangesState(task[t].ev)
       THEN writer = None /\ readers = {} /\ writer' = t /\ UNCHANGED readers
       ELSE UNCHANGED <<writer, readers>>
    /\ GoTo(t, "judge")
    /\ UNCHANGED <<store, state, seen, left, faults, cut>>

Lock(t) ==
    /\ At(t, "lock")
    /\ writer = None
    /\ IF ChangesState(task[t].ev)
       THEN readers = {} /\ writer' = t /\ UNCHANGED readers
       ELSE readers' = readers \cup {t} /\ UNCHANGED writer
    /\ GoTo(t, "judge")
    /\ UNCHANGED <<store, state, seen, left, faults, cut>>

\* Groups::judge, and for an action the fold with everything stored.
Judged(e) ==
    CASE e.kind = "message" -> JudgeMessage(state.g, e.by, e.channel, e.at)
      [] e.kind = "deletion" -> JudgeInChannel(state.g, e.by, e.channel, {"VIEW_CHANNEL"})
      [] e.kind = "delete_event" ->
            JudgeInChannel(state.g, e.by, e.channel, {"VIEW_CHANNEL", "MANAGE_MESSAGES"})
      [] ChangesState(e) -> /\ e.at >= state.g.cutoff
                            /\ e \in FoldOf(store \cup {e}).applied

Judge(t) ==
    /\ At(t, "judge")
    /\ IF Judged(task[t].ev)
       THEN GoTo(t, IF task[t].ev.kind = "message" THEN "is_deleted" ELSE "insert") /\ Locked
       ELSE Return(t)
    /\ UNCHANGED <<store, state, seen, left, faults, cut>>

\* Store::is_deleted: its author withdrew it.
IsDeleted(m) == \E d \in store : d.kind = "deletion" /\ m.id \in d.targets /\ d.by = m.by

CheckDeleted(t) ==
    /\ At(t, "is_deleted")
    /\ IF IsDeleted(task[t].ev) THEN Return(t) ELSE GoTo(t, "removed") /\ Locked
    /\ UNCHANGED <<store, state, seen, left, faults, cut>>

\* removed_by_moderator: a 9005 held names it, in its channel.
RemovedByModerator(m) ==
    \E d \in store : d.kind = "delete_event" /\ m.id \in d.targets /\ d.channel = m.channel

CheckRemoved(t) ==
    /\ At(t, "removed")
    /\ IF RemovedByModerator(task[t].ev) THEN Return(t) ELSE GoTo(t, "too_soon") /\ Locked
    /\ UNCHANGED <<store, state, seen, left, faults, cut>>

\* too_soon: another message of its author in its channel, closer than the
\* slowmode (0: none).
TooSoon(m) ==
    \E x \in Messages(store) :
        /\ x # m /\ x.by = m.by /\ x.channel = m.channel
        /\ LET wait == state.g.channels[m.channel].slowmode
           IN x.at - m.at < wait /\ m.at - x.at < wait

CheckSlowmode(t) ==
    /\ At(t, "too_soon")
    /\ IF TooSoon(task[t].ev) THEN Return(t) ELSE GoTo(t, "insert") /\ Locked
    /\ UNCHANGED <<store, state, seen, left, faults, cut>>

\* Store::insert: a duplicate has no further effect.
StoreInsert(t) ==
    LET e == task[t].ev IN
    /\ At(t, "insert")
    /\ store' = store \cup {e}
    /\ IF e \in store \/ e.kind = "message" THEN Return(t)
       ELSE /\ Locked
            /\ GoTo(t, CASE e.kind = "deletion" -> "apply_deletion"
                         [] e.kind = "delete_event" -> "apply_removal"
                         [] ChangesState(e) -> "refold")
    /\ UNCHANGED <<state, seen, left, faults, cut>>

\* Store::apply_deletion, one transaction: its author's own targets go.
ApplyDeletion(t) ==
    LET d == task[t].ev IN
    /\ At(t, "apply_deletion")
    /\ store' = store \ {m \in Messages(store) : m.id \in d.targets /\ m.by = d.by}
    /\ Return(t)
    /\ UNCHANGED <<state, seen, left, faults, cut>>

\* Mutant: a 9005 removes its targets in every channel.
ApplyRemovalAnywhere(t) ==
    LET d == task[t].ev IN
    /\ At(t, "apply_removal")
    /\ task' = [task EXCEPT ![t] = [ev |-> d, pc |-> "remove",
                                    gone |-> {m \in Messages(store) : m.id \in d.targets}]]
    /\ UNCHANGED <<store, state, seen, writer, readers, left, faults, cut>>

\* apply_removal reads the targets held, then removes those in its channel.
ApplyRemoval(t) ==
    LET d == task[t].ev IN
    /\ At(t, "apply_removal")
    /\ task' = [task EXCEPT ![t] = [ev |-> d, pc |-> "remove",
            gone |-> {m \in Messages(store) : m.id \in d.targets /\ m.channel = d.channel}]]
    /\ UNCHANGED <<store, state, seen, writer, readers, left, faults, cut>>

Refold(t) ==
    /\ At(t, "refold")
    /\ state' = FoldOf(store)
    /\ GoTo(t, "purge")
    /\ UNCHANGED <<store, seen, writer, readers, left, faults, cut>>

\* What the silences of `st` say should not be here.
SilencedIn(S, st) == {m \in Messages(S) : Silenced(st.g, m.by, m.at)}

\* purge_silenced reads what each silence covers, then removes it.
Purge(t) ==
    /\ At(t, "purge")
    /\ task' = [task EXCEPT ![t] = [ev |-> task[t].ev, pc |-> "remove",
                                    gone |-> SilencedIn(store, state)]]
    /\ UNCHANGED <<store, state, seen, writer, readers, left, faults, cut>>

\* Store::remove, one transaction.
RemoveFound(t) ==
    /\ At(t, "remove")
    /\ store' = store \ task[t].gone
    /\ Return(t)
    /\ cut' = (cut /\ ~ChangesState(task[t].ev))
    /\ UNCHANGED <<state, seen, left, faults>>

TaskStep(t) == \/ Lock(t) \/ Judge(t) \/ CheckDeleted(t) \/ CheckRemoved(t)
               \/ CheckSlowmode(t) \/ StoreInsert(t) \/ ApplyDeletion(t)
               \/ ApplyRemoval(t) \/ Refold(t) \/ Purge(t) \/ RemoveFound(t)

-----------------------------------------------------------------------------
(* What else happens to the node. *)

HalfDone(t) == task[t] # None /\ ChangesState(task[t].ev)
               /\ task[t].pc \in {"refold", "purge", "remove"}

\* The sync loop's SYNC_TIMEOUT drops a delivery at an await, lock and all.
Cancel(t) ==
    /\ task[t] # None
    /\ faults < MaxFaults
    /\ faults' = faults + 1
    /\ Return(t)
    /\ cut' = (cut \/ HalfDone(t))
    /\ UNCHANGED <<store, state, seen, left>>

\* The process dies and starts again: start() folds what is stored.
Restart ==
    /\ faults < MaxFaults
    /\ faults' = faults + 1
    /\ task' = [t \in Tasks |-> None]
    /\ writer' = None /\ readers' = {}
    /\ state' = FoldOf(store)
    /\ seen' = None
    /\ cut' = (cut \/ \E t \in Tasks : HalfDone(t))
    /\ UNCHANGED <<store, left>>

\* refold_if_changed, a pass of the sync loop, under fold_lock for writing
\* throughout: it compares how many events there are with how many there
\* were, and takes the first look after a start for current.
RefoldIfChanged ==
    LET count == Cardinality(Actions(store)) IN
    /\ writer = None /\ readers = {}
    /\ seen # count
    /\ seen' = count
    /\ IF seen = None THEN UNCHANGED <<store, state, cut>>
       ELSE /\ state' = FoldOf(store)
            /\ store' = store \ SilencedIn(store, state')
            /\ cut' = FALSE
    /\ UNCHANGED <<writer, readers, task, left, faults>>

PNext == \/ \E t \in Tasks : Deliver(t) \/ TaskStep(t) \/ Cancel(t)
         \/ Restart \/ RefoldIfChanged

\* t is under way and waits for nobody: TaskStep(t) can be taken.
Ready(t) == /\ task[t] # None
            /\ task[t].pc = "lock" =>
                 writer = None /\ (ChangesState(task[t].ev) => readers = {})

\* Weak fairness of every delivery: the runtime polls it until it returns.
\* Nothing says that an event is delivered, nor that the sync loop runs.
PSpec == /\ PInit /\ [][PNext]_pvars
         /\ \A t \in Tasks : []<>~Ready(t) \/ []<><<TaskStep(t)>>_pvars

-----------------------------------------------------------------------------
(* Properties. *)

\* What fold_lock is for (the comment at fold_lock): unless a delivery was
\* cut short, whenever no state change is under way nothing is stored that
\* was said inside a silence, however a ban and the banned person's messages
\* were interleaved, and the node judges by the fold of what it stores.
NothingSilencedIsKept ==
    writer = None /\ ~cut => state = FoldOf(store) /\ SilencedIn(store, state) = {}

\* A message leaves the store only for a reason held there: its own author's
\* withdrawal, a moderator's removal in its own channel, or a silence.
NothingGoesWithoutCause ==
    [][\A m \in Messages(store) \ store' :
        \/ IsDeleted(m)
        \/ RemovedByModerator(m)
        \/ m \in SilencedIn(store, FoldOf(store))]_pvars

\* Nobody waits on everybody: each delivery returns, so fold_lock comes free.
EveryDeliveryReturns ==
    \A t \in Tasks : task[t] # None ~> task[t] = None

\* Store::is_deleted: "A deletion held for it means the event is refused,
\* whichever arrived first."  With no delivery under way, nothing withdrawn
\* is stored.
WithdrawnStaysOut ==
    (\A t \in Tasks : task[t] = None) => \A m \in Messages(store) : ~IsDeleted(m)

=============================================================================
