--------------------------- MODULE PipelineProofs ---------------------------
(***************************************************************************)
(* A node's intake (AcceptPipeline), for every number of deliveries at     *)
(* once, every set of events and every snapshot the group starts from.     *)
(* The fold stays opaque: all that is used of it is that it reads the      *)
(* state-changing events of the store and nothing else.                    *)
(***************************************************************************)
EXTENDS AcceptPipeline, TLAPS

(***************************************************************************)
(* The inductive invariant.                                                *)
(***************************************************************************)
PTypes ==
    /\ store \subseteq Deliveries
    /\ task \in [Tasks -> Job \cup {None}]
    /\ writer \in Tasks \cup {None}
    /\ readers \subseteq Tasks
    /\ cut \in BOOLEAN

\* fold_lock: a writer is alone.
Exclusive == writer # None => readers = {}

\* A delivery past its lock holds it, in the mode its event needs.
HoldsLock(u, k, w, rs) ==
    k.pc # "lock" => IF ChangesState(k.ev) THEN w = u ELSE u \in rs

\* The messages a 9005 may remove.
Named(d) == {m \in Deliveries : /\ m.kind = "message" /\ m.id \in d.targets
                                /\ m.channel = d.channel}

\* The step a delivery is at fits its event, and what it removes by is held.
Fits(k, S) ==
    /\ k.pc \in {"refold", "purge"} => ChangesState(k.ev)
    /\ k.pc \in {"is_deleted", "removed", "too_soon"} => k.ev.kind = "message"
    /\ k.pc = "apply_deletion" => k.ev.kind = "deletion" /\ k.ev \in S
    /\ k.pc = "apply_removal" => k.ev.kind = "delete_event" /\ k.ev \in S
    /\ k.pc = "remove" => \/ ChangesState(k.ev)
                          \/ /\ k.ev.kind = "delete_event" /\ k.ev \in S
                             /\ k.gone \subseteq Named(k.ev)

\* A message past judge is still said outside every silence.
StillHeard(k, st) ==
    k.ev.kind = "message" /\ k.pc \notin {"lock", "judge"}
        => ~Silenced(st.g, k.ev.by, k.ev.at)

\* Past its refold, a state change has folded what is stored; past the look
\* of its purge, it has found what that fold silences.
Refolded(k, S, st) ==
    ChangesState(k.ev) => /\ k.pc \in {"purge", "remove"} => st = FoldOf(S)
                          /\ k.pc = "remove" => k.gone = SilencedIn(S, st)

JobOk(u, k, S, st, w, rs) ==
    k # None => /\ HoldsLock(u, k, w, rs) /\ Fits(k, S)
                /\ StillHeard(k, st) /\ Refolded(k, S, st)

Settled(S, st) == st = FoldOf(S) /\ SilencedIn(S, st) = {}

\* Nothing silenced is stored unless a state change is half done, or was cut
\* short half done.
KeptClean == ~cut /\ (\A t \in Tasks : ~HalfDone(t)) => Settled(store, state)

PInv == /\ PTypes /\ Exclusive
        /\ \A u \in Tasks : JobOk(u, task[u], store, state, writer, readers)
        /\ KeptClean

(***************************************************************************)
(* The fold reads the state-changing events alone.                         *)
(***************************************************************************)
\* Two stores with the same state-changing events fold to one state.
LEMMA SameFold ==
    ASSUME NEW S, NEW T, Actions(S) = Actions(T)
    PROVE  FoldOf(S) = FoldOf(T)
  BY DEF FoldOf

\* Taking messages out of the store leaves its fold as it was.
LEMMA FoldWithoutMessages ==
    ASSUME NEW S, NEW D, D \subseteq Messages(S)
    PROVE  FoldOf(S \ D) = FoldOf(S)
  <1>1. Actions(S \ D) = Actions(S)
    BY DEF Actions, Messages, ChangesState
  <1> QED BY <1>1, SameFold

\* So does storing an event that changes no state.
LEMMA FoldWithOneMore ==
    ASSUME NEW S, NEW e, ~ChangesState(e)
    PROVE  FoldOf(S \cup {e}) = FoldOf(S)
  <1>1. Actions(S \cup {e}) = Actions(S)
    BY DEF Actions
  <1> QED BY <1>1, SameFold

\* A clean store stays clean when messages leave it.
LEMMA SettledWithoutMessages ==
    ASSUME NEW S, NEW D, NEW st, D \subseteq Messages(S), Settled(S, st)
    PROVE  Settled(S \ D, st)
  BY FoldWithoutMessages DEF Settled, SilencedIn, Messages

\* A clean store stays clean when an event that changes no state enters it,
\* a message only if no silence covers it.
LEMMA SettledWithOneMore ==
    ASSUME NEW S, NEW e, NEW st, Settled(S, st), ~ChangesState(e),
           e.kind = "message" => ~Silenced(st.g, e.by, e.at)
    PROVE  Settled(S \cup {e}, st)
  <1>1. FoldOf(S \cup {e}) = FoldOf(S)
    BY FoldWithOneMore
  <1>2. SilencedIn(S \cup {e}, st) = {}
    BY DEF Settled, SilencedIn, Messages
  <1> QED BY <1>1, <1>2 DEF Settled

\* Purging what the fold of a store silences leaves a clean store.
LEMMA SettledByPurge ==
    ASSUME NEW S, NEW st, st = FoldOf(S)
    PROVE  Settled(S \ SilencedIn(S, st), st)
  <1>1. SilencedIn(S, st) \subseteq Messages(S)
    BY DEF SilencedIn
  <1>2. FoldOf(S \ SilencedIn(S, st)) = FoldOf(S)
    BY <1>1, FoldWithoutMessages
  <1>3. SilencedIn(S \ SilencedIn(S, st), st) = {}
    BY DEF SilencedIn, Messages
  <1> QED BY <1>2, <1>3 DEF Settled

(***************************************************************************)
(* What one delivery's step leaves of the others'.                         *)
(***************************************************************************)
\* While the store and the fold stay and a delivery keeps its lock, it keeps
\* what it relies on.
LEMMA KeepsJob ==
    ASSUME NEW u, NEW k, NEW S, NEW st, NEW w, NEW rs, NEW w2, NEW rs2,
           JobOk(u, k, S, st, w, rs), w = u => w2 = u, u \in rs => u \in rs2
    PROVE  JobOk(u, k, S, st, w2, rs2)
  BY DEF JobOk, HoldsLock

\* A delivery that is not the writer keeps what it relies on when no event
\* but messages leaves the store.
LEMMA KeepsJobOfStore ==
    ASSUME NEW u, NEW k, NEW S, NEW T, NEW st, NEW w, NEW rs, NEW w2, NEW rs2,
           JobOk(u, k, S, st, w, rs), w # u, u \in rs => u \in rs2,
           \A e \in S : e \in T \/ e.kind = "message"
    PROVE  JobOk(u, k, T, st, w2, rs2)
  <1> SUFFICES ASSUME k # None
               PROVE  /\ HoldsLock(u, k, w2, rs2) /\ Fits(k, T)
                      /\ StillHeard(k, st) /\ Refolded(k, T, st)
    BY DEF JobOk
  <1>1. /\ HoldsLock(u, k, w, rs) /\ Fits(k, S) /\ StillHeard(k, st)
    BY DEF JobOk
  <1>2. HoldsLock(u, k, w2, rs2)
    BY <1>1 DEF HoldsLock
  <1>3. Fits(k, T)
    BY <1>1 DEF Fits
  <1>4. Refolded(k, T, st)
    BY <1>1 DEF Refolded, HoldsLock
  <1> QED BY <1>1, <1>2, <1>3, <1>4

\* A delivery that holds no lock relies on nothing.
LEMMA WaitingJob ==
    ASSUME NEW u, NEW k, NEW S, NEW st, NEW w, NEW rs, NEW T, NEW st2, NEW w2, NEW rs2,
           JobOk(u, k, S, st, w, rs), w # u, u \notin rs
    PROVE  JobOk(u, k, T, st2, w2, rs2)
  <1> SUFFICES ASSUME k # None
               PROVE  JobOk(u, k, T, st2, w2, rs2)
    BY DEF JobOk
  <1>1. k.pc = "lock"
    BY DEF JobOk, HoldsLock
  <1> QED BY <1>1 DEF JobOk, HoldsLock, Fits, StillHeard, Refolded

\* A step of delivery t that does not refold leaves every other delivery
\* what it relies on: t holds the lock if it touches the store, so the other
\* is not the writer then.
LEMMA OthersKeep ==
    ASSUME PInv, NEW t \in Tasks, NEW u \in Tasks, u # t,
           state' = state, task'[u] = task[u],
           writer = u => writer' = u, u \in readers => u \in readers',
           \/ store' = store
           \/ /\ task[t] # None /\ task[t].pc # "lock"
              /\ \A e \in store : e \in store' \/ e.kind = "message"
    PROVE  JobOk(u, task'[u], store', state', writer', readers')
  <1>1. JobOk(u, task[u], store, state, writer, readers)
    BY DEF PInv
  <1>2. CASE store' = store
    BY <1>1, <1>2, KeepsJob
  <1>3. CASE /\ task[t] # None /\ task[t].pc # "lock"
             /\ \A e \in store : e \in store' \/ e.kind = "message"
    <2>1. JobOk(t, task[t], store, state, writer, readers) /\ Exclusive
      BY DEF PInv
    <2>2. writer = t \/ t \in readers
      BY <1>3, <2>1 DEF JobOk, HoldsLock
    <2>3. writer # u
      BY <2>1, <2>2, JobsAssumption DEF Exclusive
    <2> QED BY <1>1, <1>3, <2>3, KeepsJobOfStore
  <1> QED BY <1>2, <1>3

\* A step of a delivery that is not half done keeps the store clean if it
\* keeps a clean store clean.
LEMMA CalmStep ==
    ASSUME PInv, NEW t \in Tasks, ~HalfDone(t), cut' = cut,
           \A u \in Tasks \ {t} : task'[u] = task[u],
           Settled(store, state) => Settled(store', state')
    PROVE  KeptClean'
  <1> SUFFICES ASSUME ~cut', \A u \in Tasks : ~HalfDone(u)'
               PROVE  Settled(store', state')
    BY DEF KeptClean, Settled
  <1>1. \A u \in Tasks : ~HalfDone(u)
    BY DEF HalfDone
  <1> QED BY <1>1 DEF PInv, KeptClean

\* A delivery that ends or is dropped has nothing left to rely on.
LEMMA Returned ==
    ASSUME PInv, NEW t \in Tasks, Return(t), state' = state,
           \/ store' = store
           \/ /\ task[t] # None /\ task[t].pc # "lock"
              /\ \A e \in store : e \in store' \/ e.kind = "message"
    PROVE  /\ task' \in [Tasks -> Job \cup {None}]
           /\ writer' \in Tasks \cup {None} /\ readers' \subseteq Tasks
           /\ Exclusive'
           /\ \A u \in Tasks \ {t} : task'[u] = task[u]
           /\ task'[t] = None
           /\ \A u \in Tasks : JobOk(u, task'[u], store', state', writer', readers')
  <1>1. /\ task' \in [Tasks -> Job \cup {None}]
        /\ writer' \in Tasks \cup {None} /\ readers' \subseteq Tasks
        /\ \A u \in Tasks \ {t} : task'[u] = task[u]
        /\ task'[t] = None
    BY DEF PInv, PTypes, Return
  <1>2. Exclusive'
    BY DEF PInv, Exclusive, Return
  <1>3. ASSUME NEW u \in Tasks
        PROVE  JobOk(u, task'[u], store', state', writer', readers')
    <2>1. CASE u = t
      BY <1>1, <2>1 DEF JobOk
    <2>2. CASE u # t
      <3>1. (writer = u => writer' = u) /\ (u \in readers => u \in readers')
        BY <2>2 DEF Return
      <3>2. task'[u] = task[u]
        BY <1>1, <2>2
      <3> QED BY <2>2, <3>1, <3>2, OthersKeep
    <2> QED BY <2>1, <2>2
  <1> QED BY <1>1, <1>2, <1>3

\* A delivery that goes on under its lock: what is left to show is what it
\* relies on itself.
LEMMA WentOn ==
    ASSUME PInv, NEW t \in Tasks, NEW k \in Job, task' = [task EXCEPT ![t] = k],
           Locked, state' = state,
           \/ store' = store
           \/ /\ task[t] # None /\ task[t].pc # "lock"
              /\ \A e \in store : e \in store' \/ e.kind = "message",
           JobOk(t, k, store', state', writer', readers')
    PROVE  /\ task' \in [Tasks -> Job \cup {None}]
           /\ writer' \in Tasks \cup {None} /\ readers' \subseteq Tasks
           /\ Exclusive'
           /\ \A u \in Tasks \ {t} : task'[u] = task[u]
           /\ task'[t] = k
           /\ \A u \in Tasks : JobOk(u, task'[u], store', state', writer', readers')
  <1>1. /\ task' \in [Tasks -> Job \cup {None}]
        /\ writer' \in Tasks \cup {None} /\ readers' \subseteq Tasks
        /\ \A u \in Tasks \ {t} : task'[u] = task[u]
        /\ task'[t] = k
    BY DEF PInv, PTypes, Locked
  <1>2. Exclusive'
    BY DEF PInv, Exclusive, Locked
  <1>3. ASSUME NEW u \in Tasks
        PROVE  JobOk(u, task'[u], store', state', writer', readers')
    <2>1. CASE u = t
      BY <1>1, <2>1
    <2>2. CASE u # t
      <3>1. (writer = u => writer' = u) /\ (u \in readers => u \in readers')
        BY DEF Locked
      <3>2. task'[u] = task[u]
        BY <1>1, <2>2
      <3> QED BY <2>2, <3>1, <3>2, OthersKeep
    <2> QED BY <2>1, <2>2
  <1> QED BY <1>1, <1>2, <1>3

\* A delivery under way, moved to another step.
Moved(k, pc) == [ev |-> k.ev, pc |-> pc, gone |-> k.gone]

\* GoTo changes the step of a delivery and nothing else of it.
LEMMA GoToJob ==
    ASSUME PTypes, NEW t \in Tasks, task[t] # None, NEW pc \in Steps, GoTo(t, pc)
    PROVE  /\ Moved(task[t], pc) \in Job
           /\ task' = [task EXCEPT ![t] = Moved(task[t], pc)]
  <1>1. task[t] \in Job
    BY DEF PTypes
  <1>2. [task[t] EXCEPT !.pc = pc] = Moved(task[t], pc)
    BY <1>1 DEF Moved, Job
  <1>3. Moved(task[t], pc) \in Job
    BY <1>1 DEF Moved, Job
  <1> QED BY <1>2, <1>3 DEF GoTo

\* What PInv says of one delivery under way.
LEMMA OneJob ==
    ASSUME PInv, NEW t \in Tasks, task[t] # None
    PROVE  /\ task[t] \in Job /\ PTypes
           /\ HoldsLock(t, task[t], writer, readers) /\ Fits(task[t], store)
           /\ StillHeard(task[t], state) /\ Refolded(task[t], store, state)
  BY DEF PInv, PTypes, JobOk

\* Deliver keeps the invariant.
LEMMA DeliverStep ==
    ASSUME PInv, NEW t \in Tasks, Deliver(t)
    PROVE  PInv'
  <1>1. PICK e \in Deliveries : task' = [task EXCEPT ![t] = [ev |-> e, pc |-> "lock", gone |-> {}]]
    BY DEF Deliver
  <1>2. Locked /\ store' = store /\ state' = state /\ cut' = cut /\ task[t] = None
    BY DEF Deliver, Locked
  <1> DEFINE k == [ev |-> e, pc |-> "lock", gone |-> {}]
  <1>3. k \in Job
    BY DEF Job, Steps
  <1>4. JobOk(t, k, store', state', writer', readers')
    BY DEF JobOk, HoldsLock, Fits, StillHeard, Refolded
  <1> HIDE DEF k
  <1>5. task' = [task EXCEPT ![t] = k]
    BY <1>1 DEF k
  <1>6. /\ task' \in [Tasks -> Job \cup {None}]
        /\ writer' \in Tasks \cup {None} /\ readers' \subseteq Tasks
        /\ Exclusive'
        /\ \A u \in Tasks \ {t} : task'[u] = task[u]
        /\ \A u \in Tasks : JobOk(u, task'[u], store', state', writer', readers')
    BY <1>2, <1>3, <1>4, <1>5, WentOn
  <1>7. KeptClean'
    <2>1. ~HalfDone(t)
      BY <1>2 DEF HalfDone
    <2> QED BY <1>2, <1>6, <2>1, CalmStep
  <1> QED BY <1>2, <1>6, <1>7 DEF PInv, PTypes

\* Lock keeps the invariant: a writer waits for everyone, a reader for the
\* writer.
LEMMA LockStep ==
    ASSUME PInv, NEW t \in Tasks, Lock(t)
    PROVE  PInv'
  <1>1. /\ task[t] # None /\ task[t].pc = "lock" /\ writer = None /\ GoTo(t, "judge")
        /\ store' = store /\ state' = state /\ cut' = cut
    BY DEF Lock, At
  <1>2. \/ ChangesState(task[t].ev) /\ readers = {} /\ writer' = t /\ readers' = readers
        \/ ~ChangesState(task[t].ev) /\ readers' = readers \cup {t} /\ writer' = writer
    BY DEF Lock
  <1> DEFINE k == Moved(task[t], "judge")
  <1>3. k \in Job /\ task' = [task EXCEPT ![t] = k]
    BY <1>1, GoToJob DEF PInv, Steps
  <1>4. k.pc = "judge" /\ k.ev = task[t].ev
    BY DEF Moved
  <1> HIDE DEF k
  <1>5. /\ task' \in [Tasks -> Job \cup {None}]
        /\ writer' \in Tasks \cup {None} /\ readers' \subseteq Tasks
        /\ \A u \in Tasks \ {t} : task'[u] = task[u]
        /\ task'[t] = k
    BY <1>2, <1>3 DEF PInv, PTypes
  <1>6. Exclusive'
    BY <1>1, <1>2 DEF PInv, Exclusive
  <1>7. ASSUME NEW u \in Tasks
        PROVE  JobOk(u, task'[u], store', state', writer', readers')
    <2>1. CASE u = t
      BY <1>2, <1>4, <1>5, <2>1 DEF JobOk, HoldsLock, Fits, StillHeard, Refolded
    <2>2. CASE u # t
      <3>1. (writer = u => writer' = u) /\ (u \in readers => u \in readers')
        BY <1>1, <1>2, JobsAssumption
      <3>2. task'[u] = task[u]
        BY <1>5, <2>2
      <3> QED BY <1>1, <2>2, <3>1, <3>2, OthersKeep
    <2> QED BY <2>1, <2>2
  <1>8. KeptClean'
    <2>1. ~HalfDone(t)
      BY <1>1 DEF HalfDone
    <2> QED BY <1>1, <1>5, <2>1, CalmStep
  <1> QED BY <1>1, <1>5, <1>6, <1>7, <1>8 DEF PInv, PTypes

\* A delivery that returns without touching store or state keeps the
\* invariant, if it was not half done.
LEMMA ReturnStep ==
    ASSUME PInv, NEW t \in Tasks, Return(t), ~HalfDone(t),
           store' = store, state' = state, cut' = cut
    PROVE  PInv'
  <1>1. /\ task' \in [Tasks -> Job \cup {None}]
        /\ writer' \in Tasks \cup {None} /\ readers' \subseteq Tasks
        /\ Exclusive'
        /\ \A u \in Tasks \ {t} : task'[u] = task[u]
        /\ \A u \in Tasks : JobOk(u, task'[u], store', state', writer', readers')
    BY Returned
  <1>2. KeptClean'
    BY <1>1, CalmStep
  <1> QED BY <1>1, <1>2 DEF PInv, PTypes

\* So does one that goes on to a step before the store is touched.
LEMMA GoOnStep ==
    ASSUME PInv, NEW t \in Tasks, task[t] # None, task[t].pc # "lock", ~HalfDone(t),
           NEW pc \in {"is_deleted", "removed", "too_soon", "insert"},
           GoTo(t, pc), Locked, store' = store, state' = state, cut' = cut,
           pc # "insert" => task[t].ev.kind = "message",
           task[t].ev.kind = "message" => ~Silenced(state.g, task[t].ev.by, task[t].ev.at)
    PROVE  PInv'
  <1> DEFINE k == Moved(task[t], pc)
  <1>1. k \in Job /\ task' = [task EXCEPT ![t] = k]
    BY GoToJob DEF PInv, Steps
  <1>2. k.pc = pc /\ k.ev = task[t].ev
    BY DEF Moved
  <1> HIDE DEF k
  <1>3. HoldsLock(t, task[t], writer, readers)
    BY OneJob
  <1>4. JobOk(t, k, store', state', writer', readers')
    <2>1. HoldsLock(t, k, writer', readers')
      BY <1>2, <1>3 DEF HoldsLock, Locked
    <2>2. Fits(k, store') /\ StillHeard(k, state') /\ Refolded(k, store', state')
      BY <1>2 DEF Fits, StillHeard, Refolded
    <2> QED BY <2>1, <2>2 DEF JobOk
  <1>5. /\ task' \in [Tasks -> Job \cup {None}]
        /\ writer' \in Tasks \cup {None} /\ readers' \subseteq Tasks
        /\ Exclusive'
        /\ \A u \in Tasks \ {t} : task'[u] = task[u]
        /\ \A u \in Tasks : JobOk(u, task'[u], store', state', writer', readers')
    BY <1>1, <1>4, WentOn
  <1>6. KeptClean'
    BY <1>5, CalmStep
  <1> QED BY <1>5, <1>6 DEF PInv, PTypes

\* A message judge lets through was said inside no silence.
LEMMA MessageJudged ==
    ASSUME NEW e, e.kind = "message", Judged(e)
    PROVE  ~Silenced(state.g, e.by, e.at)
  <1>1. Judged(e) = JudgeMessage(state.g, e.by, e.channel, e.at)
    BY DEF Judged, ChangesState
  <1> QED BY <1>1 DEF JudgeMessage

\* Judge keeps the invariant: a message goes on only if nothing silences it.
LEMMA JudgeStep ==
    ASSUME PInv, NEW t \in Tasks, Judge(t)
    PROVE  PInv'
  <1>1. /\ task[t] # None /\ task[t].pc = "judge"
        /\ store' = store /\ state' = state /\ cut' = cut
    BY DEF Judge, At
  <1>2. ~HalfDone(t)
    BY <1>1 DEF HalfDone
  <1>3. CASE Return(t)
    BY <1>1, <1>2, <1>3, ReturnStep
  <1>4. CASE Judged(task[t].ev) /\ Locked
             /\ GoTo(t, IF task[t].ev.kind = "message" THEN "is_deleted" ELSE "insert")
    <2>1. task[t].ev.kind = "message" => ~Silenced(state.g, task[t].ev.by, task[t].ev.at)
      <3> SUFFICES ASSUME task[t].ev.kind = "message"
                   PROVE  ~Silenced(state.g, task[t].ev.by, task[t].ev.at)
        OBVIOUS
      <3>1. Judged(task[t].ev)
        BY <1>4
      <3> QED BY <3>1, MessageJudged
    <2>2. CASE task[t].ev.kind = "message"
      <3>1. GoTo(t, "is_deleted")
        BY <1>4, <2>2
      <3> QED BY <1>1, <1>2, <1>4, <2>1, <2>2, <3>1, GoOnStep
    <2>3. CASE task[t].ev.kind # "message"
      <3>1. GoTo(t, "insert")
        BY <1>4, <2>3
      <3> QED BY <1>1, <1>2, <1>4, <2>1, <2>3, <3>1, GoOnStep
    <2> QED BY <2>2, <2>3
  <1> QED BY <1>3, <1>4 DEF Judge

\* The three looks at the store between judge and insert keep the invariant.
LEMMA LookSteps ==
    ASSUME PInv, NEW t \in Tasks, CheckDeleted(t) \/ CheckRemoved(t) \/ CheckSlowmode(t)
    PROVE  PInv'
  <1>1. /\ task[t] # None /\ task[t].pc \in {"is_deleted", "removed", "too_soon"}
        /\ store' = store /\ state' = state /\ cut' = cut
    BY DEF CheckDeleted, CheckRemoved, CheckSlowmode, At
  <1>2. ~HalfDone(t)
    BY <1>1 DEF HalfDone
  <1>3. task[t].ev.kind = "message" /\ ~Silenced(state.g, task[t].ev.by, task[t].ev.at)
    BY <1>1, OneJob DEF Fits, StillHeard
  <1>4. CASE Return(t)
    BY <1>1, <1>2, <1>4, ReturnStep
  <1>5. CASE Locked /\ GoTo(t, "removed")
    BY <1>1, <1>2, <1>3, <1>5, GoOnStep
  <1>6. CASE Locked /\ GoTo(t, "too_soon")
    BY <1>1, <1>2, <1>3, <1>6, GoOnStep
  <1>7. CASE Locked /\ GoTo(t, "insert")
    BY <1>1, <1>2, <1>3, <1>7, GoOnStep
  <1> QED BY <1>4, <1>5, <1>6, <1>7 DEF CheckDeleted, CheckRemoved, CheckSlowmode

\* A delivery that ends by changing the store keeps the invariant, if it held
\* its lock, was not half done, and leaves a clean store clean.
LEMMA ReturnHavingStored ==
    ASSUME PInv, NEW t \in Tasks, Return(t), task[t] # None, task[t].pc # "lock",
           ~HalfDone(t), state' = state, cut' = cut, store' \subseteq Deliveries,
           \A e \in store : e \in store' \/ e.kind = "message",
           Settled(store, state) => Settled(store', state)
    PROVE  PInv'
  <1>1. /\ task' \in [Tasks -> Job \cup {None}]
        /\ writer' \in Tasks \cup {None} /\ readers' \subseteq Tasks
        /\ Exclusive'
        /\ \A u \in Tasks \ {t} : task'[u] = task[u]
        /\ \A u \in Tasks : JobOk(u, task'[u], store', state', writer', readers')
    BY Returned
  <1>2. KeptClean'
    BY <1>1, CalmStep
  <1> QED BY <1>1, <1>2 DEF PInv, PTypes

\* Store::insert keeps the invariant: a message enters only while no silence
\* covers it, and a state change that enters is half done from then on.
LEMMA StoreInsertStep ==
    ASSUME PInv, NEW t \in Tasks, StoreInsert(t)
    PROVE  PInv'
  <1> DEFINE e == task[t].ev
  <1>1. /\ task[t] # None /\ task[t].pc = "insert" /\ store' = store \cup {e}
        /\ state' = state /\ cut' = cut
    BY DEF StoreInsert, At
  <1>2. /\ task[t] \in Job /\ HoldsLock(t, task[t], writer, readers)
        /\ StillHeard(task[t], state) /\ store \subseteq Deliveries
    BY <1>1, OneJob DEF PTypes
  <1>3. e \in Deliveries /\ store' \subseteq Deliveries
        /\ \A x \in store : x \in store' \/ x.kind = "message"
    BY <1>1, <1>2 DEF Job
  <1>4. ~HalfDone(t)
    BY <1>1 DEF HalfDone
  <1>5. ~ChangesState(e) => (Settled(store, state) => Settled(store', state))
    <2>1. e.kind = "message" => ~Silenced(state.g, e.by, e.at)
      BY <1>1, <1>2 DEF StillHeard
    <2> QED BY <1>1, <2>1, SettledWithOneMore
  <1>6. CASE Return(t) /\ (e \in store \/ e.kind = "message")
    <2>1. Settled(store, state) => Settled(store', state)
      <3>1. CASE e \in store
        <4>1. store' = store
          BY <1>1, <3>1
        <4> QED BY <4>1
      <3>2. CASE e.kind = "message"
        BY <1>5, <3>2 DEF ChangesState
      <3> QED BY <1>6, <3>1, <3>2
    <2> QED BY <1>1, <1>3, <1>4, <1>6, <2>1, ReturnHavingStored
  <1>7. ASSUME NEW pc \in {"apply_deletion", "apply_removal", "refold"},
               GoTo(t, pc), Locked,
               pc = "apply_deletion" => e.kind = "deletion",
               pc = "apply_removal" => e.kind = "delete_event",
               pc = "refold" => ChangesState(e)
        PROVE  PInv'
    <2> DEFINE k == Moved(task[t], pc)
    <2>1. k \in Job /\ task' = [task EXCEPT ![t] = k]
      BY <1>1, <1>7, GoToJob DEF PInv, Steps
    <2>2. k.pc = pc /\ k.ev = e
      BY DEF Moved
    <2> HIDE DEF k, e
    <2>3. JobOk(t, k, store', state', writer', readers')
      <3>1. HoldsLock(t, k, writer', readers')
        BY <1>1, <1>2, <1>7, <2>2 DEF HoldsLock, Locked, e
      <3>2. Fits(k, store')
        BY <1>1, <1>7, <2>2 DEF Fits
      <3>3. StillHeard(k, state') /\ Refolded(k, store', state')
        BY <1>7, <2>2 DEF StillHeard, Refolded, ChangesState
      <3> QED BY <3>1, <3>2, <3>3 DEF JobOk
    <2>4. /\ task' \in [Tasks -> Job \cup {None}]
          /\ writer' \in Tasks \cup {None} /\ readers' \subseteq Tasks
          /\ Exclusive'
          /\ \A u \in Tasks \ {t} : task'[u] = task[u]
          /\ task'[t] = k
          /\ \A u \in Tasks : JobOk(u, task'[u], store', state', writer', readers')
      BY <1>1, <1>3, <1>7, <2>1, <2>3, WentOn
    <2>5. KeptClean'
      <3>1. CASE pc = "refold"
        <4>1. k # None
          BY <2>1, JobsAssumption
        <4>2. HalfDone(t)'
          BY <1>7, <2>2, <2>4, <3>1, <4>1 DEF HalfDone
        <4> QED BY <4>2 DEF KeptClean
      <3>2. CASE pc # "refold"
        <4>1. ~ChangesState(e)
          BY <1>7, <3>2 DEF ChangesState
        <4> QED BY <1>1, <1>4, <1>5, <2>4, <4>1, CalmStep
      <3> QED BY <3>1, <3>2
    <2> QED BY <1>1, <1>3, <2>4, <2>5 DEF PInv, PTypes
  <1>8. CASE e \notin store /\ e.kind = "deletion" /\ Locked /\ GoTo(t, "apply_deletion")
    BY <1>7, <1>8
  <1>9. CASE e \notin store /\ e.kind = "delete_event" /\ Locked /\ GoTo(t, "apply_removal")
    BY <1>7, <1>9
  <1>10. CASE e \notin store /\ ChangesState(e) /\ Locked /\ GoTo(t, "refold")
    BY <1>7, <1>10
  <1>11. \/ Return(t) /\ (e \in store \/ e.kind = "message")
         \/ e \notin store /\ e.kind = "deletion" /\ Locked /\ GoTo(t, "apply_deletion")
         \/ e \notin store /\ e.kind = "delete_event" /\ Locked /\ GoTo(t, "apply_removal")
         \/ e \notin store /\ ChangesState(e) /\ Locked /\ GoTo(t, "refold")
    <2>1. CASE e \in store \/ e.kind = "message"
      BY <2>1 DEF StoreInsert
    <2>2. CASE ~(e \in store \/ e.kind = "message")
      <3>1. Locked /\ GoTo(t, CASE e.kind = "deletion" -> "apply_deletion"
                                [] e.kind = "delete_event" -> "apply_removal"
                                [] ChangesState(e) -> "refold")
        BY <2>2 DEF StoreInsert
      <3>2. CASE e.kind = "deletion"
        BY <2>2, <3>1, <3>2 DEF ChangesState
      <3>3. CASE e.kind = "delete_event"
        BY <2>2, <3>1, <3>3 DEF ChangesState
      <3>4. CASE ChangesState(e)
        BY <2>2, <3>1, <3>4 DEF ChangesState
      <3> QED BY <2>2, <3>2, <3>3, <3>4 DEF ChangesState
    <2> QED BY <2>1, <2>2
  <1> QED BY <1>6, <1>8, <1>9, <1>10, <1>11

\* Store::apply_deletion keeps the invariant.
LEMMA ApplyDeletionStep ==
    ASSUME PInv, NEW t \in Tasks, ApplyDeletion(t)
    PROVE  PInv'
  <1> DEFINE d == task[t].ev
             D == {m \in Messages(store) : m.id \in d.targets /\ m.by = d.by}
  <1>1. /\ task[t] # None /\ task[t].pc = "apply_deletion" /\ store' = store \ D
        /\ Return(t) /\ state' = state /\ cut' = cut
    BY DEF ApplyDeletion, At
  <1>2. ~HalfDone(t)
    BY <1>1 DEF HalfDone
  <1>3. D \subseteq Messages(store)
    OBVIOUS
  <1> HIDE DEF D
  <1>4. /\ store' \subseteq Deliveries
        /\ \A x \in store : x \in store' \/ x.kind = "message"
    BY <1>1, <1>3 DEF PInv, PTypes, Messages
  <1>5. Settled(store, state) => Settled(store', state)
    BY <1>1, <1>3, SettledWithoutMessages
  <1> QED BY <1>1, <1>2, <1>4, <1>5, ReturnHavingStored

\* apply_removal's look keeps the invariant.
LEMMA ApplyRemovalStep ==
    ASSUME PInv, NEW t \in Tasks, ApplyRemoval(t)
    PROVE  PInv'
  <1> DEFINE d == task[t].ev
             G == {m \in Messages(store) : m.id \in d.targets /\ m.channel = d.channel}
             k == [ev |-> d, pc |-> "remove", gone |-> G]
  <1>1. /\ task[t] # None /\ task[t].pc = "apply_removal"
        /\ task' = [task EXCEPT ![t] = k]
        /\ store' = store /\ state' = state /\ cut' = cut
    BY DEF ApplyRemoval, At
  <1>a. Locked
    BY DEF ApplyRemoval, Locked
  <1>2. /\ task[t] \in Job /\ HoldsLock(t, task[t], writer, readers)
        /\ Fits(task[t], store) /\ store \subseteq Deliveries
    BY <1>1, OneJob DEF PTypes
  <1>3. d.kind = "delete_event" /\ d \in store
    BY <1>1, <1>2 DEF Fits
  <1>4. G \subseteq Named(d) /\ G \subseteq Deliveries
    BY <1>2 DEF Named, Messages
  <1> HIDE DEF G
  <1>5. k \in Job
    BY <1>2, <1>4 DEF Job, Steps
  <1>6. k.ev = d /\ k.pc = "remove" /\ k.gone = G
    OBVIOUS
  <1>7. ~HalfDone(t)
    BY <1>1 DEF HalfDone
  <1> HIDE DEF k, d
  <1>8. JobOk(t, k, store', state', writer', readers')
    <2>1. HoldsLock(t, k, writer', readers')
      BY <1>1, <1>a, <1>2, <1>6 DEF HoldsLock, Locked, d
    <2>2. Fits(k, store')
      BY <1>1, <1>3, <1>4, <1>6 DEF Fits
    <2>3. StillHeard(k, state') /\ Refolded(k, store', state')
      BY <1>3, <1>6 DEF StillHeard, Refolded, ChangesState
    <2> QED BY <2>1, <2>2, <2>3 DEF JobOk
  <1>9. /\ task' \in [Tasks -> Job \cup {None}]
        /\ writer' \in Tasks \cup {None} /\ readers' \subseteq Tasks
        /\ Exclusive'
        /\ \A u \in Tasks \ {t} : task'[u] = task[u]
        /\ \A u \in Tasks : JobOk(u, task'[u], store', state', writer', readers')
    BY <1>1, <1>a, <1>5, <1>8, WentOn
  <1>10. KeptClean'
    BY <1>1, <1>7, <1>9, CalmStep
  <1> QED BY <1>1, <1>9, <1>10 DEF PInv, PTypes

\* The fold of the writer keeps the invariant: nobody else holds the lock.
LEMMA RefoldStep ==
    ASSUME PInv, NEW t \in Tasks, Refold(t)
    PROVE  PInv'
  <1>1. /\ task[t] # None /\ task[t].pc = "refold" /\ GoTo(t, "purge")
        /\ state' = FoldOf(store) /\ store' = store /\ cut' = cut
        /\ writer' = writer /\ readers' = readers
    BY DEF Refold, At
  <1>2. /\ HoldsLock(t, task[t], writer, readers) /\ Fits(task[t], store)
    BY <1>1, OneJob
  <1>3. ChangesState(task[t].ev) /\ writer = t /\ readers = {}
    BY <1>1, <1>2, JobsAssumption DEF Fits, HoldsLock, PInv, Exclusive
  <1> DEFINE k == Moved(task[t], "purge")
  <1>4. k \in Job /\ task' = [task EXCEPT ![t] = k]
    BY <1>1, GoToJob DEF PInv, Steps
  <1>5. k.pc = "purge" /\ k.ev = task[t].ev
    BY DEF Moved
  <1> HIDE DEF k
  <1>6. /\ task' \in [Tasks -> Job \cup {None}]
        /\ \A u \in Tasks \ {t} : task'[u] = task[u]
        /\ task'[t] = k
    BY <1>4 DEF PInv, PTypes
  <1>7. ASSUME NEW u \in Tasks
        PROVE  JobOk(u, task'[u], store', state', writer', readers')
    <2>1. CASE u = t
      <3>1. HoldsLock(t, k, writer', readers') /\ Fits(k, store')
        BY <1>1, <1>3, <1>5 DEF HoldsLock, Fits
      <3>2. StillHeard(k, state') /\ Refolded(k, store', state')
        BY <1>1, <1>3, <1>5 DEF StillHeard, Refolded, ChangesState
      <3> QED BY <1>6, <2>1, <3>1, <3>2 DEF JobOk
    <2>2. CASE u # t
      <3>1. task'[u] = task[u] /\ JobOk(u, task[u], store, state, writer, readers)
        BY <1>6, <2>2 DEF PInv
      <3> QED BY <1>3, <2>2, <3>1, WaitingJob
    <2> QED BY <2>1, <2>2
  <1>8. KeptClean'
    <2>1. k # None
      BY <1>4, JobsAssumption
    <2>2. HalfDone(t)'
      BY <1>3, <1>5, <1>6, <2>1 DEF HalfDone
    <2> QED BY <2>2 DEF KeptClean
  <1> QED BY <1>1, <1>6, <1>7, <1>8 DEF PInv, PTypes, Exclusive

\* The look of purge_silenced keeps the invariant.
LEMMA PurgeStep ==
    ASSUME PInv, NEW t \in Tasks, Purge(t)
    PROVE  PInv'
  <1> DEFINE k == [ev |-> task[t].ev, pc |-> "remove", gone |-> SilencedIn(store, state)]
  <1>1. /\ task[t] # None /\ task[t].pc = "purge"
        /\ task' = [task EXCEPT ![t] = k]
        /\ store' = store /\ state' = state /\ cut' = cut
    BY DEF Purge, At
  <1>a. Locked
    BY DEF Purge, Locked
  <1>2. /\ task[t] \in Job /\ HoldsLock(t, task[t], writer, readers)
        /\ Fits(task[t], store) /\ Refolded(task[t], store, state) /\ store \subseteq Deliveries
    BY <1>1, OneJob DEF PTypes
  <1>3. ChangesState(task[t].ev) /\ state = FoldOf(store)
    BY <1>1, <1>2 DEF Fits, Refolded
  <1>4. SilencedIn(store, state) \subseteq Deliveries
    BY <1>2 DEF SilencedIn, Messages
  <1>5. k \in Job
    BY <1>2, <1>4 DEF Job, Steps
  <1>6. k.ev = task[t].ev /\ k.pc = "remove" /\ k.gone = SilencedIn(store, state)
    OBVIOUS
  <1> HIDE DEF k
  <1>7. JobOk(t, k, store', state', writer', readers')
    <2>1. HoldsLock(t, k, writer', readers')
      BY <1>1, <1>a, <1>2, <1>6 DEF HoldsLock, Locked
    <2>2. Fits(k, store')
      BY <1>3, <1>6 DEF Fits
    <2>3. StillHeard(k, state')
      BY <1>3, <1>6 DEF StillHeard, ChangesState
    <2>4. Refolded(k, store', state')
      BY <1>1, <1>3, <1>6 DEF Refolded
    <2> QED BY <2>1, <2>2, <2>3, <2>4 DEF JobOk
  <1>8. /\ task' \in [Tasks -> Job \cup {None}]
        /\ writer' \in Tasks \cup {None} /\ readers' \subseteq Tasks
        /\ Exclusive'
        /\ task'[t] = k
        /\ \A u \in Tasks : JobOk(u, task'[u], store', state', writer', readers')
    BY <1>1, <1>a, <1>5, <1>7, WentOn
  <1>9. KeptClean'
    <2>1. k # None
      BY <1>5, JobsAssumption
    <2>2. HalfDone(t)'
      BY <1>3, <1>6, <1>8, <2>1 DEF HalfDone
    <2> QED BY <2>2 DEF KeptClean
  <1> QED BY <1>1, <1>8, <1>9 DEF PInv, PTypes

\* Store::remove keeps the invariant: after a state change's purge nothing
\* silenced is left.
LEMMA RemoveFoundStep ==
    ASSUME PInv, NEW t \in Tasks, RemoveFound(t)
    PROVE  PInv'
  <1>1. /\ task[t] # None /\ task[t].pc = "remove" /\ store' = store \ task[t].gone
        /\ Return(t) /\ state' = state /\ cut' = (cut /\ ~ChangesState(task[t].ev))
    BY DEF RemoveFound, At
  <1>2. /\ Fits(task[t], store) /\ Refolded(task[t], store, state)
        /\ store \subseteq Deliveries /\ cut \in BOOLEAN
    BY <1>1, OneJob DEF PTypes
  <1> DEFINE D == store \cap task[t].gone
  <1>3. store' = store \ D /\ store' \subseteq Deliveries
    BY <1>1, <1>2
  <1>4. D \subseteq Messages(store)
    <2>1. CASE ChangesState(task[t].ev)
      BY <1>1, <1>2, <2>1 DEF Refolded, SilencedIn
    <2>2. CASE ~ChangesState(task[t].ev)
      BY <1>1, <1>2, <2>2 DEF Fits, Named, Messages
    <2> QED BY <2>1, <2>2
  <1> HIDE DEF D
  <1>5. \A x \in store : x \in store' \/ x.kind = "message"
    BY <1>3, <1>4 DEF Messages
  <1>6. CASE ~ChangesState(task[t].ev)
    <2>1. cut' = cut
      BY <1>1, <1>2, <1>6
    <2>2. ~HalfDone(t)
      BY <1>6 DEF HalfDone
    <2>3. Settled(store, state) => Settled(store', state)
      BY <1>3, <1>4, SettledWithoutMessages
    <2> QED BY <1>1, <1>3, <1>5, <2>1, <2>2, <2>3, ReturnHavingStored
  <1>7. CASE ChangesState(task[t].ev)
    <2>1. /\ task' \in [Tasks -> Job \cup {None}]
          /\ writer' \in Tasks \cup {None} /\ readers' \subseteq Tasks
          /\ Exclusive'
          /\ \A u \in Tasks : JobOk(u, task'[u], store', state', writer', readers')
      BY <1>1, <1>5, Returned
    <2>2. state = FoldOf(store) /\ store' = store \ SilencedIn(store, state)
      BY <1>1, <1>2, <1>7 DEF Refolded
    <2>3. Settled(store', state')
      BY <1>1, <2>2, SettledByPurge
    <2>4. KeptClean' /\ cut' \in BOOLEAN
      BY <1>1, <1>7, <2>3 DEF KeptClean
    <2> QED BY <1>3, <2>1, <2>4 DEF PInv, PTypes
  <1> QED BY <1>6, <1>7

\* Dropping a delivery at any of its awaits keeps the invariant: half done,
\* it is counted as cut.
LEMMA CancelStep ==
    ASSUME PInv, NEW t \in Tasks, Cancel(t)
    PROVE  PInv'
  <1>1. /\ task[t] # None /\ Return(t) /\ cut' = (cut \/ HalfDone(t))
        /\ store' = store /\ state' = state
    BY DEF Cancel
  <1>2. /\ task' \in [Tasks -> Job \cup {None}]
        /\ writer' \in Tasks \cup {None} /\ readers' \subseteq Tasks
        /\ Exclusive'
        /\ \A u \in Tasks \ {t} : task'[u] = task[u]
        /\ \A u \in Tasks : JobOk(u, task'[u], store', state', writer', readers')
    BY <1>1, Returned
  <1>3. KeptClean'
    <2> SUFFICES ASSUME ~cut', \A u \in Tasks : ~HalfDone(u)'
                 PROVE  Settled(store', state')
      BY DEF KeptClean, Settled
    <2>1. \A u \in Tasks : ~HalfDone(u)
      BY <1>1, <1>2 DEF HalfDone
    <2> QED BY <1>1, <2>1 DEF PInv, KeptClean
  <1>4. cut' \in BOOLEAN
    BY <1>1 DEF PInv, PTypes, HalfDone
  <1> QED BY <1>1, <1>2, <1>3, <1>4 DEF PInv, PTypes

\* So does a crash and the start after it.
LEMMA RestartStep ==
    ASSUME PInv, Restart
    PROVE  PInv'
  <1>1. /\ task' = [t \in Tasks |-> None] /\ writer' = None /\ readers' = {}
        /\ state' = FoldOf(store) /\ store' = store
        /\ cut' = (cut \/ \E t \in Tasks : HalfDone(t))
    BY DEF Restart
  <1>2. PTypes' /\ Exclusive'
    BY <1>1 DEF PInv, PTypes, Exclusive
  <1>3. \A u \in Tasks : JobOk(u, task'[u], store', state', writer', readers')
    BY <1>1 DEF JobOk
  <1>4. KeptClean'
    BY <1>1 DEF PInv, KeptClean, Settled
  <1> QED BY <1>2, <1>3, <1>4 DEF PInv

\* So does refold_if_changed: under the lock, no delivery is past its own.
LEMMA RefoldIfChangedStep ==
    ASSUME PInv, RefoldIfChanged
    PROVE  PInv'
  <1>1. /\ writer = None /\ readers = {}
        /\ writer' = writer /\ readers' = readers /\ task' = task
    BY DEF RefoldIfChanged
  <1>2. \A u \in Tasks : JobOk(u, task'[u], store', state', writer', readers')
    <2> SUFFICES ASSUME NEW u \in Tasks
                 PROVE  JobOk(u, task'[u], store', state', writer', readers')
      OBVIOUS
    <2>1. JobOk(u, task[u], store, state, writer, readers) /\ writer # u
      BY <1>1, JobsAssumption DEF PInv
    <2> QED BY <1>1, <2>1, WaitingJob
  <1>3. CASE store' = store /\ state' = state /\ cut' = cut
    <2>1. KeptClean'
      BY <1>1, <1>3 DEF PInv, KeptClean, HalfDone, Settled
    <2> QED BY <1>1, <1>2, <1>3, <2>1 DEF PInv, PTypes, Exclusive
  <1>4. CASE /\ state' = FoldOf(store) /\ store' = store \ SilencedIn(store, state')
             /\ cut' = FALSE
    <2>1. Settled(store', state')
      BY <1>4, SettledByPurge
    <2>2. KeptClean'
      BY <2>1 DEF KeptClean
    <2> QED BY <1>1, <1>2, <1>4, <2>2 DEF PInv, PTypes, Exclusive
  <1> QED BY <1>3, <1>4 DEF RefoldIfChanged

\* Every step keeps the invariant.
LEMMA PipelineStep == PInv /\ [PNext]_pvars => PInv'
  <1> SUFFICES ASSUME PInv, [PNext]_pvars
               PROVE  PInv'
    OBVIOUS
  <1>1. ASSUME NEW t \in Tasks, Deliver(t) \/ TaskStep(t) \/ Cancel(t)
        PROVE  PInv'
    BY <1>1, DeliverStep, LockStep, JudgeStep, LookSteps, StoreInsertStep, ApplyDeletionStep,
       ApplyRemovalStep, RefoldStep, PurgeStep, RemoveFoundStep, CancelStep DEF TaskStep
  <1>2. CASE UNCHANGED pvars
    BY <1>2 DEF pvars, PInv, PTypes, Exclusive, KeptClean, HalfDone, Settled
  <1> QED BY <1>1, <1>2, RestartStep, RefoldIfChangedStep DEF PNext

\* The intake starts with nothing stored and nothing under way.
LEMMA PipelineStart == PInit => PInv
  <1> SUFFICES ASSUME PInit PROVE PInv
    OBVIOUS
  <1>1. PTypes /\ Exclusive
    BY DEF PInit, PTypes, Exclusive
  <1>2. \A u \in Tasks : JobOk(u, task[u], store, state, writer, readers)
    BY DEF PInit, JobOk
  <1>3. Settled(store, state)
    BY DEF PInit, Settled, SilencedIn, Messages
  <1> QED BY <1>1, <1>2, <1>3 DEF PInv, KeptClean

\* With the lock free no state change is half done.
LEMMA CleanWhenFree == PInv => NothingSilencedIsKept
  <1> SUFFICES ASSUME PInv, writer = None, ~cut
               PROVE  Settled(store, state)
    BY DEF NothingSilencedIsKept, Settled
  <1>1. ASSUME NEW t \in Tasks, HalfDone(t)
        PROVE  FALSE
    <2>1. HoldsLock(t, task[t], writer, readers)
      BY <1>1, OneJob DEF HalfDone
    <2> QED BY <1>1, <2>1, JobsAssumption DEF HalfDone, HoldsLock
  <1> QED BY <1>1 DEF PInv, KeptClean

(***************************************************************************)
(* The theorems.                                                           *)
(***************************************************************************)
\* NothingSilencedIsKept for every number of deliveries, every set of events
\* and every schedule: what fold_lock is for.  A message is judged, checked
\* and stored under one read lock, so no ban is folded in between.
THEOREM IntakeKeepsNothingSilenced == PSpec => []NothingSilencedIsKept
  <1>1. PSpec => PInit /\ [][PNext]_pvars
    BY DEF PSpec
  <1> QED BY <1>1, PipelineStart, PipelineStep, CleanWhenFree, PTL

\* What a step takes out of the store has its cause there.
Caused == \A m \in Messages(store) \ store' :
             \/ IsDeleted(m)
             \/ RemovedByModerator(m)
             \/ m \in SilencedIn(store, FoldOf(store))

\* A step under the invariant removes a message only for a cause held.
LEMMA StepHasCause == PInv /\ [PNext]_pvars => [Caused]_pvars
  <1> SUFFICES ASSUME PInv, PNext, NEW m \in Messages(store), m \notin store'
               PROVE  \/ IsDeleted(m)
                      \/ RemovedByModerator(m)
                      \/ m \in SilencedIn(store, FoldOf(store))
    BY DEF Caused
  <1>1. m \in store /\ m.kind = "message"
    BY DEF Messages
  <1>2. ASSUME NEW t \in Tasks, RemoveFound(t)
        PROVE  RemovedByModerator(m) \/ m \in SilencedIn(store, FoldOf(store))
    <2>1. /\ task[t] # None /\ task[t].pc = "remove" /\ m \in task[t].gone
      BY <1>1, <1>2 DEF RemoveFound, At
    <2>2. Fits(task[t], store) /\ Refolded(task[t], store, state)
      BY <2>1, OneJob
    <2>3. CASE ChangesState(task[t].ev)
      BY <2>1, <2>2, <2>3 DEF Refolded
    <2>4. CASE ~ChangesState(task[t].ev)
      <3>1. /\ task[t].ev.kind = "delete_event" /\ task[t].ev \in store
            /\ m \in Named(task[t].ev)
        BY <2>1, <2>2, <2>4 DEF Fits
      <3> QED BY <3>1 DEF Named, RemovedByModerator
    <2> QED BY <2>3, <2>4
  <1>3. ASSUME NEW t \in Tasks, ApplyDeletion(t)
        PROVE  IsDeleted(m)
    <2>1. /\ task[t] # None /\ task[t].pc = "apply_deletion"
          /\ m.id \in task[t].ev.targets /\ m.by = task[t].ev.by
      BY <1>1, <1>3 DEF ApplyDeletion, At
    <2>2. task[t].ev.kind = "deletion" /\ task[t].ev \in store
      BY <2>1, OneJob DEF Fits
    <2> QED BY <2>1, <2>2 DEF IsDeleted
  <1>4. CASE RefoldIfChanged
    BY <1>1, <1>4 DEF RefoldIfChanged
  <1>5. CASE Restart
    BY <1>1, <1>5 DEF Restart
  <1>6. ASSUME NEW t \in Tasks, Deliver(t) \/ TaskStep(t) \/ Cancel(t),
               ~RemoveFound(t), ~ApplyDeletion(t)
        PROVE  FALSE
    BY <1>1, <1>6 DEF Deliver, TaskStep, Cancel, Lock, Judge, CheckDeleted, CheckRemoved,
       CheckSlowmode, StoreInsert, ApplyRemoval, Refold, Purge
  <1> QED BY <1>2, <1>3, <1>4, <1>5, <1>6 DEF PNext

\* NothingGoesWithoutCause for every instance: a message leaves the store
\* only by its author's withdrawal, a moderator's removal in its channel, or
\* a silence of the fold of what is stored.
THEOREM IntakeRemovesWithCause == PSpec => NothingGoesWithoutCause
  <1>1. PSpec => PInit /\ [][PNext]_pvars
    BY DEF PSpec
  <1>2. NothingGoesWithoutCause <=> [][Caused]_pvars
    BY DEF NothingGoesWithoutCause, Caused
  <1> QED BY <1>1, <1>2, PipelineStart, PipelineStep, StepHasCause, PTL

=============================================================================
