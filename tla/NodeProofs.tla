----------------------------- MODULE NodeProofs -----------------------------
(***************************************************************************)
(* Proofs about the parts of a node, for every value of their constants:   *)
(* the gossip gate, the inbox of an anchor, files, the store two processes *)
(* share, and following or joining a group.                                *)
(***************************************************************************)
EXTENDS GossipGate, Inbox, Files, SharedStore, Joining, FiniteSetTheorems, TLAPS

(***************************************************************************)
(* The gossip gate.                                                        *)
(***************************************************************************)
ConnStates == {"none", "in", "out", "accepted", "open"}
ChangeSteps == {"idle", "look", "subscribe", "stop", "shutdown", "alpns", "revoke"}

GTypes ==
    /\ inGroup \in BOOLEAN /\ instance \in BOOLEAN /\ served \in BOOLEAN
    /\ crossed \in BOOLEAN /\ failed \in BOOLEAN /\ staleAlpns \in BOOLEAN
    /\ conn \in [Devices -> ConnStates]
    /\ changing \in [Callers -> ChangeSteps]

\* The ALPN is answered while the instance runs, and after it only if the
\* change that stopped it was cut.
AnsweredAsRun == (instance => served) /\ (served => instance \/ staleAlpns)

\* What is settled once a group_changed is through.
AsMember ==
    /\ instance => inGroup
    /\ inGroup => instance \/ failed
    /\ AnsweredAsRun

\* What a group_changed that met no other has established at each step.
StepOf(c) ==
    /\ changing[c] = "look" => AnsweredAsRun
    /\ changing[c] = "subscribe" => inGroup
    /\ changing[c] \in {"stop", "shutdown"} => ~inGroup
    /\ changing[c] = "shutdown" => ~instance
    /\ changing[c] = "subscribe" => ~instance /\ (served => staleAlpns)
    /\ changing[c] = "alpns" => instance = inGroup
    /\ changing[c] = "revoke" => AsMember

Alone ==
    ~crossed => /\ changing["boot"] = "idle" \/ changing["fold"] = "idle"
                /\ \A c \in Callers : StepOf(c)
                /\ Settled => AsMember

\* A connection past the hook's question is a member's, and one past the
\* tracking is tracked; the tracked ones outlast a change only until its
\* group_changed is through.
Tracked ==
    /\ ~instance => live = {}
    /\ \A d \in Devices \ stray :
        /\ conn[d] \in {"in", "out"} => d \in inside
        /\ conn[d] \in {"accepted", "open"} =>
             d \in live /\ (d \in inside \/ changing["fold"] \in {"look", "stop", "revoke"})

GInv == GTypes /\ Alone /\ Tracked

\* The step of one caller leaves the other's alone.
LEMMA ChangingGoesOn ==
    ASSUME GTypes, NEW c \in Callers, NEW s \in ChangeSteps, GoOn(c, s)
    PROVE  /\ changing' \in [Callers -> ChangeSteps]
           /\ changing'[c] = s
           /\ \A b \in Callers \ {c} : changing'[b] = changing[b]
  BY DEF GTypes, GoOn

\* Every step of the hooks and of group_changed keeps the gate's state in type.
LEMMA GStepTypes == GTypes /\ [GNext]_gvars => GTypes'
<1> SUFFICES ASSUME GTypes, [GNext]_gvars PROVE GTypes'
  OBVIOUS
<1> USE DEF GTypes, groupVars, ghostVars
<1>a. /\ \A s \in {"none", "in", "out", "accepted", "open"} : s \in ConnStates
      /\ \A s \in {"idle", "look", "subscribe", "stop", "shutdown", "alpns", "revoke"} :
            s \in ChangeSteps
      /\ "fold" \in Callers
  BY DEF ConnStates, ChangeSteps, Callers
<1>1. CASE StateChange
  <2>1. GoOn("fold", "look")
    BY <1>1 DEF StateChange
  <2> QED BY <1>1, <1>a, <2>1, ChangingGoesOn DEF StateChange
<1>c. CASE CutChange
  <2>1. GoOn("fold", "idle")
    BY <1>c DEF CutChange
  <2> QED BY <1>c, <1>a, <2>1, ChangingGoesOn DEF CutChange
<1>2. ASSUME NEW c \in Callers, GStep(c) PROVE GTypes'
  <2>1. PICK s \in ChangeSteps : GoOn(c, s)
    BY <1>2, <1>a DEF GStep, Look, Subscribed, SubscribeFails, StopInstance, Shutdown,
                 UpdateAlpns, RevokeConnections
  <2>2. changing' \in [Callers -> ChangeSteps]
    BY <2>1, ChangingGoesOn
  <2>3. CASE Look(c)
    BY <2>2, <2>3 DEF Look
  <2>4. CASE Subscribed(c)
    BY <2>2, <2>4 DEF Subscribed
  <2>5. CASE SubscribeFails(c)
    BY <2>2, <2>5 DEF SubscribeFails
  <2>6. CASE StopInstance(c)
    BY <1>a, <2>2, <2>6 DEF StopInstance
  <2>7. CASE Shutdown(c)
    BY <1>a, <2>2, <2>7 DEF Shutdown
  <2>8. CASE UpdateAlpns(c)
    BY <2>2, <2>8 DEF UpdateAlpns
  <2>9. CASE RevokeConnections(c)
    BY <1>a, <2>2, <2>9 DEF RevokeConnections
  <2> QED BY <1>2, <2>3, <2>4, <2>5, <2>6, <2>7, <2>8, <2>9 DEF GStep
<1>3. ASSUME NEW d \in Devices, BindingChange(d) PROVE GTypes'
  BY <1>3 DEF BindingChange
<1>4. ASSUME NEW d \in Devices, AfterHandshake(d) PROVE GTypes'
  BY <1>4, <1>a DEF AfterHandshake
<1>5. ASSUME NEW d \in Devices, Track(d) PROVE GTypes'
  BY <1>5, <1>a DEF Track
<1>6. ASSUME NEW d \in Devices, Admit(d) PROVE GTypes'
  BY <1>6, <1>a DEF Admit
<1>7. ASSUME NEW d \in Devices, Disconnect(d) PROVE GTypes'
  BY <1>7, <1>a DEF Disconnect
<1>8. CASE UNCHANGED gvars
  BY <1>8 DEF gvars
<1> QED BY <1>1, <1>c, <1>2, <1>3, <1>4, <1>5, <1>6, <1>7, <1>8 DEF GNext

\* A group_changed nobody crosses leaves the instance and the ALPNs as the
\* membership says.
LEMMA GStepAlone == GTypes /\ Alone /\ [GNext]_gvars => Alone'
<1> SUFFICES ASSUME GTypes, Alone, [GNext]_gvars, ~crossed' PROVE Alone'
  BY DEF Alone
<1> USE DEF Alone, StepOf, AsMember, AnsweredAsRun, Settled, groupVars, ghostVars
<1>a. /\ {"idle", "look", "subscribe", "stop", "shutdown", "alpns", "revoke"} = ChangeSteps
      /\ "fold" \in Callers /\ "boot" \in Callers
      /\ \A c \in Callers : c = "fold" \/ c = "boot"
  BY DEF ChangeSteps, Callers
<1>b. /\ inGroup \in BOOLEAN /\ instance \in BOOLEAN /\ served \in BOOLEAN
      /\ crossed \in BOOLEAN /\ failed \in BOOLEAN /\ staleAlpns \in BOOLEAN
  BY DEF GTypes
<1>1. CASE StateChange
  <2>1. GoOn("fold", "look")
    BY <1>1 DEF StateChange
  <2>2. changing'["fold"] = "look" /\ changing'["boot"] = changing["boot"]
    BY <1>a, <2>1, ChangingGoesOn
  <2>3. ~crossed /\ changing["boot"] = "idle" /\ changing["fold"] = "idle"
    BY <1>1, <1>b, Zenon DEF StateChange
  <2>4. UNCHANGED <<instance, served, staleAlpns>>
    BY <1>1 DEF StateChange
  <2> QED BY <1>a, <2>2, <2>3, <2>4
<1>c. CASE CutChange
  <2>1. GoOn("fold", "idle")
    BY <1>c DEF CutChange
  <2>2. changing'["fold"] = "idle" /\ changing'["boot"] = changing["boot"]
    BY <1>a, <2>1, ChangingGoesOn
  <2>3. changing["fold"] \in {"subscribe", "shutdown"} /\ ~crossed
    BY <1>c DEF CutChange
  <2>4. changing["boot"] = "idle" /\ StepOf("fold")
    BY <1>a, <2>3
  <2> QED BY <1>a, <1>b, <1>c, <2>2, <2>4 DEF CutChange
<1>2. ASSUME NEW c \in Callers, GStep(c) PROVE Alone'
  <2>1. PICK s \in ChangeSteps : GoOn(c, s)
    BY <1>2, <1>a DEF GStep, Look, Subscribed, SubscribeFails, StopInstance, Shutdown,
                 UpdateAlpns, RevokeConnections
  <2>2. /\ changing'[c] = s
        /\ \A b \in Callers \ {c} : changing'[b] = changing[b]
    BY <2>1, ChangingGoesOn
  <2>3. CASE Look(c)
    <3>1. changing'[c] = IF inGroup /\ ~instance THEN "subscribe"
                         ELSE IF ~inGroup /\ instance THEN "stop" ELSE "revoke"
      BY <2>3, <1>a, ChangingGoesOn DEF Look
    <3> QED BY <1>a, <1>b, <2>2, <2>3, <3>1 DEF Look
  <2>4. CASE Subscribed(c)
    <3>1. changing'[c] = "alpns"
      BY <2>4, <1>a, ChangingGoesOn DEF Subscribed
    <3> QED BY <1>a, <1>b, <2>2, <2>4, <3>1 DEF Subscribed
  <2>5. CASE SubscribeFails(c)
    <3>1. changing'[c] = "revoke"
      BY <2>5, <1>a, ChangingGoesOn DEF SubscribeFails
    <3> QED BY <1>a, <1>b, <2>2, <2>5, <3>1 DEF SubscribeFails
  <2>6. CASE StopInstance(c)
    <3>1. changing'[c] = "shutdown"
      BY <2>6, <1>a, ChangingGoesOn DEF StopInstance
    <3> QED BY <1>a, <1>b, <2>2, <2>6, <3>1 DEF StopInstance
  <2>7. CASE Shutdown(c)
    <3>1. changing'[c] = "alpns"
      BY <2>7, <1>a, ChangingGoesOn DEF Shutdown
    <3> QED BY <1>a, <1>b, <2>2, <2>7, <3>1 DEF Shutdown
  <2>8. CASE UpdateAlpns(c)
    <3>1. changing'[c] = "revoke"
      BY <2>8, <1>a, ChangingGoesOn DEF UpdateAlpns
    <3> QED BY <1>a, <1>b, <2>2, <2>8, <3>1 DEF UpdateAlpns
  <2>9. CASE RevokeConnections(c)
    <3>1. changing'[c] = "idle"
      BY <2>9, <1>a, ChangingGoesOn DEF RevokeConnections
    <3> QED BY <1>a, <1>b, <2>2, <2>9, <3>1 DEF RevokeConnections
  <2> QED BY <1>2, <2>3, <2>4, <2>5, <2>6, <2>7, <2>8, <2>9 DEF GStep
<1>3. ASSUME NEW d \in Devices,
             \/ BindingChange(d) \/ AfterHandshake(d) \/ Track(d) \/ Admit(d) \/ Disconnect(d)
      PROVE  Alone'
  <2>1. UNCHANGED <<inGroup, instance, served, changing, crossed, failed, staleAlpns>>
    BY <1>3 DEF BindingChange, AfterHandshake, Track, Admit, Disconnect
  <2> QED BY <2>1
<1>4. CASE UNCHANGED gvars
  BY <1>4 DEF gvars
<1> QED BY <1>1, <1>c, <1>2, <1>3, <1>4 DEF GNext

\* A connection past the hook is tracked, and one that outlasts its member's
\* place in the group is only waiting for Gossips::revoke.
LEMMA GStepTracked == GTypes /\ Tracked /\ [GNext]_gvars => Tracked'
<1> SUFFICES ASSUME GTypes, Tracked, [GNext]_gvars PROVE Tracked'
  OBVIOUS
<1> USE DEF Tracked, groupVars, ghostVars
<1>a. /\ {"idle", "look", "subscribe", "stop", "shutdown", "alpns", "revoke"} = ChangeSteps
      /\ "fold" \in Callers
      /\ conn \in [Devices -> ConnStates]
      /\ instance \in BOOLEAN
  BY DEF ChangeSteps, Callers, GTypes
<1>1. CASE StateChange
  <2>1. changing'["fold"] = "look"
    BY <1>1, <1>a, ChangingGoesOn DEF StateChange
  <2> QED BY <1>1, <2>1 DEF StateChange
<1>c. CASE CutChange
  <2>1. changing["fold"] \in {"subscribe", "shutdown"} /\ UNCHANGED <<inside, live, instance, stray>>
    BY <1>c DEF CutChange
  <2>2. \A d \in Devices : conn'[d] \in {conn[d], "none"}
    BY <1>c, <1>a DEF CutChange
  <2> QED BY <2>1, <2>2
<1>2. ASSUME NEW c \in Callers, GStep(c) PROVE Tracked'
  <2>1. PICK s \in ChangeSteps : GoOn(c, s) /\ (s = "idle" => RevokeConnections(c))
    <3>1. CASE RevokeConnections(c)
      BY <1>a, <3>1 DEF RevokeConnections
    <3>2. CASE ~RevokeConnections(c)
      <4>1. \E s \in ChangeSteps \ {"idle"} : GoOn(c, s)
        BY <1>2, <1>a, <3>2 DEF GStep, Look, Subscribed, SubscribeFails, StopInstance,
                                Shutdown, UpdateAlpns
      <4> QED BY <4>1
    <3> QED BY <3>1, <3>2
  <2>2. changing'["fold"] = IF c = "fold" THEN s ELSE changing["fold"]
    BY <1>a, <2>1, ChangingGoesOn
  <2>3. CASE Look(c)
    <3>1. UNCHANGED <<inside, live, conn, stray, instance>>
      BY <2>3 DEF Look
    <3>2. CASE c = "fold" /\ inGroup /\ ~instance
      <4>1. live = {} /\ \A d \in Devices \ stray : conn[d] \notin {"accepted", "open"}
        BY <3>2
      <4> QED BY <3>1, <4>1
    <3>3. CASE c = "fold" /\ ~(inGroup /\ ~instance)
      <4>1. changing'["fold"] \in {"stop", "revoke"}
        BY <1>a, <2>3, <3>3, ChangingGoesOn DEF Look
      <4> QED BY <3>1, <4>1
    <3>4. CASE c # "fold"
      BY <2>2, <3>1, <3>4
    <3> QED BY <3>2, <3>3, <3>4
  <2>4. CASE Subscribed(c) \/ SubscribeFails(c) \/ UpdateAlpns(c)
    <3>1. /\ UNCHANGED <<inside, live, conn, stray>> /\ (instance => instance')
          /\ changing[c] \in {"subscribe", "alpns"}
      BY <2>4 DEF Subscribed, SubscribeFails, UpdateAlpns
    <3>2. changing["fold"] \in {"look", "stop", "revoke"} =>
            changing'["fold"] \in {"look", "stop", "revoke"}
      BY <2>2, <3>1
    <3> QED BY <3>1, <3>2
  <2>6. CASE StopInstance(c)
    BY <1>a, <2>1, <2>2, <2>6 DEF StopInstance, RevokeConnections
  <2>7. CASE Shutdown(c)
    BY <1>a, <2>1, <2>2, <2>7 DEF Shutdown, RevokeConnections
  <2>9. CASE RevokeConnections(c)
    BY <1>a, <2>2, <2>9 DEF RevokeConnections, DeviceIsMember
  <2> QED BY <1>2, <2>3, <2>4, <2>6, <2>7, <2>9 DEF GStep
<1>3. ASSUME NEW d \in Devices, BindingChange(d) PROVE Tracked'
  BY <1>3 DEF BindingChange
<1>4. ASSUME NEW d \in Devices, AfterHandshake(d) PROVE Tracked'
  BY <1>4, <1>a DEF AfterHandshake, DeviceIsMember
<1>5. ASSUME NEW d \in Devices, Track(d) PROVE Tracked'
  BY <1>5, <1>a DEF Track
<1>6. ASSUME NEW d \in Devices, Admit(d) PROVE Tracked'
  BY <1>6, <1>a DEF Admit
<1>7. ASSUME NEW d \in Devices, Disconnect(d) PROVE Tracked'
  BY <1>7, <1>a DEF Disconnect
<1>8. CASE UNCHANGED gvars
  BY <1>8 DEF gvars
<1> QED BY <1>1, <1>c, <1>2, <1>3, <1>4, <1>5, <1>6, <1>7, <1>8 DEF GNext

\* At boot nothing runs and nobody is connected.
LEMMA GBegins == GInit => GInv
  <1> SUFFICES ASSUME GInit PROVE GInv
    OBVIOUS
  <1>1. GTypes
    BY DEF GInit, GTypes, Callers, ChangeSteps, ConnStates
  <1>2. Alone
    BY DEF GInit, Alone, StepOf, AnsweredAsRun, Settled, Callers
  <1>3. Tracked
    BY DEF GInit, Tracked
  <1> QED BY <1>1, <1>2, <1>3 DEF GInv

\* The gate's invariant, its three parts taken together.
LEMMA GInductive == GInv /\ [GNext]_gvars => GInv'
  BY GStepTypes, GStepAlone, GStepTracked DEF GInv

\* A group's gossip runs, and its ALPN is answered, exactly while the node's
\* own person is a member, as soon as group_changed is through, however the
\* group came to change, unless a change met the boot or the delivery that
\* brought it was cut at one of its awaits.
THEOREM GossipRunsAsMember == GSpec => []OnExactlyAsMember
<1>1. GInv => OnExactlyAsMember
  BY DEF GInv, Alone, AsMember, AnsweredAsRun, OnExactlyAsMember
<1> QED BY <1>1, GBegins, GInductive, PTL DEF GSpec

\* Once group_changed is through, no device of a person the group put out is
\* connected, but one whose handshake the change overtook or which came
\* before the map had the instance.
THEOREM GossipCutsOff == GSpec => []PutOutIsCutOff
<1>1. GInv => PutOutIsCutOff
  BY DEF GInv, Tracked, PutOutIsCutOff, Settled, Callers
<1> QED BY <1>1, GBegins, GInductive, PTL DEF GSpec

(***************************************************************************)
(* Direct messages.                                                        *)
(***************************************************************************)
ITypes ==
    /\ day \in Nat
    /\ DOMAIN wraps = DmNodes
    /\ \A n \in DmNodes : Holds(n) \subseteq Wraps
    /\ made \in [Wraps -> Int \cup {None}]
    /\ gone \subseteq Wraps

\* Nothing is dated after the day it arrived on, nor arrives tomorrow.
DatedBefore ==
    \A n \in DmNodes : \A w \in Holds(n) :
        /\ made[w] \in Int /\ wraps[n][w] \in Int
        /\ made[w] <= wraps[n][w] /\ wraps[n][w] <= day

\* What a week's end dropped is too old to be taken again, and gets no younger.
GoneIsOld == \A w \in gone : made[w] \in Int /\ made[w] + INBOX_KEEP < day

IInv == ITypes /\ DatedBefore /\ GoneIsOld /\ LetGoStaysGone

\* A wrap stored today joins the wraps of that node, and of no other.
LEMMA StoreWrapHolds ==
    ASSUME ITypes, DatedBefore, NEW n \in DmNodes, NEW w \in Wraps, StoreWrap(n, w)
    PROVE  /\ DOMAIN wraps' = DmNodes
           /\ Holds(n)' = Holds(n) \cup {w}
           /\ wraps'[n][w] = day
           /\ \A x \in Holds(n) : wraps'[n][x] = wraps[n][x]
           /\ \A m \in DmNodes \ {n} : wraps'[m] = wraps[m]
  BY DEF ITypes, StoreWrap, Holds

\* A node that drops wraps keeps the others as they were.
LEMMA WithoutHolds ==
    ASSUME ITypes, NEW n \in DmNodes, NEW K,
           wraps' = [wraps EXCEPT ![n] = Without(@, K)]
    PROVE  /\ DOMAIN wraps' = DmNodes
           /\ Holds(n)' = Holds(n) \ K
           /\ \A x \in Holds(n)' : wraps'[n][x] = wraps[n][x]
           /\ \A m \in DmNodes \ {n} : wraps'[m] = wraps[m] /\ Holds(m)' = Holds(m)
  BY DEF ITypes, Without, Holds

\* What the end of a week dropped is past the age judge takes, and stays so.
LEMMA InboxStep == IInv /\ [INext]_ivars => IInv'
<1> SUFFICES ASSUME IInv, [INext]_ivars PROVE IInv'
  OBVIOUS
<1> USE DEF IInv, ITypes, DatedBefore, GoneIsOld, LetGoStaysGone
<1>a. "anchor" \in DmNodes /\ INBOX_KEEP \in Nat /\ Keepers \subseteq DmNodes
  BY InboxConstants DEF DmNodes, Keepers
<1>1. ASSUME NEW w \in Wraps, SendDm(w) PROVE IInv'
  <2>1. w \notin gone /\ \A n \in DmNodes : w \notin Holds(n)
    BY <1>1, InboxConstants DEF SendDm
  <2>2. Dated[w] \in Nat /\ made' = [made EXCEPT ![w] = day - Dated[w]]
    BY <1>1, InboxConstants DEF SendDm
  <2>3. made' \in [Wraps -> Int \cup {None}] /\ made'[w] \in Int /\ made'[w] <= day
        /\ \A x \in Wraps \ {w} : made'[x] = made[x]
    BY <2>2
  <2>4. "sender" \in DmNodes /\ "sender" # "anchor" /\ StoreWrap("sender", w)
        /\ UNCHANGED <<day, gone>>
    BY <1>1 DEF SendDm, DmNodes
  <2>5. /\ DOMAIN wraps' = DmNodes
        /\ Holds("sender")' = Holds("sender") \cup {w}
        /\ wraps'["sender"][w] = day
        /\ \A x \in Holds("sender") : wraps'["sender"][x] = wraps["sender"][x]
        /\ \A m \in DmNodes \ {"sender"} : wraps'[m] = wraps[m] /\ Holds(m)' = Holds(m)
    BY <2>4, StoreWrapHolds DEF Holds
  <2>6. ITypes'
    BY <2>3, <2>4, <2>5
  <2>7. DatedBefore'
    <3> SUFFICES ASSUME NEW n \in DmNodes, NEW x \in Holds(n)'
                 PROVE  /\ made'[x] \in Int /\ wraps'[n][x] \in Int
                        /\ made'[x] <= wraps'[n][x] /\ wraps'[n][x] <= day'
      OBVIOUS
    <3>1. CASE x = w
      BY <2>1, <2>3, <2>4, <2>5, <3>1
    <3>2. CASE x # w
      <4>1. x \in Holds(n) /\ wraps'[n][x] = wraps[n][x] /\ made'[x] = made[x]
        BY <2>3, <2>5, <3>2
      <4> QED BY <2>4, <4>1
    <3> QED BY <3>1, <3>2
  <2>8. GoneIsOld' /\ LetGoStaysGone'
    BY <1>a, <2>1, <2>3, <2>4, <2>5
  <2> QED BY <2>6, <2>7, <2>8
<1>2. ASSUME NEW m \in DmNodes, NEW n \in DmNodes, Deliver(m, n) PROVE IInv'
  <2>1. PICK w \in Holds(m) : TakesWrap(n, w) /\ StoreWrap(n, w)
    BY <1>2 DEF Deliver, Offered
  <2>2. w \in Wraps /\ UNCHANGED <<day, gone, made>>
    BY <1>2 DEF Deliver
  <2>3. n = "anchor" => w \notin gone
    BY <1>a, <2>1, <2>2 DEF TakesWrap
  <2>4. /\ DOMAIN wraps' = DmNodes
        /\ Holds(n)' = Holds(n) \cup {w}
        /\ wraps'[n][w] = day
        /\ \A x \in Holds(n) : wraps'[n][x] = wraps[n][x]
        /\ \A k \in DmNodes \ {n} : wraps'[k] = wraps[k] /\ Holds(k)' = Holds(k)
    BY <2>1, <2>2, StoreWrapHolds DEF Holds
  <2>5. ITypes' /\ GoneIsOld' /\ LetGoStaysGone'
    BY <1>a, <2>2, <2>3, <2>4
  <2>6. DatedBefore'
    BY <2>1, <2>2, <2>4
  <2> QED BY <2>5, <2>6
<1>3. ASSUME NEW n \in Keepers, CapDrop(n) PROVE IInv'
  <2>1. PICK K : wraps' = [wraps EXCEPT ![n] = Without(@, K)]
    BY <1>3 DEF CapDrop
  <2>2. UNCHANGED <<day, gone, made>>
    BY <1>3 DEF CapDrop
  <2>3. /\ DOMAIN wraps' = DmNodes
        /\ Holds(n)' = Holds(n) \ K
        /\ \A x \in Holds(n)' : wraps'[n][x] = wraps[n][x]
        /\ \A m \in DmNodes \ {n} : wraps'[m] = wraps[m] /\ Holds(m)' = Holds(m)
    <3> HIDE DEF IInv, ITypes, DatedBefore, GoneIsOld, LetGoStaysGone
    <3>1. ITypes /\ n \in DmNodes
      BY <1>a DEF IInv
    <3> QED BY <2>1, <3>1, WithoutHolds, Zenon
  <2>4. \A m \in DmNodes : /\ Holds(m)' \subseteq Holds(m)
                           /\ \A x \in Holds(m)' : wraps'[m][x] = wraps[m][x]
    BY <2>3
  <2> QED BY <1>a, <2>2, <2>3, <2>4
<1>4. ASSUME NEW n \in Keepers, ExpireInbox(n) PROVE IInv'
  <2> DEFINE old == {w \in Holds(n) : wraps[n][w] < day - INBOX_KEEP}
  <2>1. /\ wraps' = [wraps EXCEPT ![n] = Without(@, old)]
        /\ gone' = IF n = "anchor" THEN gone \cup old ELSE gone
        /\ UNCHANGED <<day, made>>
    BY <1>4 DEF ExpireInbox
  <2>2. /\ DOMAIN wraps' = DmNodes
        /\ Holds(n)' = Holds(n) \ old
        /\ \A x \in Holds(n)' : wraps'[n][x] = wraps[n][x]
        /\ \A m \in DmNodes \ {n} : wraps'[m] = wraps[m] /\ Holds(m)' = Holds(m)
    <3> HIDE DEF IInv, ITypes, DatedBefore, GoneIsOld, LetGoStaysGone
    <3>1. ITypes /\ n \in DmNodes
      BY <1>a DEF IInv
    <3> QED BY <2>1, <3>1, WithoutHolds, Zenon
  <2>3. \A w \in old : w \in Wraps /\ made[w] \in Int /\ made[w] + INBOX_KEEP < day
    BY <1>a
  <2> HIDE DEF old
  <2>4. ITypes' /\ DatedBefore'
    <3>1. old \subseteq Wraps
      BY <2>3
    <3>2. \A m \in DmNodes : /\ Holds(m)' \subseteq Holds(m)
                             /\ \A x \in Holds(m)' : wraps'[m][x] = wraps[m][x]
      BY <2>2
    <3> QED BY <2>1, <2>2, <3>1, <3>2
  <2>5. GoneIsOld'
    BY <2>1, <2>3
  <2>6. LetGoStaysGone'
    BY <1>a, <2>1, <2>2
  <2> QED BY <2>4, <2>5, <2>6
<1>5. ASSUME NEW n \in Keepers, CapRead(n) \/ CapCut(n) \/ LearnList(n) PROVE IInv'
  BY <1>5 DEF CapRead, CapCut, LearnList, Holds
<1>6. CASE NextDay
  <2>1. day' = day + 1 /\ UNCHANGED <<wraps, gone, made>>
    BY <1>6 DEF NextDay
  <2> QED BY <1>a, <2>1 DEF Holds
<1>7. CASE UNCHANGED ivars
  BY <1>7 DEF ivars, Holds
<1> QED
  BY <1>1, <1>2, <1>3, <1>4, <1>5, <1>6, <1>7 DEF INext

\* A wrap the anchor let go after its week never comes back to it, however
\* often the recipient's device offers it.
THEOREM AnchorLetsGoForGood == ISpec => []LetGoStaysGone
<1>1. IInit => IInv
  BY DEF IInit, IInv, ITypes, DatedBefore, GoneIsOld, LetGoStaysGone, Holds, DmNodes
<1>2. IInv => LetGoStaysGone
  BY DEF IInv
<1> QED BY <1>1, <1>2, InboxStep, PTL DEF ISpec

(***************************************************************************)
(* Files.                                                                  *)
(***************************************************************************)
\* What a sweep under way will not take.
Protected ==
    sweeping # None =>
        \A f \in Hashes \ late : f \in granted \/ (f \in ours /\ f \in carried) => f \in sweeping

FTypes == blobs \subseteq Hashes

\* A reading of the collector protects every file granted, and every file of
\* ours a message carries, whether the node pins all it carries or not.
LEMMA ReadingProtects ==
    ASSUME BeginSweep
    PROVE  Protected'
  <1>1. PICK K \in SUBSET carried :
          /\ IF PinAll THEN K = carried ELSE KeepsExactly(K)
          /\ sweeping' = K \cup {f \in ours : used[f] >= hour - PENDING_KEEP} \cup granted
    BY DEF BeginSweep
  <1>2. ours \cap carried \subseteq K
    <2>1. CASE PinAll
      BY <1>1, <2>1
    <2>2. CASE ~PinAll
      BY <1>1, <2>2 DEF KeepsExactly
    <2> QED BY <2>1, <2>2
  <1>3. UNCHANGED <<carried, ours, granted>>
    BY DEF BeginSweep
  <1> QED BY <1>1, <1>2, <1>3 DEF Protected

\* What a sweep takes was granted to nobody and is carried by no message of
\* ours when the collector read, and what it protects it goes on protecting.
LEMMA FilesStep ==
    FTypes /\ Protected /\ [FNext]_fvars
      => /\ FTypes' /\ Protected'
         /\ \A f \in blobs \ blobs' : f \notin late =>
                f \notin granted /\ ~(f \in ours /\ f \in carried)
<1> SUFFICES ASSUME FTypes, Protected, [FNext]_fvars
             PROVE  /\ FTypes' /\ Protected'
                    /\ \A f \in blobs \ blobs' : f \notin late =>
                          f \notin granted /\ ~(f \in ours /\ f \in carried)
  OBVIOUS
<1> USE DEF FTypes, Protected, TouchBlob
<1>1. ASSUME NEW f \in Hashes,
             Attach(f) \/ SendDmFile(f) \/ MessageStored(f) \/ MessageGone(f)
               \/ FetchFile(f) \/ DmFileArrives(f)
      PROVE  FTypes' /\ Protected' /\ blobs \subseteq blobs'
  <2>1. CASE Attach(f)
    BY <2>1 DEF Attach
  <2>2. CASE SendDmFile(f)
    BY <2>2 DEF SendDmFile
  <2>3. CASE MessageStored(f)
    BY <2>3 DEF MessageStored
  <2>4. CASE MessageGone(f)
    BY <2>4 DEF MessageGone
  <2>5. CASE FetchFile(f)
    BY <2>5 DEF FetchFile
  <2>6. CASE DmFileArrives(f)
    BY <2>6 DEF DmFileArrives
  <2> QED BY <1>1, <2>1, <2>2, <2>3, <2>4, <2>5, <2>6
<1>2. CASE BeginSweep
  BY <1>2, ReadingProtects DEF BeginSweep
<1>3. CASE AbortSweep
  BY <1>3 DEF AbortSweep
<1>4. CASE Sweep
  BY <1>4 DEF Sweep
<1>5. CASE HourPasses \/ UNCHANGED fvars
  BY <1>5 DEF HourPasses, fvars
<1> QED BY <1>1, <1>2, <1>3, <1>4, <1>5 DEF FNext

\* No sweep takes a file granted in a DM, or one of ours a held message
\* carries, unless it became so after the collector's reading.
THEOREM SweepSparesOurs == FSpec => OursIsNotSwept
<1>1. FInit => FTypes /\ Protected
  BY DEF FInit, FTypes, Protected
<1> QED BY <1>1, FilesStep, PTL DEF FSpec, OursIsNotSwept

(***************************************************************************)
(* Two processes on one store.                                             *)
(***************************************************************************)
HTypes ==
    /\ DOMAIN disk = Groups /\ DOMAIN fold = Groups /\ DOMAIN folded = Groups
    /\ \A g \in Groups : /\ disk[g] \in [acts : SUBSET Acts, seq : Nat]
                         /\ IsFiniteSet(disk[g].acts)
    /\ serving \subseteq carriedOn /\ carriedOn \subseteq Groups
    /\ \A g \in Groups \ carriedOn : disk[g] = Absent
    /\ command # None => command.group \in carriedOn /\ command.act \in Acts

\* A look recorded no more than there is now, and less if a write that the
\* count tells of came since.
CountsTell == \A g \in Groups :
    /\ folded[g] # None => folded[g] \in Nat /\ folded[g] <= Count(disk[g])
    /\ g \in serving /\ g \notin hidden /\ fold[g] # disk[g] =>
         folded[g] # None /\ folded[g] < Count(disk[g])

HInv == HTypes /\ CountsTell /\ LooksFindWrites

\* The count of a group with one action more is no smaller.
LEMMA CountGrows ==
    ASSUME NEW v \in [acts : SUBSET Acts, seq : Nat], IsFiniteSet(v.acts), NEW a \in Acts
    PROVE  LET w == [acts |-> v.acts \cup {a}, seq |-> v.seq]
           IN  /\ w \in [acts : SUBSET Acts, seq : Nat] /\ IsFiniteSet(w.acts)
               /\ Count(v) \in Nat /\ Count(w) \in Nat /\ Count(v) <= Count(w)
  <1> DEFINE w == [acts |-> v.acts \cup {a}, seq |-> v.seq]
  <1>1. /\ IsFiniteSet(v.acts \cup {a})
        /\ Cardinality(v.acts) \in Nat /\ Cardinality(v.acts \cup {a}) \in Nat
        /\ Cardinality(v.acts) <= Cardinality(v.acts \cup {a})
    <2>1. /\ IsFiniteSet(v.acts \cup {a})
          /\ Cardinality(v.acts \cup {a}) =
                IF a \in v.acts THEN Cardinality(v.acts) ELSE Cardinality(v.acts) + 1
      BY FS_AddElement
    <2>2. Cardinality(v.acts) \in Nat
      BY FS_CardinalityType
    <2> QED BY <2>1, <2>2
  <1>2. w.acts = v.acts \cup {a} /\ w.seq = v.seq /\ v.seq \in Nat
        /\ w \in [acts : SUBSET Acts, seq : Nat]
    OBVIOUS
  <1> HIDE DEF w
  <1>3. /\ w \in [acts : SUBSET Acts, seq : Nat] /\ IsFiniteSet(w.acts)
        /\ Count(v) \in Nat /\ Count(w) \in Nat /\ Count(v) <= Count(w)
    BY <1>1, <1>2 DEF Count
  <1> QED BY <1>3 DEF w

\* A write, of a count no smaller, is one the counts tell of or is hidden.
LEMMA WrittenTells ==
    ASSUME HTypes, CountsTell, LooksFindWrites, NEW g \in Groups,
           NEW v \in [acts : SUBSET Acts, seq : Nat], IsFiniteSet(v.acts),
           Count(disk[g]) \in Nat, Count(v) \in Nat, Count(disk[g]) <= Count(v),
           Written(g, v), UNCHANGED <<serving, fold, folded>>,
           carriedOn' \in {carriedOn, carriedOn \cup {g}}, g \in carriedOn',
           command' \in {command, None}
    PROVE  HInv'
  <1>1. /\ DOMAIN disk' = Groups /\ disk'[g] = v
        /\ \A h \in Groups \ {g} : disk'[h] = disk[h]
        /\ unseen' = unseen \cup {g}
        /\ hidden' = IF folded[g] = None \/ Count(v) = Count(disk[g])
                     THEN hidden \cup {g} ELSE hidden
    BY DEF Written, HTypes
  <1>2. HTypes'
    BY <1>1 DEF HTypes
  <1>3. \A h \in Groups \ {g} : Count(disk[h])' = Count(disk[h])
    BY <1>1 DEF Count
  <1>4. Count(disk[g])' = Count(v)
    BY <1>1 DEF Count
  <1>5. CountsTell'
    <2> SUFFICES ASSUME NEW h \in Groups
                 PROVE  /\ folded[h] # None =>
                             folded[h] \in Nat /\ folded[h] <= Count(disk[h])'
                        /\ h \in serving /\ h \notin hidden' /\ fold[h] # disk'[h] =>
                             folded[h] # None /\ folded[h] < Count(disk[h])'
      BY DEF CountsTell
    <2>1. CASE h = g
      BY <1>1, <1>4, <2>1 DEF CountsTell
    <2>2. CASE h # g
      BY <1>1, <1>3, <2>2 DEF CountsTell
    <2> QED BY <2>1, <2>2
  <1>6. LooksFindWrites'
    BY <1>1 DEF LooksFindWrites, HTypes
  <1> QED BY <1>2, <1>5, <1>6 DEF HInv

\* A write beside a node shows in the count the node compares, but for the
\* hidden ones.
LEMMA HStep == HInv /\ [HNext]_hvars => HInv'
<1> SUFFICES ASSUME HInv, [HNext]_hvars PROVE HInv'
  OBVIOUS
<1>a. HTypes /\ CountsTell /\ LooksFindWrites
  BY DEF HInv
<1>1. ASSUME NEW g \in Groups, NEW a \in Acts, JudgeOffline(g, a) PROVE HInv'
  <2>1. UNCHANGED <<disk, carriedOn, serving, fold, folded, unseen, hidden>>
        /\ command' = [group |-> g, act |-> a] /\ g \in carriedOn
    BY <1>1 DEF JudgeOffline
  <2>2. HTypes'
    BY <1>a, <2>1 DEF HTypes
  <2> QED BY <1>a, <2>1, <2>2 DEF HInv, CountsTell, LooksFindWrites, Count
<1>2. ASSUME NEW g \in Groups, NEW a \in Acts, NodeAccepts(g, a) PROVE HInv'
  <2> DEFINE w == [acts |-> disk[g].acts \cup {a}, seq |-> disk[g].seq]
  <2>1. /\ w \in [acts : SUBSET Acts, seq : Nat] /\ IsFiniteSet(w.acts)
        /\ Count(disk[g]) \in Nat /\ Count(w) \in Nat /\ Count(disk[g]) <= Count(w)
    BY <1>a, CountGrows DEF HTypes
  <2>2. disk' = [disk EXCEPT ![g] = w]
    <3>1. disk[g] \in [acts : SUBSET Acts, seq : Nat]
      BY <1>a DEF HTypes
    <3>2. [disk[g] EXCEPT !.acts = disk[g].acts \cup {a}] = w
      BY <3>1
    <3>3. disk' = [disk EXCEPT ![g] = [disk[g] EXCEPT !.acts = disk[g].acts \cup {a}]]
      BY <1>2 DEF NodeAccepts
    <3> QED BY <3>2, <3>3
  <2> HIDE DEF w
  <2>3. /\ DOMAIN disk' = Groups /\ disk'[g] = w
        /\ \A h \in Groups \ {g} : disk'[h] = disk[h]
    BY <1>a, <2>2 DEF HTypes
  <2>4. /\ DOMAIN fold' = Groups /\ fold'[g] = w
        /\ \A h \in Groups \ {g} : fold'[h] = fold[h]
        /\ hidden' = hidden \ {g} /\ unseen' = unseen \ {g}
        /\ UNCHANGED <<carriedOn, serving, folded, command>>
        /\ g \in serving
    BY <1>a, <1>2, <2>3 DEF HTypes, NodeAccepts
  <2>5. HTypes'
    BY <1>a, <2>1, <2>3, <2>4 DEF HTypes
  <2>6. CountsTell'
    <3>1. \A h \in Groups \ {g} : Count(disk[h])' = Count(disk[h])
      BY <2>3 DEF Count
    <3>2. Count(disk[g])' = Count(w)
      BY <2>3 DEF Count
    <3> QED BY <1>a, <2>1, <2>3, <2>4, <3>1, <3>2 DEF CountsTell
  <2>7. LooksFindWrites'
    BY <1>a, <2>3, <2>4 DEF LooksFindWrites, HTypes
  <2> QED BY <2>5, <2>6, <2>7 DEF HInv
<1>3. CASE InsertOffline
  <2> DEFINE g == command.group
             w == [acts |-> disk[g].acts \cup {command.act}, seq |-> disk[g].seq]
  <2>1. g \in Groups /\ g \in carriedOn /\ command.act \in Acts
    BY <1>a, <1>3 DEF InsertOffline, HTypes
  <2>2. /\ w \in [acts : SUBSET Acts, seq : Nat] /\ IsFiniteSet(w.acts)
        /\ Count(disk[g]) \in Nat /\ Count(w) \in Nat /\ Count(disk[g]) <= Count(w)
    BY <1>a, <2>1, CountGrows DEF HTypes
  <2>3. Written(g, w) /\ UNCHANGED <<carriedOn, serving, fold, folded>> /\ command' = None
    <3>1. disk[g] \in [acts : SUBSET Acts, seq : Nat]
      BY <1>a, <2>1 DEF HTypes
    <3>2. [disk[g] EXCEPT !.acts = disk[g].acts \cup {command.act}] = w
      BY <3>1
    <3>3. Written(g, [disk[g] EXCEPT !.acts = disk[g].acts \cup {command.act}])
      BY <1>3 DEF InsertOffline
    <3> QED BY <1>3, <3>2, <3>3 DEF InsertOffline
  <2> HIDE DEF w
  <2> QED BY <1>a, <2>1, <2>2, <2>3, WrittenTells
<1>4. ASSUME NEW g \in Groups, CompactOffline(g) PROVE HInv'
  <2> DEFINE w == [acts |-> disk[g].acts, seq |-> disk[g].seq + 1]
  <2>1. Written(g, w) /\ UNCHANGED <<carriedOn, serving, fold, folded, command>> /\ g \in carriedOn
    BY <1>a, <1>4 DEF CompactOffline, HTypes
  <2>2. /\ w \in [acts : SUBSET Acts, seq : Nat] /\ IsFiniteSet(w.acts)
        /\ Count(disk[g]) \in Nat /\ Count(w) = Count(disk[g])
    <3>1. Cardinality(disk[g].acts) \in Nat /\ disk[g].seq \in 1..MaxCompactions
      BY <1>a, <1>4, FS_CardinalityType DEF HTypes, CompactOffline
    <3>2. w.acts = disk[g].acts /\ w.seq = disk[g].seq + 1
      OBVIOUS
    <3> QED BY <1>a, <3>1, <3>2, StoreConstants DEF Count, HTypes
  <2> HIDE DEF w
  <2> QED BY <1>a, <2>1, <2>2, WrittenTells
<1>5. ASSUME NEW g \in Groups, CreateOffline(g) PROVE HInv'
  <2>1. Written(g, New) /\ UNCHANGED <<serving, fold, folded, command>>
        /\ carriedOn' = carriedOn \cup {g} /\ disk[g] = Absent
    BY <1>a, <1>5 DEF CreateOffline, HTypes
  <2>2. /\ New \in [acts : SUBSET Acts, seq : Nat] /\ IsFiniteSet(New.acts)
        /\ Count(Absent) = 0 /\ Count(New) = 3
    BY FS_EmptySet DEF New, Absent, Count
  <2> QED BY <1>a, <2>1, <2>2, WrittenTells
<1>6. ASSUME NEW g \in Groups, RefoldChanged(g) PROVE HInv'
  <2>1. /\ DOMAIN folded' = Groups /\ folded'[g] = Count(disk[g])
        /\ \A h \in Groups \ {g} : folded'[h] = folded[h]
        /\ DOMAIN fold' = Groups
        /\ fold'[g] = IF folded[g] \in {None, Count(disk[g])} THEN fold[g] ELSE disk[g]
        /\ \A h \in Groups \ {g} : fold'[h] = fold[h]
        /\ hidden' = IF fold'[g] = disk[g] THEN hidden \ {g} ELSE hidden
        /\ unseen' = unseen \ {g}
        /\ UNCHANGED <<disk, carriedOn, serving, command>>
        /\ g \in serving
    BY <1>a, <1>6 DEF RefoldChanged, HTypes
  <2>2. HTypes'
    BY <1>a, <2>1 DEF HTypes
  <2>3. \A h \in Groups : Count(disk[h])' = Count(disk[h]) /\ Count(disk[h]) \in Nat
    <3> TAKE h \in Groups
    <3>1. Cardinality(disk[h].acts) \in Nat
      BY <1>a, FS_CardinalityType DEF HTypes
    <3> QED BY <2>1, <3>1 DEF Count
  <2>4. g \notin hidden => fold'[g] = disk[g]
    BY <1>a, <2>1, <2>3 DEF CountsTell
  <2>5. CountsTell'
    BY <1>a, <2>1, <2>3, <2>4 DEF CountsTell
  <2>6. LooksFindWrites'
    BY <1>a, <2>1, <2>4 DEF LooksFindWrites, HTypes
  <2> QED BY <2>2, <2>5, <2>6 DEF HInv
<1>7. CASE RestartRun
  <2>1. HTypes'
    BY <1>a, <1>7 DEF RestartRun, HTypes
  <2>2. LooksFindWrites' /\ \A g \in Groups : fold'[g] = disk'[g] \/ g \notin serving'
    BY <1>a, <1>7 DEF RestartRun, HTypes, LooksFindWrites
  <2>3. CountsTell'
    BY <1>7, <2>2 DEF RestartRun, CountsTell
  <2> QED BY <2>1, <2>2, <2>3 DEF HInv
<1>8. CASE UNCHANGED hvars
  BY <1>8 DEF hvars, HInv, HTypes, CountsTell, LooksFindWrites, Count
<1> QED BY <1>1, <1>2, <1>3, <1>4, <1>5, <1>6, <1>7, <1>8 DEF HNext

\* What the command line writes beside a running node, the node's next look
\* finds, but for the writes no count tells of.
THEOREM NextLookFindsWrites == HSpec => []LooksFindWrites
<1>1. HInit => HInv
  <2> SUFFICES ASSUME HInit PROVE HInv
    OBVIOUS
  <2>1. /\ New \in [acts : SUBSET Acts, seq : Nat] /\ IsFiniteSet(New.acts)
        /\ Absent \in [acts : SUBSET Acts, seq : Nat] /\ IsFiniteSet(Absent.acts)
    BY FS_EmptySet DEF New, Absent
  <2> QED BY <2>1, StoreConstants DEF HInit, HInv, HTypes, CountsTell, LooksFindWrites
<1>2. HInv => LooksFindWrites
  BY DEF HInv
<1> QED BY <1>1, <1>2, HStep, PTL DEF HSpec

(***************************************************************************)
(* Following and joining a group.                                          *)
(***************************************************************************)
GroupEvents == [state : BOOLEAN, public : BOOLEAN, member : BOOLEAN]

QTypes ==
    /\ chain \in Seq(GroupEvents) /\ Len(chain) > 0
    /\ opening \in [Openers -> {None} \cup FollowCalls \cup JoinCalls]
    /\ onDisk \in BOOLEAN /\ inMemory \in BOOLEAN /\ reading \in BOOLEAN /\ putDown \in BOOLEAN

\* A join is on the disk before anybody is asked, and a member came by one.
JoinIsOnDisk ==
    /\ \A t \in Openers : opening[t] \in JoinCalls => onDisk
    /\ Now.member => onDisk

\* What is on the disk or read is carried, is about to be, or was put down.
OpenIsCarried ==
    /\ view # None => inMemory
    /\ onDisk \/ reading => \/ inMemory \/ putDown
                          \/ \E t \in Openers : opening[t] # None /\ opening[t].at = "carry"

\* What is carried without being on the disk or read, is by a follow that
\* will put it down or find it public.
CarriedIsOpen ==
    inMemory => \/ onDisk \/ reading
                \/ \E t \in Openers : opening[t] \in FollowCalls /\ ~opening[t].already

QInv == QTypes /\ JoinIsOnDisk /\ OpenIsCarried /\ CarriedIsOpen

\* invite_peers gives a list of the link's peers.
LEMMA InvitePeersType == InvitePeers \in Seq(LinkPeers)
  <1> DEFINE n == Cardinality(AnchorDevices)
             s == SetToSeq(AnchorDevices)
             k == Lesser(n, LINK_PEERS - 1)
  <1>1. n \in Nat /\ ExistsBijection(1..n, AnchorDevices)
    BY FS_CardinalityType, JoiningConstants
  <1>2. s \in [1..n -> AnchorDevices]
    <2>1. PICK f \in [1..n -> AnchorDevices] : IsInjective(f)
      BY <1>1 DEF ExistsBijection, Bijection, Injection
    <2> QED BY <2>1 DEF SetToSeq
  <1>3. s \in Seq(LinkPeers) /\ Len(s) = n
    BY <1>1, <1>2 DEF LinkPeers
  <1>4. k \in Int /\ k <= n
    BY <1>1, JoiningConstants DEF Lesser
  <1> HIDE DEF s, n, k
  <1>5. SubSeq(s, 1, k) \in Seq(LinkPeers)
    BY <1>1, <1>3, <1>4
  <1>6. <<"maker">> \in Seq(LinkPeers)
    BY DEF LinkPeers
  <1>7. InvitePeers = SubSeq(s, 1, k) \o <<"maker">>
    BY DEF InvitePeers, s, n, k
  <1> QED BY <1>5, <1>6, <1>7

\* What is said last is the group's state now.
LEMMA AppendedIsNow ==
    ASSUME QTypes, NEW e \in GroupEvents, chain' = Append(chain, e)
    PROVE  chain' \in Seq(GroupEvents) /\ Len(chain') > 0 /\ Now' = e
  BY DEF QTypes, Now

\* The state now is an event of the group.
LEMMA NowIsEvent == QTypes => Now \in GroupEvents
  BY DEF QTypes, Now

\* What a call's next step makes of the calls under way.
LEMMA CallHolds ==
    ASSUME QTypes, NEW t \in Openers, NEW c \in {None} \cup FollowCalls \cup JoinCalls, Call(t, c)
    PROVE  /\ opening' \in [Openers -> {None} \cup FollowCalls \cup JoinCalls]
           /\ opening'[t] = c
           /\ \A u \in Openers \ {t} : opening'[u] = opening[u]
  BY DEF QTypes, Call

\* The two kinds of call differ, and neither is None.
LEMMA CallKinds ==
    /\ \A c \in FollowCalls : /\ c # None /\ c.op = "follow" /\ c.at \in {"dial", "check"}
                              /\ c \notin JoinCalls
    /\ \A c \in JoinCalls : /\ c # None /\ c.op = "join" /\ c.at \in {"carry", "dial", "sync"}
                            /\ c \notin FollowCalls
  BY JoiningConstants DEF FollowCalls, JoinCalls

\* A sync changes the state in memory only of a group that is carried.
LEMMA AcceptsView ==
    ASSUME NEW last, Accepts(last)
    PROVE  inMemory \/ view' = view
  BY DEF Accepts

\* A call that goes on is of the same kind, and a follow remembers whether
\* the group was carried when it began.
LEMMA CallGoesOn ==
    ASSUME NEW c, NEW at, NEW left \in Seq(LinkPeers)
    PROVE  /\ c \in FollowCalls /\ at \in {"dial", "check"} =>
                /\ [c EXCEPT !.at = at] \in FollowCalls
                /\ [c EXCEPT !.at = at].already = c.already
                /\ [c EXCEPT !.left = left] \in FollowCalls
                /\ [c EXCEPT !.left = left].already = c.already
           /\ c \in JoinCalls /\ at \in {"dial", "sync"} =>
                /\ [c EXCEPT !.at = at] \in JoinCalls
                /\ [c EXCEPT !.left = left] \in JoinCalls
                /\ [c EXCEPT !.at = at].at # "carry"
                /\ [c EXCEPT !.left = left].at = c.at
<1>1. ASSUME c \in FollowCalls, at \in {"dial", "check"}
      PROVE  /\ [c EXCEPT !.at = at] \in FollowCalls
             /\ [c EXCEPT !.at = at].already = c.already
             /\ [c EXCEPT !.left = left] \in FollowCalls
             /\ [c EXCEPT !.left = left].already = c.already
  BY <1>1 DEF FollowCalls
<1>2. ASSUME c \in JoinCalls, at \in {"dial", "sync"}
      PROVE  /\ [c EXCEPT !.at = at] \in JoinCalls
             /\ [c EXCEPT !.left = left] \in JoinCalls
             /\ [c EXCEPT !.at = at].at # "carry"
             /\ [c EXCEPT !.left = left].at = c.at
  BY <1>2 DEF JoinCalls
<1> QED BY <1>1, <1>2

\* Whichever await of a follow, a join or a close another one meets, what is
\* open, carried and on the disk go together.
LEMMA QStep == QInv /\ [QNext]_qvars => QInv'
<1> SUFFICES ASSUME QInv, [QNext]_qvars PROVE QInv'
  OBVIOUS
<1> USE DEF QInv, JoinIsOnDisk, OpenIsCarried, CarriedIsOpen, appVars
<1>a. /\ QTypes
      /\ onDisk \in BOOLEAN /\ inMemory \in BOOLEAN /\ reading \in BOOLEAN /\ putDown \in BOOLEAN
      /\ chain \in Seq(GroupEvents) /\ Len(chain) > 0
      /\ opening \in [Openers -> {None} \cup FollowCalls \cup JoinCalls]
      /\ Now \in GroupEvents
  BY NowIsEvent DEF QTypes
<1>b. UNCHANGED chain => UNCHANGED Now
  BY DEF Now
<1>c. QTypes' <=>
      /\ chain' \in Seq(GroupEvents) /\ Len(chain') > 0
      /\ opening' \in [Openers -> {None} \cup FollowCalls \cup JoinCalls]
      /\ onDisk' \in BOOLEAN /\ inMemory' \in BOOLEAN /\ reading' \in BOOLEAN
      /\ putDown' \in BOOLEAN
  BY DEF QTypes
<1>d. \A t \in Openers : opening[t] # None => opening[t] \in FollowCalls \cup JoinCalls
  BY <1>a
<1>1. CASE TurnPublic \/ SignSnapshotAgain
  <2>1. PICK e \in GroupEvents : Grow(e) /\ e.member = Now.member
    <3>1. /\ [Now EXCEPT !.state = FALSE, !.public = ~Now.public] \in GroupEvents
          /\ [Now EXCEPT !.state = FALSE, !.public = ~Now.public].member = Now.member
          /\ [Now EXCEPT !.state = TRUE] \in GroupEvents
          /\ [Now EXCEPT !.state = TRUE].member = Now.member
      BY <1>a DEF GroupEvents
    <3>2. CASE TurnPublic
      BY <3>1, <3>2, Zenon DEF TurnPublic
    <3>3. CASE SignSnapshotAgain
      BY <3>1, <3>3, Zenon DEF SignSnapshotAgain
    <3> QED BY <1>1, <3>2, <3>3
  <2> QED BY <1>a, <1>c, <2>1, AppendedIsNow DEF Grow
<1>2. CASE LoopSync \/ LookAgain
  <2>1. inMemory /\ UNCHANGED <<chain, onDisk, inMemory, reading, opening, putDown>>
    BY <1>2 DEF LoopSync, LookAgain
  <2> QED BY <1>a, <1>b, <1>c, <2>1
<1>3. CASE StartAgain
  BY <1>3, <1>a, <1>b, <1>c, CallKinds DEF StartAgain
<1>4. ASSUME NEW t \in Openers, OpenPublicLink(t) PROVE QInv'
  <2> DEFINE c == [op |-> "follow", at |-> "dial", already |-> inMemory, left |-> InvitePeers,
                   served |-> FALSE]
  <2>1. c \in FollowCalls /\ c.already = inMemory
    BY <1>a, InvitePeersType DEF FollowCalls
  <2>2. Call(t, c) /\ opening[t] = None /\ inMemory' = TRUE
        /\ UNCHANGED <<chain, onDisk, reading, putDown, view>>
    BY <1>4 DEF OpenPublicLink, CarryInMemory
  <2> HIDE DEF c
  <2>3. /\ opening' \in [Openers -> {None} \cup FollowCalls \cup JoinCalls]
        /\ opening'[t] = c
        /\ \A u \in Openers \ {t} : opening'[u] = opening[u]
    BY <1>a, <2>1, <2>2, CallHolds
  <2> QED BY <1>a, <1>b, <1>c, <2>1, <2>2, <2>3, CallKinds
<1>5. ASSUME NEW t \in Openers, OpenInvite(t) \/ JoinReading(t) PROVE QInv'
  <2>1. PICK coded \in BOOLEAN, read \in BOOLEAN : JoinKeeps(t, coded, read)
    BY <1>5 DEF OpenInvite, JoinReading
  <2>2. JoinCall(coded, read) \in JoinCalls /\ JoinCall(coded, read).at = "carry"
    BY InvitePeersType DEF JoinCalls, JoinCall
  <2>3. onDisk' = TRUE /\ UNCHANGED <<chain, inMemory, view, reading, putDown>>
    BY <1>5, <2>1 DEF OpenInvite, JoinReading, JoinKeeps
  <2>4. /\ opening' \in [Openers -> {None} \cup FollowCalls \cup JoinCalls]
        /\ opening'[t] = JoinCall(coded, read)
    BY <1>a, <2>1, <2>2, CallHolds DEF JoinKeeps
  <2> QED BY <1>a, <1>b, <1>c, <2>2, <2>3, <2>4, CallKinds
<1>6. ASSUME NEW t \in Openers, Carry(t) PROVE QInv'
  <2> DEFINE c == [opening[t] EXCEPT !.at = "dial"]
  <2>1. opening[t] \in JoinCalls
    BY <1>6, <1>d, CallKinds DEF Carry
  <2>2. c \in JoinCalls
    BY <2>1, InvitePeersType, CallGoesOn
  <2>3. Call(t, c) /\ inMemory' = TRUE /\ UNCHANGED <<chain, onDisk, view, reading, putDown>>
    BY <1>6 DEF Carry, CarryInMemory
  <2> HIDE DEF c
  <2>4. /\ opening' \in [Openers -> {None} \cup FollowCalls \cup JoinCalls]
        /\ opening'[t] = c
        /\ \A u \in Openers \ {t} : opening'[u] = opening[u]
    BY <1>a, <2>2, <2>3, CallHolds
  <2> QED BY <1>a, <1>b, <1>c, <2>1, <2>2, <2>3, <2>4
<1>7. ASSUME NEW t \in Openers, NextPeer(t) PROVE QInv'
  <2> DEFINE c == [opening[t] EXCEPT !.left = Tail(opening[t].left)]
  <2>1. opening[t] \in FollowCalls \cup JoinCalls /\ opening[t].at = "dial"
        /\ opening[t].left # <<>>
    BY <1>7, <1>d DEF NextPeer
  <2>2. Tail(opening[t].left) \in Seq(LinkPeers)
    BY <2>1 DEF FollowCalls, JoinCalls
  <2>3. \/ opening[t] \in FollowCalls /\ c \in FollowCalls /\ c.already = opening[t].already
        \/ opening[t] \in JoinCalls /\ c \in JoinCalls /\ c.at = "dial"
    BY <2>1, <2>2, CallGoesOn
  <2>4. Call(t, c) /\ UNCHANGED <<chain, onDisk, inMemory, view, reading, putDown>>
    BY <1>7 DEF NextPeer
  <2> HIDE DEF c
  <2>5. /\ opening' \in [Openers -> {None} \cup FollowCalls \cup JoinCalls]
        /\ opening'[t] = c
        /\ \A u \in Openers \ {t} : opening'[u] = opening[u]
    BY <1>a, <2>3, <2>4, CallHolds
  <2> QED BY <1>a, <1>b, <1>c, <2>1, <2>3, <2>4, <2>5, CallKinds
<1>8. ASSUME NEW t \in Openers, FollowSync(t) PROVE QInv'
  <2>1. PICK last \in DOMAIN chain :
          /\ Accepts(last)
          /\ Call(t, [opening[t] EXCEPT !.left = Tail(@),
                                        !.at = IF last = Len(chain) THEN "check" ELSE "dial",
                                        !.served = @ \/ (last = Len(chain) /\ Now.public)])
    BY <1>8 DEF FollowSync
  <2> DEFINE at == IF last = Len(chain) THEN "check" ELSE "dial"
             b == opening[t].served \/ (last = Len(chain) /\ Now.public)
             left == Tail(opening[t].left)
             c == [opening[t] EXCEPT !.left = left, !.at = at, !.served = b]
  <2>2. opening[t] \in FollowCalls /\ opening[t].left # <<>>
    BY <1>8, <1>d, CallKinds DEF FollowSync
  <2>3. left \in Seq(LinkPeers) /\ b \in BOOLEAN /\ at \in {"dial", "check"}
    BY <2>2 DEF FollowCalls
  <2>4. Call(t, c)
    BY <2>1
  <2> HIDE DEF at, b, left
  <2>5. c \in FollowCalls /\ c.already = opening[t].already
    BY <2>2, <2>3 DEF FollowCalls
  <2> HIDE DEF c
  <2>6. /\ opening' \in [Openers -> {None} \cup FollowCalls \cup JoinCalls]
        /\ opening'[t] = c
        /\ \A u \in Openers \ {t} : opening'[u] = opening[u]
    BY <1>a, <2>4, <2>5, CallHolds
  <2>7. UNCHANGED <<chain, onDisk, inMemory, reading, putDown>> /\ (inMemory \/ view' = view)
    BY <1>8, <2>1, AcceptsView DEF FollowSync
  <2> QED BY <1>a, <1>b, <1>c, <2>2, <2>5, <2>6, <2>7, CallKinds
<1>9. ASSUME NEW t \in Openers, FollowCheck(t) PROVE QInv'
  <2> DEFINE found == view # None /\ view.public
             c == IF found THEN None ELSE [opening[t] EXCEPT !.at = "dial"]
  <2>1. opening[t] \in FollowCalls
    BY <1>9, <1>d, CallKinds DEF FollowCheck
  <2>2. ~found => c \in FollowCalls /\ c.already = opening[t].already
    BY <2>1, InvitePeersType, CallGoesOn
  <2>3. Call(t, c) /\ reading' = (reading \/ found)
        /\ UNCHANGED <<chain, onDisk, inMemory, view, putDown>>
    BY <1>9 DEF FollowCheck
  <2>4. found => c = None /\ inMemory
    BY <1>a
  <2> HIDE DEF c
  <2>5. /\ opening' \in [Openers -> {None} \cup FollowCalls \cup JoinCalls]
        /\ opening'[t] = c
        /\ \A u \in Openers \ {t} : opening'[u] = opening[u]
    BY <1>a, <2>2, <2>3, <2>4, CallHolds
  <2>6. reading' \in BOOLEAN
    BY <2>3
  <2> QED BY <1>a, <1>b, <1>c, <2>1, <2>2, <2>3, <2>4, <2>5, <2>6, CallKinds
<1>10. ASSUME NEW t \in Openers, FollowGivesUp(t) PROVE QInv'
  <2>1. opening[t] \in FollowCalls /\ opening[t].already \in BOOLEAN
    BY <1>10, <1>d, CallKinds DEF FollowGivesUp, FollowCalls
  <2>2. /\ inMemory' = (inMemory /\ opening[t].already)
        /\ view' = IF inMemory' THEN view ELSE None
        /\ putDown' = (putDown \/ (~opening[t].already /\ (onDisk \/ reading)))
        /\ Call(t, None)
        /\ UNCHANGED <<chain, onDisk, reading>>
    BY <1>10, <2>1 DEF FollowGivesUp, PutsDown
  <2>3. /\ opening' \in [Openers -> {None} \cup FollowCalls \cup JoinCalls]
        /\ opening'[t] = None
        /\ \A u \in Openers \ {t} : opening'[u] = opening[u]
    BY <1>a, <2>2, CallHolds
  <2>4. inMemory' \in BOOLEAN /\ putDown' \in BOOLEAN
    BY <2>2
  <2> QED BY <1>a, <1>b, <1>c, <2>1, <2>2, <2>3, <2>4, CallKinds
<1>11. ASSUME NEW t \in Openers, NEW heard \in BOOLEAN, Deliver9021(t, heard) PROVE QInv'
  <2> DEFINE passes == ~Now.member /\ (opening[t].coded \/ Now.public)
             at == IF heard /\ (passes \/ opening[t].delivered) THEN "sync" ELSE "dial"
             b == opening[t].delivered \/ passes
             left == Tail(opening[t].left)
             c == [opening[t] EXCEPT !.left = left, !.delivered = b, !.at = at]
             e == [Now EXCEPT !.state = FALSE, !.member = TRUE]
  <2>1. opening[t] \in JoinCalls /\ opening[t].left # <<>> /\ opening[t].at = "dial"
    BY <1>11, <1>d, CallKinds DEF Deliver9021
  <2>2. left \in Seq(LinkPeers) /\ b \in BOOLEAN /\ at \in {"dial", "sync"}
    BY <2>1 DEF JoinCalls
  <2>3. Call(t, c) /\ UNCHANGED <<onDisk, inMemory, view, reading, putDown>>
        /\ (chain' = Append(chain, e) \/ UNCHANGED chain)
    BY <1>11 DEF Deliver9021
  <2>4. e \in GroupEvents
    BY <1>a DEF GroupEvents
  <2> HIDE DEF at, b, left, passes, e
  <2>5. c \in JoinCalls /\ c.at # "carry"
    BY <2>1, <2>2 DEF JoinCalls
  <2> HIDE DEF c
  <2>6. /\ opening' \in [Openers -> {None} \cup FollowCalls \cup JoinCalls]
        /\ opening'[t] = c
        /\ \A u \in Openers \ {t} : opening'[u] = opening[u]
    BY <1>a, <2>3, <2>5, CallHolds
  <2>7. chain' \in Seq(GroupEvents) /\ Len(chain') > 0
    BY <1>a, <2>3, <2>4, AppendedIsNow
  <2> QED BY <1>a, <1>c, <2>1, <2>3, <2>5, <2>6, <2>7, CallKinds
<1>12. ASSUME NEW t \in Openers, JoinSync(t) PROVE QInv'
  <2>1. opening[t] \in JoinCalls
    BY <1>12, <1>d, CallKinds DEF JoinSync
  <2>2. PICK last \in DOMAIN chain :
          /\ Accepts(last)
          /\ reading' = (reading /\ ~(opening[t].read /\ last = Len(chain)))
    BY <1>12 DEF JoinSync
  <2>3. Call(t, None) /\ UNCHANGED <<chain, onDisk, inMemory, putDown>>
        /\ (inMemory \/ view' = view) /\ reading' \in BOOLEAN
    BY <1>12, <2>2, AcceptsView DEF JoinSync
  <2>4. /\ opening' \in [Openers -> {None} \cup FollowCalls \cup JoinCalls]
        /\ opening'[t] = None
        /\ \A u \in Openers \ {t} : opening'[u] = opening[u]
    BY <1>a, <2>3, CallHolds
  <2>5. opening[t].at # "carry"
    BY <1>12 DEF JoinSync
  <2> QED BY <1>a, <1>b, <1>c, <2>1, <2>3, <2>4, <2>5, CallKinds
<1>13. ASSUME NEW t \in Openers, JoinGivesUp(t) PROVE QInv'
  <2>1. opening[t] \in JoinCalls /\ opening[t].at # "carry"
    BY <1>13, <1>d, CallKinds DEF JoinGivesUp
  <2>2. Call(t, None) /\ UNCHANGED <<chain, onDisk, inMemory, view, reading, putDown>>
    BY <1>13 DEF JoinGivesUp
  <2>3. /\ opening' \in [Openers -> {None} \cup FollowCalls \cup JoinCalls]
        /\ opening'[t] = None
        /\ \A u \in Openers \ {t} : opening'[u] = opening[u]
    BY <1>a, <2>2, CallHolds
  <2> QED BY <1>a, <1>b, <1>c, <2>1, <2>2, <2>3, CallKinds
<1>14. CASE UNCHANGED qvars
  BY <1>14, <1>a, <1>b, <1>c DEF qvars
<1> QED
  BY <1>1, <1>2, <1>3, <1>4, <1>5, <1>6, <1>7, <1>8, <1>9, <1>10, <1>11, <1>12, <1>13, <1>14
     DEF QNext

\* A group this person became a member of is on the disk wherever the app
\* was killed, what is open is carried unless a follow put it down, and a
\* follow leaves nothing carried that it did not find public.
THEOREM JoiningKeeps == QSpec => []JoinedIsKept
<1>1. QInit => QInv
  <2> SUFFICES ASSUME QInit PROVE QInv
    OBVIOUS
  <2>1. PICK p \in BOOLEAN : chain = <<[state |-> TRUE, public |-> p, member |-> FALSE]>>
    BY DEF QInit
  <2>2. chain \in Seq(GroupEvents) /\ Len(chain) = 1 /\ Now.member = FALSE
    BY <2>1 DEF GroupEvents, Now
  <2>3. /\ onDisk = FALSE /\ inMemory = FALSE /\ reading = FALSE /\ putDown = FALSE
        /\ opening = [t \in Openers |-> None] /\ view = None
    BY DEF QInit
  <2>4. QTypes
    <3>1. onDisk \in BOOLEAN /\ inMemory \in BOOLEAN /\ reading \in BOOLEAN /\ putDown \in BOOLEAN
      BY <2>3
    <3>2. opening \in [Openers -> {None} \cup FollowCalls \cup JoinCalls]
      BY <2>3
    <3>3. chain \in Seq(GroupEvents) /\ Len(chain) > 0
      BY <2>2
    <3> QED BY <3>1, <3>2, <3>3 DEF QTypes
  <2> QED BY <2>2, <2>3, <2>4, CallKinds
          DEF QInv, JoinIsOnDisk, OpenIsCarried, CarriedIsOpen
<1>2. QInv => JoinedIsKept
  BY CallKinds DEF QInv, JoinIsOnDisk, OpenIsCarried, CarriedIsOpen, JoinedIsKept, Idle
<1> QED BY <1>1, <1>2, QStep, PTL DEF QSpec
=============================================================================
