----------------------------- MODULE GossipGate -----------------------------
(***************************************************************************)
(* One group's gossip at one node: who may be connected on its ALPN, and   *)
(* what a change of the group does to the connections                      *)
(* (crates/hit-node/src/gossip.rs, Inner::group_changed of lib.rs).        *)
(*                                                                         *)
(*   inside    the devices whose person the group's state has as a member  *)
(*   bound     the devices with a live binding in the book                 *)
(*   inGroup   whether the node's own person is a member                   *)
(*   instance  whether the group's Instance is in Gossips::map             *)
(*   served    whether the endpoint answers the group's ALPN               *)
(*   live      Instance::live: the connections tracked                     *)
(*   conn      per device, where its connection is: "none", "in" or "out"  *)
(*             past the membership check of the hook, "accepted" between   *)
(*             hook and admit, "open"                                      *)
(*   changing  per caller of group_changed, the step it is at: "boot" is   *)
(*             Node::start, which holds no lock, and "fold" accept_event   *)
(*             or refold_if_changed, which hold fold_lock for writing      *)
(*   crossed   a change of the group met the boot's group_changed          *)
(*   failed    subscribing failed, or was cut, since the last change       *)
(*   staleAlpns  a group_changed was cut before its update_alpns, and none  *)
(*             came since                                                  *)
(*   stray     the devices whose handshake met a change, or whose          *)
(*             connection was made before the map had the instance         *)
(***************************************************************************)
EXTENDS NodeBase

CONSTANT Devices   \* devices of other people

Callers == {"boot", "fold"}

VARIABLES inside, bound, inGroup, instance, served, live, conn, changing,
          crossed, failed, staleAlpns, stray

gvars == <<inside, bound, inGroup, instance, served, live, conn, changing,
           crossed, failed, staleAlpns, stray>>

groupVars == <<inside, bound, inGroup>>
ghostVars == <<crossed, failed, staleAlpns, stray>>

GInit ==
    /\ inside = Devices /\ bound = Devices /\ inGroup = TRUE
    /\ instance = FALSE /\ served = FALSE /\ live = {}
    /\ conn = [d \in Devices |-> "none"]
    /\ changing = [c \in Callers |-> IF c = "boot" THEN "look" ELSE "idle"]
    /\ crossed = FALSE /\ failed = FALSE /\ staleAlpns = FALSE /\ stray = {}

DeviceIsMember(d) == d \in inside \cap bound

GoOn(c, step) == changing' = [changing EXCEPT ![c] = step]

-----------------------------------------------------------------------------
(* The group changes. *)

\* A state-changing event is taken, or another process's is seen: the fold
\* puts the device's person, or our own, in or out, and group_changed runs
\* before the lock is let go.
StateChange ==
    /\ changing["fold"] = "idle"
    /\ \/ \E d \in Devices :
            /\ inside' = IF d \in inside THEN inside \ {d} ELSE inside \cup {d}
            /\ stray' = IF conn[d] \in {"in", "out"} THEN stray \cup {d} ELSE stray
            /\ UNCHANGED inGroup
       \/ inGroup' = ~inGroup /\ UNCHANGED <<inside, stray>>
    /\ GoOn("fold", "look")
    /\ crossed' = (crossed \/ changing["boot"] # "idle")
    /\ failed' = FALSE
    /\ UNCHANGED <<bound, instance, served, live, conn, staleAlpns>>

\* The device's binding expires or is revoked, or a new one comes: the book
\* changes, and nothing calls group_changed.
BindingChange(d) ==
    /\ bound' = IF d \in bound THEN bound \ {d} ELSE bound \cup {d}
    /\ UNCHANGED <<inside, inGroup, instance, served, live, conn, changing>>
    /\ UNCHANGED ghostVars

-----------------------------------------------------------------------------
(* group_changed. *)

Look(c) ==
    /\ changing[c] = "look"
    /\ GoOn(c, IF inGroup /\ ~instance THEN "subscribe"
               ELSE IF ~inGroup /\ instance THEN "stop" ELSE "revoke")
    /\ UNCHANGED <<groupVars, instance, served, live, conn, ghostVars>>

\* Gossips::start: the subscription is made before the map has the instance;
\* of two starts that race, the first is kept.
Subscribed(c) ==
    /\ changing[c] = "subscribe"
    /\ instance' = TRUE
    /\ GoOn(c, "alpns")
    /\ UNCHANGED <<groupVars, served, live, conn, ghostVars>>

SubscribeFails(c) ==
    /\ changing[c] = "subscribe"
    /\ failed' = TRUE
    /\ GoOn(c, "revoke")
    /\ UNCHANGED <<groupVars, instance, served, live, conn, crossed, staleAlpns, stray>>

\* Mutant: the map keeps the instance it shuts down.
StopKeepsInstance(c) ==
    /\ changing[c] = "stop"
    /\ conn' = [d \in Devices |-> IF d \in live THEN "none" ELSE conn[d]]
    /\ live' = {}
    /\ GoOn(c, "shutdown")
    /\ UNCHANGED <<groupVars, instance, served, ghostVars>>

\* Gossips::stop: out of the map, what is tracked closed, the actor shut down.
StopInstance(c) ==
    /\ changing[c] = "stop"
    /\ instance' = FALSE
    /\ conn' = [d \in Devices |-> IF d \in live THEN "none" ELSE conn[d]]
    /\ live' = {}
    /\ GoOn(c, "shutdown")
    /\ UNCHANGED <<groupVars, served, ghostVars>>

Shutdown(c) ==
    /\ changing[c] = "shutdown"
    /\ conn' = [d \in Devices |-> IF conn[d] = "open" THEN "none" ELSE conn[d]]
    /\ GoOn(c, "alpns")
    /\ UNCHANGED <<groupVars, instance, served, live, ghostVars>>

UpdateAlpns(c) ==
    /\ changing[c] = "alpns"
    /\ served' = instance
    /\ staleAlpns' = FALSE
    /\ GoOn(c, "revoke")
    /\ UNCHANGED <<groupVars, instance, live, conn, crossed, failed, stray>>

\* accept_event is dropped where group_changed awaits (SYNC_TIMEOUT, a session
\* that ends): at the subscription, which is dropped with it, or at the
\* actor's shutdown, of which as much is done as is; nothing after it runs.
CutChange ==
    /\ \/ /\ changing["fold"] = "subscribe"
          /\ failed' = TRUE
          /\ UNCHANGED <<conn, staleAlpns>>
       \/ /\ changing["fold"] = "shutdown"
          /\ conn' \in {conn, [d \in Devices |-> IF conn[d] = "open" THEN "none" ELSE conn[d]]}
          /\ staleAlpns' = TRUE
          /\ UNCHANGED failed
    /\ GoOn("fold", "idle")
    /\ UNCHANGED <<groupVars, instance, served, live, crossed, stray>>

\* Mutant: the list is cleaned, the connections stay.
RevokeListOnly(c) ==
    /\ changing[c] = "revoke"
    /\ live' = {d \in live : DeviceIsMember(d)}
    /\ GoOn(c, "idle")
    /\ UNCHANGED <<groupVars, instance, served, conn, ghostVars>>

\* Gossips::revoke: whoever is tracked and speaks for no member is closed.
RevokeConnections(c) ==
    LET out == IF instance THEN {d \in live : ~DeviceIsMember(d)} ELSE {} IN
    /\ changing[c] = "revoke"
    /\ conn' = [d \in Devices |-> IF d \in out THEN "none" ELSE conn[d]]
    /\ live' = live \ out
    /\ GoOn(c, "idle")
    /\ UNCHANGED <<groupVars, instance, served, ghostVars>>

-----------------------------------------------------------------------------
(* Connections. *)

\* The hook's question, for a connection dialled to us or by our gossip (the
\* bootstrap of a subscription, redial_gossip, or the swarm's own dials).
AfterHandshake(d) ==
    /\ conn[d] = "none"
    /\ DeviceIsMember(d)
    /\ \/ served /\ conn' = [conn EXCEPT ![d] = "in"]
       \/ /\ instance \/ \E c \in Callers : changing[c] = "subscribe"
          /\ conn' = [conn EXCEPT ![d] = "out"]
    /\ stray' = stray \ {d}
    /\ UNCHANGED <<groupVars, instance, served, live, changing, crossed, failed, staleAlpns>>

\* Gossips::track, after the question: nothing is remembered of a
\* connection of a group the map does not have.
Track(d) ==
    /\ conn[d] \in {"in", "out"}
    /\ conn' = [conn EXCEPT ![d] = IF @ = "in" THEN "accepted" ELSE "open"]
    /\ live' = IF instance THEN live \cup {d} ELSE live
    /\ stray' = IF instance THEN stray ELSE stray \cup {d}
    /\ UNCHANGED <<groupVars, instance, served, changing, crossed, failed, staleAlpns>>

\* accept.rs hands an accepted connection to Gossips::admit.
Admit(d) ==
    /\ conn[d] = "accepted"
    /\ conn' = [conn EXCEPT ![d] = IF instance THEN "open" ELSE "none"]
    /\ UNCHANGED <<groupVars, instance, served, live, changing, ghostVars>>

\* The other side goes away; a weak handle no longer upgrades.
Disconnect(d) ==
    /\ conn[d] = "open"
    /\ conn' = [conn EXCEPT ![d] = "none"]
    /\ live' = live \ {d}
    /\ UNCHANGED <<groupVars, instance, served, changing, ghostVars>>

GStep(c) == \/ Look(c) \/ Subscribed(c) \/ SubscribeFails(c) \/ StopInstance(c)
            \/ Shutdown(c) \/ UpdateAlpns(c) \/ RevokeConnections(c)

GNext == \/ StateChange \/ CutChange
         \/ \E c \in Callers : GStep(c)
         \/ \E d \in Devices : \/ BindingChange(d) \/ AfterHandshake(d) \/ Track(d)
                               \/ Admit(d) \/ Disconnect(d)

GSpec == GInit /\ [][GNext]_gvars

-----------------------------------------------------------------------------
(* Properties. *)

Settled == \A c \in Callers : changing[c] = "idle"

\* "Don't subscribe before you are a member", and leave when you are not:
\* unless a change met the boot, once group_changed is through the group's
\* instance runs only if our own person is a member, and runs if so, unless
\* subscribing failed or was cut; its ALPN is answered while it runs, and no
\* longer, unless the delivery that stopped it was cut before update_alpns
\* (`staleAlpns`: connections on it are then taken and dropped by Admit).
OnExactlyAsMember ==
    Settled /\ ~crossed =>
        /\ instance => inGroup
        /\ inGroup => instance \/ failed
        /\ instance => served
        /\ served => instance \/ staleAlpns

\* "A list is not revocation": once group_changed is through, nobody whose
\* person the group put out is still connected, except a connection whose
\* handshake the change overtook, or made before the map had the instance.
PutOutIsCutOff ==
    Settled => \A d \in Devices : conn[d] = "open" => d \in inside \cup stray

=============================================================================
