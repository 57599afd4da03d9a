------------------------------ MODULE MCParts -------------------------------
(***************************************************************************)
(* The safety of the parts that do not touch one another's state, in one   *)
(* run: a behaviour is one of the parts', chosen at the start, and the     *)
(* other parts stay as they began.  Each part's states are then exactly    *)
(* those of its own specification.                                         *)
(***************************************************************************)
EXTENDS Bindings, GossipGate, Inbox, Files, VoiceCall, Jitter, Zaps, SharedStore,
        Window, Onboarding, Publishing, Bridge, WireForms, Joining, TLC

CONSTANTS me, sib, fay,         \* Bindings: nodes
          d1,                   \* GossipGate: a device
          w1, w2,               \* Inbox: gift wraps
          f1, f2,               \* Files: hashes
          z1, z2, k1, k2,       \* Zaps: zaps and providers' keys
          g1, g2, a1, a2,       \* SharedStore: groups and actions
          n1, n2, n3,           \* Onboarding: identities
          r1, r2                \* Publishing: relays

VARIABLE part

\* The second wrap is dated a day before it is sent (wrap_dm's random date).
MCDated == w1 :> 0 @@ w2 :> 1

\* The second file fills the cache by itself.
MCSizeOf == f1 :> 1 @@ f2 :> 2

\* Three people with a phone each; A calls B while B calls C.
MCPhones == {"a", "b", "c"}
MCOwnerOf == "a" :> "A" @@ "b" :> "B" @@ "c" :> "C"
MCDials == {<<"a", "B">>, <<"b", "C">>}

\* One zap large enough for a fee, one a sat too small.
MCAmountOf == z1 :> 199 @@ z2 :> 99

\* A message, a reaction to it by this person, and a direct message of theirs.
MCPlaceOf == "m1" :> "c1" @@ "r" :> "c1" @@ "d" :> "dm"
MCReactsTo == "m1" :> None @@ "r" :> "m1" @@ "d" :> None
MCOrder == <<"c1", "c2">>

AllInit ==
    /\ BInit /\ GInit /\ IInit /\ FInit /\ CInit /\ JInit /\ ZInit /\ HInit
    /\ WInit /\ OInit /\ UInit /\ BridgeInit /\ WireInit /\ QInit
    /\ part \in {"bindings", "gossip", "inbox", "files", "call", "jitter",
                "zaps", "store", "window", "onboarding", "publishing",
                "bridge", "wire", "joining"}
    /\ part # "window" => visible = {}   \* a part that is not the one begins one way
    /\ part # "wire" => meant = [act |-> "leave"]
    /\ part # "joining" => chain[1].public

BindingsStep ==
    /\ part = "bindings" /\ BNext
    /\ UNCHANGED <<gvars, ivars, fvars, cvars, jvars, zvars, hvars, wvars,
                   ovars, uvars, wsvars, wirevars, qvars, part>>

GossipGateStep ==
    /\ part = "gossip" /\ GNext
    /\ UNCHANGED <<bvars, ivars, fvars, cvars, jvars, zvars, hvars, wvars,
                   ovars, uvars, wsvars, wirevars, qvars, part>>

InboxStep ==
    /\ part = "inbox" /\ INext
    /\ UNCHANGED <<bvars, gvars, fvars, cvars, jvars, zvars, hvars, wvars,
                   ovars, uvars, wsvars, wirevars, qvars, part>>

FilesStep ==
    /\ part = "files" /\ FNext
    /\ UNCHANGED <<bvars, gvars, ivars, cvars, jvars, zvars, hvars, wvars,
                   ovars, uvars, wsvars, wirevars, qvars, part>>

VoiceCallStep ==
    /\ part = "call" /\ CNext
    /\ UNCHANGED <<bvars, gvars, ivars, fvars, jvars, zvars, hvars, wvars,
                   ovars, uvars, wsvars, wirevars, qvars, part>>

JitterStep ==
    /\ part = "jitter" /\ JNext
    /\ UNCHANGED <<bvars, gvars, ivars, fvars, cvars, zvars, hvars, wvars,
                   ovars, uvars, wsvars, wirevars, qvars, part>>

ZapsStep ==
    /\ part = "zaps" /\ ZNext
    /\ UNCHANGED <<bvars, gvars, ivars, fvars, cvars, jvars, hvars, wvars,
                   ovars, uvars, wsvars, wirevars, qvars, part>>

SharedStoreStep ==
    /\ part = "store" /\ HNext
    /\ UNCHANGED <<bvars, gvars, ivars, fvars, cvars, jvars, zvars, wvars,
                   ovars, uvars, wsvars, wirevars, qvars, part>>

WindowStep ==
    /\ part = "window" /\ WNext
    /\ UNCHANGED <<bvars, gvars, ivars, fvars, cvars, jvars, zvars, hvars,
                   ovars, uvars, wsvars, wirevars, qvars, part>>

OnboardingStep ==
    /\ part = "onboarding" /\ ONext
    /\ UNCHANGED <<bvars, gvars, ivars, fvars, cvars, jvars, zvars, hvars,
                   wvars, uvars, wsvars, wirevars, qvars, part>>

PublishingStep ==
    /\ part = "publishing" /\ UNext
    /\ UNCHANGED <<bvars, gvars, ivars, fvars, cvars, jvars, zvars, hvars,
                   wvars, ovars, wsvars, wirevars, qvars, part>>

BridgeStep ==
    /\ part = "bridge" /\ BridgeNext
    /\ UNCHANGED <<bvars, gvars, ivars, fvars, cvars, jvars, zvars, hvars,
                   wvars, ovars, uvars, wirevars, qvars, part>>

WireFormsStep ==
    /\ part = "wire" /\ WireNext
    /\ UNCHANGED <<bvars, gvars, ivars, fvars, cvars, jvars, zvars, hvars,
                   wvars, ovars, uvars, wsvars, qvars, part>>

JoiningStep ==
    /\ part = "joining" /\ QNext
    /\ UNCHANGED <<bvars, gvars, ivars, fvars, cvars, jvars, zvars, hvars,
                   wvars, ovars, uvars, wsvars, wirevars, part>>

AllNext ==
    \/ BindingsStep \/ GossipGateStep \/ InboxStep \/ FilesStep
    \/ VoiceCallStep \/ JitterStep \/ ZapsStep \/ SharedStoreStep
    \/ WindowStep \/ OnboardingStep \/ PublishingStep \/ BridgeStep
    \/ WireFormsStep \/ JoiningStep

AllVars == <<bvars, gvars, ivars, fvars, cvars, jvars, zvars, hvars,
             wvars, ovars, uvars, wsvars, wirevars, qvars, part>>

PartsSpec == AllInit /\ [][AllNext]_AllVars
=============================================================================
