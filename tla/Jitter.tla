------------------------------- MODULE Jitter -------------------------------
(***************************************************************************)
(* One peer's stream through the jitter buffer                             *)
(* (crates/hit-voice/src/jitter.rs), between the sender's frame counter    *)
(* (audio_loop in crates/hit-voice/src/call.rs) and the listener's ticks.  *)
(*                                                                         *)
(*   frame   frames the sender has taken from its microphone; the seq of   *)
(*           a packet is its frame modulo WRAP, and a frame not sent       *)
(*           (silence, mute) counts too                                    *)
(*   net     frames on the way                                             *)
(*   held    the unwrapped seqs of the packets held                        *)
(*   next, newest, dry   Jitter's fields                                   *)
(*                                                                         *)
(* and, of what happened, for the properties:                              *)
(*   newestFrame   the frame whose packet `newest` is                      *)
(*   due     where the sender's counter was at the last tick: the frame    *)
(*           whose packet the next tick should find                        *)
(*   fresh   that packet was pushed since the last tick                    *)
(*   quiet   ticks on time in a row that played nothing                    *)
(***************************************************************************)
EXTENDS NodeBase

CONSTANTS WRAP,         \* 65536: seq is a u16
          DELAY, MAX_DRY, MAX_HELD, CATCH_UP,
          FirstFrame,   \* the frame the sender is at when the listener connects
          Pauses,       \* lengths, in frames, of the pauses in speech
          MaxFrame,     \* bound: frames
          MaxNet        \* bound: packets on the way at once

ASSUME JitterConstants ==
    /\ None \notin Int
    /\ {WRAP, DELAY, MAX_DRY, MAX_HELD, CATCH_UP, MaxFrame, MaxNet} \subseteq Nat \ {0}
    /\ FirstFrame \in Nat /\ Pauses \subseteq Nat /\ 2 * (DELAY + CATCH_UP) < WRAP /\ DELAY <= MAX_HELD

VARIABLES frame, net, held, next, newest, dry, newestFrame, due, fresh, quiet

jvars == <<frame, net, held, next, newest, dry, newestFrame, due, fresh, quiet>>

JInit ==
    /\ frame = FirstFrame /\ net = {} /\ held = {}
    /\ next = None /\ newest = None /\ dry = 0
    /\ newestFrame = None /\ due = FirstFrame /\ fresh = FALSE /\ quiet = 0

AbsDiff(a, b) == IF a >= b THEN a - b ELSE b - a

\* Mutant: the turn of the newest packet, whatever the distance.
UnwrapInTurn(seq) == IF newest = None THEN seq + WRAP ELSE newest - (newest % WRAP) + seq

\* unwrap: of the three turns around the newest, the nearest; the earlier of two as near.
Unwrap(seq) ==
    IF newest = None THEN seq + WRAP
    ELSE LET base == newest - (newest % WRAP)
             turns3 == {base - WRAP + seq, base + seq, base + WRAP + seq}
         IN  CHOOSE s \in turns3 : \A t \in turns3 :
                \/ AbsDiff(s, newest) < AbsDiff(t, newest)
                \/ AbsDiff(s, newest) = AbsDiff(t, newest) /\ s <= t

\* push, of the packet of frame f.
JitterPush(f) ==
    LET s == Unwrap(f % WRAP)
        grown == held \cup {s} IN
    /\ f \in net
    /\ net' = net \ {f}
    /\ IF next # None /\ s < next
       THEN UNCHANGED <<held, newest, newestFrame>>
       ELSE /\ newest' = IF newest = None THEN s ELSE Greater(newest, s)
            /\ newestFrame' = IF newest = None \/ s > newest THEN f ELSE newestFrame
            /\ held' = IF Cardinality(grown) > MAX_HELD THEN grown \ {Least(grown)} ELSE grown
    /\ fresh' = (fresh \/ f = due)
    /\ UNCHANGED <<frame, next, dry, due, quiet>>

\* A tick on time: one frame since the last, and its packet is here.
OnTime == fresh /\ frame = due + 1

\* pop, once started at n: skip ahead when too far behind, play the packet of the turn, or
\* start over when dry.
PopAt(n) ==
    LET behind == newest + 1 > n + DELAY + CATCH_UP
        turn == IF behind THEN newest + 1 - DELAY ELSE n
        kept == IF behind THEN {s \in held : s >= turn} ELSE held
        plays == turn \in kept
        starved == ~plays /\ (dry + 1 > MAX_DRY \/ (kept = {} /\ dry + 1 > 2))
    IN  /\ held' = kept \ {turn}
        /\ next' = IF starved THEN None ELSE turn + 1
        /\ dry' = IF plays \/ starved THEN 0 ELSE dry + 1
        /\ quiet' = IF OnTime /\ ~plays THEN quiet + 1 ELSE 0

\* pop: not started, it waits for DELAY packets.
JitterPop ==
    /\ IF next = None /\ Cardinality(held) < DELAY
       THEN /\ quiet' = IF OnTime THEN quiet + 1 ELSE 0
            /\ UNCHANGED <<held, next, dry>>
       ELSE PopAt(IF next = None THEN Least(held) ELSE next)
    /\ due' = frame /\ fresh' = FALSE
    /\ UNCHANGED <<frame, net, newest, newestFrame>>

\* audio_loop, out: the frame is sent, and the counter moves on.
SendFrame ==
    /\ frame < MaxFrame /\ Cardinality(net) < MaxNet
    /\ net' = net \cup {frame}
    /\ frame' = frame + 1
    /\ UNCHANGED <<held, next, newest, dry, newestFrame, due, fresh, quiet>>

\* A pause in speech: n frames counted and not sent, long enough for the buffer to run dry.
Pause(n) ==
    /\ frame + n < MaxFrame /\ net = {} /\ next = None
    /\ frame' = frame + n
    /\ quiet' = 0 /\ fresh' = FALSE
    /\ UNCHANGED <<net, held, next, newest, dry, newestFrame, due>>

\* A datagram is lost.
LoseFrame(f) ==
    /\ f \in net /\ net' = net \ {f}
    /\ UNCHANGED <<frame, held, next, newest, dry, newestFrame, due, fresh, quiet>>

JNext ==
    \/ SendFrame \/ JitterPop
    \/ \E n \in Pauses : Pause(n)
    \/ \E f \in net : JitterPush(f) \/ LoseFrame(f)

JSpec == JInit /\ [][JNext]_jvars

-----------------------------------------------------------------------------

\* Every packet on the way is of a frame within half a turn of the numbers from the newest
\* pushed: for a u16, within eleven minutes.
Timely == newest # None => \A f \in net : 2 * AbsDiff(f, newestFrame) < WRAP

\* A stream that arrives on time is heard: no more ticks on time in a row go by without a
\* packet played than to run dry (MAX_DRY) and to wait for DELAY packets again.
HeardSoon == quiet <= MAX_DRY + DELAY
=============================================================================
