----------------------------- MODULE PhoneLine -----------------------------
(***************************************************************************)
(* What a person is promised of 1:1 calls, device by device: one line,     *)
(* that goes from free to a call with one person, perhaps to talking with  *)
(* that person, and back to free, and a bell that rings for one person at  *)
(* a time.  A line never goes from one call to another without being put   *)
(* down.                                                                   *)
(*                                                                         *)
(*   line   per device, None or [with, talking]                            *)
(*   bell   per device, None or the person it rings for                    *)
(***************************************************************************)
CONSTANTS Lines, People, NoOne

VARIABLES line, bell

PInit == line = [d \in Lines |-> NoOne] /\ bell = [d \in Lines |-> NoOne]

Lift(d, p) ==
    /\ line[d] = NoOne
    /\ line' = [line EXCEPT ![d] = [with |-> p, talking |-> FALSE]]

Dial(d, p) == Lift(d, p) /\ UNCHANGED bell
PickUp(d) == Lift(d, bell[d]) /\ bell[d] # NoOne /\ bell' = [bell EXCEPT ![d] = NoOne]

Talk(d) ==
    /\ line[d] # NoOne /\ ~line[d].talking
    /\ line' = [line EXCEPT ![d].talking = TRUE]
    /\ UNCHANGED bell

PutDown(d) == line[d] # NoOne /\ line' = [line EXCEPT ![d] = NoOne] /\ UNCHANGED bell

RingFor(d, p) ==
    /\ bell[d] = NoOne /\ line[d] = NoOne
    /\ bell' = [bell EXCEPT ![d] = p] /\ UNCHANGED line
Silence(d) == bell[d] # NoOne /\ bell' = [bell EXCEPT ![d] = NoOne] /\ UNCHANGED line

PNext == \E d \in Lines :
    \/ PickUp(d) \/ Talk(d) \/ PutDown(d) \/ Silence(d)
    \/ \E p \in People : Dial(d, p) \/ RingFor(d, p)

PSpec == PInit /\ [][PNext]_<<line, bell>>
=============================================================================
