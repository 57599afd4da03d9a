------------------------------ MODULE NodeBase ------------------------------
(***************************************************************************)
(* What the modules of the node's and the application's services share.    *)
(***************************************************************************)
EXTENDS Integers, FiniteSets

CONSTANT None   \* no value: Rust's Option::None

Least(S) == CHOOSE x \in S : \A y \in S : x <= y
Greatest(S) == CHOOSE x \in S : \A y \in S : y <= x
Lesser(a, b) == IF a <= b THEN a ELSE b
Greater(a, b) == IF a >= b THEN a ELSE b
=============================================================================
