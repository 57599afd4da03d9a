-------------------------- MODULE MCAcceptPipeline --------------------------
(* AcceptPipeline on small instances. *)
EXTENDS AcceptPipeline

CONSTANTS o, a, b,   \* the owner, a moderator, a plain member
          t1, t2     \* two deliveries at a time

\* Two text channels, with a slowmode of two seconds in the first.
MCStart ==
    LET g == PutDo(PutDo(Genesis(o, "text", FALSE, "general", 1), a, {"mod"}, 1), b, {}, 1)
    IN ToSnapshot([g EXCEPT !.channels =
            [c \in {"general", "side"} |->
                [kind |-> "text", slowmode |-> IF c = "general" THEN 2 ELSE 0]]], 2)

Said(id, at, c) == [kind |-> "message", id |-> id, by |-> b, at |-> at, channel |-> c]

Withdrawal == [kind |-> "deletion", id |-> 3, by |-> b, at |-> 4, channel |-> "general",
               targets |-> {1}]

\* b says something in each channel, withdraws the first, is kicked in the
\* second of the other, and let in again; a moderator names both in a 9005
\* of one channel.
MCDeliveries ==
    {Said(1, 2, "general"), Said(2, 3, "side"), Withdrawal,
     [kind |-> "delete_event", id |-> 4, by |-> a, at |-> 4, channel |-> "side",
      targets |-> {1, 2}],
     [kind |-> "remove", id |-> 5, by |-> a, at |-> 3, target |-> b, ban |-> FALSE],
     [kind |-> "put", id |-> 6, by |-> a, at |-> 4, target |-> b, roles |-> {}]}

\* A message and its withdrawal.
MCWithdrawal == {Said(1, 2, "general"), Withdrawal}
=============================================================================
