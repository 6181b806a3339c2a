---------------------------- MODULE MC_ChainRoute ----------------------------
(* Instances of ChainRoute for TLC. *)
EXTENDS ChainRoute, TLC

NoBypass == [a \in Targets |-> {}]

NoHash == [d \in Dialers |-> 0]

DialersAlike == Permutations(Dialers)

(* Two chains; one has a hop of a node that is down and its backup, then a
   lone node that multiplexes; the other a lone node that is down.  The second
   address bypasses a hop of the one and the node of the other. *)
FailoverGroup == <<"A", "B">>
FailoverHops ==
  [c \in {"A", "B"} |-> IF c = "A" THEN <<<<"a1", "a2">>, <<"a3">>>> ELSE <<<<"b1">>>>]
FailoverHopBypass == [a \in Targets |-> IF a = "y" THEN {<<"A", 2>>} ELSE {}]
FailoverNodeBypass == [a \in Targets |-> IF a = "y" THEN {"b1"} ELSE {}]

=============================================================================
