-------------------------- MODULE MC_TrafficLimiter --------------------------
(* Instances of TrafficLimiter for TLC. *)
EXTENDS TrafficLimiter

OneHost == [c \in Conns |-> 1]

RuleOf(a, c, i, n) == [all |-> a, conn |-> c, ip |-> <<i>>, cidr |-> <<n>>]

(* Each level with several limits and without one; the address with a line of
   its own, with one that says nothing of this direction, and without. *)
SomeRules == {RuleOf(1, 2, NotListed, 1), RuleOf(2, 1, 2, 0), RuleOf(0, 0, 0, 2),
              RuleOf(1, 3, NotListed, 0)}
=============================================================================
