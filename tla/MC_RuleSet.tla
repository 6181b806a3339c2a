---------------------------- MODULE MC_RuleSet ----------------------------
(* Instances of RuleSet for TLC. *)
EXTENDS RuleSet

(* Nothing; what matches; what matches less specifically, or something else. *)
SomeContents ==
  [kind \in {k.name : k \in Kinds} |->
     CASE kind = "admission" -> {{}, {1}, {2}}
       [] kind \in {"hosts", "ingress"} -> {{}, {1}, {2}, {2, 3}}
       [] kind = "bypass" -> {{}, {1, 3}, {2}, {4}}
       [] kind = "auth" -> {{}, {1}, {4}}
       [] kind = "rate" -> {{}, {1, 4}, {2, 3}, {3}}]
=============================================================================
