---------------------------- MODULE MC_ConfigAPI ----------------------------
(* Instances of ConfigAPI for TLC. *)
EXTENDS ConfigAPI, TLC

Symmetry == Permutations(Clients) \cup Permutations(Names) \cup Permutations(Datas)
=============================================================================
