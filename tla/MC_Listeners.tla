---------------------------- MODULE MC_Listeners ----------------------------
(* Instances of Listeners and Devices for TLC. *)
EXTENDS Devices, TLC

Symmetry == Permutations(Conns)
=============================================================================
