-------------------------- MODULE MCInstallTransaction --------------------------
(* Instances of InstallTransaction for TLC. *)
EXTENDS InstallTransaction, TLC

Symmetry == Permutations(Commands)
=============================================================================
