---------------------------- MODULE MCFailureLedger ----------------------------
(* Instances of FailureLedger for TLC. *)
EXTENDS FailureLedger, TLC

Symmetry == Permutations(Signatures)
=============================================================================
