----------------------------- MODULE MCFormalReview -----------------------------
(* Instances of FormalReview for TLC. *)
EXTENDS FormalReview, TLC

Symmetry == Permutations(Chains) \cup Permutations(Executors)
=============================================================================
