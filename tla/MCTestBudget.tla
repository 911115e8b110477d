------------------------------ MODULE MCTestBudget ------------------------------
(* Instances of TestBudget for TLC. *)
EXTENDS TestBudget, TLC

Symmetry == Permutations(Runners) \cup Permutations(Runs)
=============================================================================
