---------------------------- MODULE MCWorkflowNodes ----------------------------
(* Instances of WorkflowNodes for TLC. *)
EXTENDS WorkflowNodes, TLC

Symmetry == Permutations(Signatures) \cup Permutations(Versions)
=============================================================================
