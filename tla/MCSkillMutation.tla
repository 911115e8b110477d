----------------------------- MODULE MCSkillMutation ----------------------------
(* Instances of SkillMutation for TLC. *)
EXTENDS SkillMutation, TLC

Symmetry == Permutations(Skills) \cup Permutations(Bundles)
=============================================================================
