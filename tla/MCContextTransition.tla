------------------------- MODULE MCContextTransition -------------------------
(* Instances of ContextTransition for TLC. *)
EXTENDS ContextTransition, TLC

\* Every accountant charges the same turn (a retried call) or its own.
CONSTANT turn
SameTurn == [a \in Accountants |-> turn]

\* Commands of one kind are interchangeable.
Symmetry == Permutations(Mutators) \cup Permutations(Accountants)
            \cup Permutations(Restorers) \cup Permutations(Discarders)
=============================================================================
