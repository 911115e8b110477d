------------------------------ MODULE StrikeLedger ------------------------------
(***************************************************************************)
(* What the failure bookkeeping of a task promises to the three-strike     *)
(* rule: it counts every return of a root cause since the task started,    *)
(* and knows the last one.                                                 *)
(***************************************************************************)
EXTENDS Naturals

CONSTANTS
    Signatures,   \* root causes
    NoEntry       \* nothing was returned yet

VARIABLES
    counts,       \* returns of each root cause
    last          \* the last return: its root cause and that cause's count

Init ==
    /\ counts = [s \in Signatures |-> 0]
    /\ last = NoEntry

Strike(s) ==
    /\ counts' = [counts EXCEPT ![s] = @ + 1]
    /\ last' = <<s, counts[s] + 1>>

\* A new task starts with an empty ledger.
Forget ==
    /\ counts' = [s \in Signatures |-> 0]
    /\ last' = NoEntry

Next == Forget \/ \E s \in Signatures : Strike(s)

Spec == Init /\ [][Next]_<<counts, last>>
=============================================================================
