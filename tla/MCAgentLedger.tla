------------------------------ MODULE MCAgentLedger -----------------------------
(* Instances of AgentLedger for TLC. *)
EXTENDS AgentLedger, TLC

\* What the modes leave to children, in units of one child's reservation.
ThreeBudgets == <<0, 1, 2>>
ThreeCaps == <<0, 1, 2>>

\* States are expanded within a short history, or as long as nothing but children of
\* the third mode has happened: no fault, no escalation, no save outside the lock.
Explored ==
    \/ ids <= 4 /\ snap.n <= 2
    \/ faults = 0 /\ task.mode = 3 /\ op["escalate"] = None /\ \A v \in acked : v.locked

Symmetry == Permutations(Agents \ Retries)
=============================================================================
