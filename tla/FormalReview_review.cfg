SPECIFICATION Spec
CONSTANTS
    Chains = {c1, c2}
    Executors = {e1, e2}
    Cap = 2
    Checks = 2
    MaxAgents = 4
    MaxCandidates = 2
    None = none
SYMMETRY Symmetry
INVARIANTS
    ChainOrdered
    ReplayOrdered
PROPERTIES
    ClosedIsFinal
CHECK_DEADLOCK FALSE
