SPECIFICATION Spec
CONSTANTS
    Runners = {p1, p2}
    Runs = {r1, r2}
    Cases = {c1}
    Timeouts = {1, 2}
    Cap = 3
    Grace = 1
    MaxRequests = 1
    MaxTasks = 1
    None = none
SYMMETRY Symmetry
INVARIANTS
    ChargedOnce
    BudgetHolds
    AllowanceIsQuiet
    RunsNeedDecisions
CHECK_DEADLOCK FALSE
