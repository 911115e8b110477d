SPECIFICATION Spec
CONSTANTS
    Agents = {a1, a2, a3}
    Retries = {a3}
    Budget <- ThreeBudgets
    Cap <- ThreeCaps
    Cost = 1
    MaxIds = 6
    MaxSnaps = 3
    MaxFaults = 2
    None = none
SYMMETRY Symmetry
CONSTRAINT Explored
INVARIANTS
    ChainDetects
    WithinMode
    IInv
CHECK_DEADLOCK FALSE
