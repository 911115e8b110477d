SPECIFICATION Spec
CONSTANTS
    Mutators = {m1, m2}
    Accountants = {a1, a2}
    Restorers = {r1}
    Discarders = {d1}
    turn = t1
    Turns = {t1}
    TurnOf <- SameTurn
    Initial = initial
    NoOwner = noOwner
SYMMETRY Symmetry
PROPERTIES
    RegisterSpec
    CommitIsWhole
    RollbackIsExact
CHECK_DEADLOCK FALSE
