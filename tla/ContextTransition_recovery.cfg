SPECIFICATION FairSpec
CONSTANTS
    Mutators = {m1}
    Accountants = {}
    Restorers = {r1, r2, r3}
    Discarders = {}
    turn = t1
    Turns = {t1}
    TurnOf <- SameTurn
    Initial = initial
    NoOwner = noOwner
INVARIANT JournalCoversTear
PROPERTIES RestoreHeals RestoreSparesComplete EveryCommandEnds
CHECK_DEADLOCK FALSE
