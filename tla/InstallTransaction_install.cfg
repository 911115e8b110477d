SPECIFICATION Spec
CONSTANTS
    Last = 2
    Commands = {c1, c2}
    MaxInstalls = 2
    MaxEdits = 2
    MaxWrites = 1
    Torn = torn
    None = none
SYMMETRY Symmetry
INVARIANTS
    InstalledStands
    CommandsAreBarred
    PrivateKept
    RefusalHasCause
PROPERTY PredecessorKept
