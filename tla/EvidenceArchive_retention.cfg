SPECIFICATION Spec
CONSTANTS
    Papers = {p1}
    Contents = {c1, c2}
    None = none
    OldChains <- UpToTwo
    MaxArchives = 1
    MaxCalls = 3
    MaxFaults = 2
INVARIANTS
    NothingLost
    HeadStands
PROPERTIES
    RetriesSettle
CHECK_DEADLOCK FALSE
