SPECIFICATION Spec
CONSTANTS
    Size = 2
    Generated = generated
    None = none
    MaxTries = 2
    MaxSaves = 3
    MaxCrashes = 2
INVARIANTS
    NothingLost
    Settled
PROPERTIES
    RecoveryEnds
