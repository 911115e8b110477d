SPECIFICATION LedgersSpec
CONSTANTS
    Signatures = {s1, s2, s3}
    NoEntry = noEntry
    Limits = {1, 2}
    FailureDepth = 3
    RollbackDepth = 2
    MaxReturns = 6
SYMMETRY Symmetry
INVARIANTS
    ArchivesValid
    HistoryKept
PROPERTIES
    StrikeSpec
