SPECIFICATION NodesSpec
CONSTANTS
    Signatures = {s1, s2}
    Versions = {v1, v2}
    MaxStrikes = 4
    Unbound = unbound
    NoVersion = noVersion
    NoEntry = noEntry
SYMMETRY Symmetry
INVARIANTS
    AcceptedPrefix
    GatesHonoured
    EvidenceMatchesNodes
    ThirdStrikeNeedsHuman
