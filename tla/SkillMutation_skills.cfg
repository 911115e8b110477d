SPECIFICATION Spec
CONSTANTS
    Skills = {s1, s2}
    Bundles = {b1, b2}
    Part = part
    None = none
    MaxChain = 4
    MaxFaults = 2
INVARIANTS
    Audited
PROPERTIES
    RegisterSpec
    RecoveryEnds
