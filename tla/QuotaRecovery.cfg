CONSTANTS
    NoClaim = NoClaim
    Windows = {w1}
    Instances = {i1, i2}
    MaxLeft = 1
    MaxEvents = 1
    Workers = 1
    MaxCrashes = 1
SPECIFICATION Spec
INVARIANTS ClaimKeepsEvent
PROPERTIES LateSettlementIsInert
SYMMETRY Symmetry
