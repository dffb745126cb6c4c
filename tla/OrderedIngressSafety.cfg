SPECIFICATION Spec
CONSTANTS
    Producers = {p1, p2}
    Keys = {k1, k2}
    Durable = Durable
    KeyLimit = 2
    DurableLimit = 0
    OutCapacity = 1
    MaxOffers = 4
SYMMETRY Symmetry
INVARIANTS
    NoCrossing
    Lossless
    PermitsConserved
    KeysCounted
PROPERTIES
    StreamSpec
CHECK_DEADLOCK FALSE
