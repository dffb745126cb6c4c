CONSTANTS
    w1 = w1
    w2 = w2
    Workers = {w1, w2}
    MaxAttempts = 3
    MaxFaults = 3
SPECIFICATION FairSpec
INVARIANTS
    NoCorruption
    SoleOwner
PROPERTIES
    ClosedStaysClosed
    DeliverySettles
