SPECIFICATION FairSpec
CONSTANTS
    Producers = {p1, p2}
    Keys = {k1, k2}
    Durable = Durable
    KeyLimit = 2
    DurableLimit = 1
    OutCapacity = 1
    MaxOffers = 3
PROPERTIES
    DurableIsSent
    AcceptedIsSent
    CloseStopsTheWorker
CHECK_DEADLOCK FALSE
