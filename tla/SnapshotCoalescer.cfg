SPECIFICATION SnapshotFairSpec
CONSTANTS
    k1 = k1
    k2 = k2
    k3 = k3
    t1 = t1
    t2 = t2
    SnapshotKeys = {k1, k2, k3}
    Producers = {o1, o2}
    SnapshotTurn <- ItemTurns
    MaxSnapshotOffers = 3
CHECK_DEADLOCK FALSE
INVARIANTS
    LatestKept
    WakeUpOnItsWay
PROPERTIES
    CloseEndsReceiver
