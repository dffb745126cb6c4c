SPECIFICATION FairSpec
CONSTANTS
    Writers = {w1, w2, w3}
    MaxCriticalBurst = 2
    MaxNonMaintenanceBurst = 3
    CounterMax = 3
    MaxOwners = 2
INVARIANTS
    OneReservation
    IdleWriterHasNoWaiters
    MaintenanceBypassBounded
    CriticalRunBounded
PROPERTIES
    MaintenanceProgress
    InteractiveProgress
