SPECIFICATION FairSpec
CONSTANTS
    Publishers = {p1, p2}
    Listeners = {l1, l2}
    Turns = {t1}
    NoTurn = NoTurn
    NoEvent = NoEvent
    DurableCapacity = 2
    MaxEvents = 3
CHECK_DEADLOCK FALSE
INVARIANTS
    SingleConsumer
    BacklogSurvives
    OkIsConfirmed
    TransitionOwned
PROPERTIES
    WaiterIsAnswered
    TransitionIsReleased
