SPECIFICATION Spec
CONSTANTS
    text = text
    tool = tool
    message = message
    call = call
    turn = turn
    Keys = {text, tool}
    Snapshots = {tool}
    ItemOf <- KeyItems
    TurnOf <- ItemTurns
    Leased = {}
    MaxAppend = 2
    MaxSnapshot = 1
    MaxFlushBatch = 1
    Timers = {t1}
    Publishers = {p1}
    MaxPendingKeys = 2
    OutsideRuntime = FALSE
    MaxOffers = 2
    MaxScheduling = 1
CHECK_DEADLOCK FALSE
INVARIANTS
    CausalProgressFirst
