SPECIFICATION FairSpec
CONSTANTS
    text = text
    tool = tool
    message = message
    call = call
    turn = turn
    Keys = {text, tool}
    Snapshots = {tool}
    ItemOf <- KeyItems
    TurnOf <- ItemTurns
    Leased = {call}
    MaxAppend = 2
    MaxSnapshot = 1
    MaxFlushBatch = 1
    Timers = {t1, t2}
    Publishers = {p1}
    MaxPendingKeys = 2
    OutsideRuntime = TRUE
    MaxOffers = 3
    MaxScheduling = 1
CHECK_DEADLOCK FALSE
INVARIANTS
    Conserved
    NothingStranded
    MapFlushedFirst
PROPERTIES
    ProgressIsSent
