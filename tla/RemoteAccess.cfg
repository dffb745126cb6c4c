SPECIFICATION FairSpec
CONSTANTS
    None = None
    k1 = k1
    k2 = k2
    Keys = {k1, k2}
    MaxRestarts = 1
    MaxGeneration = 3
    MaxQueued = 2
CHECK_DEADLOCK FALSE
INVARIANTS
    NoStaleUrl
    OneClient
    RejectionIsFinal
PROPERTIES
    StopCompletes
