SPECIFICATION FairSpec
CONSTANTS
    Senders = {s1, s2}
    Messages <- MCMessages
    Count = 3
    DataCount = 2
    Bytes = 4
    DataBytes = 3
    MaxSends = 3
    Nobody = Nobody
    Nothing = Nothing
INVARIANTS
    NoLostWakeup
    ReplyReserve
PROPERTY
    CloseRetires
