CONSTANTS
    m1 = m1
    m2 = m2
    Fence = Fence
    Mutations = {m1, m2}
    Tracked = {m1}
    EventCapacity = 1
    MaxFaults = 0
SPECIFICATION Spec
INVARIANT DirectCommitRefreshes
