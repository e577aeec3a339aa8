CONSTANTS
    t1 = t1
    t2 = t2
    t3 = t3
    k1 = k1
    k2 = k2
    k3 = k3
    s1 = s1
    s2 = s2
    Threads = {t1, t2, t3}
    Keys = {k1, k2, k3}
    Slots = {s1, s2}
    NoKey = NoKey
    NoSlot = NoSlot
    Requests <- PairRequests
    MaxStamp = 4
    MaxRefs = 2
    Budget = 1
SPECIFICATION Spec
SYMMETRY AllSymmetry
INVARIANTS
    CacheInv
    StampsOrderByRecency
    NoLostWakeup
    NoWaitCycle
PROPERTIES
    EvictionIsLeastRecent
    PinnedSlotsKeepTheirKey
    ImplementsKeyedLease
