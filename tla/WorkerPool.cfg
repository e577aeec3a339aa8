CONSTANTS
    t1 = t1
    t2 = t2
    t3 = t3
    t4 = t4
    Threads = {t1, t2, t3, t4}
    NumStreams = 2
    NoWorker = NoWorker
    Budget = 2
SPECIFICATION FairPoolSpec
INVARIANTS
    LeasesAreExclusive
    NoLostWakeup
PROPERTIES
    AllLeasesServed
