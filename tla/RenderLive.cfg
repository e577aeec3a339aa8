CONSTANTS
    t1 = t1
    t2 = t2
    t3 = t3
    w1 = w1
    w2 = w2
    n1 = n1
    n2 = n2
    n3 = n3
    b1 = b1
    b2 = b2
    b3 = b3
    c1 = c1
    c2 = c2
    NoWorker = NoWorker
    NoKey = NoKey
    Parameters <- Backwards
    Threads = {t1, t2}
    Workers = {w1, w2}
    SourceCaches <- BasicStage
    Buffers <- LiveBuffers
    Wanted = {0, 1}
    Budget = 1
    MaxFaults = 1
SPECIFICATION FairRenderSpec
CHECK_DEADLOCK FALSE
PROPERTIES
    EveryRequestEnds
