CONSTANTS
    Junk = Junk
    SourceCaches <- BasicStage
    Parameters <- Pairs
    UploadSlots = 2
    Groups <- GridSizes
    TotalGroups = 3
    ChunkGroups = 2
    Wanted = {1, 2}
    Budget = 2
    MaxFaults = 1
SPECIFICATION WorkerSpec
INVARIANTS
    PendingCopiesKeepTheirSource
    FiltersSeeTheirAnchor
    EveryGroupOnce
    SolverFailuresAreOwn
