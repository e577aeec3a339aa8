CONSTANTS
    Filters <- SmallFilters
    Totals <- SmallTotals
    FrameBytes = 1
    ContributionBytes = 2
    WorkspaceBytes = 1
    Margin = 4
    OthersBudget = 2
    Geometries <- SmallGeometries
    Jobs <- SmallJobs
SPECIFICATION PartSpec
INVARIANTS
    CreatedCachesSuffice
    AmpleMemorySuffices
    RequestFitsReservations
    WindowCoversSources
    ContributionsFindTheirReader
    FiltersAgreeOnAnchors
    GridFitsReservation
    GridIsProcessingMask
    PatchesCoverFrame
    FramesAreWeightedMeans
    WritesStayInside
