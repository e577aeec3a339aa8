CONSTANTS
    Searches <- SmallSearches
    AnchorChoices <- SmallAnchors
    Shifts = {0, 1}
    Unlimited = 1000
    TileCapacity = 3
    BallotStride = 2
    SmallTasks = 2
    MinAverage = 2
    ManyMinAverage = 3
SPECIFICATION MatchSpec
INVARIANT TauZeroKeepsOnlyNearest
