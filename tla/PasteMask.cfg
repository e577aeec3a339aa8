CONSTANTS
    Geometry <- SmallFrame
    Frame = 1
    BlockDim = 2
    ChunkGroups = 4
    MatchLists <- SomeLists
SPECIFICATION MaskSpec
INVARIANTS
    SameGroupsAsCpu
