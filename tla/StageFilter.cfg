SPECIFICATION StageSpec
CONSTANT
    Scenarios <- SmallScenarios
INVARIANTS
    ReferencesEndWithTheirRender
    FetchesWereRequested
    NodesFreedOnce
    MotionIsOfItsOwnFrames
CHECK_DEADLOCK FALSE
