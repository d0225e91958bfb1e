SPECIFICATION FairAppSpec
CONSTANTS
    N = 2
    InferCap = 1
    PostCap = 2
    Frames = 3
CHECK_DEADLOCK FALSE
INVARIANTS TeardownIsAlone ThreadsHaveTheirObjects FramesKeepPlaceAndOrder
PROPERTIES StopEndsProgram PipelineDrains
