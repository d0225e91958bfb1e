SPECIFICATION AppSpec
CONSTANTS
    N = 2
    InferCap = 1
    PostCap = 2
    Frames = 2
CHECK_DEADLOCK FALSE
INVARIANT SafeTeardownOrder
