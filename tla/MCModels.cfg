SPECIFICATION ModelsSpec
CONSTANTS
    Models = {"yolo", "scrfd", "encoder", "decoder"}
    InferThreads = 1
    LastFrame = 2
    MaxFailedLoads = 1
    Sentences = 2
    MaxInits = 2
INVARIANTS
    ResultsOfThisFrame
    SoundOfThisSentence
    NothingLeaked
CHECK_DEADLOCK FALSE
