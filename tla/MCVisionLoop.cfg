SPECIFICATION LoopSpec
CONSTANTS
    PresentThreshold = 2
    AbsentThreshold = 2
    Dwell = 2
    YoloAlwaysOn = TRUE
    PostCap = 1
    Trigger = 2
    FaceAbsent = 2
    GraceTimeout = 1
    IdleTimeout = 1
INVARIANTS SlotsInOrder GateFollowsSession
PROPERTIES EmptyRoomEndsDialogue StayingFaceOpensGate AppliedSceneHolds PersonBringsScene
