SPECIFICATION Spec
CONSTANTS
    ZeroPoint = 2
    Quanta = 10
    BoxThreshold = 25
    NmsPercent = 45
    MaxResults = 2
    ModelWidth = 32
    ModelHeight = 32
    ConfThreshold = 5
    FaceNmsPercent = 40
    MaxLength = 4
    PredictedLengthsMax = 8
    SplitMinChars = 3
    SingleShotMax = 20
    LatinForceChars = 2
    WideForceChars = 2
    MaxPhones = 16
    Lexicon <- MCLexicon
    CellLists = {}
    Sizes <- MCSizes
    Layouts <- MCInterleaved
    FaceAt <- MCFaceAt
    DurationLists = {}
    Speeds = {}
    Texts = {}
    Files = {}
    LabelLines <- MCLabelLines
    ObjClassNum = 2
    PersonThreshold = 30
INVARIANTS
    InterleavedIsRead
CHECK_DEADLOCK FALSE
