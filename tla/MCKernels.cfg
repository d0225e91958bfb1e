SPECIFICATION Spec
CONSTANTS
    ZeroPoint = 2
    Quanta = 10
    BoxThreshold = 25
    NmsPercent = 45
    MaxResults = 2
    ModelWidth = 32
    ModelHeight = 32
    ConfThreshold = 5
    FaceNmsPercent = 40
    MaxLength = 4
    PredictedLengthsMax = 8
    SplitMinChars = 3
    SingleShotMax = 20
    LatinForceChars = 2
    WideForceChars = 2
    MaxPhones = 16
    Lexicon <- MCLexicon
    CellLists <- MCCellLists
    Sizes <- MCSizes
    Layouts <- MCLayouts
    FaceAt <- MCFaceAt
    DurationLists <- MCDurationLists
    Speeds <- MCSpeeds
    Texts <- MCTexts
    Files <- MCFiles
    LabelLines <- MCLabelLines
    ObjClassNum = 2
    PersonThreshold = 30
INVARIANTS
    BestBoxesReported
    SureCellsAreCandidates
    FrameFitsModel
    FaceFoundWhereItIs
    FramesFollowDurations
    SpeechCarriesText
    ConfigAsWritten
CHECK_DEADLOCK FALSE
