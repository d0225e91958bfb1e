SPECIFICATION FairTextSpec
CONSTANTS
    Styles <- MCStyles
    MaxAnswer = 6
    OpenTag <- MCOpenTag
    CloseTag <- MCCloseTag
    ZhMin = 2
    ZhMax = 3
    EnMin = 2
    EnMax = 3
INVARIANT SpokenIsVisible
PROPERTY PlannerReturns
