SPECIFICATION FairSpec
CONSTANTS
    MaxChildren = 4
    MaxPlays = 3
    SigpipeIgnored = TRUE
CHECK_DEADLOCK FALSE
INVARIANTS StreamsInOrder NothingLeft
PROPERTY StopReturns
