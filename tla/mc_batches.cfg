SPECIFICATION FairSpec
CHECK_DEADLOCK FALSE
CONSTANTS
    Count = 3
    Texts <- ThreeTexts
    Failed = "failed"
    Normal <- TrailingSpace
    Strays <- Strangers
    Tokens <- OneEach
    Modes = {"map", "majority", "unanimous"}
    Timeout = 3
    PollInterval = 2
    HttpTimeout = 1
    MaxLines = 5
    Horizon = 7
INVARIANTS
    Aligned
    WinnerUnbeaten
    WaitBounded
    EndedInTime
PROPERTIES
    CallEnds
