SPECIFICATION FairChatSpec
CONSTANTS
    Tokens = {"a", "b"}
    ToolIds = {"t1", "t2"}
    RunID = "r1"
    OtherRun = "r2"
    NoRun = ""
    Incremental = FALSE
    MayFail = TRUE
    MaxText = 3
    MaxFrames = 4
    InjectLengths <- MCInjectLengths
    Mode = "auto"
    MaxPieces = 2
    MaxLines = 6
CHECK_DEADLOCK FALSE
INVARIANTS
    ChatTypeOK
    DoneEndsTheAnswer
    ToolsAnnouncedOnce
    FailureIsTold
    InjectHearsTheVerdict
    FramesDecode
    ClientHearsTheRun
    BufferIsTheAnswer
    OpenAIAnswerKept
    OneDone
PROPERTIES
    AttemptEnds
    ImplementsResponses
