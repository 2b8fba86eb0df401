SPECIFICATION RelaySpec
CONSTANTS
    Tokens = {"a", "b"}
    ToolIds = {"t1", "t2"}
    RunID = "r1"
    OtherRun = "r2"
    NoRun = ""
    Incremental = TRUE
    MayFail = FALSE
    MaxText = 3
    MaxFrames = 4
CHECK_DEADLOCK FALSE
INVARIANTS
    TextIsTheAnswer
