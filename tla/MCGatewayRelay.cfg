SPECIFICATION GatewaySpec
CONSTANTS
    TopN = 2
    MinPickGap = 1
    Uids = {1, 2}
    Balances = {0, 1}
    ErrThreshold = 2
    HardCooldown = 3
    SoftCooldown = 1
    ErrCooldown = 1
    StateFile = FALSE
    DiskFaults = FALSE
    StartTime = 1
    MaxTime = 1
    Requests = {r1, r2}
    Mode = "relay"
    MaxRotate = 2
    Maintained = FALSE
    Restarts = FALSE
    ClientsMayLeave = TRUE
SYMMETRY RequestSymmetry
INVARIANTS
    AnsweredWhenDone
    EveryAttemptJudged
