SPECIFICATION Spec
CONSTANTS
    TopN = 2
    MinPickGap = 1
    Uids = {1}
    Balances = {0, 1}
    ErrThreshold = 2
    HardCooldown = 2
    SoftCooldown = 1
    ErrCooldown = 1
    StateFile = TRUE
    DiskFaults = FALSE
    StartTime = 1
    MaxTime = 3
PROPERTIES
    RestartEnables
