SPECIFICATION ModelsSpec
CONSTANTS
    TopN = 2
    MinPickGap = 1
    Uids = {1}
    Balances = {1}
    ErrThreshold = 2
    HardCooldown = 2
    SoftCooldown = 1
    ErrCooldown = 1
    StateFile = FALSE
    DiskFaults = FALSE
    StartTime = 1
    MaxTime = 6
    Readers = {r1, r2}
    ModelsTTL = 3
    FailCooldown = 2
SYMMETRY ReaderSymmetry
PROPERTIES
    ListOutlivesFailures
