SPECIFICATION FairGatewaySpec
CONSTANTS
    TopN = 2
    MinPickGap = 1
    Uids = {1}
    Balances = {1}
    ErrThreshold = 2
    HardCooldown = 3
    SoftCooldown = 1
    ErrCooldown = 1
    StateFile = TRUE
    DiskFaults = FALSE
    StartTime = 1
    MaxTime = 1
    Requests = {r1}
    Mode = "auto"
    MaxRotate = 2
    Maintained = TRUE
    Restarts = TRUE
    ClientsMayLeave = TRUE
INVARIANTS
    GatewayTypeOK
    AtMostOneAnswer
    JudgedAtMostOnce
    CleanMeansSaved
PROPERTIES
    DeadNeverServed
    SavedDisabledNeverServed
    KeepsResponses
    DisableReachesDisk
    RequestsFinish
    MaintenanceFinishes
