SPECIFICATION GatewaySpec
CONSTANTS
    TopN = 2
    MinPickGap = 1
    Uids = {1}
    Balances = {1}
    ErrThreshold = 2
    HardCooldown = 3
    SoftCooldown = 1
    ErrCooldown = 1
    StateFile = FALSE
    DiskFaults = FALSE
    StartTime = 1
    MaxTime = 3
    Requests = {r1, r2}
    Mode = "relay"
    MaxRotate = 2
    Maintained = FALSE
    Restarts = FALSE
    ClientsMayLeave = FALSE
PROPERTIES
    HardCooldownHonoured
