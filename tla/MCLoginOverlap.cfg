SPECIFICATION CredSpec
CONSTANTS
    Requests = {r1}
    Scheduler = s
    NoWorker = none
    DiskFaults = FALSE
    SignIns = TRUE
    Overlaps = TRUE
    MaxIssued = 2
    MaxSandboxes = 1
INVARIANTS
    FileParses
