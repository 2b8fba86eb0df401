SPECIFICATION FairCredSpec
CONSTANTS
    Requests = {r1}
    Scheduler = s
    NoWorker = none
    DiskFaults = TRUE
    SignIns = TRUE
    Overlaps = FALSE
    MaxIssued = 2
    MaxSandboxes = 1
INVARIANTS
    CredTypeOK
    FileParses
    TokensSavedTogether
    QuietMeansSaved
    LiveSessionNotCondemned
PROPERTIES
    TokensNeverGoBack
    LockGivenBack
