SPECIFICATION Safety
CONSTANTS
    MaxReplicas = 1
    Specs <- SuspendSpecs
    MaxEdits = 0
    MaxFaults = 0
    FaultKinds = {}
    GangScheduling = FALSE
    RunLauncherAsWorker = FALSE
    LauncherTTL = "never"
CHECK_DEADLOCK FALSE
INVARIANT CompletedNotRunning
