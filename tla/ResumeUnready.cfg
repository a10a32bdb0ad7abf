SPECIFICATION Safety
CONSTANTS
    MaxReplicas = 1
    Specs <- WaitingSpecs
    MaxEdits = 1
    MaxFaults = 0
    FaultKinds = {}
    GangScheduling = FALSE
    RunLauncherAsWorker = FALSE
    LauncherTTL = "never"
CHECK_DEADLOCK FALSE
PROPERTY WaitsForWorkers
