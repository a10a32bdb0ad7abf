SPECIFICATION Spec
CONSTANTS
    MaxReplicas = 1
    Specs <- SuspendSpecs
    MaxEdits = 1
    MaxFaults = 1
    FaultKinds = {"apiError"}
    GangScheduling = FALSE
    RunLauncherAsWorker = FALSE
    LauncherTTL = "never"
CHECK_DEADLOCK FALSE
PROPERTY LauncherAligned
