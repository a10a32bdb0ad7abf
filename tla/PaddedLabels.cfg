SPECIFICATION Safety
CONSTANTS
    MaxReplicas = 2
    Specs <- ScalingSpecs
    MaxEdits = 1
    MaxFaults = 0
    FaultKinds = {}
    GangScheduling = FALSE
    RunLauncherAsWorker = TRUE
    LauncherTTL = "never"
CHECK_DEADLOCK FALSE
PROPERTY RemovalJustified
