SPECIFICATION Spec
CONSTANTS
    MaxReplicas = 1
    Specs <- WaitingSpecs
    MaxEdits = 0
    MaxFaults = 0
    FaultKinds = {}
    GangScheduling = TRUE
    RunLauncherAsWorker = FALSE
    LauncherTTL = "never"
CHECK_DEADLOCK FALSE
PROPERTY WaitingEnds
