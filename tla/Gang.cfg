SPECIFICATION Spec
CONSTANTS
    MaxReplicas = 1
    Specs <- GangSpecs
    MaxEdits = 1
    MaxFaults = 0
    FaultKinds = {}
    GangScheduling = TRUE
    RunLauncherAsWorker = FALSE
    LauncherTTL = "never"
CHECK_DEADLOCK FALSE
PROPERTY PodGroupHonoured
PROPERTY GangScheduled
INVARIANT NothingForgotten
