SPECIFICATION Spec
CONSTANTS
    MaxReplicas = 2
    Specs <- ScalingSpecs
    MaxEdits = 1
    MaxFaults = 1
    FaultKinds = {"apiError", "lostReply"}
    GangScheduling = FALSE
    RunLauncherAsWorker = FALSE
    LauncherTTL = "never"
CHECK_DEADLOCK FALSE
PROPERTY RemovalJustified
PROPERTY ScalingHonoured
PROPERTY LauncherCreated
PROPERTY RunningReported
INVARIANT NothingForgotten
