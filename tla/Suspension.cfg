SPECIFICATION Spec
CONSTANTS
    MaxReplicas = 1
    Specs <- SuspendSpecs
    MaxEdits = 1
    MaxFaults = 1
    FaultKinds = {"lostReply", "crash"}
    GangScheduling = FALSE
    RunLauncherAsWorker = FALSE
    LauncherTTL = "never"
CHECK_DEADLOCK FALSE
PROPERTY ReportsOutcome
PROPERTY SuspensionHonoured
PROPERTY ResumptionHonoured
PROPERTY CleanUpHonoured
