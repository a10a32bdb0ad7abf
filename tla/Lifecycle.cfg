SPECIFICATION Safety
CONSTANTS
    MaxReplicas = 1
    Specs <- SuspendSpecs
    MaxEdits = 2
    MaxFaults = 1
    FaultKinds = {"apiError", "lostReply", "crash", "podEvicted", "podDeleted"}
    GangScheduling = FALSE
    RunLauncherAsWorker = FALSE
    LauncherTTL = "afterObserved"
CHECK_DEADLOCK FALSE
INVARIANT TypeOK
INVARIANT OutcomeNotBoth
PROPERTY NoRelaunch
PROPERTY NoWorkerAfterCompletion
INVARIANT NothingForgotten
