SPECIFICATION Spec
CONSTANTS
    Absent = Absent
    Radix = 2
    ResourceLists <- Lists
    PriorityClasses <- Classes
    Submissions <- AllSubmissions
    MaxWorkers = 3
    ReplicaEdits <- Edits
    EditKinds = {"replicas", "minAvailable", "asWorker", "implementation"}
    MaxEdits = 2
INVARIANTS TypeOK AcceptedByServer HostsMatchPods MountsPresent IndexUnique GangMembers MinResourcesRight DefaultsAccepted
CHECK_DEADLOCK FALSE
