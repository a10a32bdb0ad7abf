SPECIFICATION Spec
CONSTANTS
    Dependents <- ConfigMapOnly
    MaxReplicas = 1
    NewReplicas = {1}
    MaxUID = 2
    MaxEvents = 1
    EventKinds = {"apiError", "lostReply", "crash", "podFails", "edit", "orphan", "meddle", "unlabelled"}
INVARIANTS TypeOK NothingForgotten
PROPERTIES  JobGetsItsOwn HostsListed
CHECK_DEADLOCK FALSE
