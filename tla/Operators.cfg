SPECIFICATION Spec
CONSTANTS
    Procs = {p1, p2}
    Keys = {k1, k2}
    Workers = {w1, w2}
    Informers = {"GroupJob", "Pod"}
    LeaseDuration = 4
    RenewDeadline = 1
    RetryPeriod = 1
    MaxChanges = 1
    MaxFaults = 2
    FaultKinds = {"crash", "signal", "leaseLost", "listError", "syncError", "forbidden"}
    Nobody = Nobody
    Departed = Departed
    Nothing = Nothing
INVARIANTS TypeOK AtMostOneLeader OneSyncPerKey SyncsReadFilledCaches
PROPERTIES KeepsKeyQueue
