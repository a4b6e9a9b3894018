\* PostgreSQL: a device registers while a payment request is committing.
SPECIFICATION Spec
CONSTANTS
    d1 = d1
    w1 = w1
    w2 = w2
    RowLocks = TRUE
    Devices <- OneDevice
    Workers <- OneWorker
    MaxAttempts = 2
    MaxRevisions = 1
    MaxIds = 1
    MaxFaults = 1
INVARIANT
    OutstandingReachesDevice
