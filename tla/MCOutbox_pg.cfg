\* PostgreSQL: two workers, one device, a crash or an outlived lease.
SPECIFICATION FairSpec
CONSTANTS
    d1 = d1
    w1 = w1
    w2 = w2
    RowLocks = TRUE
    Devices <- OneDevice
    Workers <- TwoWorkers
    MaxAttempts = 2
    MaxRevisions = 1
    MaxIds = 1
    MaxFaults = 1
INVARIANTS
    SendsBounded
    OneLivePush
PROPERTIES
    SettledStays
    DeliveryEnds
