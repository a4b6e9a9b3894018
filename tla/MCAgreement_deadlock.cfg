SPECIFICATION Spec
CONSTANTS
    w1 = w1
    w2 = w2
    NoWorker = NoWorker
    NoJob = NoJob
    Investors = {1}
    Agreements = {1, 2}
    Workers = {w1, w2}
    RowLocks = TRUE
    MaxBalance = 1
    MaxEvents = 2
    MaxAttempts = 1
SYMMETRY Symmetry
INVARIANT NoCrossedWaits
