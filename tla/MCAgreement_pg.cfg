SPECIFICATION Spec
CONSTANTS
    w1 = w1
    w2 = w2
    NoWorker = NoWorker
    NoJob = NoJob
    Investors = {1}
    Agreements = {1, 2, 3}
    Workers = {w1, w2}
    RowLocks = TRUE
    MaxBalance = 1
    MaxEvents = 1
    MaxAttempts = 1
SYMMETRY Symmetry
VIEW View
INVARIANTS
    OnePending
    ExecutedIffSigned
PROPERTIES
    SignedAsShown
    ReplacedLinkIsDead
    ScheduleWaits
