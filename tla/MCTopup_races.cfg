SPECIFICATION Spec
CONSTANTS
    w1 = w1
    w2 = w2
    NoWorker = NoWorker
    NoJob = NoJob
    Investors = {1}
    Workers = {w1, w2}
    Requests = {1, 2}
    Plans = {1, 2}
    Terms = {1}
SYMMETRY Symmetry
INVARIANTS
    OneCurrentPlan
    PlanHasItsRequest
PROPERTIES
    OpensOnEmptyBalance
    SignaturesStay
