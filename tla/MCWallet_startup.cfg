SPECIFICATION Spec
CONSTANTS
    w1 = w1
    w2 = w2
    p1 = p1
    p2 = p2
    p3 = p3
    k1 = k1
    k2 = k2
    NoWorker = NoWorker
    NoRequest = NoRequest
    Investors = {1, 2}
    Plans = {p1, p2, p3}
    OpKeys = {k1, k2}
    Workers = {w1, w2}
    Savings = {0, 1}
    MaxBalance = 2
    Requests <- MCRequests
    RowLocks = TRUE
    Namesakes = {1, 2}
SYMMETRY Symmetry
INVARIANT DeletedIsEmpty
