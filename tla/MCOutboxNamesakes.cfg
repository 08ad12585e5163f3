CONSTANTS
    None = None
    e1 = e1
    w1 = w1
    w2 = w2
    w3 = w3
    FracBase = 2
    FracDigits = 0
    Events = {e1}
    Workers = {w1, w2}
    OwnerOf <- ServerWorker
    Lease = 1
    MaxAttempts = 2
    MaxDelay = 1
    ClaimBound = 3
    MaxFaults = 0
SPECIFICATION Spec
INVARIANTS
    BudgetRespected
