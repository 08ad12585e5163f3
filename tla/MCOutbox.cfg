CONSTANTS
    None = None
    e1 = e1
    w1 = w1
    w2 = w2
    w3 = w3
    FracBase = 2
    FracDigits = 1
    Events = {e1}
    Workers = {w1, w2, w3}
    OwnerOf <- Mixed
    Lease = 3
    MaxAttempts = 2
    MaxDelay = 1
    ClaimBound = 4
    MaxFaults = 1
SPECIFICATION FairSpec
INVARIANTS
    TypeOK
    BudgetKept
    Outcome
PROPERTIES
    LeaseExclusive
    Fencing
    QueueSpec
    EventSettled
