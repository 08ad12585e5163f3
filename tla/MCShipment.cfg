CONSTANTS
    None = None
    e1 = e1
    e2 = e2
    w1 = w1
    w2 = w2
    FracBase = 2
    FracDigits = 1
    Shipments = {e1, e2}
    Workers = {w1, w2}
    OwnerOf <- OwnName
    Lease = 3
    MaxFaults = 2
SPECIFICATION Spec
INVARIANTS
    TypeOK
    LeaseExclusive
PROPERTIES
    QueueSpec
