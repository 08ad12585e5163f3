CONSTANTS
    None = None
    o1 = o1
    o2 = o2
    o3 = o3
    f1 = f1
    f2 = f2
    b1 = b1
    b2 = b2
    b3 = b3
    r1 = r1
    r2 = r2
    Requests = {r1, r2}
    Orders = {o1, o2, o3}
    Farms = {f1, f2}
    Batches = {b1, b2, b3}
    FarmOf <- Farm3
    Price <- Price3
    Taken <- Taken3
    Wide = 100
SPECIFICATION FairSpec
INVARIANTS
    TypeOK
    PaidInFull
    HistoryMatches
PROPERTIES
    NoLostUpdate
    PayoutSpec
    EveryRequestEnds
