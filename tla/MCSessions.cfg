CONSTANTS
    None = None
    u1 = u1
    s1 = s1
    s2 = s2
    r1 = r1
    r2 = r2
    FracBase = 2
    FracDigits = 1
    Users = {u1}
    Tokens = {s1, s2}
    Requests = {r1, r2}
    TTL = 2
    Horizon = 3
    MaxFaults = 1
SPECIFICATION FairSpec
INVARIANTS
    TypeOK
    NoLateEntry
PROPERTIES
    RefusedRightly
    Drained
