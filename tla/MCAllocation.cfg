CONSTANTS
    None = None
    r1 = r1
    r2 = r2
    b1 = b1
    b2 = b2
    o1 = o1
    o2 = o2
    l1 = l1
    l2 = l2
    l3 = l3
    oyster = oyster
    shiitake = shiitake
    FracBase = 2
    FracDigits = 1
    Requests = {r1, r2}
    Batches <- TwoBatches
    Orders <- TwoOrders
    Lines <- ThreeLines
    OrderOf <- LineOwner
    Species = {oyster, shiitake}
    Offered <- OfferedTwo
    Wanted <- WantedTwo
    Rank <- RankTwo
    PageSize = 2
    Horizon = 1
SPECIFICATION FairSpec
INVARIANTS
    TypeOK
    StockConserved
    AllOrNothing
    OnlyReleasedStock
    TrailMatches
PROPERTIES
    NoLostUpdate
    FirstExpiredFirst
    NothingExpired
    CapacityTruthful
    LedgerSpec
    EveryRequestEnds
