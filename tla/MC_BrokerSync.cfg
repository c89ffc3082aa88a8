SPECIFICATION FairSpec
CONSTANTS
    Symbols = {s1}
    Grants = {g}
    NoGrant = none
    MaxShares = 2
    MaxOrders = 3
    MaxDay = 3
INVARIANTS
    PositionsMatchFills
    BrokerLiabilityKnown
    TruthAccepted
PROPERTIES
    ProductionKeepsPromise
    FrozenResolved
