SPECIFICATION ProductionSpec
CONSTANTS
    Symbols = {s1}
    Grants = {}
    NoGrant = none
    MaxShares = 2
    MaxOrders = 2
    MaxDay = 3
INVARIANTS
    FrozenAcceptsLateFill
