SPECIFICATION ProductionSpec
CONSTANTS
    Symbols = {s1}
    Grants = {g}
    NoGrant = none
    MaxShares = 2
    MaxOrders = 3
    MaxDay = 4
PROPERTIES
    IndependentSellKept
