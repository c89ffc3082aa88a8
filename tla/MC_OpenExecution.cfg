SPECIFICATION Spec
CONSTANTS
    Symbols = {s1, s2}
    Grants = {g}
    NoGrant = none
    MaxShares = 2
    MaxOrders = 3
    MaxDay = 4
INVARIANTS
    SavedAccountLoads
    LiveOrdersTracked
    NoOverlap
    LotsReconcile
    RemainderResumable
PROPERTIES
    HandoffSellFunded
    ImplementsPromise
SYMMETRY
    SymbolSymmetry
