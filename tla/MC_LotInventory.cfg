SPECIFICATION Spec
CONSTANTS
    MaxFills = 3
    MaxShares = 2
    MaxDay = 3
    MaxWithheld = 2
    Stems = {0, 1}
INVARIANTS
    SharesExplained
    OldestFirst
PROPERTIES
    Resync
