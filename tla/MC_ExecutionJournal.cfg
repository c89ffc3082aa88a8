SPECIFICATION Spec
CONSTANTS
    Processes = {p1, p2}
    Plans = {plan}
    PlannedShares = 2
    MaxRecords = 4
SYMMETRY Symmetry
INVARIANTS
    Durable
    OneChain
    NeverAccused
