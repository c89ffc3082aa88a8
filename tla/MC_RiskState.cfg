\* The confirmations of the code; its long waits shortened in their order.
SPECIFICATION RiskFairSpec
CONSTANTS
    NormalConfirm = 3
    RiskConfirm = 2
    RepairConfirm = 2
    GuardShocks = 2
    ShockWindow = 2
    GuardSessions = 2
    GuardConfirm = 2
    CooldownDays = 2
    RearmDays = 3
    IncompleteRearm = 2
    WaitDays = 2
    RecoveryDays = 2
INVARIANTS
    GuardHolds
PROPERTIES
    CooldownServed
    ShocksSpaced
    RiskLifts
