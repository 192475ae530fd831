SPECIFICATION Spec
CONSTANTS
    Account = {"alice", "bob"}
    Order = {1, 2}
    Maker <- MCMaker
    Type <- MCAsk
    MinUnits <- MCMinOne
    InitUnits <- MCTwo
    Units = {1, 2}
    Coin = {1, 2}
    Removable = {1, 2}
    Outside <- MCName
    Faults = {}
    MaxTrades = 4
INVARIANTS
    TypeOK
    AtomicTrade
    AbandonedIsSafe
    OrderLocked
    NeverOversold
    LocksHeld
PROPERTIES
    PaidForGoods
    SwapsAtomically
CHECK_DEADLOCK FALSE
