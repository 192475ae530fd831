SPECIFICATION Spec
CONSTANTS
    Account = {"alice", "bob"}
    Order = {1, 2}
    Maker <- MCMaker
    Type <- MCBid
    MinUnits <- MCMinOne
    InitUnits <- MCTwo
    Units = {1}
    Coin = {1, 2}
    Removable = {1, 2}
    Outside <- MCName
    Faults = {"throw"}
    MaxTrades = 4
INVARIANTS
    AtomicTrade
    AbandonedIsSafe
    NoInputShared
    TakerSignsFirst
PROPERTIES
    PaidForGoods
    SwapsAtomically
CHECK_DEADLOCK FALSE
