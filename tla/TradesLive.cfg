SPECIFICATION UpdateSpec
CONSTANTS
    Account = {"alice", "bob"}
    Order = {1, 2}
    Maker <- MCMakers
    Type <- MCAskBid
    MinUnits <- MCMinOne
    InitUnits <- MCOnce
    Units = {1}
    Coin = {1, 2}
    Removable = {1}
    Outside <- MCOneCoin
    Faults = {"lostReply"}
    MaxTrades = 4
PROPERTIES
    OrderReleased
    TradeCompletes
CHECK_DEADLOCK FALSE
