SPECIFICATION Spec
CONSTANTS
    MaxId = 2
    Amount = {1, 2}
    MinUnits = 1
    Assets = {2}
    Cancels = TRUE
    Drops = FALSE
INVARIANTS
    TypeOK
    LockHasHolder
    OneTradePerOrder
    NeverOversold
CHECK_DEADLOCK FALSE
