SPECIFICATION FairSpec
CONSTANTS
    Confirmations = 3
    MaxReorg = 2
    MaxHeight = 6
    MaxDetached = 3
INVARIANTS
    TypeOK
    SuccessIsFinal
PROPERTIES
    FailedIsDoubleSpend
    TradeFinalised
CHECK_DEADLOCK FALSE
