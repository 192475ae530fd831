SPECIFICATION FairSpec
CONSTANTS
    MaxId = 2
    Amount = {1}
    MinUnits = 1
    Assets = {0, 1}
    Cancels = FALSE
    Drops = TRUE
PROPERTIES
    PublishedCatchesUp
CHECK_DEADLOCK FALSE
