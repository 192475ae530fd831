SPECIFICATION Spec
CONSTANTS
    MaxId = 2
    Amount = {1, 2}
    MinUnits = 1
    Assets = {1, 2}
    Cancels = FALSE
    Drops = FALSE
INVARIANTS
    NoCheckFails
