SPECIFICATION Spec
CONSTANTS
    Account = {alice, bob}
    Order = {gold}
    Timeout = 2
    MaxDelay = 1
    MaxTime = 5
    MaxQueue = 4
INVARIANTS
    TypeOK
    QueueCoversBook
    BookIsCurrent
PROPERTIES
    StaleGone
CHECK_DEADLOCK FALSE
