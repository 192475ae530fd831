SPECIFICATION Spec
CONSTANTS
    Width = 3
    Unset = Unset
    Invalid = Invalid
    NoAccount = NoAccount
    xidServers = {"xid"}
    newline = newline
    null = null
    Char = {45, 49, 50, 54, 65, 100, 120}
    MaxName = 6
    MaxAccount = 3
    MaxAsset = 4
    BookAccount = {1, 2}
    BookId = {1, 2}
    Price = {1, 2}
    OwnId = {1, 2, 4}
INVARIANTS
    AccountIsUnique
    OrderRoundTrip
    OrdersAreListed
    AssetIsSplit
CHECK_DEADLOCK FALSE
