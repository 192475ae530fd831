SPECIFICATION FairSpec
CONSTANTS
    Nick = {n1, n2}
    Peer = {p1, p2, p3}
    Hidden = {p3}
    None = None
INVARIANTS
    TypeOK
    CleanDisconnect
    RightSender
PROPERTY
    Rejoins
CHECK_DEADLOCK FALSE
