SPECIFICATION Spec
CONSTANTS
    Nick = {n1}
    Peer = {p1}
    Hidden = {}
    None = None
INVARIANT
    SendsConnected
CHECK_DEADLOCK FALSE
