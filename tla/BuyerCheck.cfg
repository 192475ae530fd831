SPECIFICATION Spec
CONSTANTS
    Out = {1, 2}
    MaxAncestorsChecked = 3
    MaxHeight = 5
    MaxDetached = 2
INVARIANTS
    TypeOK
    CheckIsSound
    NoSpuriousFailure
CHECK_DEADLOCK FALSE
