SPECIFICATION PeSpec
CONSTANTS
    MaxCalls = 3
    Params = {p1}
    PINParams = zero
PROPERTY
    CancelSparesSiblings
CHECK_DEADLOCK FALSE
