SPECIFICATION PeSpec
CONSTANTS
    MaxCalls = 3
    Params = {p1}
    PINParams = zero
INVARIANT
    CanceledDialogIsKilled
CHECK_DEADLOCK FALSE
