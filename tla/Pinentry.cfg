SPECIFICATION PeSpec
CONSTANTS
    MaxCalls = 3
    Params = {p1}
    PINParams = zero
INVARIANTS
    PeTypeOK
    OneDialog
    
    
    NobodyForgotten
PROPERTIES
    KeepsPromise
    
CHECK_DEADLOCK FALSE
