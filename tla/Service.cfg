SPECIFICATION ServiceFairSpec
CONSTANTS
    MaxCalls = 2
    Params = {p1}
    PINParams = zero
    Channels = {ch1, ch2}
    FirstChannel = ch1
INVARIANTS
    ServiceTypeOK
    OnlyCancelKills
    CancelReaches
PROPERTIES
    CanceledEnds
    NothingStaysBehind
CHECK_DEADLOCK FALSE
