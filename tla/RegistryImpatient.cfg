SPECIFICATION RegSpec
CONSTANTS
    Channels = {ch1, ch2}
    MaxRequests = 4
    Patient = FALSE
CHECK_DEADLOCK FALSE
INVARIANT
    Cancelable
