SPECIFICATION HidSpec
CONSTANTS
    Channels = {ch1, ch2}
    MaxRequests = 3
    Patient = TRUE
    MaxPackets = 2
    Lengths = {5, 6, 8}
    InitLen = 2
    ContLen = 3
    InitBit = 1
    SizeMod = 7
INVARIANTS
    HidTypeOK
    
    SlotIsNewest
    Cancelable
    WholeResponses
    UntornIsIntact
    NoPacketTwice
    ReadsAreWhole
PROPERTIES
    ImplementsRegistry
SYMMETRY Symmetry
CHECK_DEADLOCK FALSE
