SPECIFICATION CeremonySpec
CONSTANTS
    RPs = {rp1}
    Users = {alice, bob}
    MaxIds = 2
    Clients = {c1, c2}
    Epoch = 10
    MaxClock = 11
    MaxSigns = 2
PROPERTY
    SignCountGrows
SYMMETRY Symmetry
CHECK_DEADLOCK FALSE
