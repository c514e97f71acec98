SPECIFICATION TraySpec
CONSTANTS
    RPs = {rp1, rp2}
    Users = {u1, u2}
    MaxIds = 2
    Sessions = {s1, s2}
SYMMETRY MgmtSymmetry
INVARIANTS
    TrayTypeOK
    AloneIsComplete
    ButtonHasARow
PROPERTIES
    OnlyConfirmedVanish
CHECK_DEADLOCK FALSE
