SPECIFICATION Spec
CONSTANTS
    Clients = {browser, copy}
    Tokens <- MCTokens
    MaxFaults = 1
SYMMETRY MCSymmetry
INVARIANTS
    TypeOK
    RevokedFamilyStaysDead
    OneHeir
CHECK_DEADLOCK FALSE
