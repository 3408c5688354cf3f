CONSTANTS
    u1 = u1
    u2 = u2
    u3 = u3
    Users <- MCUsers
    MaxReq = 2
    PairSerial = FALSE
    DbFaults = FALSE
SPECIFICATION Spec
SYMMETRY MCSymmetry
CHECK_DEADLOCK FALSE
INVARIANTS
    QuiescentMirrored
