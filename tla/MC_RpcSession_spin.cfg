\* A non-binary frame drops the only heartbeat sender; the supervisor polls a closed channel forever.
CONSTANTS
    c1 = c1
    c2 = c2
    u1 = u1
    u2 = u2
    NoUser = NoUser
    Conns <- MCOneConn
    Users <- MCUsers
    MaxFrames = 3
    MaxEmits = 0
    WriteFaults = FALSE
SPECIFICATION Spec
INVARIANT SupervisorNeverSpins
CHECK_DEADLOCK FALSE
