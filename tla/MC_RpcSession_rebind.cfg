\* One connection and two users: checks UserBoundOnce alone.
CONSTANTS
    c1 = c1
    c2 = c2
    u1 = u1
    u2 = u2
    NoUser = NoUser
    Conns <- MCOneConn
    Users <- MCUsers
    MaxFrames = 2
    MaxEmits = 0
    WriteFaults = FALSE
SPECIFICATION Spec
PROPERTY UserBoundOnce
CHECK_DEADLOCK FALSE
