\* A handler outlives the heartbeat timeout; the reply lookup unwraps a missing client.
CONSTANTS
    c1 = c1
    c2 = c2
    u1 = u1
    u2 = u2
    NoUser = NoUser
    Conns <- MCOneConn
    Users <- MCUsers
    MaxFrames = 3
    MaxEmits = 0
    WriteFaults = TRUE
SPECIFICATION Spec
INVARIANT NoPanic
CHECK_DEADLOCK FALSE
