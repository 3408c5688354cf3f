\* One connection, four inbound frames, two fanout calls: every path of
\* the read loop, the supervisor and the pump, under the runtime fairness,
\* and the refinement of SessionRegistry.
CONSTANTS
    c1 = c1
    c2 = c2
    u1 = u1
    u2 = u2
    NoUser = NoUser
    Conns <- MCOneConn
    Users <- MCUsers
    MaxFrames = 4
    MaxEmits = 2
    WriteFaults = TRUE
SPECIFICATION FairSpec
INVARIANTS TypeOK RegistryConsistent
PROPERTIES RegistrySpec SilentAfterEviction EvictionEventually
CHECK_DEADLOCK FALSE
