\* Two users issuing two requests each against one channel; creates race,
\* inserts of history documents may fail, history tasks run between steps.
CONSTANTS
    u1 = u1
    u2 = u2
    i1 = i1
    i2 = i2
    i3 = i3
    NoCall = NoCall
    Users <- MCUsers
    CallIds <- MCCallIds
    MaxReq = 2
SPECIFICATION Spec
INVARIANTS TypeOK HistoryMatchesCall
CHECK_DEADLOCK FALSE
