\* Two users, two requests each, one channel: checks CallLookupSucceeds alone.
CONSTANTS
    u1 = u1
    u2 = u2
    i1 = i1
    i2 = i2
    i3 = i3
    NoCall = NoCall
    Users <- MCUsers
    CallIds <- MCCallIds
    MaxReq = 2
SPECIFICATION Spec
INVARIANT CallLookupSucceeds
SYMMETRY MCSymmetry
CHECK_DEADLOCK FALSE
