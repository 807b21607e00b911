CONSTANTS
    Keys = {k1, k2}
    Users = {reda}
    Pages = {p1}
    Reqs = {r1}
    None = None
    Room = 4
    HeldPastRetention = FALSE
SPECIFICATION FairSpec
CHECK_DEADLOCK FALSE
PROPERTIES
    EventuallySettled
