CONSTANTS
    Keys = {k1}
    Users = {reda}
    Pages = {p1}
    Reqs = {r1}
    None = None
    Room = 2
    HeldPastRetention = TRUE
SPECIFICATION Spec
CHECK_DEADLOCK FALSE
INVARIANTS
    CarriedOutAtMostOnce
