CONSTANTS
    Keys = {k1}
    Users = {anna, reda}
    Pages = {p1, p2}
    Reqs = {r1}
    None = None
    Room = 2
    HeldPastRetention = FALSE
SPECIFICATION Spec
CHECK_DEADLOCK FALSE
INVARIANTS
    SentAsWhoDidIt
