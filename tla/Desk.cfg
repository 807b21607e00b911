CONSTANTS
    Keys = {k1, k2}
    Users = {anna, reda}
    Pages = {p1}
    Reqs = {r1, r2}
    None = None
    Room = 4
    HeldPastRetention = FALSE
    Clerks = {a1, a2}
    References = {n1}
    NoRef = NoRef
    Days = {1, 2}
    MaxQty = 2
    MaxRows <- SomeRows
    People = {k1, k2, p1}
    NoPerson = None
    Browsers = {r1, r2}
    Doors = {a1, a2}
    RoleSets <- TheRoles
    Shown = {"queue", "asking", "ordering", "coming", "owners", "doors"}
SPECIFICATION SpecDesk
SYMMETRY Alike
CHECK_DEADLOCK FALSE
INVARIANTS
    TypeOK
    CarriedOutAtMostOnce
    NothingHeldIsLost
    SentAsWhoDidIt
    SupplyIsTrue
    WhatEndedStaysEnded
PROPERTIES
    Promise
    OwnersKeepEachOther
