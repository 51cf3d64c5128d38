SPECIFICATION Spec
CONSTANTS
    r1 = r1
    r2 = r2
    p1 = p1
    p2 = p2
    h1 = h1
    Request = {r1, r2}
    Property = {p1, p2}
    Host = {h1}
    HostOf <- MCHostOf
    Stays <- RaceStays
    Run = {1}
    Call = {1}
    HoldTime = 1
    DayLength = 2
    MaxTime = 3
    MaxDeliveries = 1
    MaxCrashes = 0
    NULL = NULL
INVARIANT
    NoDoubleBooking
