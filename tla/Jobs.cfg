SPECIFICATION Spec
CONSTANTS
    r1 = r1
    r2 = r2
    p1 = p1
    p2 = p2
    h1 = h1
    Request = {r1}
    Property = {p1, p2}
    Host = {h1}
    HostOf <- MCHostOf
    Stays <- JobStays
    Run = {1, 2}
    Call = {1}
    HoldTime = 1
    DayLength = 2
    MaxTime = 4
    MaxDeliveries = 2
    MaxCrashes = 1
    NULL = NULL
INVARIANTS
    CompletedIsCharged
    NoUnpaidStay
    NeverAheadOfClock
    OfferedCancellationIsInTime
PROPERTIES
    NoEarlyRelease
    PaidStayIsListed
    ImplementsContract
