SPECIFICATION Spec
CONSTANTS
    ann = ann
    p1 = p1
    s1 = s1
    c1 = c1
    c2 = c2
    Email = {ann}
    Password = {p1}
    Second = {s1}
    Call = {c1, c2}
    Google = {TRUE}
    NULL = NULL
SYMMETRY Symmetry
INVARIANTS
    
    HostHasGuest
    OldSessionsEnd
    CodeWorksOnce
    GuestAndHostAgree
PROPERTIES
    LostUpdateNeedsOverlap
