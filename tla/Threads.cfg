SPECIFICATION Spec
CONSTANTS
    t1 = t1
    t2 = t2
    m1 = m1
    m2 = m2
    m3 = m3
    c1 = c1
    c2 = c2
    Ticket = {t1, t2}
    Message = {m1, m2, m3}
    Call = {c1, c2}
    NULL = NULL
SYMMETRY Symmetry
CHECK_DEADLOCK FALSE
INVARIANTS
    ReadWasShown
    ShownIsRead
    CreationIsWhole
    WaitingIsCounted
