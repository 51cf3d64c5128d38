SPECIFICATION Spec
CONSTANTS
    r1 = r1
    r2 = r2
    t1 = t1
    t2 = t2
    Id = {r1, r2}
    Sub = {t1, t2}
    Aging = {t1}
    Call = {1}
    MaxDeliveries = 1
    MaxBusy = 2
    NULL = NULL
SYMMETRY Rows
INVARIANTS
    AnsweredChargeIsRecorded
    ActiveWasPaid
PROPERTIES
    LostCodeNeedsOverlap
    OffNeedsStop
