SPECIFICATION FairSpec
CONSTANTS
    ann = ann
    ben = ben
    b1 = b1
    b2 = b2
    b3 = b3
    x1 = x1
    w1 = w1
    Guest = {ann, ben}
    Booking = {b1, b2, b3}
    Crypto = {b1, b2}
    Transfer = {x1}
    Withdrawal = {w1}
    Amount = {3}
    Call = {1, 2}
    MaxCrashes = 1
    NULL = NULL
    GuestOf <- AnnsBookings
    Earned <- MCEarned
INVARIANTS
    ConfirmedWasPaid
    OverdraftNeedsOverlap
PROPERTIES
    CreditsAreConfirmed
