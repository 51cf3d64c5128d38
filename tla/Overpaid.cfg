SPECIFICATION Spec
CONSTANTS
    s1 = s1
    x1 = x1
    x2 = x2
    x3 = x3
    x4 = x4
    w1 = w1
    w2 = w2
    w3 = w3
    c1 = c1
    c2 = c2
    Stay = {s1}
    Terms <- OneTerm
    Withdrawal = {x1, x2, x3, x4}
    Amount = {6}
    Wallet = {1}
    Call = {1}
    Op = {"book", "withdraw"}
    Fee = 2
    Vat = 1
    AccountLimit = 3
    DayLength = 1
    MaxTime = 2
    NULL = NULL
INVARIANT NeverOverpaid
CHECK_DEADLOCK FALSE
