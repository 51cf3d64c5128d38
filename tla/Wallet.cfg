SPECIFICATION Spec
CONSTANTS
    w1 = w1
    w2 = w2
    w3 = w3
    c1 = c1
    c2 = c2
    s1 = s1
    x1 = x1
    x2 = x2
    x3 = x3
    x4 = x4
    Stay = {s1}
    Terms <- HalfDays
    Withdrawal = {x1}
    Amount = {16}
    Wallet = {w1, w2, w3}
    Call = {c1, c2}
    Op = {"book", "withdraw", "getWalletById", "addMoreBankAccounts", "addAccountDetails"}
    Fee = 2
    Vat = 1
    AccountLimit = 1
    DayLength = 2
    MaxTime = 6
    NULL = NULL
SYMMETRY Symmetry
INVARIANTS
    AccrualIsSound
    CompletedWithdrawalIsPaid
    AccountOverrun
    WalletOverrun
    OverdrawnNeedsOverlap
