----------------------------- MODULE HostWallet -----------------------------
(***************************************************************************)
(* The wallet of one host: the wallet row, the bank accounts, the payments *)
(* it counts and the withdrawals.  Every query filters on the host, so one *)
(* host is enough.                                                         *)
(*                                                                         *)
(* Nothing stores a balance.  It is computed from the payment rows each    *)
(* time, so what a host may withdraw depends on bookings that move at the  *)
(* same time: they are the environment here, and follow StayContract,      *)
(* which Reservations implements.                                          *)
(*                                                                         *)
(* A request is a call with a snapshot of what it has read.  Opening the   *)
(* wallet page and adding a further account run without a transaction,     *)
(* each write at once; the other endpoints write when they commit.         *)
(***************************************************************************)
EXTENDS Integers, FiniteSetsExt

CONSTANTS
    Stay,           \* the host's bookings
    Terms,          \* dates of a booking and the host's part of its payment
    Withdrawal,     \* ids of withdrawals
    Amount,         \* gross amounts a host asks for
    Wallet,         \* ids of wallet rows
    Call,           \* concurrent requests
    Op,             \* the endpoints that are called
    Fee,            \* FIXED_WITHDRAWAL_FEE
    Vat,            \* VAT on the fee
    AccountLimit,   \* accounts a host may have: 3
    DayLength,      \* 24 hours
    MaxTime,        \* bound: the clock stops here
    NULL            \* no wallet found

Endpoint == {"book", "withdraw", "addAccountDetails", "addMoreBankAccounts", "getWalletById"}
Row == Stay \cup Withdrawal

ASSUME WalletAssumption ==
    /\ Stay \cap Withdrawal = {}
    /\ Terms \subseteq [checkIn : Nat, checkOut : Nat, deposit : Nat]
    /\ \A t \in Terms : t.checkIn < t.checkOut
    /\ Amount \subseteq Nat /\ Fee \in Nat /\ Vat \in Nat
    /\ Op \subseteq Endpoint
    /\ AccountLimit \in Nat \ {0} /\ DayLength \in Nat \ {0} /\ MaxTime \in Nat
    /\ IsFiniteSet(Stay) /\ IsFiniteSet(Withdrawal)
    /\ IsFiniteSet(Call) /\ IsFiniteSet(Wallet) /\ NULL \notin Wallet \cup Row

PaymentStatus == {"PENDING", "COMPLETED"}
WithdrawalStatus == {"PENDING", "PAID"}
Stage == {"idle", "create", "read", "save", "insert"}

VARIABLES
    clock, terms, money, contract,  \* the bookings, see StayContract
    payment,        \* payments.payment_status of bookings and withdrawals
    walletOf,       \* payments.walletId
    gross,          \* what was asked for by each withdrawal
    withdrawal,     \* withdrawals.status
    wallets,        \* the host's wallet rows
    accounts,       \* number of the host's bank accounts
    req,            \* what each call has read
    exposed         \* history: withdrawals overlapped, or a stay ceased to count

bookings == <<clock, terms, money, contract>>
payments == <<payment, walletOf, gross, withdrawal>>
vars == <<bookings, payments, wallets, accounts, req, exposed>>

Contract == INSTANCE StayContract

\* saves: the payments a call is about to save, with the status it read;
\* found: the wallet it will use; again: getWalletById will save once more.
Request ==
    [op : Endpoint, stage : Stage, found : Wallet \cup {NULL}, again : BOOLEAN,
     saves : [Row -> PaymentStatus \cup {"ABSENT"}],
     stay : Stay \cup {NULL}, amount : Amount \cup {NULL}]

TypeOK ==
    /\ clock \in Nat
    /\ terms \in [Stay -> Terms]
    /\ money \in [Stay -> BOOLEAN]
    /\ contract \in [Stay -> {"ABSENT", "PENDING", "PAID_PENDING", "PROCESSING",
                              "FINISHED", "CANCELLED"}]
    /\ payment \in [Row -> PaymentStatus \cup {"ABSENT"}]
    /\ walletOf \in [Row -> Wallet \cup {NULL}]
    /\ gross \in [Withdrawal -> Amount \cup {NULL}]
    /\ withdrawal \in [Withdrawal -> WithdrawalStatus \cup {"ABSENT"}]
    /\ wallets \in SUBSET Wallet
    /\ accounts \in Nat
    /\ req \in [Call -> Request]
    /\ exposed \in BOOLEAN

-----------------------------------------------------------------------------
(* The balance, in hundredths of a naira: the host keeps 98 percent.       *)

NumberOfNights(from, to) == (to - from + DayLength - 1) \div DayLength

Nights(s) == NumberOfNights(terms[s].checkIn, terms[s].checkOut)

\* Fault: forgets that the stay may be over.
DaysToToday(s) == NumberOfNights(terms[s].checkIn, clock)
NumberOfDays(s) ==
    IF terms[s].checkOut > clock THEN NumberOfNights(terms[s].checkIn, clock) ELSE Nights(s)

\* The part of a stay that counts so far.
Share(s) == NumberOfDays(s) * (terms[s].deposit \div Nights(s)) * 98

Counts(s) == payment[s] = "COMPLETED" /\ contract[s] \in {"FINISHED", "PROCESSING"}

\* What is stored for a withdrawal, and what the balance makes of it: the fee
\* and the VAT, already taken off the amount, are taken off again.
NetPayout(amount) == amount - Fee - Vat
Stored(x) == -NetPayout(gross[x])
Debit(x) == -(Stored(x) + Vat + Fee)

Recorded(x) == payment[x] # "ABSENT"
Available(w) ==
    SumFunction([s \in {t \in Stay : walletOf[t] = w /\ Counts(t)} |-> Share(s)])
    - 100 * SumFunction([x \in {y \in Withdrawal : Recorded(y) /\ walletOf[y] = w} |-> Debit(x)])

-----------------------------------------------------------------------------

NoRequest ==
    [op |-> "getWalletById", stage |-> "idle", found |-> NULL, again |-> FALSE,
     saves |-> [r \in Row |-> "ABSENT"], stay |-> NULL, amount |-> NULL]

Init ==
    /\ Contract!Init
    /\ payment = [r \in Row |-> "ABSENT"]
    /\ walletOf = [r \in Row |-> NULL]
    /\ gross = [x \in Withdrawal |-> NULL]
    /\ withdrawal = [x \in Withdrawal |-> "ABSENT"]
    /\ wallets = {}
    /\ accounts = 0
    /\ req = [c \in Call |-> NoRequest]
    /\ exposed = FALSE

Opens(c, op) == req[c].stage = "idle" /\ op \in Op
Is(c, op, stage) == req[c].op = op /\ req[c].stage = stage
Finish(c) == req' = [req EXCEPT ![c] = NoRequest]

\* Fault: the wallet is never found.
GetWalletMissing == {NULL}
\* findOne by host, without an order: any of the host's wallets.
GetWallet == IF wallets = {} THEN {NULL} ELSE wallets

\* The wallet a call ends up with: the one it found, or a new row.
Resolves(c, w) == IF req[c].found = NULL THEN w \in Wallet \ wallets ELSE w = req[c].found

\* The saves of payment entities read before: wallet and status are written.
Saved(c) == {r \in Row : req[c].saves[r] # "ABSENT"}

-----------------------------------------------------------------------------
(* Bookings made while the wallet is used.                                 *)

OpenBooking(c, s) ==
    /\ Opens(c, "book")
    /\ contract[s] = "ABSENT" /\ clock < terms[s].checkIn
    /\ \A d \in Call : req[d].stay # s
    /\ \E w \in GetWallet :
         req' = [req EXCEPT ![c] = [NoRequest EXCEPT !.op = "book", !.stage = "insert",
                                                     !.found = w, !.stay = s]]
    /\ UNCHANGED <<bookings, payments, wallets, accounts>>

CommitBooking(c) ==
    LET s == req[c].stay
    IN  /\ Is(c, "book", "insert")
        /\ Contract!Agree(s)
        /\ \E w \in Wallet :
             /\ Resolves(c, w)
             /\ wallets' = wallets \cup {w}
             /\ walletOf' = [walletOf EXCEPT ![s] = w]
        /\ payment' = [payment EXCEPT ![s] = "PENDING"]
        /\ Finish(c)
        /\ UNCHANGED <<gross, withdrawal, accounts>>

\* The webhook or the poller completes a payment whose money was taken.
CompletePayment(s) ==
    /\ money[s] /\ payment[s] = "PENDING"
    /\ payment' = [payment EXCEPT ![s] = "COMPLETED"]
    /\ UNCHANGED <<bookings, walletOf, gross, withdrawal, wallets, accounts, req>>

\* External: the clock, and guests and jobs that move a booking.
Bookings ==
    /\ \/ clock < MaxTime /\ Contract!Pass
       \/ \E s \in Stay : Contract!Pay(s) \/ Contract!Settle(s) \/ Contract!Release(s)
    /\ UNCHANGED <<payments, wallets, accounts, req>>

-----------------------------------------------------------------------------
(* getWalletById and addMoreBankAccounts: no transaction.                  *)

OpenPage(c, op) ==
    /\ Opens(c, op) /\ op \in {"getWalletById", "addMoreBankAccounts"}
    /\ \E w \in GetWallet :
         req' = [req EXCEPT ![c] =
                   [NoRequest EXCEPT !.op = op, !.found = w,
                                     !.stage = IF w = NULL THEN "create" ELSE "read",
                                     !.again = op = "getWalletById" /\ w = NULL]]
    /\ UNCHANGED <<bookings, payments, wallets, accounts>>

CreateWallet(c) ==
    /\ req[c].stage = "create"
    /\ \E w \in Wallet \ wallets :
         /\ wallets' = wallets \cup {w}
         /\ req' = [req EXCEPT ![c].found = w, ![c].stage = "read"]
    /\ UNCHANGED <<bookings, payments, accounts>>

\* All payments of the host; a transaction keeps its saves for the commit.
ReadPayments(c) ==
    /\ req[c].stage = "read"
    /\ req' = [req EXCEPT ![c].saves = payment,
                          ![c].stage = IF req[c].op = "addAccountDetails"
                                       THEN "insert" ELSE "save"]
    /\ UNCHANGED <<bookings, payments, wallets, accounts>>

SavePayment(c, r) ==
    /\ req[c].stage = "save" /\ r \in Saved(c)
    /\ payment' = [payment EXCEPT ![r] = req[c].saves[r]]
    /\ walletOf' = [walletOf EXCEPT ![r] = req[c].found]
    /\ req' = [req EXCEPT ![c].saves[r] = "ABSENT"]
    /\ UNCHANGED <<bookings, gross, withdrawal, wallets, accounts>>

\* A page that had to create the wallet reads wallet and payments once more.
FinishPage(c) ==
    /\ Is(c, "getWalletById", "save") /\ Saved(c) = {}
    /\ IF req[c].again
       THEN \E w \in GetWallet : req' = [req EXCEPT ![c].again = FALSE, ![c].found = w,
                                                    ![c].stage = "read"]
       ELSE Finish(c)
    /\ UNCHANGED <<bookings, payments, wallets, accounts>>

\* Fault: the number of accounts is not compared with the limit.
CountAccountsUnchecked(c) ==
    /\ Is(c, "addMoreBankAccounts", "save") /\ Saved(c) = {}
    /\ req' = [req EXCEPT ![c].stage = "insert"]
    /\ UNCHANGED <<bookings, payments, wallets, accounts>>

\* The limit is looked at last, after the wallet was created and saved.
CountAccounts(c) ==
    /\ Is(c, "addMoreBankAccounts", "save") /\ Saved(c) = {}
    /\ IF accounts >= AccountLimit THEN Finish(c)
       ELSE req' = [req EXCEPT ![c].stage = "insert"]
    /\ UNCHANGED <<bookings, payments, wallets, accounts>>

AddMoreBankAccounts(c) ==
    /\ Is(c, "addMoreBankAccounts", "insert")
    /\ accounts' = accounts + 1
    /\ Finish(c)
    /\ UNCHANGED <<bookings, payments, wallets>>

-----------------------------------------------------------------------------
(* addAccountDetails: count, wallet, payments, then one commit.            *)

OpenAccount(c) ==
    /\ Opens(c, "addAccountDetails")
    /\ accounts < AccountLimit
    /\ \E w \in GetWallet :
         req' = [req EXCEPT ![c] = [NoRequest EXCEPT !.op = "addAccountDetails",
                                                     !.stage = "read", !.found = w]]
    /\ UNCHANGED <<bookings, payments, wallets, accounts>>

CommitAccount(c) ==
    /\ Is(c, "addAccountDetails", "insert")
    /\ \E w \in Wallet :
         /\ Resolves(c, w)
         /\ wallets' = wallets \cup {w}
         /\ walletOf' = [r \in Row |-> IF r \in Saved(c) THEN w ELSE walletOf[r]]
    /\ payment' = [r \in Row |-> IF r \in Saved(c) THEN req[c].saves[r] ELSE payment[r]]
    /\ accounts' = accounts + 1
    /\ Finish(c)
    /\ UNCHANGED <<bookings, gross, withdrawal>>

DeleteAccountById ==
    /\ accounts > 0
    /\ accounts' = accounts - 1
    /\ UNCHANGED <<bookings, payments, wallets, req>>

-----------------------------------------------------------------------------
(* Withdrawals.                                                            *)

\* Fault: the amount is not compared with the balance.
WithdrawUnchecked(c, amount) ==
    /\ Opens(c, "withdraw")
    /\ amount > Fee + Vat
    /\ \E v \in wallets :
         req' = [req EXCEPT ![c] = [NoRequest EXCEPT !.op = "withdraw", !.stage = "insert",
                                                     !.found = v, !.amount = amount]]
    /\ UNCHANGED <<bookings, payments, wallets, accounts>>

\* A host without a wallet has nothing to withdraw.  The wallet a withdrawal is
\* booked on is the one the client names, not the one whose balance was read.
Withdraw(c, amount) ==
    /\ Opens(c, "withdraw")
    /\ amount > Fee + Vat
    /\ \E w \in wallets : Available(w) >= 100 * (amount + Fee + Vat)
    /\ \E v \in wallets :
         req' = [req EXCEPT ![c] = [NoRequest EXCEPT !.op = "withdraw", !.stage = "insert",
                                                     !.found = v, !.amount = amount]]
    /\ UNCHANGED <<bookings, payments, wallets, accounts>>

CommitWithdrawal(c, x) ==
    /\ Is(c, "withdraw", "insert")
    /\ payment[x] = "ABSENT"
    /\ payment' = [payment EXCEPT ![x] = "PENDING"]
    /\ walletOf' = [walletOf EXCEPT ![x] = req[c].found]
    /\ gross' = [gross EXCEPT ![x] = req[c].amount]
    /\ withdrawal' = [withdrawal EXCEPT ![x] = "PENDING"]
    /\ Finish(c)
    /\ UNCHANGED <<bookings, wallets, accounts>>

\* Fault: forgets the withdrawal beside its payment.
UpdatePaymentOnly(x) ==
    /\ payment[x] # "ABSENT"
    /\ payment' = [payment EXCEPT ![x] = "COMPLETED"]
    /\ UNCHANGED <<bookings, walletOf, gross, withdrawal, wallets, accounts, req>>

\* The office marks a withdrawal as paid.
UpdateWithdrawalById(x) ==
    /\ payment[x] # "ABSENT"
    /\ withdrawal' = [withdrawal EXCEPT ![x] = "PAID"]
    /\ payment' = [payment EXCEPT ![x] = "COMPLETED"]
    /\ UNCHANGED <<bookings, walletOf, gross, wallets, accounts, req>>

\* An exception, a lost connection or a restart: what was committed stays.
Abort(c) ==
    /\ req[c].stage # "idle"
    /\ Finish(c)
    /\ UNCHANGED <<bookings, payments, wallets, accounts>>

-----------------------------------------------------------------------------

Step ==
    \/ Bookings
    \/ \E s \in Stay : CompletePayment(s)
    \/ DeleteAccountById
    \/ \E x \in Withdrawal : UpdateWithdrawalById(x)
    \/ \E c \in Call :
         \/ \E s \in Stay : OpenBooking(c, s)
         \/ \E op \in Op : OpenPage(c, op)
         \/ \E amount \in Amount : Withdraw(c, amount)
         \/ \E r \in Row : SavePayment(c, r)
         \/ \E x \in Withdrawal : CommitWithdrawal(c, x)
         \/ CommitBooking(c) \/ CreateWallet(c) \/ ReadPayments(c) \/ FinishPage(c)
         \/ CountAccounts(c) \/ AddMoreBankAccounts(c)
         \/ OpenAccount(c) \/ CommitAccount(c) \/ Abort(c)

Withdrawing(c) == Is(c, "withdraw", "insert")
Lapses == \E s \in Stay : Counts(s) /\ ~Counts(s)'
WithdrawalsOverlap == \E c, d \in Call : c # d /\ Withdrawing(c) /\ Withdrawing(d)

Next == Step /\ exposed' = (exposed \/ Lapses \/ WithdrawalsOverlap')

Spec == Init /\ [][Next]_vars

-----------------------------------------------------------------------------
(* Safety.                                                                 *)

\* While a stay counts towards the balance, its share lies between nothing and
\* the host's part of the payment: the nights are neither negative before
\* check-in nor more than were booked after check-out (applyWithdrawals).
AccrualIsSound ==
    \A s \in Stay : Counts(s) => Share(s) \in 0 .. 98 * terms[s].deposit

\* A withdrawal's payment is COMPLETED only when the withdrawal is PAID, in spite
\* of the payment entities that wallet pages save back late.
CompletedWithdrawalIsPaid ==
    \A x \in Withdrawal : payment[x] = "COMPLETED" => withdrawal[x] = "PAID"

\* The limit of accounts is checked before the insert, without a lock: requests
\* that overlap exceed it, but by no more than one for each other request in
\* flight (addAccountDetails, addMoreBankAccounts).
AccountOverrun == accounts <= AccountLimit - 1 + Cardinality(Call)

\* The same for the wallet row: a host gets a second wallet only from requests
\* that overlap while there is none, and never more than one for each of them.
WalletOverrun == Cardinality(wallets) <= Cardinality(Call)

\* A withdrawal is checked against a balance that may be gone when it is inserted.
\* With one wallet, the balance is negative only after two withdrawals were under
\* way at once, or a stay ceased to count: it was cancelled or set back, or a wallet
\* page saved its payment as it had been before the charge (wallet.service.ts:320-349).
OverdrawnNeedsOverlap ==
    \A w \in wallets : Available(w) < 0 => exposed \/ wallets # {w}

-----------------------------------------------------------------------------
(* What the comments and messages of the code say, and the code does not do.*)

\* "Ensure host has enough available balance to cover gross + fee + vat"
\* (wallet.service.ts:344): what is paid out to a host never exceeds what the
\* nights that have passed have earned, even when every stay is honoured.
NeverOverpaid ==
    100 * SumFunction([x \in {y \in Withdrawal : Recorded(y)} |-> NetPayout(gross[x])])
      <= SumFunction([s \in {t \in Stay : money[t] /\ terms[t].checkIn <= clock} |-> Share(s)])

=============================================================================
