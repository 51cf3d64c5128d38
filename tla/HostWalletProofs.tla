-------------------------- MODULE HostWalletProofs --------------------------
(***************************************************************************)
(* What TLAPS proves about HostWallet for every number of stays,           *)
(* withdrawals, requests in flight and wallets, and every limit.           *)
(***************************************************************************)
EXTENDS HostWallet, FiniteSums

-----------------------------------------------------------------------------
(* Type correctness.                                                       *)

\* A call at rest is a request.
LEMMA NoRequestType == NoRequest \in Request
BY DEF NoRequest, Request, Endpoint, Stage, PaymentStatus

\* The empty tables are well-typed.
LEMMA TypeInit == Init => TypeOK
<1> SUFFICES ASSUME Init PROVE TypeOK
    OBVIOUS
<1>1. /\ clock \in Nat /\ terms \in [Stay -> Terms]
      /\ contract \in [Stay -> {"ABSENT", "PENDING", "PAID_PENDING", "PROCESSING",
                                "FINISHED", "CANCELLED"}]
    BY DEF Init, Contract!Init
<1>2. money \in [Stay -> BOOLEAN] /\ exposed \in BOOLEAN
    BY DEF Init, Contract!Init
<1>3. /\ payment \in [Row -> PaymentStatus \cup {"ABSENT"}]
      /\ walletOf \in [Row -> Wallet \cup {NULL}]
      /\ gross \in [Withdrawal -> Amount \cup {NULL}]
      /\ withdrawal \in [Withdrawal -> WithdrawalStatus \cup {"ABSENT"}]
    BY DEF Init
<1>4. wallets \in SUBSET Wallet /\ accounts \in Nat /\ req \in [Call -> Request]
    BY NoRequestType DEF Init
<1> QED BY <1>1, <1>2, <1>3, <1>4 DEF TypeOK

\* A wallet that is found is a wallet of the host, or none.
LEMMA GetWalletType == TypeOK => GetWallet \subseteq Wallet \cup {NULL}
BY DEF TypeOK, GetWallet

\* A call that is put to rest leaves the calls well-typed.
LEMMA FinishType == ASSUME TypeOK, NEW c \in Call, Finish(c) PROVE req' \in [Call -> Request]
BY NoRequestType DEF Finish, TypeOK

\* Every endpoint, webhook and move of a booking keeps the types.
LEMMA TypeNext == TypeOK /\ [Next]_vars => TypeOK'
<1> SUFFICES ASSUME TypeOK, [Next]_vars PROVE TypeOK'
    OBVIOUS
<1> USE WalletAssumption
<1>0. exposed' \in BOOLEAN
    BY Zenon DEF Next, vars, TypeOK
<1> USE <1>0
<1>1. CASE Bookings
  <2>1. UNCHANGED <<payments, wallets, accounts, req>>
    BY <1>1 DEF Bookings
  <2>2. clock' \in Nat /\ terms' \in [Stay -> Terms]
    BY <1>1 DEF Bookings, TypeOK, Contract!Pass, Contract!Pay, Contract!Settle, Contract!Release
  <2>4. money' \in [Stay -> BOOLEAN]
    BY <1>1, Zenon
    DEF Bookings, TypeOK, Contract!Pass, Contract!Pay, Contract!Settle, Contract!Release
  <2>3. contract' \in [Stay -> {"ABSENT", "PENDING", "PAID_PENDING", "PROCESSING",
                                "FINISHED", "CANCELLED"}]
    BY <1>1 DEF Bookings, TypeOK, Contract!Pass, Contract!Pay, Contract!Settle, Contract!Release
  <2> QED BY <2>1, <2>2, <2>3, <2>4 DEF TypeOK, payments
<1>2. ASSUME NEW s \in Stay, CompletePayment(s) PROVE TypeOK'
    BY <1>2 DEF CompletePayment, TypeOK, bookings, PaymentStatus
<1>3. CASE DeleteAccountById
    BY <1>3 DEF DeleteAccountById, TypeOK, bookings, payments
<1>4. ASSUME NEW x \in Withdrawal, UpdateWithdrawalById(x) PROVE TypeOK'
    BY <1>4 DEF UpdateWithdrawalById, TypeOK, bookings, PaymentStatus, WithdrawalStatus
<1>5. ASSUME NEW c \in Call, NEW s \in Stay, OpenBooking(c, s) PROVE TypeOK'
  <2>1. req' \in [Call -> Request]
    <3>1. PICK w \in GetWallet :
            req' = [req EXCEPT ![c] = [NoRequest EXCEPT !.op = "book", !.stage = "insert",
                                                        !.found = w, !.stay = s]]
      BY <1>5 DEF OpenBooking
    <3>2. [NoRequest EXCEPT !.op = "book", !.stage = "insert", !.found = w, !.stay = s] \in Request
      BY GetWalletType, NoRequestType DEF Request, Endpoint, Stage
    <3> QED BY <3>1, <3>2 DEF TypeOK
  <2> QED BY <2>1, <1>5 DEF OpenBooking, TypeOK, bookings, payments
<1>6. ASSUME NEW c \in Call, NEW op \in Op, OpenPage(c, op) PROVE TypeOK'
  <2>1. req' \in [Call -> Request]
    <3>1. PICK w \in GetWallet :
            req' = [req EXCEPT ![c] =
                      [NoRequest EXCEPT !.op = op, !.found = w,
                                        !.stage = IF w = NULL THEN "create" ELSE "read",
                                        !.again = op = "getWalletById" /\ w = NULL]]
      BY <1>6 DEF OpenPage
    <3> DEFINE new == [NoRequest EXCEPT !.op = op, !.found = w,
                                        !.stage = IF w = NULL THEN "create" ELSE "read",
                                        !.again = op = "getWalletById" /\ w = NULL]
    <3>2. op \in Endpoint /\ w \in Wallet \cup {NULL}
      BY GetWalletType
    <3>3. (op = "getWalletById" /\ w = NULL) \in BOOLEAN
      BY Zenon
    <3>4. new \in Request
      BY <3>2, <3>3, NoRequestType DEF Request, Stage
    <3> QED BY <3>1, <3>4 DEF TypeOK
  <2> QED BY <2>1, <1>6 DEF OpenPage, TypeOK, bookings, payments
<1>7. ASSUME NEW c \in Call, NEW amount \in Amount, Withdraw(c, amount) PROVE TypeOK'
  <2>1. req' \in [Call -> Request]
    <3>1. PICK v \in wallets :
            req' = [req EXCEPT ![c] = [NoRequest EXCEPT !.op = "withdraw", !.stage = "insert",
                                                        !.found = v, !.amount = amount]]
      BY <1>7 DEF Withdraw
    <3>2. [NoRequest EXCEPT !.op = "withdraw", !.stage = "insert",
                            !.found = v, !.amount = amount] \in Request
      BY NoRequestType DEF TypeOK, Request, Endpoint, Stage
    <3> QED BY <3>1, <3>2 DEF TypeOK
  <2> QED BY <2>1, <1>7 DEF Withdraw, TypeOK, bookings, payments
<1>8. ASSUME NEW c \in Call, NEW r \in Row, SavePayment(c, r) PROVE TypeOK'
  <2>1. req' \in [Call -> Request]
    <3>1. req[c] \in Request
      BY DEF TypeOK
    <3>2. [req[c] EXCEPT !.saves = [@ EXCEPT ![r] = "ABSENT"]] \in Request
      BY <3>1 DEF Request
    <3>3. req' = [req EXCEPT ![c] = [req[c] EXCEPT !.saves = [@ EXCEPT ![r] = "ABSENT"]]]
      BY <1>8 DEF SavePayment
    <3> QED BY <3>2, <3>3 DEF TypeOK
  <2>2. payment' \in [Row -> PaymentStatus \cup {"ABSENT"}] /\ walletOf' \in [Row -> Wallet \cup {NULL}]
    BY <1>8 DEF SavePayment, TypeOK, Request
  <2> QED BY <2>1, <2>2, <1>8 DEF SavePayment, TypeOK, bookings
<1>9. ASSUME NEW c \in Call, NEW x \in Withdrawal, CommitWithdrawal(c, x) PROVE TypeOK'
  <2>1. req' \in [Call -> Request]
    BY <1>9, FinishType DEF CommitWithdrawal
  <2>2. /\ payment' \in [Row -> PaymentStatus \cup {"ABSENT"}]
        /\ walletOf' \in [Row -> Wallet \cup {NULL}]
        /\ gross' \in [Withdrawal -> Amount \cup {NULL}]
        /\ withdrawal' \in [Withdrawal -> WithdrawalStatus \cup {"ABSENT"}]
    BY <1>9 DEF CommitWithdrawal, TypeOK, Request, PaymentStatus, WithdrawalStatus, Row
  <2> QED BY <2>1, <2>2, <1>9 DEF CommitWithdrawal, TypeOK, bookings
<1>10. ASSUME NEW c \in Call, CommitBooking(c) PROVE TypeOK'
  <2>1. req' \in [Call -> Request]
    BY <1>10, FinishType DEF CommitBooking
  <2>2. /\ payment' \in [Row -> PaymentStatus \cup {"ABSENT"}]
        /\ walletOf' \in [Row -> Wallet \cup {NULL}]
        /\ wallets' \in SUBSET Wallet
    <3>1. PICK w \in Wallet : /\ wallets' = wallets \cup {w}
                              /\ walletOf' = [walletOf EXCEPT ![req[c].stay] = w]
      BY <1>10 DEF CommitBooking
    <3>2. payment' = [payment EXCEPT ![req[c].stay] = "PENDING"]
      BY <1>10 DEF CommitBooking
    <3> QED BY <3>1, <3>2 DEF TypeOK, PaymentStatus
  <2>3. /\ clock' \in Nat /\ terms' \in [Stay -> Terms] /\ money' \in [Stay -> BOOLEAN]
        /\ contract' \in [Stay -> {"ABSENT", "PENDING", "PAID_PENDING", "PROCESSING",
                                   "FINISHED", "CANCELLED"}]
    BY <1>10 DEF CommitBooking, Contract!Agree, TypeOK
  <2> QED BY <2>1, <2>2, <2>3, <1>10 DEF CommitBooking, TypeOK
<1>11. ASSUME NEW c \in Call, CreateWallet(c) PROVE TypeOK'
  <2>1. PICK w \in Wallet \ wallets :
          /\ wallets' = wallets \cup {w}
          /\ req' = [req EXCEPT ![c].found = w, ![c].stage = "read"]
    BY <1>11 DEF CreateWallet
  <2>2. wallets' \in SUBSET Wallet /\ req' \in [Call -> Request]
    <3>1. [req[c] EXCEPT !.found = w, !.stage = "read"] \in Request
      <4>1. req[c] \in Request
        BY DEF TypeOK
      <4> QED BY <4>1 DEF Request, Stage
    <3>2. req' = [req EXCEPT ![c] = [req[c] EXCEPT !.found = w, !.stage = "read"]]
      BY <2>1 DEF TypeOK
    <3> QED BY <2>1, <3>1, <3>2 DEF TypeOK
  <2> QED BY <2>2, <1>11 DEF CreateWallet, TypeOK, bookings, payments
<1>12. ASSUME NEW c \in Call, ReadPayments(c) PROVE TypeOK'
    BY <1>12 DEF ReadPayments, TypeOK, Request, Stage, bookings, payments
<1>13. ASSUME NEW c \in Call, FinishPage(c) PROVE TypeOK'
  <2>1. req' \in [Call -> Request]
    <3>1. CASE req[c].again
      <4>1. PICK w \in GetWallet : req' = [req EXCEPT ![c].again = FALSE, ![c].found = w,
                                                     ![c].stage = "read"]
        BY <1>13, <3>1 DEF FinishPage
      <4> DEFINE new == [req[c] EXCEPT !.again = FALSE, !.found = w, !.stage = "read"]
      <4>2. new \in Request
        <5>1. req[c] \in Request /\ w \in Wallet \cup {NULL}
          BY GetWalletType DEF TypeOK
        <5> QED BY <5>1 DEF Request, Stage
      <4>3. req' = [req EXCEPT ![c] = new]
        BY <4>1 DEF TypeOK
      <4> QED BY <4>2, <4>3 DEF TypeOK
    <3>2. CASE ~ req[c].again
      BY <1>13, <3>2, FinishType DEF FinishPage
    <3> QED BY <3>1, <3>2
  <2> QED BY <2>1, <1>13 DEF FinishPage, TypeOK, bookings, payments
<1>14. ASSUME NEW c \in Call, CountAccounts(c) PROVE TypeOK'
  <2>1. req' \in [Call -> Request]
    <3>1. CASE accounts >= AccountLimit
      BY <1>14, <3>1, FinishType DEF CountAccounts
    <3>2. CASE ~ (accounts >= AccountLimit)
      <4> DEFINE new == [req[c] EXCEPT !.stage = "insert"]
      <4>1. new \in Request
        <5>1. req[c] \in Request
          BY DEF TypeOK
        <5> QED BY <5>1 DEF Request, Stage
      <4>2. req' = [req EXCEPT ![c] = new]
        BY <1>14, <3>2 DEF CountAccounts, TypeOK
      <4> QED BY <4>1, <4>2 DEF TypeOK
    <3> QED BY <3>1, <3>2
  <2> QED BY <2>1, <1>14 DEF CountAccounts, TypeOK, bookings, payments
<1>15. ASSUME NEW c \in Call, AddMoreBankAccounts(c) PROVE TypeOK'
    BY <1>15, FinishType DEF AddMoreBankAccounts, TypeOK, bookings, payments
<1>16. ASSUME NEW c \in Call, OpenAccount(c) PROVE TypeOK'
  <2>1. req' \in [Call -> Request]
    <3>1. PICK w \in GetWallet :
            req' = [req EXCEPT ![c] = [NoRequest EXCEPT !.op = "addAccountDetails",
                                                        !.stage = "read", !.found = w]]
      BY <1>16 DEF OpenAccount
    <3>2. [NoRequest EXCEPT !.op = "addAccountDetails", !.stage = "read", !.found = w] \in Request
      BY GetWalletType, NoRequestType DEF Request, Endpoint, Stage
    <3> QED BY <3>1, <3>2 DEF TypeOK
  <2> QED BY <2>1, <1>16 DEF OpenAccount, TypeOK, bookings, payments
<1>17. ASSUME NEW c \in Call, CommitAccount(c) PROVE TypeOK'
  <2>1. req' \in [Call -> Request]
    BY <1>17, FinishType DEF CommitAccount
  <2>2. req[c].saves \in [Row -> PaymentStatus \cup {"ABSENT"}]
    BY DEF TypeOK, Request
  <2>3. /\ payment' \in [Row -> PaymentStatus \cup {"ABSENT"}]
        /\ walletOf' \in [Row -> Wallet \cup {NULL}]
        /\ wallets' \in SUBSET Wallet /\ accounts' \in Nat
    BY <1>17, <2>2 DEF CommitAccount, TypeOK
  <2> QED BY <2>1, <2>3, <1>17 DEF CommitAccount, TypeOK, bookings
<1>18. ASSUME NEW c \in Call, Abort(c) PROVE TypeOK'
    BY <1>18, FinishType DEF Abort, TypeOK, bookings, payments
<1>19. CASE UNCHANGED vars
    BY <1>19 DEF vars, TypeOK, bookings, payments
<1> QED
    BY <1>1, <1>2, <1>3, <1>4, <1>5, <1>6, <1>7, <1>8, <1>9, <1>10, <1>11, <1>12, <1>13,
       <1>14, <1>15, <1>16, <1>17, <1>18, <1>19 DEF Next, Step

\* Every variable keeps its type: no endpoint, webhook or late save writes a
\* status that its column does not have.
THEOREM WalletTypeCorrect == Spec => []TypeOK
BY TypeInit, TypeNext, PTL DEF Spec

-----------------------------------------------------------------------------
(* Withdrawals: a completed payment belongs to a paid withdrawal.          *)

\* What makes the late save of a payment harmless: a status that was COMPLETED
\* when it was read belongs to a withdrawal that has been PAID ever since, and a
\* paid withdrawal has its payment, so that it is not recorded a second time.
SavesWerePaid ==
    \A c \in Call, x \in Withdrawal : req[c].saves[x] = "COMPLETED" => withdrawal[x] = "PAID"
PaidIsRecorded == \A x \in Withdrawal : withdrawal[x] = "PAID" => payment[x] # "ABSENT"
PaidInv == CompletedWithdrawalIsPaid /\ SavesWerePaid /\ PaidIsRecorded

\* A call's snapshot of the withdrawals is the one it had, or has been dropped.
SavesKept ==
    \A c \in Call, x \in Withdrawal : req'[c].saves[x] \in {req[c].saves[x], "ABSENT"}

\* A step that leaves the withdrawals alone and reads none of them keeps PaidInv.
LEMMA PaidFrame ==
    ASSUME PaidInv, SavesKept,
           \A x \in Withdrawal : payment'[x] = payment[x] /\ withdrawal'[x] = withdrawal[x]
    PROVE  PaidInv'
BY DEF PaidInv, SavesKept, CompletedWithdrawalIsPaid, SavesWerePaid, PaidIsRecorded

\* A new request, or one at rest, has read nothing.
LEMMA FreshSaves ==
    ASSUME TypeOK, NEW c \in Call, NEW q, req' = [req EXCEPT ![c] = q],
           q.saves = NoRequest.saves
    PROVE  SavesKept
BY DEF TypeOK, SavesKept, NoRequest, Row

\* A request at rest has read nothing.
LEMMA FinishSaves == ASSUME TypeOK, NEW c \in Call, Finish(c) PROVE SavesKept
BY FreshSaves DEF Finish

\* Without rows there is nothing to pay.
LEMMA PaidInit == Init => PaidInv
BY DEF Init, NoRequest, PaidInv, CompletedWithdrawalIsPaid, SavesWerePaid, PaidIsRecorded, Row

\* Every step keeps PaidInv.
LEMMA PaidNext == TypeOK /\ PaidInv /\ [Next]_vars => PaidInv'
<1> SUFFICES ASSUME TypeOK, PaidInv, [Next]_vars PROVE PaidInv'
    OBVIOUS
<1>1. CASE Bookings
    BY <1>1, PaidFrame DEF Bookings, payments, SavesKept
<1>2. ASSUME NEW s \in Stay, CompletePayment(s) PROVE PaidInv'
  <2>1. \A x \in Withdrawal : payment'[x] = payment[x]
    BY <1>2, WalletAssumption DEF CompletePayment, TypeOK, Row
  <2> QED BY <2>1, <1>2, PaidFrame DEF CompletePayment, SavesKept
<1>3. CASE DeleteAccountById
    BY <1>3, PaidFrame DEF DeleteAccountById, payments, SavesKept
<1>4. ASSUME NEW x \in Withdrawal, UpdateWithdrawalById(x) PROVE PaidInv'
    BY <1>4 DEF UpdateWithdrawalById, TypeOK, Row, PaidInv, CompletedWithdrawalIsPaid,
                SavesWerePaid, PaidIsRecorded
<1>5. ASSUME NEW c \in Call, NEW s \in Stay, OpenBooking(c, s) PROVE PaidInv'
  <2>1. PICK w \in GetWallet :
          req' = [req EXCEPT ![c] = [NoRequest EXCEPT !.op = "book", !.stage = "insert",
                                                      !.found = w, !.stay = s]]
    BY <1>5 DEF OpenBooking
  <2>2. SavesKept
    BY <2>1, FreshSaves DEF NoRequest
  <2> QED BY <2>2, <1>5, PaidFrame DEF OpenBooking, payments
<1>6. ASSUME NEW c \in Call, NEW op \in Op, OpenPage(c, op) PROVE PaidInv'
  <2>1. PICK w \in GetWallet :
          req' = [req EXCEPT ![c] =
                    [NoRequest EXCEPT !.op = op, !.found = w,
                                      !.stage = IF w = NULL THEN "create" ELSE "read",
                                      !.again = op = "getWalletById" /\ w = NULL]]
    BY <1>6 DEF OpenPage
  <2>2. SavesKept
    BY <2>1, FreshSaves DEF NoRequest
  <2> QED BY <2>2, <1>6, PaidFrame DEF OpenPage, payments
<1>7. ASSUME NEW c \in Call, NEW amount \in Amount, Withdraw(c, amount) PROVE PaidInv'
  <2>1. PICK v \in wallets :
          req' = [req EXCEPT ![c] = [NoRequest EXCEPT !.op = "withdraw", !.stage = "insert",
                                                      !.found = v, !.amount = amount]]
    BY <1>7 DEF Withdraw
  <2>2. SavesKept
    BY <2>1, FreshSaves DEF NoRequest
  <2> QED BY <2>2, <1>7, PaidFrame DEF Withdraw, payments
<1>8. ASSUME NEW c \in Call, NEW r \in Row, SavePayment(c, r) PROVE PaidInv'
  <2>1. /\ payment' = [payment EXCEPT ![r] = req[c].saves[r]]
        /\ req[c].saves[r] # "ABSENT" /\ withdrawal' = withdrawal
    BY <1>8 DEF SavePayment, Saved
  <2>2. SavesKept
    BY <1>8 DEF SavePayment, SavesKept, TypeOK, Request, Row
  <2> QED
    BY <2>1, <2>2 DEF SavesKept, TypeOK, Row, PaidInv, CompletedWithdrawalIsPaid,
                      SavesWerePaid, PaidIsRecorded
<1>9. ASSUME NEW c \in Call, NEW x \in Withdrawal, CommitWithdrawal(c, x) PROVE PaidInv'
  <2>1. SavesKept
    BY <1>9, FinishSaves DEF CommitWithdrawal
  <2> QED
    BY <2>1, <1>9 DEF CommitWithdrawal, SavesKept, TypeOK, Row, PaidInv,
                      CompletedWithdrawalIsPaid, SavesWerePaid, PaidIsRecorded
<1>10. ASSUME NEW c \in Call, CommitBooking(c) PROVE PaidInv'
  <2>1. SavesKept
    BY <1>10, FinishSaves DEF CommitBooking
  <2>2. \A x \in Withdrawal : req[c].stay # x
    BY WalletAssumption DEF TypeOK, Request, Row
  <2>3. \A x \in Withdrawal : payment'[x] = payment[x]
    BY <2>2, <1>10 DEF CommitBooking, TypeOK, Row
  <2> QED BY <2>1, <2>3, <1>10, PaidFrame DEF CommitBooking
<1>11. ASSUME NEW c \in Call, CreateWallet(c) PROVE PaidInv'
  <2>1. SavesKept
    BY <1>11 DEF CreateWallet, SavesKept, TypeOK, Request
  <2> QED BY <2>1, <1>11, PaidFrame DEF CreateWallet, payments
<1>12. ASSUME NEW c \in Call, ReadPayments(c) PROVE PaidInv'
    BY <1>12 DEF ReadPayments, payments, TypeOK, Request, Row, PaidInv,
                 CompletedWithdrawalIsPaid, SavesWerePaid, PaidIsRecorded
<1>13. ASSUME NEW c \in Call, FinishPage(c) PROVE PaidInv'
  <2>1. SavesKept
    <3>1. CASE req[c].again
      <4>1. PICK w \in GetWallet : req' = [req EXCEPT ![c].again = FALSE, ![c].found = w,
                                                     ![c].stage = "read"]
        BY <1>13, <3>1 DEF FinishPage
      <4>2. \A d \in Call : req'[d].saves = req[d].saves
        BY <4>1 DEF TypeOK, Request
      <4> QED BY <4>2 DEF SavesKept
    <3>2. CASE ~ req[c].again
      BY <1>13, <3>2, FinishSaves DEF FinishPage
    <3> QED BY <3>1, <3>2
  <2> QED BY <2>1, <1>13, PaidFrame DEF FinishPage, payments
<1>14. ASSUME NEW c \in Call, CountAccounts(c) PROVE PaidInv'
  <2>1. SavesKept
    <3>1. CASE accounts >= AccountLimit
      BY <1>14, <3>1, FinishSaves DEF CountAccounts
    <3>2. CASE ~ (accounts >= AccountLimit)
      BY <1>14, <3>2 DEF CountAccounts, SavesKept, TypeOK, Request
    <3> QED BY <3>1, <3>2
  <2> QED BY <2>1, <1>14, PaidFrame DEF CountAccounts, payments
<1>15. ASSUME NEW c \in Call, AddMoreBankAccounts(c) PROVE PaidInv'
    BY <1>15, FinishSaves, PaidFrame DEF AddMoreBankAccounts, payments
<1>16. ASSUME NEW c \in Call, OpenAccount(c) PROVE PaidInv'
  <2>1. PICK w \in GetWallet :
          req' = [req EXCEPT ![c] = [NoRequest EXCEPT !.op = "addAccountDetails",
                                                      !.stage = "read", !.found = w]]
    BY <1>16 DEF OpenAccount
  <2>2. SavesKept
    BY <2>1, FreshSaves DEF NoRequest
  <2> QED BY <2>2, <1>16, PaidFrame DEF OpenAccount, payments
<1>17. ASSUME NEW c \in Call, CommitAccount(c) PROVE PaidInv'
  <2>1. SavesKept
    BY <1>17, FinishSaves DEF CommitAccount
  <2>2. /\ payment' = [r \in Row |-> IF r \in Saved(c) THEN req[c].saves[r] ELSE payment[r]]
        /\ withdrawal' = withdrawal
    BY <1>17 DEF CommitAccount
  <2> QED
    BY <2>1, <2>2 DEF SavesKept, Saved, Row, PaidInv, CompletedWithdrawalIsPaid,
                      SavesWerePaid, PaidIsRecorded
<1>18. ASSUME NEW c \in Call, Abort(c) PROVE PaidInv'
    BY <1>18, FinishSaves, PaidFrame DEF Abort, payments
<1>19. CASE UNCHANGED vars
    BY <1>19, PaidFrame DEF vars, payments, SavesKept
<1> QED
    BY <1>1, <1>2, <1>3, <1>4, <1>5, <1>6, <1>7, <1>8, <1>9, <1>10, <1>11, <1>12, <1>13,
       <1>14, <1>15, <1>16, <1>17, <1>18, <1>19 DEF Next, Step

\* No withdrawal's payment is COMPLETED before the office has marked the
\* withdrawal PAID, whatever payments wallet pages save back late.
THEOREM CompletedWithdrawalsArePaid == Spec => []CompletedWithdrawalIsPaid
<1>1. Init => TypeOK /\ PaidInv
    BY TypeInit, PaidInit
<1>2. TypeOK /\ PaidInv /\ [Next]_vars => (TypeOK /\ PaidInv)'
    BY TypeNext, PaidNext
<1>3. PaidInv => CompletedWithdrawalIsPaid
    BY DEF PaidInv
<1> QED BY <1>1, <1>2, <1>3, PTL DEF Spec

-----------------------------------------------------------------------------
(* How far accounts and wallets exceed their limits.                       *)

\* Sets of calls and of wallets are finite, and grow with their members.
LEMMA CallsCount ==
    ASSUME NEW S \in SUBSET Call, NEW T \in SUBSET S
    PROVE  /\ IsFiniteSet(S) /\ Cardinality(S) \in Nat /\ Cardinality(T) \in Nat
           /\ Cardinality(T) <= Cardinality(S)
           /\ Cardinality(S) <= Cardinality(Call) /\ Cardinality(Call) \in Nat
<1>1. IsFiniteSet(Call) /\ IsFiniteSet(S) /\ IsFiniteSet(T)
    BY FS_Subset, WalletAssumption
<1>2. Cardinality(T) <= Cardinality(S) /\ Cardinality(S) <= Cardinality(Call)
    BY <1>1, FS_Subset
<1> QED BY <1>1, <1>2, FS_CardinalityType

\* A set of calls that has lost a member is smaller.
LEMMA CallsCountWithout ==
    ASSUME NEW S \in SUBSET Call, NEW c \in S, NEW T \in SUBSET (S \ {c})
    PROVE  Cardinality(T) + 1 <= Cardinality(S)
<1>1. IsFiniteSet(S) /\ Cardinality(S) \in Nat
    BY CallsCount
<1>2. Cardinality(S \ {c}) = Cardinality(S) - 1
    BY <1>1, FS_RemoveElement
<1>3. S \ {c} \in SUBSET Call /\ Cardinality(T) \in Nat /\ Cardinality(T) <= Cardinality(S \ {c})
    BY CallsCount
<1> QED BY <1>1, <1>2, <1>3

\* A wallet row more counts one more.
LEMMA WalletsCount ==
    ASSUME NEW W \in SUBSET Wallet, NEW w \in Wallet
    PROVE  /\ Cardinality(W) \in Nat /\ Cardinality(W \cup {w}) <= Cardinality(W) + 1
<1>1. IsFiniteSet(W)
    BY FS_Subset, WalletAssumption
<1>2. Cardinality(W) \in Nat
    BY <1>1, FS_CardinalityType
<1>3. Cardinality(W \cup {w}) = IF w \in W THEN Cardinality(W) ELSE Cardinality(W) + 1
    BY <1>1, FS_AddElement
<1> QED BY <1>2, <1>3

\* The calls that have counted the accounts and not yet inserted one.
Inserting ==
    {c \in Call : \/ req[c].op = "addMoreBankAccounts" /\ req[c].stage = "insert"
                  \/ req[c].op = "addAccountDetails" /\ req[c].stage # "idle"}

\* Every one of them may still insert its account: together with the accounts
\* there are, they stay within the limit plus the other calls.
AccountInv == accounts + Cardinality(Inserting) <= AccountLimit - 1 + Cardinality(Call)

\* A step after which no other call is inserting and no account is new keeps it.
LEMMA AccountFrame ==
    ASSUME TypeOK, AccountInv, accounts' = accounts, Inserting' \subseteq Inserting
    PROVE  AccountInv'
<1>1. /\ Cardinality(Inserting) \in Nat /\ Cardinality(Inserting') \in Nat
      /\ Cardinality(Inserting') <= Cardinality(Inserting) /\ Cardinality(Call) \in Nat
    BY CallsCount DEF Inserting
<1> QED BY <1>1, WalletAssumption DEF AccountInv, TypeOK

\* A call that is let in found the accounts below the limit, so that even with all
\* calls inserting the bound is kept.
LEMMA AccountEntry ==
    ASSUME TypeOK, accounts < AccountLimit, accounts' = accounts
    PROVE  AccountInv'
<1>1. Inserting' \in SUBSET Call
    BY DEF Inserting
<1>2. /\ Cardinality(Inserting') \in Nat /\ Cardinality(Inserting') <= Cardinality(Call)
      /\ Cardinality(Call) \in Nat
    BY <1>1, CallsCount
<1> QED BY <1>2, WalletAssumption DEF AccountInv, TypeOK

\* A call that inserts its account is no longer inserting.
LEMMA AccountInsert ==
    ASSUME TypeOK, AccountInv, NEW c \in Inserting, accounts' = accounts + 1, Finish(c)
    PROVE  AccountInv'
<1>1. Inserting' \in SUBSET (Inserting \ {c})
    BY DEF Inserting, Finish, NoRequest, TypeOK
<1>2. Cardinality(Inserting') + 1 <= Cardinality(Inserting)
    BY <1>1, CallsCountWithout DEF Inserting
<1>3. /\ Cardinality(Inserting) \in Nat /\ Cardinality(Inserting') \in Nat
      /\ Cardinality(Call) \in Nat
    BY <1>1, CallsCount DEF Inserting
<1> QED BY <1>2, <1>3, WalletAssumption DEF AccountInv, TypeOK

\* No call has counted anything at the start.
LEMMA AccountInit == Init => AccountInv
<1> SUFFICES ASSUME Init PROVE AccountInv
    OBVIOUS
<1>1. Inserting = {}
    BY DEF Init, Inserting, NoRequest
<1>2. Cardinality(Call) \in Nat
    BY CallsCount
<1> QED BY <1>1, <1>2, FS_EmptySet, WalletAssumption DEF Init, AccountInv

\* Every step keeps AccountInv.
LEMMA AccountNext == TypeOK /\ AccountInv /\ [Next]_vars => AccountInv'
<1> SUFFICES ASSUME TypeOK, AccountInv, [Next]_vars PROVE AccountInv'
    OBVIOUS
<1>1. CASE UNCHANGED <<accounts, req>>
    BY <1>1, AccountFrame DEF Inserting
<1>2. CASE DeleteAccountById
  <2>1. Inserting' = Inserting /\ Cardinality(Inserting) \in Nat /\ Cardinality(Call) \in Nat
    BY <1>2, CallsCount DEF DeleteAccountById, Inserting
  <2> QED BY <2>1, <1>2, WalletAssumption DEF DeleteAccountById, AccountInv, TypeOK
<1>3. ASSUME NEW c \in Call, Finish(c), accounts' = accounts PROVE AccountInv'
    BY <1>3, AccountFrame DEF Finish, Inserting, NoRequest, TypeOK
<1>4. ASSUME NEW c \in Call, NEW s \in Stay, OpenBooking(c, s) PROVE AccountInv'
    BY <1>4, AccountFrame DEF OpenBooking, Inserting, NoRequest, TypeOK
<1>5. ASSUME NEW c \in Call, NEW op \in Op, OpenPage(c, op) PROVE AccountInv'
    BY <1>5, AccountFrame DEF OpenPage, Inserting, NoRequest, TypeOK
<1>6. ASSUME NEW c \in Call, NEW amount \in Amount, Withdraw(c, amount) PROVE AccountInv'
    BY <1>6, AccountFrame DEF Withdraw, Inserting, NoRequest, TypeOK
<1>7. ASSUME NEW c \in Call, NEW r \in Row, SavePayment(c, r) PROVE AccountInv'
    BY <1>7, AccountFrame DEF SavePayment, Inserting, TypeOK, Request
<1>8. ASSUME NEW c \in Call, CreateWallet(c) PROVE AccountInv'
    BY <1>8, AccountFrame DEF CreateWallet, Inserting, TypeOK, Request
<1>9. ASSUME NEW c \in Call, ReadPayments(c) PROVE AccountInv'
  <2>1. /\ \A d \in Call : req'[d].op = req[d].op
        /\ \A d \in Call \ {c} : req'[d].stage = req[d].stage
        /\ req'[c].stage = IF req[c].op = "addAccountDetails" THEN "insert" ELSE "save"
        /\ req[c].stage = "read" /\ accounts' = accounts
    BY <1>9 DEF ReadPayments, TypeOK, Request
  <2>2. Inserting' \subseteq Inserting
    BY <2>1 DEF Inserting
  <2> QED BY <2>1, <2>2, AccountFrame
<1>10. ASSUME NEW c \in Call, FinishPage(c) PROVE AccountInv'
  <2>1. CASE req[c].again
    <3>1. PICK w \in GetWallet : req' = [req EXCEPT ![c].again = FALSE, ![c].found = w,
                                                   ![c].stage = "read"]
      BY <1>10, <2>1 DEF FinishPage
    <3>2. /\ \A d \in Call \ {c} : req'[d] = req[d]
          /\ req'[c].op = "getWalletById"
      <4>1. req[c] \in Request /\ req[c].op = "getWalletById"
        BY <1>10 DEF FinishPage, Is, TypeOK
      <4> QED BY <3>1, <4>1 DEF TypeOK, Request
    <3>3. Inserting' \subseteq Inserting
      BY <3>2 DEF Inserting
    <3> QED BY <3>3, <1>10, AccountFrame DEF FinishPage
  <2>2. CASE ~ req[c].again
    BY <1>10, <2>2, <1>3 DEF FinishPage
  <2> QED BY <2>1, <2>2
<1>11. ASSUME NEW c \in Call, CountAccounts(c) PROVE AccountInv'
  <2>1. CASE accounts >= AccountLimit
    BY <1>11, <2>1, <1>3 DEF CountAccounts
  <2>2. CASE accounts < AccountLimit
    BY <1>11, <2>2, AccountEntry DEF CountAccounts
  <2> QED BY <2>1, <2>2, WalletAssumption DEF TypeOK
<1>12. ASSUME NEW c \in Call, AddMoreBankAccounts(c) PROVE AccountInv'
    BY <1>12, AccountInsert DEF AddMoreBankAccounts, Is, Inserting
<1>13. ASSUME NEW c \in Call, OpenAccount(c) PROVE AccountInv'
    BY <1>13, AccountEntry DEF OpenAccount
<1>14. ASSUME NEW c \in Call, CommitAccount(c) PROVE AccountInv'
    BY <1>14, AccountInsert DEF CommitAccount, Is, Inserting
<1> QED
  <2>1. CASE Bookings \/ (\E s \in Stay : CompletePayment(s))
                      \/ (\E x \in Withdrawal : UpdateWithdrawalById(x)) \/ UNCHANGED vars
    BY <2>1, <1>1 DEF Bookings, CompletePayment, UpdateWithdrawalById, vars
  <2>2. ASSUME NEW c \in Call, \/ CommitBooking(c) \/ Abort(c)
                               \/ \E x \in Withdrawal : CommitWithdrawal(c, x)
        PROVE  AccountInv'
    BY <2>2, <1>3 DEF CommitBooking, Abort, CommitWithdrawal
  <2> QED BY <1>2, <1>4, <1>5, <1>6, <1>7, <1>8, <1>9, <1>10, <1>11, <1>12, <1>13, <1>14,
             <2>1, <2>2 DEF Next, Step

\* A host exceeds the limit of accounts by no more than one for each other request
\* in flight, for any limit and any number of requests.
THEOREM AccountsAreBounded == Spec => []AccountOverrun
<1>1. Init => TypeOK /\ AccountInv
    BY TypeInit, AccountInit
<1>2. TypeOK /\ AccountInv /\ [Next]_vars => (TypeOK /\ AccountInv)'
    BY TypeNext, AccountNext
<1>3. TypeOK /\ AccountInv => AccountOverrun
  <2>1. Cardinality(Inserting) \in Nat /\ Cardinality(Call) \in Nat
    BY CallsCount DEF Inserting
  <2> QED BY <2>1, WalletAssumption DEF AccountInv, AccountOverrun, TypeOK
<1> QED BY <1>1, <1>2, <1>3, PTL DEF Spec

-----------------------------------------------------------------------------
\* The calls that have found no wallet and may still create one.
Creating == {c \in Call : req[c].stage # "idle" /\ req[c].found = NULL}

\* A page has a wallet once it has got past its creation, and creates one only when
\* it has none; a wallet that was found exists; wallets and calls that may create one
\* are together no more than the calls.
PagesHaveWallet ==
    \A c \in Call :
        /\ req[c].stage = "create" => req[c].found = NULL
        /\ req[c].op \in {"getWalletById", "addMoreBankAccounts"}
             /\ req[c].stage \in {"read", "save", "insert"} => req[c].found # NULL
FoundExists == \A c \in Call : req[c].found # NULL => req[c].found \in wallets
WalletInv ==
    /\ PagesHaveWallet
    /\ FoundExists
    /\ Cardinality(wallets) + Cardinality(Creating) <= Cardinality(Call)

\* The bound survives a step after which no other call is creating.
LEMMA CreatingFrame ==
    ASSUME TypeOK, WalletInv, wallets' = wallets, Creating' \subseteq Creating
    PROVE  Cardinality(wallets') + Cardinality(Creating') <= Cardinality(Call)
<1>1. /\ Cardinality(Creating) \in Nat /\ Cardinality(Creating') \in Nat
      /\ Cardinality(Creating') <= Cardinality(Creating) /\ Cardinality(Call) \in Nat
    BY CallsCount DEF Creating
<1>2. Cardinality(wallets) \in Nat
    BY FS_Subset, FS_CardinalityType, WalletAssumption DEF TypeOK
<1> QED BY <1>1, <1>2 DEF WalletInv

\* A request starts: without a wallet in the table every call may be creating one, with
\* one in the table the request has found one.
LEMMA CreatingEntry ==
    ASSUME TypeOK, WalletInv, NEW c \in Call, NEW q, q.found \in GetWallet,
           req' = [req EXCEPT ![c] = q], wallets' = wallets
    PROVE  Cardinality(wallets') + Cardinality(Creating') <= Cardinality(Call)
<1>1. CASE wallets = {}
  <2>1. Creating' \in SUBSET Call
    BY DEF Creating
  <2>2. /\ Cardinality(Creating') \in Nat /\ Cardinality(Creating') <= Cardinality(Call)
        /\ Cardinality(Call) \in Nat
    BY <2>1, CallsCount
  <2> QED BY <1>1, <2>2, FS_EmptySet
<1>2. CASE wallets # {}
  <2>1. q.found # NULL
    BY <1>2, WalletAssumption DEF GetWallet, TypeOK
  <2>2. Creating' \subseteq Creating
    BY <2>1 DEF Creating, TypeOK
  <2> QED BY <2>2, CreatingFrame
<1> QED BY <1>1, <1>2

\* A call that resolves its wallet either has it already or adds one and is done.
LEMMA CreatingResolve ==
    ASSUME TypeOK, WalletInv, NEW c \in Call, req[c].stage # "idle", NEW w \in Wallet,
           Resolves(c, w), wallets' = wallets \cup {w}, Creating' \subseteq Creating \ {c}
    PROVE  Cardinality(wallets') + Cardinality(Creating') <= Cardinality(Call)
<1>1. CASE req[c].found = NULL
  <2>1. c \in Creating
    BY <1>1 DEF Creating
  <2>2. Cardinality(Creating') + 1 <= Cardinality(Creating)
    BY <2>1, CallsCountWithout DEF Creating
  <2>3. /\ Cardinality(Creating) \in Nat /\ Cardinality(Creating') \in Nat
        /\ Cardinality(Call) \in Nat
    BY CallsCount DEF Creating
  <2>4. Cardinality(wallets) \in Nat /\ Cardinality(wallets') <= Cardinality(wallets) + 1
    BY WalletsCount DEF TypeOK
  <2>5. wallets' \in SUBSET Wallet
    BY DEF TypeOK
  <2>6. Cardinality(wallets') \in Nat
    BY <2>5, WalletsCount
  <2> QED BY <2>2, <2>3, <2>4, <2>6 DEF WalletInv
<1>2. CASE req[c].found # NULL
  <2>1. wallets' = wallets
    BY <1>2 DEF Resolves, WalletInv, FoundExists
  <2> QED BY <2>1, CreatingFrame
<1> QED BY <1>1, <1>2

\* There is no wallet and no request at the start.
LEMMA WalletInit == Init => WalletInv
<1> SUFFICES ASSUME Init PROVE WalletInv
    OBVIOUS
<1>1. Creating = {} /\ PagesHaveWallet /\ FoundExists
    BY DEF Init, Creating, NoRequest, PagesHaveWallet, FoundExists
<1>2. Cardinality(Call) \in Nat
    BY CallsCount
<1> QED BY <1>1, <1>2, FS_EmptySet DEF Init, WalletInv

\* Every step keeps WalletInv.
LEMMA WalletNext == TypeOK /\ WalletInv /\ [Next]_vars => WalletInv'
<1> SUFFICES ASSUME TypeOK, WalletInv, [Next]_vars PROVE WalletInv'
    OBVIOUS
<1> USE DEF WalletInv
<1>1. CASE UNCHANGED <<wallets, req>>
    BY <1>1 DEF PagesHaveWallet, FoundExists, Creating
<1>2. ASSUME NEW c \in Call, Finish(c), wallets' = wallets PROVE WalletInv'
  <2>1. PagesHaveWallet' /\ FoundExists' /\ Creating' \subseteq Creating
    BY <1>2 DEF Finish, NoRequest, PagesHaveWallet, FoundExists, Creating, TypeOK
  <2> QED BY <2>1, <1>2, CreatingFrame
<1>3. ASSUME NEW c \in Call, Finish(c), req[c].stage # "idle",
             NEW w \in Wallet, Resolves(c, w), wallets' = wallets \cup {w}
      PROVE  WalletInv'
  <2>1. PagesHaveWallet' /\ FoundExists' /\ Creating' \subseteq Creating \ {c}
    BY <1>3 DEF Finish, NoRequest, PagesHaveWallet, FoundExists, Creating, TypeOK
  <2> QED BY <2>1, <1>3, CreatingResolve
<1>4. ASSUME NEW c \in Call, NEW q, q.found \in GetWallet, wallets' = wallets,
             req' = [req EXCEPT ![c] = q],
             q.stage = "create" => q.found = NULL,
             q.op \in {"getWalletById", "addMoreBankAccounts"}
               /\ q.stage \in {"read", "save", "insert"} => q.found # NULL
      PROVE  WalletInv'
  <2>1. PagesHaveWallet' /\ FoundExists'
    BY <1>4 DEF PagesHaveWallet, FoundExists, GetWallet, TypeOK
  <2> QED BY <2>1, <1>4, CreatingEntry
<1>5. ASSUME NEW c \in Call, NEW s \in Stay, OpenBooking(c, s) PROVE WalletInv'
  <2>1. PICK w \in GetWallet :
          req' = [req EXCEPT ![c] = [NoRequest EXCEPT !.op = "book", !.stage = "insert",
                                                      !.found = w, !.stay = s]]
    BY <1>5 DEF OpenBooking
  <2> QED BY <2>1, <1>4, <1>5 DEF OpenBooking, NoRequest
<1>6. ASSUME NEW c \in Call, NEW op \in Op, OpenPage(c, op) PROVE WalletInv'
  <2>1. PICK w \in GetWallet :
          req' = [req EXCEPT ![c] =
                    [NoRequest EXCEPT !.op = op, !.found = w,
                                      !.stage = IF w = NULL THEN "create" ELSE "read",
                                      !.again = op = "getWalletById" /\ w = NULL]]
    BY <1>6 DEF OpenPage
  <2> QED BY <2>1, <1>4, <1>6 DEF OpenPage, NoRequest
<1>7. ASSUME NEW c \in Call, NEW amount \in Amount, Withdraw(c, amount) PROVE WalletInv'
  <2>1. PICK v \in wallets :
          req' = [req EXCEPT ![c] = [NoRequest EXCEPT !.op = "withdraw", !.stage = "insert",
                                                      !.found = v, !.amount = amount]]
    BY <1>7 DEF Withdraw
  <2> QED BY <2>1, <1>4, <1>7 DEF Withdraw, NoRequest, GetWallet
<1>8. ASSUME NEW c \in Call, OpenAccount(c) PROVE WalletInv'
  <2>1. PICK w \in GetWallet :
          req' = [req EXCEPT ![c] = [NoRequest EXCEPT !.op = "addAccountDetails",
                                                      !.stage = "read", !.found = w]]
    BY <1>8 DEF OpenAccount
  <2> QED BY <2>1, <1>4, <1>8 DEF OpenAccount, NoRequest
<1>9. ASSUME NEW c \in Call, CreateWallet(c) PROVE WalletInv'
  <2>1. PICK w \in Wallet \ wallets :
          /\ wallets' = wallets \cup {w}
          /\ req' = [req EXCEPT ![c].found = w, ![c].stage = "read"]
          /\ req[c].stage = "create"
    BY <1>9 DEF CreateWallet
  <2>2. /\ \A d \in Call \ {c} : req'[d] = req[d]
        /\ req'[c].found = w /\ req'[c].stage = "read" /\ w # NULL
    BY <2>1, WalletAssumption DEF TypeOK, Request
  <2>3. PagesHaveWallet'
    BY <2>2 DEF PagesHaveWallet
  <2>4. FoundExists'
    <3>1. FoundExists /\ wallets' = wallets \cup {w}
      BY <2>1
    <3> QED BY <2>2, <3>1 DEF FoundExists
  <2>5. Creating' \subseteq Creating \ {c}
    BY <2>2 DEF Creating
  <2>6. Resolves(c, w)
    BY <2>1 DEF Resolves, PagesHaveWallet
  <2> QED BY <2>1, <2>3, <2>4, <2>5, <2>6, CreatingResolve
<1>10. ASSUME NEW c \in Call, ReadPayments(c) PROVE WalletInv'
  <2>1. /\ \A d \in Call : req'[d].found = req[d].found /\ req'[d].op = req[d].op
        /\ \A d \in Call \ {c} : req'[d].stage = req[d].stage
        /\ req'[c].stage \in {"insert", "save"} /\ req[c].stage = "read" /\ wallets' = wallets
    BY <1>10 DEF ReadPayments, TypeOK, Request
  <2>2. PagesHaveWallet' /\ FoundExists' /\ Creating' \subseteq Creating
    BY <2>1 DEF PagesHaveWallet, FoundExists, Creating
  <2> QED BY <2>1, <2>2, CreatingFrame
<1>11. ASSUME NEW c \in Call, NEW r \in Row, SavePayment(c, r) PROVE WalletInv'
  <2>1. /\ \A d \in Call : /\ req'[d].found = req[d].found /\ req'[d].op = req[d].op
                           /\ req'[d].stage = req[d].stage
        /\ wallets' = wallets
    BY <1>11 DEF SavePayment, TypeOK, Request
  <2>2. PagesHaveWallet' /\ FoundExists' /\ Creating' \subseteq Creating
    BY <2>1 DEF PagesHaveWallet, FoundExists, Creating
  <2> QED BY <2>1, <2>2, CreatingFrame
<1>12. ASSUME NEW c \in Call, FinishPage(c) PROVE WalletInv'
  <2>1. CASE req[c].again
    <3>1. PICK w \in GetWallet : req' = [req EXCEPT ![c].again = FALSE, ![c].found = w,
                                                   ![c].stage = "read"]
      BY <1>12, <2>1 DEF FinishPage
    <3>2. req[c].found \in wallets /\ w # NULL /\ w \in wallets /\ wallets' = wallets
      BY <1>12, WalletAssumption
      DEF FinishPage, Is, PagesHaveWallet, FoundExists, GetWallet, TypeOK
    <3>3. /\ \A d \in Call \ {c} : req'[d] = req[d]
          /\ req'[c].found = w /\ req'[c].stage = "read"
      BY <3>1 DEF TypeOK, Request
    <3>4. PagesHaveWallet' /\ FoundExists' /\ Creating' \subseteq Creating
      BY <3>2, <3>3 DEF PagesHaveWallet, FoundExists, Creating
    <3> QED BY <3>2, <3>4, CreatingFrame
  <2>2. CASE ~ req[c].again
    BY <1>12, <2>2, <1>2 DEF FinishPage
  <2> QED BY <2>1, <2>2
<1>13. ASSUME NEW c \in Call, CountAccounts(c) PROVE WalletInv'
  <2>1. CASE accounts >= AccountLimit
    BY <1>13, <2>1, <1>2 DEF CountAccounts
  <2>2. CASE ~ (accounts >= AccountLimit)
    <3>1. /\ \A d \in Call : req'[d].found = req[d].found /\ req'[d].op = req[d].op
          /\ \A d \in Call \ {c} : req'[d].stage = req[d].stage
          /\ req'[c].stage = "insert" /\ req[c].stage = "save" /\ wallets' = wallets
      <4>1. req' = [req EXCEPT ![c].stage = "insert"] /\ req[c].stage = "save" /\ wallets' = wallets
        BY <1>13, <2>2 DEF CountAccounts, Is
      <4> QED BY <4>1 DEF TypeOK, Request
    <3>2. PagesHaveWallet' /\ FoundExists' /\ Creating' \subseteq Creating
      BY <3>1 DEF PagesHaveWallet, FoundExists, Creating
    <3> QED BY <3>1, <3>2, CreatingFrame
  <2> QED BY <2>1, <2>2
<1>14. ASSUME NEW c \in Call, CommitBooking(c) PROVE WalletInv'
    BY <1>14, <1>3 DEF CommitBooking, Is
<1>15. ASSUME NEW c \in Call, CommitAccount(c) PROVE WalletInv'
    BY <1>15, <1>3 DEF CommitAccount, Is
<1> QED
  <2>1. CASE \/ Bookings \/ DeleteAccountById \/ UNCHANGED vars
             \/ \E s \in Stay : CompletePayment(s)
             \/ \E x \in Withdrawal : UpdateWithdrawalById(x)
    BY <2>1, <1>1 DEF Bookings, DeleteAccountById, CompletePayment, UpdateWithdrawalById, vars
  <2>2. ASSUME NEW c \in Call, \/ AddMoreBankAccounts(c) \/ Abort(c)
                               \/ \E x \in Withdrawal : CommitWithdrawal(c, x)
        PROVE  WalletInv'
    BY <2>2, <1>2 DEF AddMoreBankAccounts, Abort, CommitWithdrawal
  <2> QED BY <1>5, <1>6, <1>7, <1>8, <1>9, <1>10, <1>11, <1>12, <1>13, <1>14, <1>15,
             <2>1, <2>2 DEF Next, Step

\* A host never has more wallet rows than there are requests that overlap, for any
\* number of them; with one request at a time there is one wallet.
THEOREM WalletsAreBounded == Spec => []WalletOverrun
<1>1. Init => TypeOK /\ WalletInv
    BY TypeInit, WalletInit
<1>2. TypeOK /\ WalletInv /\ [Next]_vars => (TypeOK /\ WalletInv)'
    BY TypeNext, WalletNext
<1>3. TypeOK /\ WalletInv => WalletOverrun
  <2> SUFFICES ASSUME TypeOK, WalletInv PROVE WalletOverrun
    OBVIOUS
  <2>1. Cardinality(Creating) \in Nat /\ Cardinality(Call) \in Nat
    BY CallsCount DEF Creating
  <2>2. Cardinality(wallets) \in Nat
    BY FS_Subset, FS_CardinalityType, WalletAssumption DEF TypeOK
  <2> QED BY <2>1, <2>2 DEF WalletInv, WalletOverrun
<1> QED BY <1>1, <1>2, <1>3, PTL DEF Spec

-----------------------------------------------------------------------------
(* The accrual of a stay.                                                  *)

\* Nights, rounded up, grow with the time they cover.
LEMMA NightsGrow ==
    ASSUME NEW from \in Nat, NEW a \in Nat, NEW b \in Nat, a <= b
    PROVE  NumberOfNights(from, a) <= NumberOfNights(from, b)
<1> DEFINE x == a - from + DayLength - 1
           y == b - from + DayLength - 1
           p == x \div DayLength
           q == y \div DayLength
<1>1. DayLength \in Nat \ {0} /\ x \in Int /\ y \in Int /\ x <= y
    BY WalletAssumption
<1>2. p \in Int /\ q \in Int /\ DayLength * p <= x /\ y < DayLength * q + DayLength
    BY <1>1
<1>3. p <= q
  <2> SUFFICES ASSUME p >= q + 1 PROVE FALSE
    BY <1>2
  <2>1. DayLength * p >= DayLength * (q + 1)
    <3> HIDE DEF p, q
    <3> QED BY <1>1, <1>2
  <2>2. DayLength * (q + 1) = DayLength * q + DayLength
    <3> HIDE DEF p, q
    <3> QED BY <1>1, <1>2
  <2> HIDE DEF p, q, x, y
  <2> QED BY <1>1, <1>2, <2>1, <2>2
<1> QED BY <1>3 DEF NumberOfNights

\* A stay has a night, and no time at all has none.
LEMMA NightsOfStay ==
    ASSUME NEW from \in Nat, NEW to \in Nat
    PROVE  /\ NumberOfNights(from, to) \in Int
           /\ NumberOfNights(from, from) = 0
           /\ from < to => NumberOfNights(from, to) >= 1
<1>1. DayLength \in Nat \ {0}
    BY WalletAssumption
<1>2. NumberOfNights(from, to) \in Int
    BY <1>1 DEF NumberOfNights
<1>3. NumberOfNights(from, from) = 0
    BY <1>1 DEF NumberOfNights
<1>4. NumberOfNights(from, from + 1) = 1
  <2>1. from + 1 - from + DayLength - 1 = DayLength
    BY <1>1
  <2>2. DayLength \div DayLength = 1
    BY <1>1
  <2> QED BY <2>1, <2>2 DEF NumberOfNights
<1>5. from < to => NumberOfNights(from, from + 1) <= NumberOfNights(from, to)
    BY NightsGrow
<1> QED BY <1>2, <1>3, <1>4, <1>5

\* Some of n equal parts of an amount are no more than the amount.
LEMMA PartOfDeposit ==
    ASSUME NEW amount \in Nat, NEW n \in Nat \ {0}, NEW d \in 0 .. n
    PROVE  d * (amount \div n) \in 0 .. amount
<1> DEFINE part == amount \div n
<1>1. part \in Nat /\ n * part <= amount
    BY SMTT(30)
<1> HIDE DEF part
<1>2. d \in Nat /\ d <= n
    OBVIOUS
<1>3. d * part \in Nat /\ d * part <= n * part
    BY <1>1, <1>2, SMTT(30)
<1>4. n * part \in Nat
    BY <1>1
<1>5. d * part \in 0 .. amount
    BY <1>1, <1>3, <1>4
<1> QED BY <1>5 DEF part

\* A booking is made: the step of the contract that CommitBooking takes.
Agreed == /\ UNCHANGED <<clock, terms>>
          /\ \E s : contract' = [contract EXCEPT ![s] = "PENDING"]

\* The bookings stay as they are, or move by a step of the contract.
LEMMA BookingsMove ==
    ASSUME [Next]_vars
    PROVE  \/ UNCHANGED bookings \/ Contract!Pass \/ Agreed
           \/ \E s \in Stay : Contract!Pay(s) \/ Contract!Settle(s) \/ Contract!Release(s)
<1>1. CASE Bookings
  BY <1>1 DEF Bookings
<1>2. ASSUME NEW c \in Call, CommitBooking(c) PROVE Agreed
  BY <1>2 DEF CommitBooking, Contract!Agree, Agreed
<1>3. CASE \/ UNCHANGED vars \/ DeleteAccountById
           \/ \E s \in Stay : CompletePayment(s)
           \/ \E x \in Withdrawal : UpdateWithdrawalById(x)
  BY <1>3 DEF vars, DeleteAccountById, CompletePayment, UpdateWithdrawalById, bookings
<1>4. ASSUME NEW c \in Call,
             \/ \E s \in Stay : OpenBooking(c, s)
             \/ \E op \in Op : OpenPage(c, op)
             \/ \E amount \in Amount : Withdraw(c, amount)
             \/ OpenAccount(c) \/ Abort(c)
      PROVE  UNCHANGED bookings
  BY <1>4 DEF OpenBooking, OpenPage, Withdraw, OpenAccount, Abort, bookings
<1>5. ASSUME NEW c \in Call,
             \/ \E r \in Row : SavePayment(c, r)
             \/ \E x \in Withdrawal : CommitWithdrawal(c, x)
             \/ CreateWallet(c) \/ ReadPayments(c) \/ FinishPage(c)
             \/ CountAccounts(c) \/ AddMoreBankAccounts(c) \/ CommitAccount(c)
      PROVE  UNCHANGED bookings
  BY <1>5
  DEF SavePayment, CommitWithdrawal, CreateWallet, ReadPayments, FinishPage, CountAccounts,
      AddMoreBankAccounts, CommitAccount, bookings
<1> QED BY <1>1, <1>2, <1>3, <1>4, <1>5 DEF Next, Step

\* A stay that counts has begun: the contract settles it no earlier.
BegunInv ==
    \A s \in Stay : contract[s] \in {"PROCESSING", "FINISHED"} => terms[s].checkIn <= clock

\* Only the clock and the contract's own steps move a stay.
LEMMA BegunNext == TypeOK /\ BegunInv /\ [Next]_vars => BegunInv'
<1> SUFFICES ASSUME TypeOK, BegunInv, [Next]_vars PROVE BegunInv'
    OBVIOUS
<1>1. \A s \in Stay : /\ terms[s].checkIn \in Nat /\ terms[s].checkOut \in Nat
                      /\ terms[s].checkIn < terms[s].checkOut
    BY WalletAssumption DEF TypeOK
<1>2. CASE UNCHANGED bookings
    BY <1>2 DEF BegunInv, bookings
<1>3. CASE Contract!Pass
    BY <1>1, <1>3 DEF Contract!Pass, BegunInv, TypeOK
<1>4. ASSUME NEW s \in Stay, Contract!Pay(s) \/ Contract!Settle(s) \/ Contract!Release(s)
      PROVE  BegunInv'
    BY <1>1, <1>4
    DEF Contract!Pay, Contract!Settle, Contract!Release, Contract!MaySettle,
        BegunInv, TypeOK
<1>5. CASE Agreed
    BY <1>5 DEF Agreed, BegunInv, TypeOK
<1> QED BY <1>2, <1>3, <1>4, <1>5, BookingsMove

\* A stay that has begun has accrued some of its nights, and no more than it has.
LEMMA BegunAccrues == TypeOK /\ BegunInv => AccrualIsSound
<1> SUFFICES ASSUME TypeOK, BegunInv, NEW s \in Stay, Counts(s)
             PROVE  Share(s) \in 0 .. 98 * terms[s].deposit
  BY DEF AccrualIsSound
<1>1. /\ clock \in Nat /\ terms[s].checkIn \in Nat /\ terms[s].checkOut \in Nat
      /\ terms[s].deposit \in Nat /\ terms[s].checkIn < terms[s].checkOut
  BY WalletAssumption DEF TypeOK
<1>2. terms[s].checkIn <= clock
  BY DEF BegunInv, Counts
<1>3. Nights(s) \in Nat \ {0}
  BY <1>1, NightsOfStay DEF Nights
<1>4. NumberOfDays(s) \in 0 .. Nights(s)
  <2>1. CASE terms[s].checkOut > clock
    <3>1. NumberOfDays(s) = NumberOfNights(terms[s].checkIn, clock)
      BY <2>1 DEF NumberOfDays
    <3>2. /\ NumberOfNights(terms[s].checkIn, terms[s].checkIn) = 0
          /\ NumberOfNights(terms[s].checkIn, clock) \in Int
      BY <1>1, NightsOfStay
    <3>3. /\ NumberOfNights(terms[s].checkIn, terms[s].checkIn) <= NumberOfNights(terms[s].checkIn, clock)
          /\ NumberOfNights(terms[s].checkIn, clock) <= Nights(s)
      BY <1>1, <1>2, <2>1, NightsGrow DEF Nights
    <3> QED BY <1>3, <3>1, <3>2, <3>3
  <2>2. CASE ~(terms[s].checkOut > clock)
    BY <1>3, <2>2 DEF NumberOfDays
  <2> QED BY <2>1, <2>2
<1>5. NumberOfDays(s) * (terms[s].deposit \div Nights(s)) \in 0 .. terms[s].deposit
  BY <1>1, <1>3, <1>4, PartOfDeposit
<1> QED BY <1>1, <1>5 DEF Share

\* For all dates, deposits and lengths of the day, what a stay has accrued is at
\* most the host's part of its payment and never negative.
THEOREM AccrualsAreSound == Spec => []AccrualIsSound
<1>1. Init => TypeOK /\ BegunInv
    BY TypeInit DEF Init, Contract!Init, BegunInv
<1>2. TypeOK /\ BegunInv /\ [Next]_vars => (TypeOK /\ BegunInv)'
    BY TypeNext, BegunNext
<1> QED BY <1>1, <1>2, BegunAccrues, PTL DEF Spec

-----------------------------------------------------------------------------
(* The rows a balance is made of.                                          *)

\* Every recorded row is booked on a wallet there is, what a call is about to save
\* was recorded when it was read, a recorded withdrawal has its amount, and a call
\* that is about to withdraw has a wallet and an amount.  Only the two pages save
\* payments one by one.
Pages == {"getWalletById", "addMoreBankAccounts"}
RowsHaveWallet == \A r \in Row : Recorded(r) => walletOf[r] \in wallets
SavesRecorded == \A c \in Call, r \in Row : req[c].saves[r] # "ABSENT" => Recorded(r)
GrossKnown == \A x \in Withdrawal : Recorded(x) => gross[x] \in Amount
AsksAreWhole == \A c \in Call : Withdrawing(c) => req[c].found # NULL /\ req[c].amount \in Amount
PagesSave ==
    \A c \in Call :
        /\ req[c].stage \in {"create", "save"} => req[c].op \in Pages
        /\ req[c].stage = "read" => req[c].op \in Pages \cup {"addAccountDetails"}
RowInv == RowsHaveWallet /\ SavesRecorded /\ GrossKnown /\ AsksAreWhole /\ PagesSave

\* A call after a step knows no more rows than before and asks for nothing new.
CallKept(c) ==
    /\ \A r \in Row : req'[c].saves[r] # "ABSENT" => req[c].saves[r] # "ABSENT"
    /\ Withdrawing(c)' => Withdrawing(c) /\ req'[c].found = req[c].found /\ req'[c].amount = req[c].amount
    /\ req'[c].stage \in {"create", "save"} => req'[c].op \in Pages
    /\ req'[c].stage = "read" => req'[c].op \in Pages \cup {"addAccountDetails"}

\* A step that leaves the rows alone and keeps the calls keeps RowInv.
LEMMA RowFrame ==
    ASSUME RowInv, UNCHANGED <<payment, walletOf, gross>>, wallets \subseteq wallets',
           \A c \in Call : CallKept(c)
    PROVE  RowInv'
BY DEF RowInv, RowsHaveWallet, SavesRecorded, GrossKnown, AsksAreWhole, PagesSave, CallKept, Recorded

\* A call that is put to rest is kept, and so are the others.
LEMMA FinishKept ==
    ASSUME TypeOK, RowInv, NEW c \in Call, Finish(c)
    PROVE  \A d \in Call : CallKept(d)
BY DEF Finish, NoRequest, CallKept, Withdrawing, Is, TypeOK, RowInv, PagesSave

\* A new request that is not a withdrawal has read nothing and asks for nothing.
LEMMA StartKept ==
    ASSUME TypeOK, RowInv, NEW c \in Call, NEW q, req' = [req EXCEPT ![c] = q],
           q.saves = NoRequest.saves, q.op # "withdraw", q.stage # "save",
           q.stage = "create" => q.op \in Pages,
           q.stage = "read" => q.op \in Pages \cup {"addAccountDetails"}
    PROVE  \A d \in Call : CallKept(d)
BY DEF NoRequest, CallKept, Withdrawing, Is, TypeOK, RowInv, PagesSave, Pages

\* A call in the middle of its work is kept when it withdraws nothing, reads nothing,
\* and only the pages save.
LEMMA WorkKept ==
    ASSUME TypeOK, RowInv, NEW c \in Call,
           \A d \in Call \ {c} : req'[d] = req[d],
           req'[c].op = req[c].op, req'[c].stage = "insert" => req[c].op # "withdraw",
           \A r \in Row : req'[c].saves[r] # "ABSENT" => req[c].saves[r] # "ABSENT",
           req'[c].stage \in {"create", "save"} => req[c].op \in Pages,
           req'[c].stage = "read" => req[c].op \in Pages \cup {"addAccountDetails"}
    PROVE  \A d \in Call : CallKept(d)
BY DEF CallKept, Withdrawing, Is, RowInv, PagesSave, Pages

\* A step that is not the start of a withdrawal nor a reading of the payments.
LEMMA CallsKept ==
    ASSUME TypeOK, RowInv, [Next]_vars
    PROVE  \/ \A c \in Call : CallKept(c)
           \/ \E c \in Call : ReadPayments(c) \/ \E amount \in Amount : Withdraw(c, amount)
<1>1. CASE UNCHANGED req
    BY <1>1 DEF CallKept, Withdrawing, Is, RowInv, PagesSave
<1>2. ASSUME NEW c \in Call, NEW s \in Stay, OpenBooking(c, s) PROVE \A d \in Call : CallKept(d)
  <2>1. PICK w \in GetWallet :
          req' = [req EXCEPT ![c] = [NoRequest EXCEPT !.op = "book", !.stage = "insert",
                                                      !.found = w, !.stay = s]]
    BY <1>2 DEF OpenBooking
  <2> DEFINE q == [NoRequest EXCEPT !.op = "book", !.stage = "insert", !.found = w, !.stay = s]
  <2>2. q.saves = NoRequest.saves /\ q.op = "book" /\ q.stage = "insert"
    BY DEF NoRequest
  <2>3. req' = [req EXCEPT ![c] = q]
    BY <2>1
  <2> HIDE DEF q
  <2> QED BY <2>2, <2>3, StartKept
<1>3. ASSUME NEW c \in Call, NEW op \in Op, OpenPage(c, op) PROVE \A d \in Call : CallKept(d)
  <2>1. PICK w \in GetWallet :
          req' = [req EXCEPT ![c] =
                    [NoRequest EXCEPT !.op = op, !.found = w,
                                      !.stage = IF w = NULL THEN "create" ELSE "read",
                                      !.again = op = "getWalletById" /\ w = NULL]]
    BY <1>3 DEF OpenPage
  <2>2. op \in Pages
    BY <1>3 DEF OpenPage, Pages
  <2> DEFINE q == [NoRequest EXCEPT !.op = op, !.found = w,
                                    !.stage = IF w = NULL THEN "create" ELSE "read",
                                    !.again = op = "getWalletById" /\ w = NULL]
  <2>3. q.saves = NoRequest.saves /\ q.op = op /\ q.stage \in {"create", "read"}
    BY DEF NoRequest
  <2>4. req' = [req EXCEPT ![c] = q]
    BY <2>1
  <2> HIDE DEF q
  <2> QED BY <2>2, <2>3, <2>4, StartKept DEF Pages
<1>4. ASSUME NEW c \in Call, OpenAccount(c) PROVE \A d \in Call : CallKept(d)
  <2>1. PICK w \in GetWallet :
          req' = [req EXCEPT ![c] = [NoRequest EXCEPT !.op = "addAccountDetails",
                                                      !.stage = "read", !.found = w]]
    BY <1>4 DEF OpenAccount
  <2> DEFINE q == [NoRequest EXCEPT !.op = "addAccountDetails", !.stage = "read", !.found = w]
  <2>2. q.saves = NoRequest.saves /\ q.op = "addAccountDetails" /\ q.stage = "read"
    BY DEF NoRequest
  <2>3. req' = [req EXCEPT ![c] = q]
    BY <2>1
  <2> HIDE DEF q
  <2> QED BY <2>2, <2>3, StartKept
<1>5. ASSUME NEW c \in Call, CreateWallet(c) PROVE \A d \in Call : CallKept(d)
  <2>1. PICK w \in Wallet : req' = [req EXCEPT ![c].found = w, ![c].stage = "read"]
    BY <1>5 DEF CreateWallet
  <2>2. /\ \A d \in Call \ {c} : req'[d] = req[d]
        /\ req'[c].op = req[c].op /\ req'[c].stage = "read" /\ req'[c].saves = req[c].saves
        /\ req[c].op \in Pages
    BY <2>1, <1>5 DEF CreateWallet, TypeOK, Request, RowInv, PagesSave
  <2> QED BY <2>2, WorkKept
<1>6. ASSUME NEW c \in Call, NEW r \in Row, SavePayment(c, r) PROVE \A d \in Call : CallKept(d)
  <2>1. req' = [req EXCEPT ![c].saves[r] = "ABSENT"] /\ req[c].stage = "save"
    BY <1>6 DEF SavePayment
  <2>2. /\ \A d \in Call \ {c} : req'[d] = req[d]
        /\ req'[c].op = req[c].op /\ req'[c].stage = req[c].stage
        /\ \A q \in Row : req'[c].saves[q] # "ABSENT" => req[c].saves[q] # "ABSENT"
    BY <2>1 DEF TypeOK, Request
  <2>3. req[c].op \in Pages
    BY <2>1 DEF RowInv, PagesSave
  <2> QED BY <2>1, <2>2, <2>3, WorkKept DEF Pages
<1>7. ASSUME NEW c \in Call, FinishPage(c) PROVE \A d \in Call : CallKept(d)
  <2>1. CASE req[c].again
    <3>1. PICK w \in GetWallet : req' = [req EXCEPT ![c].again = FALSE, ![c].found = w,
                                                   ![c].stage = "read"]
      BY <1>7, <2>1 DEF FinishPage
    <3>2. /\ \A d \in Call \ {c} : req'[d] = req[d]
          /\ req'[c].op = req[c].op /\ req'[c].stage = "read" /\ req'[c].saves = req[c].saves
      BY <3>1 DEF TypeOK, Request
    <3>3. req[c].op \in Pages
      BY <1>7 DEF FinishPage, Is, Pages
    <3> QED BY <3>2, <3>3, WorkKept
  <2>2. CASE ~ req[c].again
    BY <1>7, <2>2, FinishKept DEF FinishPage
  <2> QED BY <2>1, <2>2
<1>8. ASSUME NEW c \in Call, CountAccounts(c) PROVE \A d \in Call : CallKept(d)
  <2>1. CASE accounts >= AccountLimit
    BY <1>8, <2>1, FinishKept DEF CountAccounts
  <2>2. CASE ~ (accounts >= AccountLimit)
    <3>1. req' = [req EXCEPT ![c].stage = "insert"] /\ req[c].op = "addMoreBankAccounts"
      BY <1>8, <2>2 DEF CountAccounts, Is
    <3>2. /\ \A d \in Call \ {c} : req'[d] = req[d]
          /\ req'[c].op = req[c].op /\ req'[c].stage = "insert" /\ req'[c].saves = req[c].saves
      BY <3>1 DEF TypeOK, Request
    <3> QED BY <3>1, <3>2, WorkKept DEF Pages
  <2> QED BY <2>1, <2>2
<1>9. ASSUME NEW c \in Call, \/ CommitBooking(c) \/ CommitAccount(c) \/ AddMoreBankAccounts(c)
                             \/ Abort(c) \/ \E x \in Withdrawal : CommitWithdrawal(c, x)
      PROVE  \A d \in Call : CallKept(d)
    BY <1>9, FinishKept
    DEF CommitBooking, CommitAccount, AddMoreBankAccounts, Abort, CommitWithdrawal
<1>10. CASE \/ Bookings \/ DeleteAccountById \/ UNCHANGED vars
            \/ \E s \in Stay : CompletePayment(s)
            \/ \E x \in Withdrawal : UpdateWithdrawalById(x)
    BY <1>1, <1>10 DEF Bookings, DeleteAccountById, CompletePayment, UpdateWithdrawalById, vars
<1> QED BY <1>2, <1>3, <1>4, <1>5, <1>6, <1>7, <1>8, <1>9, <1>10 DEF Next, Step

\* The rows of a step: none is lost, each is on a wallet there is, and only the
\* insert of a withdrawal changes what has been withdrawn.
LEMMA RowsMove ==
    ASSUME TypeOK, RowInv, WalletInv, [Next]_vars
    PROVE  /\ wallets \subseteq wallets'
           /\ \A r \in Row : Recorded(r) => Recorded(r)'
           /\ \A r \in Row : Recorded(r)' => walletOf'[r] \in wallets'
           /\ \/ \E c \in Call, x \in Withdrawal : CommitWithdrawal(c, x)
              \/ gross' = gross /\ \A x \in Withdrawal : Recorded(x)' <=> Recorded(x)
<1> DEFINE Goal == /\ wallets \subseteq wallets'
                   /\ \A r \in Row : Recorded(r) => Recorded(r)'
                   /\ \A r \in Row : Recorded(r)' => walletOf'[r] \in wallets'
           Kept == gross' = gross /\ \A x \in Withdrawal : Recorded(x)' <=> Recorded(x)
           Withdrawn == \E c \in Call, x \in Withdrawal : CommitWithdrawal(c, x)
<1>0. /\ payment \in [Row -> PaymentStatus \cup {"ABSENT"}]
      /\ walletOf \in [Row -> Wallet \cup {NULL}]
      /\ Withdrawal \subseteq Row /\ Stay \subseteq Row /\ Stay \cap Withdrawal = {}
    BY WalletAssumption DEF TypeOK, Row
<1>1. ASSUME UNCHANGED <<payment, walletOf, gross>>, wallets \subseteq wallets'
      PROVE  Goal /\ Kept
    BY <1>1, <1>0 DEF RowInv, RowsHaveWallet, Recorded
<1>2. ASSUME NEW r \in Row, Recorded(r), payment' = [payment EXCEPT ![r] = "COMPLETED"],
             UNCHANGED <<walletOf, gross, wallets>>
      PROVE  Goal /\ Kept
    BY <1>2, <1>0 DEF RowInv, RowsHaveWallet, Recorded
<1>3. ASSUME NEW c \in Call, NEW r \in Row, SavePayment(c, r) PROVE Goal /\ Kept
  <2>1. /\ payment' = [payment EXCEPT ![r] = req[c].saves[r]] /\ req[c].saves[r] # "ABSENT"
        /\ walletOf' = [walletOf EXCEPT ![r] = req[c].found]
        /\ UNCHANGED <<gross, wallets>> /\ req[c].stage = "save"
    BY <1>3 DEF SavePayment, Saved
  <2>2. Recorded(r)
    BY <2>1 DEF RowInv, SavesRecorded
  <2>3. req[c].found \in wallets
    BY <2>1 DEF RowInv, PagesSave, Pages, WalletInv, PagesHaveWallet, FoundExists
  <2> QED BY <1>0, <2>1, <2>2, <2>3 DEF RowInv, RowsHaveWallet, Recorded
<1>4. ASSUME NEW c \in Call, CommitAccount(c) PROVE Goal /\ Kept
  <2>1. /\ payment' = [r \in Row |-> IF r \in Saved(c) THEN req[c].saves[r] ELSE payment[r]]
        /\ gross' = gross
    BY <1>4 DEF CommitAccount
  <2>2. PICK w \in Wallet : /\ wallets' = wallets \cup {w}
                            /\ walletOf' = [r \in Row |-> IF r \in Saved(c) THEN w ELSE walletOf[r]]
    BY <1>4 DEF CommitAccount
  <2>3. \A r \in Saved(c) : Recorded(r) /\ req[c].saves[r] # "ABSENT" /\ r \in Row
    BY DEF Saved, RowInv, SavesRecorded
  <2> QED BY <1>0, <2>1, <2>2, <2>3 DEF RowInv, RowsHaveWallet, Recorded
<1>5. ASSUME NEW c \in Call, CommitBooking(c) PROVE Goal /\ Kept
  <2> DEFINE s == req[c].stay
  <2>1. s \notin Withdrawal
    BY WalletAssumption DEF TypeOK, Request, Row
  <2>2. PICK w \in Wallet : wallets' = wallets \cup {w} /\ walletOf' = [walletOf EXCEPT ![s] = w]
    BY <1>5 DEF CommitBooking
  <2>3. payment' = [payment EXCEPT ![s] = "PENDING"] /\ gross' = gross
    BY <1>5 DEF CommitBooking
  <2> HIDE DEF s
  <2> QED BY <1>0, <2>1, <2>2, <2>3 DEF RowInv, RowsHaveWallet, Recorded
<1>6. ASSUME NEW c \in Call, NEW x \in Withdrawal, CommitWithdrawal(c, x) PROVE Goal
  <2>1. /\ payment' = [payment EXCEPT ![x] = "PENDING"]
        /\ walletOf' = [walletOf EXCEPT ![x] = req[c].found] /\ wallets' = wallets
        /\ Withdrawing(c)
    BY <1>6 DEF CommitWithdrawal, Withdrawing
  <2>2. req[c].found \in wallets
    BY <2>1 DEF RowInv, AsksAreWhole, WalletInv, FoundExists
  <2> QED BY <1>0, <2>1, <2>2 DEF RowInv, RowsHaveWallet, Recorded
<1>7. ASSUME NEW s \in Stay, CompletePayment(s) PROVE Goal /\ Kept
    BY <1>0, <1>2, <1>7 DEF CompletePayment, Recorded
<1>8. ASSUME NEW x \in Withdrawal, UpdateWithdrawalById(x) PROVE Goal /\ Kept
    BY <1>0, <1>2, <1>8 DEF UpdateWithdrawalById, Recorded
<1>9. ASSUME Bookings \/ DeleteAccountById \/ UNCHANGED vars PROVE Goal /\ Kept
    BY <1>1, <1>9 DEF Bookings, DeleteAccountById, vars, payments
<1>10. ASSUME NEW c \in Call,
              \/ \E s \in Stay : OpenBooking(c, s)
              \/ \E op \in Op : OpenPage(c, op)
              \/ \E amount \in Amount : Withdraw(c, amount)
              \/ OpenAccount(c) \/ Abort(c) \/ CreateWallet(c)
        PROVE Goal /\ Kept
    BY <1>1, <1>10
    DEF OpenBooking, OpenPage, Withdraw, OpenAccount, Abort, CreateWallet, payments
<1>11. ASSUME NEW c \in Call,
              ReadPayments(c) \/ FinishPage(c) \/ CountAccounts(c) \/ AddMoreBankAccounts(c)
        PROVE Goal /\ Kept
    BY <1>1, <1>11 DEF ReadPayments, FinishPage, CountAccounts, AddMoreBankAccounts, payments
<1>12. Goal /\ (Withdrawn \/ Kept)
  <2> HIDE DEF Goal, Kept
  <2> QED BY <1>3, <1>4, <1>5, <1>6, <1>7, <1>8, <1>9, <1>10, <1>11 DEF Next, Step
<1> QED BY <1>12

\* Every step keeps RowInv.
LEMMA RowNext == TypeOK /\ WalletInv /\ RowInv /\ [Next]_vars => RowInv'
<1> SUFFICES ASSUME TypeOK, WalletInv, RowInv, [Next]_vars PROVE RowInv'
    OBVIOUS
<1>0. /\ \A r \in Row : Recorded(r) => Recorded(r)'
      /\ RowsHaveWallet'
      /\ \/ \E c \in Call, x \in Withdrawal : CommitWithdrawal(c, x)
         \/ gross' = gross /\ \A x \in Withdrawal : Recorded(x)' <=> Recorded(x)
    BY RowsMove DEF RowsHaveWallet
<1>1. GrossKnown'
  <2>1. ASSUME NEW c \in Call, NEW x \in Withdrawal, CommitWithdrawal(c, x) PROVE GrossKnown'
    <3>1. /\ payment' = [payment EXCEPT ![x] = "PENDING"] /\ gross' = [gross EXCEPT ![x] = req[c].amount]
          /\ Withdrawing(c)
      BY <2>1 DEF CommitWithdrawal, Withdrawing
    <3>2. req[c].amount \in Amount
      BY <3>1 DEF RowInv, AsksAreWhole
    <3> QED BY <3>1, <3>2 DEF RowInv, GrossKnown, Recorded, TypeOK, Row
  <2>2. CASE gross' = gross /\ \A x \in Withdrawal : Recorded(x)' <=> Recorded(x)
    BY <2>2 DEF RowInv, GrossKnown
  <2> QED BY <1>0, <2>1, <2>2
<1>2. CASE \A c \in Call : CallKept(c)
  <2>1. SavesRecorded' /\ AsksAreWhole' /\ PagesSave'
    BY <1>0, <1>2 DEF CallKept, RowInv, SavesRecorded, AsksAreWhole, PagesSave
  <2> QED BY <1>0, <1>1, <2>1 DEF RowInv
<1>3. ASSUME NEW c \in Call, ReadPayments(c) PROVE RowInv'
  <2>1. /\ payment' = payment /\ req[c].stage = "read"
        /\ \A d \in Call \ {c} : req'[d] = req[d]
        /\ req'[c].op = req[c].op /\ req'[c].saves = payment
        /\ req'[c].stage = IF req[c].op = "addAccountDetails" THEN "insert" ELSE "save"
    BY <1>3 DEF ReadPayments, payments, TypeOK, Request
  <2>2. SavesRecorded' /\ AsksAreWhole' /\ PagesSave'
    BY <1>0, <2>1 DEF RowInv, SavesRecorded, AsksAreWhole, PagesSave, Pages, Recorded, Withdrawing, Is
  <2> QED BY <1>0, <1>1, <2>2 DEF RowInv
<1>4. ASSUME NEW c \in Call, NEW amount \in Amount, Withdraw(c, amount) PROVE RowInv'
  <2>1. PICK v \in wallets :
          req' = [req EXCEPT ![c] = [NoRequest EXCEPT !.op = "withdraw", !.stage = "insert",
                                                      !.found = v, !.amount = amount]]
    BY <1>4 DEF Withdraw
  <2>2. v # NULL
    BY WalletAssumption DEF TypeOK
  <2>3. /\ \A d \in Call \ {c} : req'[d] = req[d]
        /\ req'[c].op = "withdraw" /\ req'[c].stage = "insert" /\ req'[c].found # NULL
        /\ req'[c].amount \in Amount /\ \A r \in Row : req'[c].saves[r] = "ABSENT"
    BY <2>1, <2>2 DEF TypeOK, NoRequest
  <2>4. SavesRecorded' /\ AsksAreWhole' /\ PagesSave'
    BY <1>0, <2>3 DEF RowInv, SavesRecorded, AsksAreWhole, PagesSave, Withdrawing, Is
  <2> QED BY <1>0, <1>1, <2>4 DEF RowInv
<1> QED BY <1>2, <1>3, <1>4, CallsKept

-----------------------------------------------------------------------------
(* The balance covers what is being withdrawn.                             *)

\* What the host has earned less what has been withdrawn, on whatever wallets.  With
\* one wallet it is the balance of that wallet.
Counted == {s \in Stay : Counts(s)}
Withdrawn == {x \in Withdrawal : Recorded(x)}
Earned == SumFunctionOnSet([s \in Stay |-> Share(s)], Counted)
Debited == SumFunctionOnSet([x \in Withdrawal |-> Debit(x)], Withdrawn)
Balance == Earned - 100 * Debited

OneWallet == \A v, w \in wallets : v = w

\* Until withdrawals overlap or a stay ceases to count there is at most one withdrawal
\* under way, and with one wallet the balance covers it, fees included.
Covers(c) == Balance >= 100 * (req[c].amount + Fee + Vat)
SolventInv ==
    ~ exposed =>
        /\ \A c, d \in Call : Withdrawing(c) /\ Withdrawing(d) => c = d
        /\ OneWallet => Balance >= 0 /\ \A c \in Call : Withdrawing(c) => Covers(c)

BalanceInv == TypeOK /\ WalletInv /\ BegunInv /\ RowInv /\ SolventInv

\* Stays and withdrawals are finitely many and their amounts whole numbers.
AmountsAreWhole ==
    /\ IsFiniteSet(Counted) /\ IsFiniteSet(Withdrawn)
    /\ \A s \in Counted : Share(s) \in Int /\ Share(s) >= 0
    /\ \A x \in Withdrawn : Debit(x) = gross[x] - 2 * (Fee + Vat) /\ Debit(x) \in Int
    /\ Earned \in Int /\ Debited \in Int /\ Balance \in Int

\* That follows from the types, as long as only stays that have begun count.
LEMMA BalanceType == TypeOK /\ RowInv /\ BegunInv => AmountsAreWhole
<1> SUFFICES ASSUME TypeOK, RowInv, BegunInv PROVE AmountsAreWhole
    OBVIOUS
<1>1. IsFiniteSet(Counted) /\ IsFiniteSet(Withdrawn)
    BY WalletAssumption, FS_Subset DEF Counted, Withdrawn
<1>2. \A s \in Counted : Share(s) \in Int /\ Share(s) >= 0
  <2>1. \A s \in Counted : terms[s].deposit \in Nat /\ Share(s) \in 0 .. 98 * terms[s].deposit
    BY BegunAccrues, WalletAssumption DEF AccrualIsSound, Counted, TypeOK
  <2> QED BY <2>1
<1>3. \A x \in Withdrawn : Debit(x) = gross[x] - 2 * (Fee + Vat) /\ Debit(x) \in Int
  <2>1. \A x \in Withdrawn : gross[x] \in Nat
    BY WalletAssumption DEF Withdrawn, RowInv, GrossKnown
  <2>2. Fee \in Nat /\ Vat \in Nat
    BY WalletAssumption
  <2> QED BY <2>1, <2>2 DEF Debit, Stored, NetPayout
<1>4. Earned \in Int
  <2> DEFINE f == [s \in Stay |-> Share(s)]
  <2>1. \A s \in Counted : f[s] \in Int
    BY <1>2 DEF Counted
  <2> HIDE DEF f
  <2>2. SumFunctionOnSet(f, Counted) \in Int
    BY <1>1, <2>1, SumInt
  <2> QED BY <2>2 DEF Earned, f
<1>5. Debited \in Int
  <2> DEFINE g == [x \in Withdrawal |-> Debit(x)]
  <2>1. \A x \in Withdrawn : g[x] \in Int
    BY <1>3 DEF Withdrawn
  <2> HIDE DEF g
  <2>2. SumFunctionOnSet(g, Withdrawn) \in Int
    BY <1>1, <2>1, SumInt
  <2> QED BY <2>2 DEF Debited, g
<1> QED BY <1>1, <1>2, <1>3, <1>4, <1>5 DEF Balance, AmountsAreWhole

\* The same of the state after a step.
LEMMA BalanceTypeNext == TypeOK' /\ RowInv' /\ BegunInv' => AmountsAreWhole'
BY BalanceType, PTL

\* With one wallet the balance of that wallet is the host's.
LEMMA AvailableIsBalance ==
    ASSUME TypeOK, RowInv, BegunInv, NEW w \in wallets, OneWallet
    PROVE  Available(w) = Balance
<1> DEFINE f == [s \in Stay |-> Share(s)]
           g == [x \in Withdrawal |-> Debit(x)]
           a == [s \in {t \in Stay : walletOf[t] = w /\ Counts(t)} |-> Share(s)]
           b == [x \in {y \in Withdrawal : Recorded(y) /\ walletOf[y] = w} |-> Debit(x)]
<1>1. \A r \in Row : Recorded(r) => walletOf[r] = w
    BY DEF RowInv, RowsHaveWallet, OneWallet
<1>2. {t \in Stay : walletOf[t] = w /\ Counts(t)} = Counted
    BY <1>1 DEF Counted, Counts, Recorded, Row
<1>3. {y \in Withdrawal : Recorded(y) /\ walletOf[y] = w} = Withdrawn
    BY <1>1 DEF Withdrawn, Row
<1>4. DOMAIN a = Counted /\ \A s \in Counted : f[s] = Share(s) /\ a[s] = Share(s)
    BY <1>2 DEF Counted
<1>5. DOMAIN b = Withdrawn /\ \A x \in Withdrawn : g[x] = Debit(x) /\ b[x] = Debit(x)
    BY <1>3 DEF Withdrawn
<1>6. Available(w) = SumFunctionOnSet(a, DOMAIN a) - 100 * SumFunctionOnSet(b, DOMAIN b)
    BY DEF Available, SumFunction
<1>7. Balance = SumFunctionOnSet(f, Counted) - 100 * SumFunctionOnSet(g, Withdrawn)
    BY DEF Balance, Earned, Debited
<1> HIDE DEF a, b, f, g
<1>8. SumFunctionOnSet(f, Counted) = SumFunctionOnSet(a, Counted)
    BY <1>4, BalanceType, SumEqual DEF AmountsAreWhole
<1>9. SumFunctionOnSet(g, Withdrawn) = SumFunctionOnSet(b, Withdrawn)
    BY <1>5, BalanceType, SumEqual DEF AmountsAreWhole
<1> QED BY <1>4, <1>5, <1>6, <1>7, <1>8, <1>9

\* The calendar never goes back, and the terms of a stay stay.
LEMMA CalendarMoves ==
    ASSUME TypeOK, [Next]_vars
    PROVE  terms' = terms /\ clock' >= clock
BY BookingsMove
DEF TypeOK, bookings, Agreed, Contract!Pass, Contract!Pay, Contract!Settle, Contract!Release

\* The share of a stay that has begun grows with the time.
LEMMA ShareGrows ==
    ASSUME TypeOK, TypeOK', terms' = terms, clock' >= clock, NEW s \in Stay,
           terms[s].checkIn <= clock
    PROVE  Share(s)' \in Int /\ Share(s)' >= Share(s)
<1> DEFINE t == terms[s]
           part == t.deposit \div Nights(s)
<1>1. /\ clock \in Nat /\ clock' \in Nat /\ t.checkIn \in Nat /\ t.checkOut \in Nat
      /\ t.deposit \in Nat /\ t.checkIn < t.checkOut
    BY WalletAssumption DEF TypeOK
<1>2. Nights(s)' = Nights(s) /\ Nights(s) \in Nat \ {0}
    BY <1>1, NightsOfStay DEF Nights
<1>3. part \in Nat
    BY <1>1, <1>2
<1>4. NumberOfDays(s) \in Int /\ NumberOfDays(s)' \in Int /\ NumberOfDays(s) <= NumberOfDays(s)'
  <2>1. /\ NumberOfNights(t.checkIn, clock) \in Int /\ NumberOfNights(t.checkIn, clock') \in Int
        /\ NumberOfNights(t.checkIn, clock) <= NumberOfNights(t.checkIn, clock')
    BY <1>1, NightsGrow, NightsOfStay
  <2>2. t.checkOut > clock => NumberOfNights(t.checkIn, clock) <= Nights(s)
    BY <1>1, NightsGrow DEF Nights
  <2>3. /\ NumberOfDays(s) = IF t.checkOut > clock THEN NumberOfNights(t.checkIn, clock) ELSE Nights(s)
        /\ NumberOfDays(s)' = IF t.checkOut > clock' THEN NumberOfNights(t.checkIn, clock') ELSE Nights(s)
    BY <1>2 DEF NumberOfDays
  <2> QED BY <1>1, <1>2, <2>1, <2>2, <2>3
<1>5. Share(s) = NumberOfDays(s) * part * 98 /\ Share(s)' = NumberOfDays(s)' * part * 98
    BY <1>2 DEF Share
<1> HIDE DEF part
<1>6. NumberOfDays(s) * part <= NumberOfDays(s)' * part
  <2>1. \A a, b \in Int, k \in Nat : a <= b => a * k <= b * k
    BY SMTT(30)
  <2> QED BY <1>3, <1>4, <2>1
<1>7. NumberOfDays(s) * part \in Int /\ NumberOfDays(s)' * part \in Int
    BY <1>3, <1>4
<1> QED BY <1>5, <1>6, <1>7

\* Unless a stay ceases to count, what has been earned only grows.
LEMMA EarnedGrows ==
    ASSUME TypeOK, RowInv, BegunInv, [Next]_vars, TypeOK', RowInv', BegunInv', ~ Lapses
    PROVE  Earned' >= Earned
<1> DEFINE f == [s \in Stay |-> Share(s)]
           g == [s \in Stay |-> Share(s)']
<1>1. Counted \subseteq Counted'
    BY DEF Counted, Lapses
<1>2. \A s \in Counted : f[s] \in Int /\ g[s] \in Int /\ f[s] <= g[s]
  <2> SUFFICES ASSUME NEW s \in Counted
               PROVE  f[s] \in Int /\ g[s] \in Int /\ f[s] <= g[s]
    OBVIOUS
  <2>1. s \in Stay /\ terms[s].checkIn <= clock /\ Share(s) \in Int
    BY BalanceType DEF AmountsAreWhole, Counted, Counts, BegunInv
  <2>2. Share(s)' \in Int /\ Share(s)' >= Share(s)
    BY <2>1, ShareGrows, CalendarMoves
  <2> QED BY <2>1, <2>2
<1>3. /\ IsFiniteSet(Counted) /\ IsFiniteSet(Counted')
      /\ \A s \in Counted' : g[s] \in Int /\ g[s] >= 0
  <2>1. IsFiniteSet(Counted) /\ IsFiniteSet(Counted')
    BY WalletAssumption, FS_Subset DEF Counted
  <2>2. \A s \in Counted' : s \in Stay /\ Share(s)' \in Int /\ Share(s)' >= 0
    BY BalanceTypeNext DEF AmountsAreWhole, Counted
  <2> QED BY <2>1, <2>2
<1>4. Earned = SumFunctionOnSet(f, Counted) /\ Earned' = SumFunctionOnSet(g, Counted')
    BY DEF Earned
<1>5. Earned \in Int /\ Earned' \in Int
    BY BalanceType, BalanceTypeNext DEF AmountsAreWhole
<1> HIDE DEF f, g
<1>6. SumFunctionOnSet(f, Counted) <= SumFunctionOnSet(g, Counted)
    BY <1>2, <1>3, SumAtMost
<1>7. SumFunctionOnSet(g, Counted) <= SumFunctionOnSet(g, Counted')
    BY <1>1, <1>3, SumSubset
<1>8. SumFunctionOnSet(g, Counted) \in Int
    BY <1>2, <1>3, SumInt
<1> QED BY <1>4, <1>5, <1>6, <1>7, <1>8

\* What has been withdrawn changes only when a withdrawal is inserted.
LEMMA DebitedKept ==
    ASSUME gross' = gross, \A x \in Withdrawal : Recorded(x)' <=> Recorded(x)
    PROVE  Debited' = Debited
<1>1. Withdrawn' = Withdrawn
    BY DEF Withdrawn
<1>2. [x \in Withdrawal |-> Debit(x)'] = [x \in Withdrawal |-> Debit(x)]
    BY DEF Debit, Stored
<1> QED BY <1>1, <1>2 DEF Debited

\* A withdrawal lowers the balance by no more than its amount without the fees.
LEMMA DebitedAdd ==
    ASSUME TypeOK, RowInv, BegunInv, TypeOK', RowInv', BegunInv',
           NEW c \in Call, NEW x \in Withdrawal, CommitWithdrawal(c, x)
    PROVE  Debited' = Debited + req[c].amount - 2 * (Fee + Vat)
<1> DEFINE f == [y \in Withdrawal |-> Debit(y)]
           g == [y \in Withdrawal |-> Debit(y)']
<1>1. /\ payment[x] = "ABSENT" /\ payment' = [payment EXCEPT ![x] = "PENDING"]
      /\ gross' = [gross EXCEPT ![x] = req[c].amount]
    BY DEF CommitWithdrawal
<1>2. Withdrawn' = Withdrawn \cup {x} /\ x \notin Withdrawn
    BY <1>1 DEF Withdrawn, Recorded, TypeOK, Row
<1>3. \A y \in Withdrawn : g[y] = f[y]
    BY <1>1, <1>2 DEF Withdrawn, Debit, Stored, TypeOK
<1>4. gross'[x] = req[c].amount
    BY <1>1 DEF TypeOK
<1>5. g[x] = req[c].amount - 2 * (Fee + Vat)
  <2>1. x \in Withdrawn'
    BY <1>2
  <2>2. Debit(x)' = gross'[x] - 2 * (Fee + Vat)
    BY <2>1, BalanceTypeNext DEF AmountsAreWhole
  <2> QED BY <1>4, <2>2
<1>6. /\ IsFiniteSet(Withdrawn)
      /\ \A y \in Withdrawn \cup {x} : g[y] \in Int
      /\ \A y \in Withdrawn : f[y] \in Int
  <2>1. \A y \in Withdrawn' : y \in Withdrawal /\ Debit(y)' \in Int
    BY BalanceTypeNext DEF AmountsAreWhole, Withdrawn
  <2>2. \A y \in Withdrawn : y \in Withdrawal /\ Debit(y) \in Int
    BY BalanceType DEF AmountsAreWhole, Withdrawn
  <2> QED BY <1>2, <2>1, <2>2, BalanceType DEF AmountsAreWhole
<1>7. Debited = SumFunctionOnSet(f, Withdrawn) /\ Debited' = SumFunctionOnSet(g, Withdrawn \cup {x})
    BY <1>2 DEF Debited
<1> HIDE DEF f, g
<1>8. SumFunctionOnSet(g, Withdrawn \cup {x}) = SumFunctionOnSet(g, Withdrawn) + g[x]
    BY <1>2, <1>6, SumAdd
<1>9. SumFunctionOnSet(f, Withdrawn) = SumFunctionOnSet(g, Withdrawn)
    BY <1>3, <1>6, SumEqual
<1>10. Debited \in Int /\ req[c].amount \in Nat /\ Fee \in Nat /\ Vat \in Nat
  <2>1. Withdrawing(c)
    BY DEF CommitWithdrawal, Withdrawing
  <2> QED BY <2>1, BalanceType, WalletAssumption DEF AmountsAreWhole, RowInv, AsksAreWhole
<1> QED BY <1>5, <1>7, <1>8, <1>9, <1>10

\* A step after which nothing is exposed: no withdrawals overlap and no stay lapses.
LEMMA NothingExposed ==
    ASSUME TypeOK, SolventInv, [Next]_vars, ~ exposed'
    PROVE  /\ ~ exposed /\ ~ Lapses
           /\ \A c, d \in Call : Withdrawing(c)' /\ Withdrawing(d)' => c = d
<1>1. CASE Next
  <2>1. exposed' = (exposed \/ Lapses \/ WithdrawalsOverlap')
    BY <1>1 DEF Next
  <2>2. ~ exposed /\ ~ Lapses /\ ~ WithdrawalsOverlap'
    BY <2>1, Zenon DEF TypeOK
  <2> QED BY <2>2 DEF WithdrawalsOverlap
<1>2. CASE UNCHANGED vars
  <2>1. exposed' = exposed /\ req' = req /\ payment' = payment /\ contract' = contract
    BY <1>2 DEF vars, bookings, payments
  <2>2. ~ exposed
    BY <2>1
  <2>3. ~ Lapses
    BY <2>1 DEF Lapses, Counts
  <2> QED BY <2>1, <2>2, <2>3 DEF SolventInv, Withdrawing, Is
<1> QED BY <1>1, <1>2

\* Who earns more and owes the same has more.
LEMMA LessDebit ==
    ASSUME NEW a \in Int, NEW b \in Int, NEW d \in Int, a >= b
    PROVE  a - 100 * d \in Int /\ b - 100 * d \in Int /\ a - 100 * d >= b - 100 * d
OBVIOUS

\* A step keeps the balance above what is being withdrawn.
LEMMA SolventNext ==
    ASSUME BalanceInv, [Next]_vars, TypeOK', RowInv', BegunInv'
    PROVE  SolventInv'
<1> SUFFICES ASSUME ~ exposed'
             PROVE  /\ \A c, d \in Call : Withdrawing(c)' /\ Withdrawing(d)' => c = d
                    /\ OneWallet' => /\ Balance' >= 0
                                     /\ \A c \in Call : Withdrawing(c)' => Covers(c)'
    BY DEF SolventInv
<1>1. /\ TypeOK /\ WalletInv /\ BegunInv /\ RowInv /\ SolventInv
    BY DEF BalanceInv
<1>2. /\ ~ exposed /\ ~ Lapses
      /\ \A c, d \in Call : Withdrawing(c)' /\ Withdrawing(d)' => c = d
    BY <1>1, NothingExposed
<1> SUFFICES ASSUME OneWallet'
             PROVE  Balance' >= 0 /\ \A c \in Call : Withdrawing(c)' => Covers(c)'
    BY <1>2
<1>3. OneWallet
    BY <1>1, RowsMove DEF OneWallet
<1>4. /\ Balance >= 0 /\ \A c \in Call : Withdrawing(c) => Covers(c)
      /\ \A c, d \in Call : Withdrawing(c) /\ Withdrawing(d) => c = d
    BY <1>1, <1>2, <1>3 DEF SolventInv
<1>5. Earned' >= Earned
    BY <1>1, <1>2, EarnedGrows
<1>6. /\ Earned \in Int /\ Debited \in Int /\ Earned' \in Int /\ Debited' \in Int
      /\ Balance = Earned - 100 * Debited /\ Balance' = Earned' - 100 * Debited'
    BY <1>1, BalanceType, BalanceTypeNext DEF AmountsAreWhole, Balance
<1>7. /\ Fee \in Nat /\ Vat \in Nat
      /\ \A c \in Call : Withdrawing(c) => req[c].amount \in Nat
    BY <1>1, WalletAssumption DEF RowInv, AsksAreWhole
<1>8. ASSUME NEW c \in Call, NEW x \in Withdrawal, CommitWithdrawal(c, x)
      PROVE  Balance' >= 0 /\ \A d \in Call : Withdrawing(d)' => Covers(d)'
  <2>1. Withdrawing(c) /\ Covers(c)
    BY <1>4, <1>8 DEF CommitWithdrawal, Withdrawing
  <2>2. Debited' = Debited + req[c].amount - 2 * (Fee + Vat)
    BY <1>1, <1>8, DebitedAdd
  <2>3. Balance' >= 0
    BY <1>5, <1>6, <1>7, <2>1, <2>2 DEF Covers
  <2>4. \A d \in Call : ~ Withdrawing(d)'
    <3>1. \A d \in Call \ {c} : req'[d] = req[d]
      BY <1>1, <1>8 DEF CommitWithdrawal, Finish, TypeOK
    <3>2. req'[c] = NoRequest
      BY <1>1, <1>8 DEF CommitWithdrawal, Finish, TypeOK
    <3>3. ~ Withdrawing(c)'
      BY <3>2 DEF Withdrawing, Is, NoRequest
    <3>4. \A d \in Call \ {c} : ~ Withdrawing(d)
      BY <1>4, <2>1
    <3> QED BY <3>1, <3>3, <3>4 DEF Withdrawing, Is
  <2> QED BY <2>3, <2>4
<1>9. ASSUME Debited' = Debited
      PROVE  Balance' >= 0 /\ \A d \in Call : Withdrawing(d)' => Covers(d)'
  <2>1. Balance' >= Balance /\ Balance \in Int /\ Balance' \in Int
    <3>1. Balance' = Earned' - 100 * Debited /\ Balance = Earned - 100 * Debited
      BY <1>6, <1>9
    <3>2. Earned' \in Int /\ Earned \in Int /\ Debited \in Int /\ Earned' >= Earned
      BY <1>5, <1>6
    <3>3. Earned' - 100 * Debited >= Earned - 100 * Debited
      BY <3>2, LessDebit
    <3>4. Earned' - 100 * Debited \in Int /\ Earned - 100 * Debited \in Int
      BY <3>2, LessDebit
    <3> QED BY <3>1, <3>3, <3>4
  <2>2. Balance' >= 0
    BY <1>4, <2>1
  <2>3. ASSUME NEW d \in Call, Withdrawing(d), req'[d].amount = req[d].amount PROVE Covers(d)'
    <3>1. Balance >= 100 * (req[d].amount + Fee + Vat) /\ req[d].amount \in Nat
      BY <1>4, <1>7, <2>3 DEF Covers
    <3>2. Balance' >= 100 * (req'[d].amount + Fee + Vat)
      BY <1>7, <2>1, <2>3, <3>1
    <3> QED BY <3>2 DEF Covers
  <2>4. CASE \A d \in Call : CallKept(d)
    BY <2>2, <2>3, <2>4 DEF CallKept
  <2>5. ASSUME NEW c \in Call, ReadPayments(c) PROVE \A d \in Call : Withdrawing(d)' => Covers(d)'
    <3>1. \A d \in Call \ {c} : req'[d] = req[d]
      BY <1>1, <2>5 DEF ReadPayments, TypeOK
    <3>2. req[c].stage = "read" /\ req'[c].op = req[c].op
      BY <1>1, <2>5 DEF ReadPayments, TypeOK, Request
    <3>3. ~ Withdrawing(c)'
      BY <1>1, <3>2 DEF RowInv, PagesSave, Pages, Withdrawing, Is
    <3> QED BY <2>3, <3>1, <3>3 DEF Withdrawing, Is
  <2>6. ASSUME NEW c \in Call, NEW amount \in Amount, Withdraw(c, amount)
        PROVE  \A d \in Call : Withdrawing(d)' => Covers(d)'
    <3>1. PICK v \in wallets :
            req' = [req EXCEPT ![c] = [NoRequest EXCEPT !.op = "withdraw", !.stage = "insert",
                                                        !.found = v, !.amount = amount]]
      BY <2>6 DEF Withdraw
    <3>2. (\A d \in Call \ {c} : req'[d] = req[d]) /\ req'[c].amount = amount
      BY <1>1, <3>1 DEF TypeOK, NoRequest
    <3>3. PICK w \in wallets : Available(w) >= 100 * (amount + Fee + Vat)
      BY <2>6 DEF Withdraw
    <3>4. Balance >= 100 * (amount + Fee + Vat) /\ amount \in Nat
      BY <1>1, <1>3, <3>3, AvailableIsBalance, WalletAssumption
    <3>5. Covers(c)'
      BY <1>7, <2>1, <3>2, <3>4 DEF Covers
    <3> QED BY <2>3, <3>2, <3>5 DEF Withdrawing, Is
  <2> QED BY <1>1, <2>2, <2>4, <2>5, <2>6, CallsKept
<1> QED BY <1>1, <1>8, <1>9, RowsMove, DebitedKept

\* There is no money at the start, and nobody withdraws any.
LEMMA SolventInit == Init => SolventInv
<1> SUFFICES ASSUME Init PROVE SolventInv
    OBVIOUS
<1>1. Counted = {} /\ Withdrawn = {}
    BY WalletAssumption DEF Init, Counted, Withdrawn, Counts, Recorded, Row
<1>2. Balance = 0
    BY <1>1, SumEmpty DEF Balance, Earned, Debited
<1>3. \A c \in Call : ~ Withdrawing(c)
    BY DEF Init, Withdrawing, Is, NoRequest
<1> QED BY <1>2, <1>3 DEF SolventInv

\* A withdrawal is checked against the balance and inserted later.  For any number of
\* wallets, stays, withdrawals and requests: with one wallet the balance becomes negative
\* only through withdrawals that overlap or a stay that ceases to count.
THEOREM OverdraftsNeedExposure == Spec => []OverdrawnNeedsOverlap
<1>1. Init => BalanceInv
  <2>1. Init => RowInv
    BY DEF Init, NoRequest, RowInv, RowsHaveWallet, SavesRecorded, GrossKnown, AsksAreWhole,
           PagesSave, Recorded, Withdrawing, Is, Row
  <2>2. Init => BegunInv
    BY DEF Init, Contract!Init, BegunInv
  <2> QED BY <2>1, <2>2, TypeInit, WalletInit, SolventInit DEF BalanceInv
<1>2. BalanceInv /\ [Next]_vars => BalanceInv'
    BY TypeNext, WalletNext, BegunNext, RowNext, SolventNext DEF BalanceInv
<1>3. BalanceInv => OverdrawnNeedsOverlap
  <2> SUFFICES ASSUME BalanceInv, NEW w \in wallets, Available(w) < 0, ~ exposed
               PROVE  wallets # {w}
    BY DEF OverdrawnNeedsOverlap
  <2> SUFFICES ASSUME wallets = {w} PROVE FALSE
    OBVIOUS
  <2>1. OneWallet
    BY DEF OneWallet
  <2>2. Available(w) = Balance /\ Balance \in Int
    BY <2>1, AvailableIsBalance, BalanceType DEF BalanceInv, AmountsAreWhole
  <2>3. Balance >= 0
    BY <2>1 DEF BalanceInv, SolventInv
  <2> QED BY <2>2, <2>3
<1> QED BY <1>1, <1>2, <1>3, PTL DEF Spec

=============================================================================
