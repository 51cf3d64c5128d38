------------------------ MODULE SojournCreditsProofs ------------------------
(***************************************************************************)
(* What TLAPS proves about SojournCredits for every number of guests,      *)
(* bookings, transfers and withdrawals, and all amounts.                   *)
(***************************************************************************)
EXTENDS SojournCredits, FiniteSums

-----------------------------------------------------------------------------
(* The inductive invariant.  That a confirmed row was paid for rests on    *)
(* four facts: a request that is about to commit has its booking to        *)
(* itself, a booking without a payment has no rows, what the job still has *)
(* to do is complete, and a complete payment stays so.                     *)

Shape(c) ==
    LET r == req[c]
    IN  /\ r.stage = "idle" => r.id = NULL
        /\ r.stage = "book" => r.id \in Booking /\ r.from \in Guest /\ payment[r.id] = "ABSENT"
        /\ r.stage \in {"debit", "credit"} => r.id \in Transfer /\ r.from \in Guest /\ r.to \in Guest

Single ==
    \A c, d \in Call : c # d /\ req[c].stage = "book" /\ req[d].stage = "book" => req[c].id # req[d].id

UnpaidHasNoRows ==
    \A e \in Entry : e[1] \in Booking /\ payment[e[1]] = "ABSENT" => ledger[e] = NULL

JobIsComplete == \A p \in job : payment[p] = "COMPLETED"

IInv ==
    /\ TypeOK
    /\ \A c \in Call : Shape(c)
    /\ Single
    /\ UnpaidHasNoRows
    /\ JobIsComplete
    /\ ConfirmedWasPaid

-----------------------------------------------------------------------------
(* Types.                                                                  *)

\* A call at rest is a request.
LEMMA IdleType == Idle \in Request /\ Idle.stage = "idle" /\ Idle.id = NULL
BY DEF Idle, Request, Stage

\* The credits of a request are a whole number.
LEMMA CreditsType == ASSUME NEW r \in Request PROVE r.credits \in Int /\ -r.credits \in Int
<1>1. r.credits \in Amount \cup {0}
    BY DEF Request
<1>2. Amount \subseteq Nat
    BY CreditsAssumption
<1>3. r.credits \in Nat
  <2>1. \A n \in Amount \cup {0} : n \in Nat
    BY <1>2
  <2> QED BY <1>1, <2>1
<1>4. \A n \in Nat : n \in Int /\ -n \in Int
    OBVIOUS
<1> QED BY <1>3, <1>4

\* A new row is pending.
LEMMA PendingType ==
    ASSUME NEW u \in Guest, NEW n \in Int
    PROVE  Pending(u, n) \in Credit /\ Pending(u, n).status = "PENDING"
BY DEF Pending, Credit, Status

\* The rows of bookings and of transfers are rows of the ledger.
LEMMA EntryType ==
    /\ \A b \in Booking : <<b, "spend">> \in Entry /\ <<b, "earn">> \in Entry
    /\ \A x \in Transfer : <<x, "debit">> \in Entry /\ <<x, "credit">> \in Entry
    /\ \A e \in Entry : e[1] \in Booking \cup Transfer
    /\ \A e \in Entry : e[1] \in Booking => e = <<e[1], "spend">> \/ e = <<e[1], "earn">>
BY CreditsAssumption DEF Entry

\* Confirming rows changes their status and nothing else.
LEMMA ConfirmEffect ==
    ASSUME TypeOK, NEW es \in SUBSET Entry, \A e \in es : ledger[e] # NULL, Confirm(es)
    PROVE  /\ ledger' \in [Entry -> Credit \cup {NULL}]
           /\ \A e \in Entry : ledger'[e] = NULL <=> ledger[e] = NULL
           /\ \A e \in Entry : e \notin es => ledger'[e] = ledger[e]
<1>1. ASSUME NEW e \in es
      PROVE  [ledger[e] EXCEPT !.status = "CONFIRMED"] \in Credit
  <2>1. ledger[e] \in Credit
    BY <1>1 DEF TypeOK
  <2> QED BY <2>1 DEF Credit, Status
<1>2. \A e \in Entry : /\ e \in es => ledger'[e] = [ledger[e] EXCEPT !.status = "CONFIRMED"]
                       /\ e \notin es => ledger'[e] = ledger[e]
    BY DEF Confirm
<1>3. ledger' = [e \in Entry |-> IF e \in es THEN [ledger[e] EXCEPT !.status = "CONFIRMED"] ELSE ledger[e]]
    BY DEF Confirm
<1>4. ledger' \in [Entry -> Credit \cup {NULL}]
    BY <1>1, <1>3 DEF TypeOK
<1> QED BY <1>1, <1>2, <1>4, CreditsAssumption

-----------------------------------------------------------------------------
(* The actions.                                                            *)

\* A booking is initialised: the balance is read.
LEMMA ReadTotalIInv ==
    ASSUME IInv, NEW c \in Call, NEW b \in Booking, NEW asked \in Amount \cup {0}, ReadTotal(c, b, asked)
    PROVE  IInv'
<1> USE CreditsAssumption
<1> DEFINE r == [stage |-> "book", id |-> b, from |-> GuestOf[b], to |-> NULL,
                 credits |-> CreditsToApply(GuestOf[b], asked)]
<1>1. /\ payment[b] = "ABSENT" /\ \A d \in Call : req[d].id # b
      /\ req' = [req EXCEPT ![c] = r] /\ UNCHANGED <<ledger, payment, job, crashes>>
      /\ crossed' \subseteq crossed \cup {GuestOf[b]} /\ TypeOK
    BY DEF ReadTotal, IInv
<1>2. GuestOf[b] \in Guest /\ CreditsToApply(GuestOf[b], asked) \in Amount \cup {0}
    BY DEF CreditsToApply
<1>3. r \in Request /\ r.stage = "book" /\ r.id = b /\ r.from \in Guest
    BY <1>2 DEF Request, Stage
<1> HIDE DEF r
<1>4. req'[c] = r /\ \A d \in Call : d # c => req'[d] = req[d]
    BY <1>1 DEF TypeOK
<1>5. TypeOK'
    BY <1>1, <1>2, <1>3 DEF TypeOK
<1>6. ASSUME NEW d \in Call PROVE Shape(d)'
    BY <1>1, <1>3, <1>4 DEF IInv, Shape
<1>7. Single'
    BY <1>1, <1>3, <1>4 DEF IInv, Single
<1>8. UnpaidHasNoRows' /\ JobIsComplete' /\ ConfirmedWasPaid'
    BY <1>1 DEF IInv, UnpaidHasNoRows, JobIsComplete, ConfirmedWasPaid, NoWithdrawalPaid
<1> QED BY <1>5, <1>6, <1>7, <1>8 DEF IInv

\* The booking is committed with its rows.
LEMMA CommitBookingIInv == ASSUME IInv, NEW c \in Call, CommitBooking(c) PROVE IInv'
<1> USE CreditsAssumption
<1>1. /\ req[c].stage = "book" /\ TypeOK /\ Shape(c) /\ req[c] \in Request
      /\ UNCHANGED <<job, crashes, crossed>> /\ req' = [req EXCEPT ![c] = Idle]
    BY DEF CommitBooking, IInv, TypeOK
<1>2. PICK b \in Booking : b = req[c].id /\ payment[b] = "ABSENT" /\ req[c].from \in Guest
    BY <1>1 DEF Shape
<1>3. payment' = [payment EXCEPT ![b] = "PENDING"]
    BY <1>2 DEF CommitBooking
<1>4. req[c].credits \in Int /\ -req[c].credits \in Int /\ Earned[b] \in Int
    BY <1>1, CreditsType
<1>5. /\ ledger' \in [Entry -> Credit \cup {NULL}]
      /\ \A e \in Entry : e[1] # b => ledger'[e] = ledger[e]
      /\ \A e \in Entry : e[1] = b => ledger'[e] = NULL \/ ledger'[e].status = "PENDING"
  <2> DEFINE earn == Pending(req[c].from, Earned[b])
             spend == IF req[c].credits > 0 THEN Pending(req[c].from, -req[c].credits)
                      ELSE ledger[<<b, "spend">>]
  <2>1. /\ <<b, "spend">> \in Entry /\ <<b, "earn">> \in Entry /\ <<b, "spend">> # <<b, "earn">>
        /\ <<b, "spend">>[1] = b /\ <<b, "earn">>[1] = b
    BY EntryType
  <2>2. ledger[<<b, "spend">>] = NULL
    BY <1>2, <2>1 DEF IInv, UnpaidHasNoRows
  <2>3. earn \in Credit /\ earn.status = "PENDING"
    BY <1>2, <1>4, PendingType
  <2>4. spend = NULL \/ (spend \in Credit /\ spend.status = "PENDING")
    BY <1>2, <1>4, <2>2, PendingType
  <2>5. ledger' = [ledger EXCEPT ![<<b, "earn">>] = earn, ![<<b, "spend">>] = spend]
    BY <1>1, <1>2, <2>1 DEF CommitBooking, TypeOK
  <2> HIDE DEF earn, spend
  <2>6. /\ ledger' \in [Entry -> Credit \cup {NULL}]
        /\ ledger'[<<b, "earn">>] = earn /\ ledger'[<<b, "spend">>] = spend
        /\ \A e \in Entry : e # <<b, "earn">> /\ e # <<b, "spend">> => ledger'[e] = ledger[e]
    BY <1>1, <2>1, <2>3, <2>4, <2>5 DEF TypeOK
  <2> QED BY <2>1, <2>3, <2>4, <2>6, EntryType
<1>6. /\ payment'[b] = "PENDING"
      /\ \A p \in Booking \cup Withdrawal : p # b => payment'[p] = payment[p]
    BY <1>1, <1>3 DEF TypeOK
<1>7. TypeOK'
    BY <1>1, <1>3, <1>5, IdleType DEF TypeOK
<1>8. /\ req'[c] = Idle /\ req'[c].stage = "idle" /\ req'[c].id = NULL
      /\ \A d \in Call : d # c => req'[d] = req[d]
    BY <1>1, IdleType DEF TypeOK
<1>9. ASSUME NEW d \in Call PROVE Shape(d)'
  <2>1. CASE d = c
    BY <1>8, <2>1 DEF Shape
  <2>2. CASE d # c
    <3>1. Shape(d) /\ req'[d] = req[d] /\ (req[d].stage = "book" => req[d].id # b)
      BY <1>1, <1>2, <1>8, <2>2 DEF IInv, Single
    <3> QED BY <1>6, <3>1 DEF Shape
  <2> QED BY <2>1, <2>2
<1>10. Single'
    BY <1>8 DEF IInv, Single
<1>11. UnpaidHasNoRows'
    BY <1>5, <1>6 DEF IInv, UnpaidHasNoRows
<1>12. JobIsComplete'
    BY <1>1, <1>2, <1>6 DEF IInv, JobIsComplete, TypeOK
<1>13. ConfirmedWasPaid'
  <2>1. NoWithdrawalPaid' => NoWithdrawalPaid
    BY <1>6 DEF NoWithdrawalPaid
  <2> SUFFICES ASSUME NoWithdrawalPaid, NEW e \in Entry, ledger'[e] # NULL, ledger'[e].status = "CONFIRMED"
               PROVE  e[1] \in Booking /\ payment'[e[1]] = "COMPLETED"
    BY <2>1 DEF ConfirmedWasPaid
  <2>2. e[1] # b /\ ledger'[e] = ledger[e]
    BY <1>5
  <2> QED BY <1>6, <2>2 DEF IInv, ConfirmedWasPaid
<1> QED BY <1>7, <1>9, <1>10, <1>11, <1>12, <1>13 DEF IInv

\* A step of a transfer: only its request and a pending row of its own change.
LEMMA TransferIInv ==
    ASSUME IInv, NEW c \in Call, NEW r \in Request, req' = [req EXCEPT ![c] = r],
           r.stage # "book", r.stage = "idle" => r.id = NULL,
           r.stage \in {"debit", "credit"} => r.id \in Transfer /\ r.from \in Guest /\ r.to \in Guest,
           ledger' \in [Entry -> Credit \cup {NULL}],
           \A e \in Entry : \/ ledger'[e] = ledger[e]
                            \/ e[1] \in Transfer /\ ledger'[e].status = "PENDING",
           UNCHANGED <<payment, job, crashes, crossed>>
    PROVE  IInv'
<1> USE CreditsAssumption
<1>1. TypeOK /\ \A d \in Call : Shape(d)
    BY DEF IInv
<1>2. TypeOK'
    BY <1>1 DEF TypeOK
<1>3. req'[c] = r /\ \A d \in Call : d # c => req'[d] = req[d]
    BY <1>1 DEF TypeOK
<1>4. ASSUME NEW d \in Call PROVE Shape(d)'
    BY <1>1, <1>3 DEF Shape
<1>5. Single'
    BY <1>3 DEF IInv, Single
<1>6. UnpaidHasNoRows' /\ JobIsComplete'
    BY DEF IInv, UnpaidHasNoRows, JobIsComplete
<1>7. ConfirmedWasPaid'
    BY DEF IInv, ConfirmedWasPaid, NoWithdrawalPaid
<1> QED BY <1>2, <1>4, <1>5, <1>6, <1>7 DEF IInv

\* A transfer passes its check.
LEMMA CheckTransferIInv ==
    ASSUME IInv, NEW c \in Call, NEW x \in Transfer, NEW from \in Guest, NEW to \in Guest,
           NEW amount \in Amount, CheckTransfer(c, x, from, to, amount)
    PROVE  IInv'
<1> DEFINE r == [stage |-> "debit", id |-> x, from |-> from, to |-> to, credits |-> amount]
<1>1. /\ req' = [req EXCEPT ![c] = r] /\ UNCHANGED <<ledger, payment, job, crashes, crossed>> /\ TypeOK
    BY DEF CheckTransfer, IInv
<1>2. r \in Request /\ r.stage = "debit" /\ r.id = x /\ r.from = from /\ r.to = to
    BY DEF Request, Stage
<1> HIDE DEF r
<1>3. ledger' \in [Entry -> Credit \cup {NULL}]
    BY <1>1 DEF TypeOK
<1> QED BY <1>1, <1>2, <1>3, TransferIInv

\* Its debit is inserted.
LEMMA DebitIInv == ASSUME IInv, NEW c \in Call, Debit(c) PROVE IInv'
<1> USE CreditsAssumption
<1>1. /\ req[c].stage = "debit" /\ TypeOK /\ Shape(c) /\ req[c] \in Request
      /\ UNCHANGED <<payment, job, crashes, crossed>>
    BY DEF Debit, IInv, TypeOK
<1>2. PICK x \in Transfer : x = req[c].id /\ req[c].from \in Guest /\ req[c].to \in Guest
    BY <1>1 DEF Shape
<1> DEFINE r == [req[c] EXCEPT !.stage = "credit"]
           row == Pending(req[c].from, -req[c].credits)
<1>3. req' = [req EXCEPT ![c] = r] /\ ledger' = [ledger EXCEPT ![<<x, "debit">>] = row]
    BY <1>2 DEF Debit
<1>4. /\ r \in Request /\ r.stage = "credit" /\ r.id = x /\ r.from \in Guest /\ r.to \in Guest
    BY <1>1, <1>2 DEF Request, Stage
<1>5. row \in Credit /\ row.status = "PENDING"
  <2>1. -req[c].credits \in Int
    BY <1>1, CreditsType
  <2> QED BY <1>2, <2>1, PendingType
<1>6. <<x, "debit">> \in Entry /\ <<x, "debit">>[1] = x
    BY EntryType
<1> HIDE DEF r, row
<1>7. ledger' \in [Entry -> Credit \cup {NULL}]
      /\ \A e \in Entry : ledger'[e] = ledger[e] \/ (e[1] \in Transfer /\ ledger'[e].status = "PENDING")
    BY <1>1, <1>3, <1>5, <1>6 DEF TypeOK
<1> QED BY <1>1, <1>3, <1>4, <1>7, TransferIInv

\* Its credit is inserted.
LEMMA CreditedIInv == ASSUME IInv, NEW c \in Call, Credited(c) PROVE IInv'
<1> USE CreditsAssumption
<1>1. /\ req[c].stage = "credit" /\ TypeOK /\ Shape(c) /\ req[c] \in Request
      /\ UNCHANGED <<payment, job, crashes, crossed>> /\ req' = [req EXCEPT ![c] = Idle]
    BY DEF Credited, IInv, TypeOK
<1>2. PICK x \in Transfer : x = req[c].id /\ req[c].to \in Guest
    BY <1>1 DEF Shape
<1> DEFINE row == Pending(req[c].to, req[c].credits)
<1>3. ledger' = [ledger EXCEPT ![<<x, "credit">>] = row]
    BY <1>2 DEF Credited
<1>4. row \in Credit /\ row.status = "PENDING"
  <2>1. req[c].credits \in Int
    BY <1>1, CreditsType
  <2> QED BY <1>2, <2>1, PendingType
<1>5. <<x, "credit">> \in Entry /\ <<x, "credit">>[1] = x
    BY EntryType
<1> HIDE DEF row
<1>6. ledger' \in [Entry -> Credit \cup {NULL}]
      /\ \A e \in Entry : ledger'[e] = ledger[e] \/ (e[1] \in Transfer /\ ledger'[e].status = "PENDING")
    BY <1>1, <1>3, <1>4, <1>5 DEF TypeOK
<1> QED BY <1>1, <1>6, IdleType, TransferIInv

\* A payment becomes complete, and rows that refer to it may become confirmed.
LEMMA CompleteIInv ==
    ASSUME IInv, NEW p \in Booking \cup Withdrawal, payment[p] # "ABSENT" \/ p \in Withdrawal,
           payment' = [payment EXCEPT ![p] = "COMPLETED"],
           NEW es \in SUBSET Entry, \A e \in es : ledger[e] # NULL /\ e[1] = p, Confirm(es),
           UNCHANGED <<req, job, crashes, crossed>>
    PROVE  IInv'
<1> USE CreditsAssumption
<1>1. /\ ledger' \in [Entry -> Credit \cup {NULL}]
      /\ \A e \in Entry : ledger'[e] = NULL <=> ledger[e] = NULL
      /\ \A e \in Entry : e \notin es => ledger'[e] = ledger[e]
    BY ConfirmEffect DEF IInv
<1>2. /\ payment'[p] = "COMPLETED"
      /\ \A o \in Booking \cup Withdrawal : o # p => payment'[o] = payment[o]
    BY DEF IInv, TypeOK
<1>3. TypeOK'
    BY <1>1 DEF IInv, TypeOK
<1>4. ASSUME NEW d \in Call PROVE Shape(d)'
  <2>1. Shape(d)
    BY DEF IInv
  <2> QED BY <1>2, <2>1 DEF Shape
<1>5. Single' /\ UnpaidHasNoRows'
    BY <1>1, <1>2 DEF IInv, Single, UnpaidHasNoRows
<1>6. JobIsComplete'
    BY <1>2 DEF IInv, JobIsComplete, TypeOK
<1>7. ConfirmedWasPaid'
  <2>1. NoWithdrawalPaid' => NoWithdrawalPaid /\ p \in Booking
    BY <1>2 DEF NoWithdrawalPaid
  <2> SUFFICES ASSUME NoWithdrawalPaid, p \in Booking, NEW e \in Entry,
                      ledger'[e] # NULL, ledger'[e].status = "CONFIRMED"
               PROVE  e[1] \in Booking /\ payment'[e[1]] = "COMPLETED"
    BY <2>1 DEF ConfirmedWasPaid
  <2>2. CASE e \in es
    BY <1>2, <2>2
  <2>3. CASE e \notin es
    BY <1>1, <1>2, <2>3 DEF IInv, ConfirmedWasPaid
  <2> QED BY <2>2, <2>3
<1> QED BY <1>3, <1>4, <1>5, <1>6, <1>7 DEF IInv

\* The ledger as it is confirms no row.
LEMMA NoneConfirmed == ASSUME TypeOK, UNCHANGED ledger PROVE Confirm({})
BY DEF TypeOK, Confirm

\* Payments complete: at Paystack, at NOWPayments, of withdrawals.
LEMMA PaymentsIInv ==
    ASSUME IInv, NEW p \in Booking \cup Withdrawal,
           \/ UpdatePayment(p) \/ PollCryptoPayment(p)
           \/ p \in Withdrawal /\ CompleteWithdrawal(p)
    PROVE  IInv'
<1>1. CASE UpdatePayment(p)
  <2>1. Entries(p) \in SUBSET Entry /\ \A e \in Entries(p) : ledger[e] # NULL /\ e[1] = p
    BY DEF Entries
  <2> QED BY <1>1, <2>1, CompleteIInv DEF UpdatePayment
<1>2. CASE PollCryptoPayment(p) \/ (p \in Withdrawal /\ CompleteWithdrawal(p))
  <2>1. Confirm({})
    BY <1>2, NoneConfirmed DEF PollCryptoPayment, CompleteWithdrawal, IInv
  <2> QED BY <1>2, <2>1, CompleteIInv DEF PollCryptoPayment, CompleteWithdrawal
<1> QED BY <1>1, <1>2

\* The job collects the completed payments.
LEMMA HandleUpdatePaymentsIInv == ASSUME IInv, HandleUpdatePayments PROVE IInv'
<1>1. job' = FulfilledTransactions /\ UNCHANGED <<ledger, payment, req, crashes, crossed>> /\ TypeOK
    BY DEF HandleUpdatePayments, IInv
<1>2. /\ job' \subseteq Booking \cup Withdrawal /\ \A p \in job' : payment[p] = "COMPLETED"
    BY <1>1 DEF FulfilledTransactions, TypeOK
<1>3. TypeOK'
    BY <1>1, <1>2 DEF TypeOK
<1> QED BY <1>1, <1>2, <1>3 DEF IInv, Shape, Single, UnpaidHasNoRows, JobIsComplete,
                                ConfirmedWasPaid, NoWithdrawalPaid

\* The job confirms one row of a payment: any row at all for a withdrawal.
LEMMA ConfirmCreditIInv ==
    ASSUME IInv, NEW p \in Booking \cup Withdrawal, ConfirmCredit(p) PROVE IInv'
<1>1. p \in job /\ job' = job \ {p} /\ UNCHANGED <<payment, req, crashes, crossed>> /\ TypeOK
    BY DEF ConfirmCredit, IInv
<1>2. payment[p] = "COMPLETED"
    BY <1>1 DEF IInv, JobIsComplete
<1>3. PICK es \in SUBSET Entry :
           /\ Confirm(es)
           /\ \A e \in es : ledger[e] # NULL /\ (p \in Withdrawal \/ e[1] = p)
  <2>1. CASE Matches(p) = {}
    BY <1>1, <2>1, NoneConfirmed DEF ConfirmCredit
  <2>2. CASE Matches(p) # {}
    <3>1. PICK e \in Matches(p) : Confirm({e})
      BY <2>2 DEF ConfirmCredit
    <3>2. e \in Entry /\ ledger[e] # NULL /\ (p \in Withdrawal \/ e[1] = p)
      BY DEF Matches, MatchesAnyStatus
    <3> QED BY <3>1, <3>2
  <2> QED BY <2>1, <2>2
<1>4. /\ ledger' \in [Entry -> Credit \cup {NULL}]
      /\ \A e \in Entry : ledger'[e] = NULL <=> ledger[e] = NULL
      /\ \A e \in Entry : e \notin es => ledger'[e] = ledger[e]
    BY <1>1, <1>3, ConfirmEffect
<1>5. TypeOK'
    BY <1>1, <1>4 DEF TypeOK
<1>6. ASSUME NEW d \in Call PROVE Shape(d)'
    BY <1>1 DEF IInv, Shape
<1>7. Single' /\ UnpaidHasNoRows' /\ JobIsComplete'
    BY <1>1, <1>4 DEF IInv, Single, UnpaidHasNoRows, JobIsComplete
<1>8. ConfirmedWasPaid'
  <2> SUFFICES ASSUME NoWithdrawalPaid, NEW e \in Entry, ledger'[e] # NULL, ledger'[e].status = "CONFIRMED"
               PROVE  e[1] \in Booking /\ payment[e[1]] = "COMPLETED"
    BY <1>1 DEF ConfirmedWasPaid, NoWithdrawalPaid
  <2>1. p \in Booking
    BY <1>2 DEF NoWithdrawalPaid
  <2>2. CASE e \in es
    BY <1>2, <1>3, <2>1, <2>2 DEF NoWithdrawalPaid
  <2>3. CASE e \notin es
    BY <1>4, <2>3 DEF IInv, ConfirmedWasPaid
  <2> QED BY <2>2, <2>3
<1> QED BY <1>5, <1>6, <1>7, <1>8 DEF IInv

\* The server restarts.
LEMMA RestartIInv == ASSUME IInv, Restart PROVE IInv'
<1>1. /\ req' = [c \in Call |-> Idle] /\ job' = {} /\ UNCHANGED <<ledger, payment, crossed>> /\ TypeOK
      /\ crashes' \in 0 .. MaxCrashes
    BY CreditsAssumption DEF Restart, IInv, TypeOK
<1>2. TypeOK'
    BY <1>1, IdleType DEF TypeOK
<1>3. ASSUME NEW c \in Call PROVE Shape(c)'
    BY <1>1, IdleType DEF Shape
<1>4. Single' /\ UnpaidHasNoRows' /\ JobIsComplete' /\ ConfirmedWasPaid'
    BY <1>1, IdleType DEF IInv, Single, UnpaidHasNoRows, JobIsComplete, ConfirmedWasPaid, NoWithdrawalPaid
<1> QED BY <1>2, <1>3, <1>4 DEF IInv

-----------------------------------------------------------------------------
(* The invariant is inductive.                                             *)

\* It holds of an empty ledger.
LEMMA InitIInv == Init => IInv
<1> SUFFICES ASSUME Init PROVE IInv
    OBVIOUS
<1>1. TypeOK
    BY IdleType, CreditsAssumption DEF Init, TypeOK
<1>2. ASSUME NEW c \in Call PROVE Shape(c)
    BY IdleType DEF Init, Shape
<1>3. Single /\ UnpaidHasNoRows /\ JobIsComplete /\ ConfirmedWasPaid
    BY IdleType DEF Init, Single, UnpaidHasNoRows, JobIsComplete, ConfirmedWasPaid
<1> QED BY <1>1, <1>2, <1>3 DEF IInv

\* Every step keeps it.
LEMMA NextIInv == ASSUME IInv, [Next]_vars PROVE IInv'
<1>1. CASE UNCHANGED vars
    BY <1>1 DEF vars, IInv, TypeOK, Shape, Single, UnpaidHasNoRows, JobIsComplete,
                ConfirmedWasPaid, NoWithdrawalPaid
<1>2. ASSUME NEW c \in Call, NEW b \in Booking, NEW asked \in Amount \cup {0}, ReadTotal(c, b, asked)
      PROVE  IInv'
    BY <1>2, ReadTotalIInv
<1>3. ASSUME NEW c \in Call, NEW x \in Transfer, NEW from \in Guest, NEW to \in Guest,
             NEW amount \in Amount, CheckTransfer(c, x, from, to, amount)
      PROVE  IInv'
    BY <1>3, CheckTransferIInv
<1>4. ASSUME NEW c \in Call, CommitBooking(c) \/ Debit(c) \/ Credited(c) PROVE IInv'
    BY <1>4, CommitBookingIInv, DebitIInv, CreditedIInv
<1>5. ASSUME NEW b \in Booking, UpdatePayment(b) \/ PollCryptoPayment(b) PROVE IInv'
    BY <1>5, PaymentsIInv
<1>6. ASSUME NEW x \in Withdrawal, CompleteWithdrawal(x) PROVE IInv'
    BY <1>6, PaymentsIInv
<1>7. ASSUME NEW p \in Booking \cup Withdrawal, ConfirmCredit(p) PROVE IInv'
    BY <1>7, ConfirmCreditIInv
<1>8. CASE HandleUpdatePayments \/ Restart
    BY <1>8, HandleUpdatePaymentsIInv, RestartIInv
<1> QED BY <1>1, <1>2, <1>3, <1>4, <1>5, <1>6, <1>7, <1>8 DEF Next

\* It holds in every state.
LEMMA Invariance == Spec => []IInv
BY InitIInv, NextIInv, PTL DEF Spec

-----------------------------------------------------------------------------
(* The balance.  Until a withdrawal is paid only the rows of bookings are  *)
(* confirmed, and a guest whose spends never overlapped has at most one of *)
(* them on the way to the balance, as a request or as a pending row, and   *)
(* the balance covers it.                                                  *)

\* The spends of a guest the balance does not know of yet, and those being asked for.
Spends(u) == {e \in Unsettled(u) : e[2] = "spend"}
Asking(u) == {c \in Call : req[c].stage = "book" /\ req[c].from = u /\ req[c].credits > 0}

\* The balance covers what is on its way to it, which is one spend at most.
Solvent(u) ==
    /\ Total(u) >= 0
    /\ \A e \in Spends(u) : Total(u) + ledger[e].amount >= 0
    /\ \A c \in Asking(u) : req[c].credits <= Total(u)
    /\ \A e \in Spends(u) : Asking(u) = {} /\ \A d \in Spends(u) : d = e
    /\ \A c, d \in Asking(u) : c = d

\* A reward never lowers the balance.
RewardsAdd ==
    \A e \in Entry : e[2] = "earn" /\ ledger[e] # NULL => ledger[e].amount >= 0

\* Until a withdrawal is paid, every guest is solvent whose spends never overlapped.
SolventUnlessCrossed ==
    NoWithdrawalPaid => \A u \in Guest : u \notin crossed => Solvent(u)

BalanceInv == RewardsAdd /\ SolventUnlessCrossed

\* The rows of the ledger are finitely many, and their amounts whole numbers.
LEMMA RowsFinite ==
    /\ IsFiniteSet(Entry)
    /\ \A u \in Guest : IsFiniteSet(Rows(u)) /\ IsFiniteSet(Confirmed(u))
<1>1. IsFiniteSet({"spend", "earn"}) /\ IsFiniteSet({"debit", "credit"})
  <2>1. /\ IsFiniteSet({"earn"}) /\ IsFiniteSet({"credit"})
        /\ {"spend", "earn"} = {"earn"} \cup {"spend"} /\ {"debit", "credit"} = {"credit"} \cup {"debit"}
    BY FS_Singleton
  <2> QED BY <2>1, FS_AddElement
<1>2. IsFiniteSet(Booking \X {"spend", "earn"}) /\ IsFiniteSet(Transfer \X {"debit", "credit"})
    BY <1>1, FS_Product, CreditsAssumption
<1>3. IsFiniteSet(Entry)
    BY <1>2, FS_Union DEF Entry
<1> QED BY <1>3, FS_Subset DEF Rows, Confirmed

\* What a row adds to the balance is a whole number.
LEMMA AmountType ==
    ASSUME TypeOK, NEW e \in Entry, ledger[e] # NULL
    PROVE  ledger[e] \in Credit /\ ledger[e].amount \in Int /\ ledger[e].status \in Status
BY DEF TypeOK, Credit

\* The balance of a guest is a whole number.
LEMMA TotalType == ASSUME TypeOK, NEW u \in Guest PROVE Total(u) \in Int
<1> DEFINE f == [e \in Confirmed(u) |-> ledger[e].amount]
<1>1. \A e \in Confirmed(u) : f[e] \in Int
    BY AmountType DEF Confirmed, Rows
<1>2. DOMAIN f = Confirmed(u) /\ Total(u) = SumFunctionOnSet(f, DOMAIN f)
    BY DEF Total, SumFunction
<1> HIDE DEF f
<1> QED BY <1>1, <1>2, RowsFinite, SumInt

\* A row that does not count towards a balance.
Unconfirmed(row) == row = NULL \/ row.status # "CONFIRMED"

\* A step that leaves the confirmed rows alone leaves the balance alone.
LEMMA TotalKept ==
    ASSUME NEW u \in Guest,
           \A e \in Entry : ledger'[e] = ledger[e]
                            \/ (Unconfirmed(ledger[e]) /\ Unconfirmed(ledger'[e]))
    PROVE  Total(u)' = Total(u)
<1>1. Confirmed(u)' = Confirmed(u) /\ \A e \in Confirmed(u) : ledger'[e] = ledger[e]
    BY DEF Confirmed, Rows, Unconfirmed
<1>2. [e \in Confirmed(u)' |-> ledger'[e].amount] = [e \in Confirmed(u) |-> ledger[e].amount]
    BY <1>1
<1> QED BY <1>2 DEF Total

\* Confirming pending rows adds the amounts of the guest's own ones to the balance.
LEMMA TotalConfirm ==
    ASSUME TypeOK, NEW u \in Guest, NEW es \in SUBSET Entry,
           \A e \in es : ledger[e] # NULL /\ ledger[e].status = "PENDING", Confirm(es),
           NEW f, f = [e \in Rows(u) |-> ledger[e].amount]
    PROVE  Total(u)' = Total(u) + SumFunctionOnSet(f, es \cap Rows(u))
<1> DEFINE C == Confirmed(u)
           T == es \cap Rows(u)
           g == [e \in C |-> ledger[e].amount]
           h == [e \in Confirmed(u)' |-> ledger'[e].amount]
<1>1. \A e \in Rows(u) : f[e] \in Int
    BY AmountType DEF Rows
<1>2. \A e \in Entry : ledger'[e] = IF e \in es THEN [ledger[e] EXCEPT !.status = "CONFIRMED"] ELSE ledger[e]
    BY DEF Confirm
<1>3. \A e \in es : /\ ledger'[e] # NULL /\ ledger'[e].user = ledger[e].user
                    /\ ledger'[e].amount = ledger[e].amount /\ ledger'[e].status = "CONFIRMED"
  <2> SUFFICES ASSUME NEW e \in es
               PROVE  /\ ledger'[e] # NULL /\ ledger'[e].user = ledger[e].user
                      /\ ledger'[e].amount = ledger[e].amount /\ ledger'[e].status = "CONFIRMED"
    OBVIOUS
  <2>1. ledger[e] \in Credit
    BY AmountType
  <2>2. [ledger[e] EXCEPT !.status = "CONFIRMED"] \in Credit
    BY <2>1 DEF Credit, Status
  <2>3. ledger'[e] = [ledger[e] EXCEPT !.status = "CONFIRMED"]
    BY <1>2
  <2> QED BY <2>1, <2>2, <2>3, CreditsAssumption DEF Credit
<1>4. C \subseteq Rows(u) /\ T \subseteq Rows(u) /\ C \cap T = {}
    BY DEF Confirmed
<1>5. Confirmed(u)' = C \cup T
  <2>1. \A e \in Entry : e \in Confirmed(u)' <=> e \in C \/ e \in T
    <3> SUFFICES ASSUME NEW e \in Entry PROVE e \in Confirmed(u)' <=> e \in C \/ e \in T
      OBVIOUS
    <3>1. CASE e \in es
      BY <1>3, <3>1 DEF Confirmed, Rows
    <3>2. CASE e \notin es
      BY <1>2, <3>2 DEF Confirmed, Rows
    <3> QED BY <3>1, <3>2
  <2>2. Confirmed(u)' \subseteq Entry /\ C \subseteq Entry /\ T \subseteq Entry
    BY DEF Confirmed, Rows
  <2> QED BY <2>1, <2>2
<1>6. \A e \in C \cup T : ledger'[e].amount = ledger[e].amount
    BY <1>2, <1>3 DEF Confirmed, Rows
<1>7. Total(u) = SumFunctionOnSet(g, C)
    BY DEF Total, SumFunction
<1>8. Total(u)' = SumFunctionOnSet(h, C \cup T)
  <2>1. DOMAIN h = C \cup T
    BY <1>5
  <2>2. Total(u)' = SumFunctionOnSet(h, DOMAIN h)
    BY DEF Total, SumFunction
  <2> QED BY <2>1, <2>2
<1>9. \A e \in C : f[e] \in Int /\ g[e] = f[e]
    BY <1>1, <1>4
<1>10. \A e \in C \cup T : f[e] \in Int /\ h[e] = f[e]
    BY <1>1, <1>4, <1>5, <1>6
<1>11. IsFiniteSet(C) /\ IsFiniteSet(T) /\ IsFiniteSet(C \cup T)
    BY <1>4, RowsFinite, FS_Subset, FS_Union
<1> HIDE DEF C, T, g, h
<1>12. SumFunctionOnSet(g, C) = SumFunctionOnSet(f, C)
    BY <1>9, <1>11, SumEqual
<1>13. SumFunctionOnSet(h, C \cup T) = SumFunctionOnSet(f, C \cup T)
    BY <1>10, <1>11, SumEqual
<1>14. SumFunctionOnSet(f, C \cup T) = SumFunctionOnSet(f, C) + SumFunctionOnSet(f, T)
    BY <1>4, <1>10, <1>11, SumUnion
<1> QED BY <1>7, <1>8, <1>12, <1>13, <1>14 DEF T

\* A step that brings nothing new and lowers no balance keeps a guest solvent.
LEMMA SolventKept ==
    ASSUME TypeOK, NEW u \in Guest, Solvent(u), Total(u)' \in Int, Total(u)' >= Total(u),
           \A e \in Spends(u)' : e \in Spends(u) /\ ledger'[e].amount = ledger[e].amount,
           \A c \in Asking(u)' : c \in Asking(u) /\ req'[c].credits = req[c].credits
    PROVE  Solvent(u)'
<1>1. Total(u) \in Int
    BY TotalType
<1>2. \A e \in Spends(u) : ledger[e].amount \in Int
    BY AmountType DEF Spends, Unsettled, Rows
<1>3. \A c \in Asking(u) : req[c].credits \in Int
    BY CreditsType DEF Asking, TypeOK
<1>4. /\ Total(u)' >= 0
      /\ \A e \in Spends(u)' : Total(u)' + ledger'[e].amount >= 0
      /\ \A c \in Asking(u)' : req'[c].credits <= Total(u)'
    BY <1>1, <1>2, <1>3 DEF Solvent
<1>5. /\ \A e \in Spends(u)' : Asking(u)' = {} /\ \A d \in Spends(u)' : d = e
      /\ \A c, d \in Asking(u)' : c = d
    BY DEF Solvent
<1> QED BY <1>4, <1>5 DEF Solvent

\* A step that confirms no row and moves no spend keeps everyone solvent.
LEMMA BalanceKept ==
    ASSUME IInv, BalanceInv, NoWithdrawalPaid' => NoWithdrawalPaid, crossed \subseteq crossed',
           \A e \in Entry : \/ ledger'[e] = ledger[e]
                            \/ /\ e[2] # "spend"
                               /\ NoWithdrawalPaid => Unconfirmed(ledger[e]) /\ Unconfirmed(ledger'[e])
                               /\ e[2] = "earn" /\ ledger'[e] # NULL => ledger'[e].amount >= 0,
           \A c \in Call : req'[c].stage = "book" => req'[c] = req[c] \/ req'[c].credits = 0
    PROVE  BalanceInv'
<1>1. TypeOK
    BY DEF IInv
<1>2. RewardsAdd'
    BY DEF BalanceInv, RewardsAdd
<1>3. ASSUME NoWithdrawalPaid, NEW u \in Guest, u \notin crossed PROVE Solvent(u)'
  <2>1. Total(u)' = Total(u) /\ Total(u) \in Int
    BY <1>1, <1>3, TotalKept, TotalType
  <2>2. \A e \in Spends(u)' : e \in Spends(u) /\ ledger'[e].amount = ledger[e].amount
    BY DEF Spends, Unsettled, Rows
  <2>3. \A c \in Asking(u)' : c \in Asking(u) /\ req'[c].credits = req[c].credits
    BY DEF Asking
  <2>4. Solvent(u)
    BY <1>3 DEF BalanceInv, SolventUnlessCrossed
  <2> QED BY <1>1, <2>1, <2>2, <2>3, <2>4, SolventKept
<1> QED BY <1>2, <1>3 DEF BalanceInv, SolventUnlessCrossed

\* A booking is initialised: unless it crosses another spend, the balance covers it.
LEMMA ReadTotalBalance ==
    ASSUME IInv, BalanceInv, NEW c \in Call, NEW b \in Booking, NEW asked \in Amount \cup {0},
           ReadTotal(c, b, asked)
    PROVE  BalanceInv'
<1> USE CreditsAssumption
<1> DEFINE v == GuestOf[b]
           n == CreditsToApply(v, asked)
           r == [stage |-> "book", id |-> b, from |-> v, to |-> NULL, credits |-> n]
<1>1. /\ req' = [req EXCEPT ![c] = r] /\ UNCHANGED <<ledger, payment, job, crashes>> /\ TypeOK
      /\ crossed \subseteq crossed' /\ req[c].stage = "idle"
      /\ n > 0 /\ v \notin crossed' => Unsettled(v) = {} /\ Asking(v) = {}
    BY DEF ReadTotal, Asking, IInv
<1>2. /\ n \in Nat /\ v \in Guest /\ (n > 0 => n <= Total(v))
  <2>1. \A k \in Amount \cup {0} : k \in Nat
    OBVIOUS
  <2> QED BY <2>1 DEF CreditsToApply
<1> HIDE DEF n, v
<1>3. /\ req'[c] = r /\ \A d \in Call : d # c => req'[d] = req[d]
    BY <1>1 DEF TypeOK
<1>4. CASE n = 0
    BY <1>1, <1>3, <1>4, BalanceKept DEF NoWithdrawalPaid
<1>5. CASE n > 0
  <2>1. RewardsAdd'
    BY <1>1 DEF BalanceInv, RewardsAdd
  <2>2. ASSUME NoWithdrawalPaid, NEW u \in Guest, u \notin crossed' PROVE Solvent(u)'
    <3>1. Total(u)' = Total(u) /\ Total(u) \in Int
      BY <1>1, TotalKept, TotalType
    <3>2. Spends(u)' = Spends(u) /\ Solvent(u)
      BY <1>1, <2>2 DEF Spends, Unsettled, Rows, BalanceInv, SolventUnlessCrossed
    <3>3. CASE u # v
      <4>1. \A d \in Asking(u)' : d \in Asking(u) /\ req'[d].credits = req[d].credits
        BY <1>3, <3>3 DEF Asking
      <4> QED BY <1>1, <3>1, <3>2, <4>1, SolventKept
    <3>4. CASE u = v
      <4>1. Spends(u)' = {} /\ Asking(u)' = {c}
        <5>1. Spends(u) = {} /\ Asking(u) = {}
          BY <1>1, <1>5, <2>2, <3>4 DEF Spends
        <5>2. \A d \in Call : d \in Asking(u)' <=> d = c
          BY <1>3, <1>5, <3>4, <5>1 DEF Asking
        <5> QED BY <3>2, <5>1, <5>2 DEF Asking
      <4>2. req'[c].credits <= Total(u)'
        BY <1>2, <1>3, <1>5, <3>1, <3>4
      <4> QED BY <3>1, <3>2, <4>1, <4>2 DEF Solvent
    <3> QED BY <3>3, <3>4
  <2> QED BY <1>1, <2>1, <2>2 DEF BalanceInv, SolventUnlessCrossed, NoWithdrawalPaid
<1> QED BY <1>2, <1>4, <1>5

\* A booking is committed: the spend being asked for becomes the pending one.
LEMMA CommitBookingBalance ==
    ASSUME IInv, BalanceInv, NEW c \in Call, CommitBooking(c) PROVE BalanceInv'
<1> USE CreditsAssumption
<1> DEFINE v == req[c].from
           n == req[c].credits
<1>1. /\ req[c].stage = "book" /\ TypeOK /\ Shape(c) /\ req[c] \in Request
      /\ UNCHANGED <<job, crashes, crossed>> /\ req' = [req EXCEPT ![c] = Idle]
    BY DEF CommitBooking, IInv, TypeOK
<1>2. PICK b \in Booking : b = req[c].id /\ payment[b] = "ABSENT" /\ v \in Guest
    BY <1>1 DEF Shape
<1>3. n \in Int /\ -n \in Int /\ Earned[b] \in Nat
    BY <1>1, CreditsType
<1> DEFINE spend == <<b, "spend">>
           earn == <<b, "earn">>
           paid == IF n > 0 THEN Pending(v, -n) ELSE ledger[spend]
<1>4. /\ spend \in Entry /\ earn \in Entry /\ spend # earn /\ spend[1] = b /\ earn[1] = b
      /\ spend[2] = "spend" /\ earn[2] = "earn"
    BY EntryType
<1>5. ledger[spend] = NULL /\ ledger[earn] = NULL
    BY <1>2, <1>4 DEF IInv, UnpaidHasNoRows
<1>6. /\ ledger'[earn] = Pending(v, Earned[b]) /\ ledger'[spend] = paid
      /\ \A e \in Entry : e # earn /\ e # spend => ledger'[e] = ledger[e]
  <2>1. ledger' = [ledger EXCEPT ![earn] = Pending(v, Earned[b]), ![spend] = paid]
    BY <1>1, <1>2, <1>4 DEF CommitBooking, TypeOK
  <2> HIDE DEF paid, spend, earn
  <2> QED BY <2>1, <1>1, <1>4 DEF TypeOK
<1>7. NoWithdrawalPaid' => NoWithdrawalPaid
    BY <1>1, <1>2 DEF CommitBooking, NoWithdrawalPaid, TypeOK
<1>8. req'[c].stage = "idle" /\ \A d \in Call : d # c => req'[d] = req[d]
    BY <1>1, IdleType DEF TypeOK
<1>9. Pending(v, Earned[b]).amount = Earned[b] /\ Pending(v, Earned[b]).status = "PENDING"
    BY DEF Pending
<1>10. CASE ~(n > 0)
  <2>1. ledger'[spend] = ledger[spend]
    BY <1>6, <1>10
  <2> HIDE DEF spend, earn, n, v
  <2> QED BY <1>1, <1>3, <1>4, <1>5, <1>6, <1>7, <1>8, <1>9, <2>1, BalanceKept DEF Unconfirmed
<1>11. CASE n > 0
  <2>1. /\ paid = Pending(v, -n) /\ paid # NULL /\ paid.user = v /\ paid.amount = -n
        /\ paid.status = "PENDING"
    BY <1>2, <1>3, <1>11, PendingType DEF Pending
  <2> HIDE DEF spend, earn, paid, n, v
  <2>2. RewardsAdd'
    BY <1>3, <1>4, <1>6, <1>9 DEF BalanceInv, RewardsAdd
  <2>3. ASSUME NoWithdrawalPaid, NEW u \in Guest, u \notin crossed PROVE Solvent(u)'
    <3>1. Solvent(u)
      BY <2>3 DEF BalanceInv, SolventUnlessCrossed
    <3>2. Total(u)' = Total(u) /\ Total(u) \in Int
      <4>1. \A e \in Entry : ledger'[e] = ledger[e]
                             \/ (Unconfirmed(ledger[e]) /\ Unconfirmed(ledger'[e]))
        BY <1>5, <1>6, <1>9, <2>1 DEF Unconfirmed
      <4> QED BY <1>1, <4>1, TotalKept, TotalType
    <3>3. \A e \in Spends(u)' : (e # spend => e \in Spends(u) /\ ledger'[e] = ledger[e])
                                /\ (e = spend => u = v)
      BY <1>4, <1>6, <2>1 DEF Spends, Unsettled, Rows
    <3>4. \A d \in Asking(u)' : d # c /\ d \in Asking(u) /\ req'[d] = req[d]
      BY <1>8 DEF Asking
    <3>5. CASE u # v
      BY <1>1, <3>1, <3>2, <3>3, <3>4, <3>5, SolventKept
    <3>6. CASE u = v
      <4>1. c \in Asking(u)
        BY <1>1, <1>11, <3>6 DEF Asking, n, v
      <4>2. Spends(u) = {} /\ Asking(u)' = {} /\ n <= Total(u)
        BY <3>1, <3>4, <4>1 DEF Solvent, n
      <4>3. \A e \in Spends(u)' : e = spend /\ Total(u) + ledger'[e].amount >= 0
        BY <1>3, <1>6, <2>1, <3>2, <3>3, <4>2
      <4> QED BY <3>1, <3>2, <4>2, <4>3 DEF Solvent
    <3> QED BY <3>5, <3>6
  <2> QED BY <1>1, <1>7, <2>2, <2>3 DEF BalanceInv, SolventUnlessCrossed
<1> QED BY <1>3, <1>10, <1>11

\* Pending rows of a booking are confirmed: its spend is the only one on its way.
LEMMA ConfirmBalance ==
    ASSUME IInv, BalanceInv, NoWithdrawalPaid' => NoWithdrawalPaid, UNCHANGED <<req, crossed>>,
           NEW p, NEW es \in SUBSET Entry, Confirm(es), \A e \in es : ledger[e] # NULL,
           NoWithdrawalPaid' =>
             p \in Booking /\ \A e \in es : ledger[e].status = "PENDING" /\ e[1] = p
    PROVE  BalanceInv'
<1> USE CreditsAssumption
<1>1. TypeOK
    BY DEF IInv
<1>2. \A e \in Entry : /\ ledger'[e] = NULL <=> ledger[e] = NULL
                       /\ e \notin es => ledger'[e] = ledger[e]
    BY <1>1, ConfirmEffect
<1>3. \A e \in es : ledger'[e].amount = ledger[e].amount /\ ledger'[e].status = "CONFIRMED"
  <2> SUFFICES ASSUME NEW e \in es
               PROVE  ledger'[e].amount = ledger[e].amount /\ ledger'[e].status = "CONFIRMED"
    OBVIOUS
  <2>1. ledger[e] \in Credit /\ ledger'[e] = [ledger[e] EXCEPT !.status = "CONFIRMED"]
    BY <1>1, AmountType DEF Confirm
  <2> QED BY <2>1 DEF Credit
<1>4. RewardsAdd'
    BY <1>2, <1>3 DEF BalanceInv, RewardsAdd
<1>5. ASSUME NoWithdrawalPaid', NEW u \in Guest, u \notin crossed PROVE Solvent(u)'
  <2> DEFINE f == [e \in Rows(u) |-> ledger[e].amount]
             T == es \cap Rows(u)
             spend == <<p, "spend">>
  <2>1. Solvent(u) /\ RewardsAdd /\ p \in Booking
    BY <1>5 DEF BalanceInv, SolventUnlessCrossed
  <2>2. /\ \A e \in es : ledger[e].status = "PENDING" /\ e[1] = p
        /\ \A e \in es : e = spend \/ e[2] = "earn"
    BY <1>5, EntryType
  <2>3. Total(u)' = Total(u) + SumFunctionOnSet(f, T)
    BY <1>1, <2>2, TotalConfirm
  <2>4. IsFiniteSet(T) /\ Total(u) \in Int
    BY <1>1, RowsFinite, FS_Subset, TotalType
  <2>5. \A e \in T : e \in Rows(u) /\ e \in Entry /\ ledger[e] # NULL
    BY DEF Rows
  <2>6. \A e \in T : f[e] = ledger[e].amount /\ f[e] \in Int
    BY <1>1, <2>5, AmountType
  <2>7. \A e \in Spends(u)' : e \notin es /\ e \in Spends(u) /\ ledger'[e].amount = ledger[e].amount
    BY <1>2, <1>3 DEF Spends, Unsettled, Rows
  <2>8. Asking(u)' = Asking(u) /\ \A c \in Call : req'[c] = req[c]
    BY DEF Asking
  <2>9. CASE spend \in T /\ spend \in Spends(u)
    <3>1. ledger[spend].amount \in Int /\ Total(u) + ledger[spend].amount >= 0
      BY <2>1, <2>6, <2>9 DEF Solvent
    <3>2. \A e \in T \ {spend} : f[e] \in Nat
      BY <2>1, <2>2, <2>5, <2>6 DEF RewardsAdd
    <3>3. f[spend] = ledger[spend].amount
      BY <2>6, <2>9
    <3> HIDE DEF f, T, spend
    <3>4. SumFunctionOnSet(f, T \ {spend}) \in Nat
      BY <2>4, <3>2, FS_Subset, SumNat
    <3>5. SumFunctionOnSet(f, T) = f[spend] + SumFunctionOnSet(f, T \ {spend})
      BY <2>4, <2>6, <2>9, SumRemove
    <3>6. Total(u)' >= 0
      BY <2>3, <2>4, <3>1, <3>3, <3>4, <3>5
    <3>7. Asking(u)' = {}
      BY <2>1, <2>8, <2>9 DEF Solvent
    <3>8. Spends(u)' = {}
      <4>1. \A e \in Spends(u)' : e = spend /\ e \notin es
        BY <2>1, <2>7, <2>9 DEF Solvent
      <4> QED BY <4>1, <2>9 DEF T
    <3> QED BY <3>6, <3>7, <3>8 DEF Solvent
  <2>10. CASE spend \notin T \/ spend \notin Spends(u)
    <3>1. \A e \in T : f[e] \in Nat
      <4> SUFFICES ASSUME NEW e \in T PROVE f[e] >= 0
        BY <2>6
      <4>1. CASE e[2] = "earn"
        BY <2>1, <2>5, <2>6, <4>1 DEF RewardsAdd
      <4>2. CASE e = spend
        <5>1. e \notin Spends(u) /\ e[2] = "spend" /\ ledger[e].status = "PENDING"
          BY <2>2, <2>10, <4>2
        <5>2. ~(ledger[e].amount < 0)
          BY <2>5, <5>1 DEF Spends, Unsettled
        <5> QED BY <2>6, <5>2
      <4> QED BY <2>2, <4>1, <4>2
    <3> HIDE DEF f, T
    <3>2. SumFunctionOnSet(f, T) \in Nat
      BY <2>4, <3>1, SumNat
    <3>3. Total(u)' \in Int /\ Total(u)' >= Total(u)
      BY <2>3, <2>4, <3>2
    <3>4. \A c \in Asking(u)' : c \in Asking(u) /\ req'[c].credits = req[c].credits
      BY <2>8 DEF Asking
    <3> QED BY <1>1, <2>1, <2>7, <3>3, <3>4, SolventKept
  <2> QED BY <2>9, <2>10
<1> QED BY <1>4, <1>5 DEF BalanceInv, SolventUnlessCrossed

\* A payment that is complete stays so: withdrawals are paid for good.
LEMMA PaymentsBalance ==
    ASSUME IInv, BalanceInv, NEW p \in Booking \cup Withdrawal,
           \/ p \in Booking /\ (UpdatePayment(p) \/ PollCryptoPayment(p))
           \/ p \in Withdrawal /\ CompleteWithdrawal(p)
    PROVE  BalanceInv'
<1>1. TypeOK
    BY DEF IInv
<1>2. payment' = [payment EXCEPT ![p] = "COMPLETED"] /\ UNCHANGED <<req, crossed>>
    BY DEF UpdatePayment, PollCryptoPayment, CompleteWithdrawal
<1>3. NoWithdrawalPaid' => NoWithdrawalPaid
    BY <1>1, <1>2 DEF NoWithdrawalPaid, TypeOK
<1>4. CASE p \in Booking /\ UpdatePayment(p)
  <2> DEFINE es == Entries(p)
  <2>1. /\ es \in SUBSET Entry /\ Confirm(es) /\ payment[p] = "PENDING"
        /\ \A e \in es : ledger[e] # NULL /\ e[1] = p
    BY <1>4 DEF UpdatePayment, Entries
  <2>2. ASSUME NoWithdrawalPaid, NEW e \in es PROVE ledger[e].status = "PENDING"
    <3>1. ledger[e].status # "CONFIRMED"
      BY <2>1, <2>2 DEF IInv, ConfirmedWasPaid
    <3>2. ledger[e].status \in Status
      BY <1>1, <2>1, AmountType
    <3> QED BY <3>1, <3>2 DEF Status
  <2> HIDE DEF es
  <2> QED BY <1>2, <1>3, <1>4, <2>1, <2>2, ConfirmBalance
<1>5. CASE PollCryptoPayment(p) \/ CompleteWithdrawal(p)
    BY <1>2, <1>3, <1>5, BalanceKept DEF PollCryptoPayment, CompleteWithdrawal
<1> QED BY <1>4, <1>5

\* The job confirms a row: of a booking, as long as no withdrawal has been paid.
LEMMA ConfirmCreditBalance ==
    ASSUME IInv, BalanceInv, NEW p \in Booking \cup Withdrawal, ConfirmCredit(p)
    PROVE  BalanceInv'
<1>1. p \in job /\ UNCHANGED <<payment, req, crossed>> /\ TypeOK
    BY DEF ConfirmCredit, IInv
<1>2. NoWithdrawalPaid' => NoWithdrawalPaid /\ p \in Booking
    BY <1>1 DEF IInv, JobIsComplete, NoWithdrawalPaid
<1>3. CASE Matches(p) = {}
    BY <1>1, <1>2, <1>3, BalanceKept DEF ConfirmCredit
<1>4. CASE Matches(p) # {}
  <2>1. PICK e \in Matches(p) : Confirm({e})
    BY <1>4 DEF ConfirmCredit
  <2>2. /\ e \in Entry /\ ledger[e] # NULL /\ ledger[e].status = "PENDING"
        /\ p \in Withdrawal \/ e[1] = p
    BY DEF Matches, MatchesAnyStatus
  <2>3. NoWithdrawalPaid' => p \in Booking /\ p \notin Withdrawal
    BY <1>2, CreditsAssumption
  <2> QED BY <1>1, <1>2, <2>1, <2>2, <2>3, ConfirmBalance
<1> QED BY <1>3, <1>4

\* A transfer adds pending rows of its own, and moves no spend of a booking.
LEMMA TransferBalance ==
    ASSUME IInv, BalanceInv, NEW c \in Call,
           \/ \E x \in Transfer, from, to \in Guest, amount \in Amount :
                CheckTransfer(c, x, from, to, amount)
           \/ Debit(c) \/ Credited(c)
    PROVE  BalanceInv'
<1> USE CreditsAssumption
<1>1. TypeOK /\ Shape(c)
    BY DEF IInv
<1>2. UNCHANGED <<payment, crossed>> /\ (NoWithdrawalPaid' => NoWithdrawalPaid)
    BY DEF CheckTransfer, Debit, Credited, NoWithdrawalPaid
<1>3. PICK r : r.stage # "book" /\ req' = [req EXCEPT ![c] = r]
  <2>1. [req[c] EXCEPT !.stage = "credit"].stage = "credit"
    BY <1>1 DEF TypeOK, Request
  <2> QED BY <2>1, IdleType DEF CheckTransfer, Debit, Credited
<1>4. \A d \in Call : req'[d].stage = "book" => req'[d] = req[d]
    BY <1>1, <1>3 DEF TypeOK
<1>5. \A e \in Entry : \/ ledger'[e] = ledger[e]
                       \/ /\ e[1] \in Transfer /\ e[2] \in {"debit", "credit"}
                          /\ ledger'[e].status = "PENDING"
  <2>1. CASE UNCHANGED ledger
    BY <2>1
  <2>2. ASSUME NEW k \in {"debit", "credit"}, NEW u, NEW n, req[c].stage = k,
               ledger' = [ledger EXCEPT ![<<req[c].id, k>>] = Pending(u, n)]
        PROVE  \A e \in Entry : \/ ledger'[e] = ledger[e]
                                \/ /\ e[1] \in Transfer /\ e[2] \in {"debit", "credit"}
                                   /\ ledger'[e].status = "PENDING"
    <3>1. req[c].id \in Transfer
      BY <1>1, <2>2 DEF Shape
    <3>2. Pending(u, n).status = "PENDING"
      BY DEF Pending
    <3> QED BY <1>1, <2>2, <3>1, <3>2 DEF TypeOK
  <2> QED BY <2>1, <2>2 DEF CheckTransfer, Debit, Credited
<1>6. NoWithdrawalPaid => \A e \in Entry : e[1] \in Transfer => Unconfirmed(ledger[e])
    BY DEF IInv, ConfirmedWasPaid, Unconfirmed
<1>7. \A e \in Entry : \/ ledger'[e] = ledger[e]
                       \/ /\ e[2] # "spend"
                          /\ NoWithdrawalPaid => Unconfirmed(ledger[e]) /\ Unconfirmed(ledger'[e])
                          /\ e[2] = "earn" /\ ledger'[e] # NULL => ledger'[e].amount >= 0
    BY <1>5, <1>6 DEF Unconfirmed
<1> QED BY <1>2, <1>4, <1>7, BalanceKept

\* It holds of an empty ledger.
LEMMA InitBalance == Init => BalanceInv
<1> SUFFICES ASSUME Init PROVE BalanceInv
    OBVIOUS
<1>1. RewardsAdd
    BY DEF Init, RewardsAdd
<1>2. ASSUME NEW u \in Guest PROVE Solvent(u)
  <2>1. Confirmed(u) = {} /\ Spends(u) = {} /\ Asking(u) = {}
    BY IdleType DEF Init, Confirmed, Spends, Unsettled, Rows, Asking
  <2>2. Total(u) = 0
    <3> DEFINE f == [e \in Confirmed(u) |-> ledger[e].amount]
    <3>1. Total(u) = SumFunctionOnSet(f, {})
      BY <2>1 DEF Total, SumFunction
    <3> HIDE DEF f
    <3> QED BY <3>1, SumEmpty
  <2> QED BY <2>1, <2>2 DEF Solvent
<1> QED BY <1>1, <1>2 DEF BalanceInv, SolventUnlessCrossed

\* Every step keeps it.
LEMMA NextBalance == ASSUME IInv, BalanceInv, [Next]_vars PROVE BalanceInv'
<1>1. ASSUME UNCHANGED <<ledger, payment, crossed>>,
             \A c \in Call : req'[c].stage = "book" => req'[c] = req[c]
      PROVE  BalanceInv'
    BY <1>1, BalanceKept DEF NoWithdrawalPaid
<1>2. CASE UNCHANGED vars
    BY <1>1, <1>2 DEF vars
<1>3. ASSUME NEW c \in Call, NEW b \in Booking, NEW asked \in Amount \cup {0}, ReadTotal(c, b, asked)
      PROVE  BalanceInv'
    BY <1>3, ReadTotalBalance
<1>4. ASSUME NEW c \in Call, NEW x \in Transfer, NEW from \in Guest, NEW to \in Guest,
             NEW amount \in Amount, CheckTransfer(c, x, from, to, amount)
      PROVE  BalanceInv'
    BY <1>4, TransferBalance
<1>5. ASSUME NEW c \in Call, CommitBooking(c) \/ Debit(c) \/ Credited(c) PROVE BalanceInv'
    BY <1>5, CommitBookingBalance, TransferBalance
<1>6. ASSUME NEW b \in Booking, UpdatePayment(b) \/ PollCryptoPayment(b) PROVE BalanceInv'
    BY <1>6, PaymentsBalance
<1>7. ASSUME NEW x \in Withdrawal, CompleteWithdrawal(x) PROVE BalanceInv'
    BY <1>7, PaymentsBalance
<1>8. ASSUME NEW p \in Booking \cup Withdrawal, ConfirmCredit(p) PROVE BalanceInv'
    BY <1>8, ConfirmCreditBalance
<1>9. CASE HandleUpdatePayments
    BY <1>1, <1>9 DEF HandleUpdatePayments
<1>10. CASE Restart
    BY <1>1, <1>10, IdleType DEF Restart
<1> QED BY <1>2, <1>3, <1>4, <1>5, <1>6, <1>7, <1>8, <1>9, <1>10 DEF Next

\* It holds in every state.
LEMMA BalanceInvariance == Spec => []BalanceInv
BY InitBalance, NextBalance, Invariance, PTL DEF Spec

-----------------------------------------------------------------------------
(* The theorems.                                                           *)

\* Rows, payments and requests have their types: a row is pending or confirmed.
THEOREM TypeCorrect == Spec => []TypeOK
<1>1. IInv => TypeOK
    BY DEF IInv
<1> QED BY <1>1, Invariance, PTL

\* Until the first withdrawal is paid, a row counts towards the balance only when
\* the payment of its booking is complete.
THEOREM ConfirmedCreditsWerePaid == Spec => []ConfirmedWasPaid
<1>1. IInv => ConfirmedWasPaid
    BY DEF IInv
<1> QED BY <1>1, Invariance, PTL

\* Until the first withdrawal is paid, a guest is overdrawn only through spends that
\* overlapped: whoever spends one booking at a time never owes credits.
THEOREM OverdraftsNeedOverlap == Spec => []OverdraftNeedsOverlap
<1>1. IInv /\ BalanceInv => OverdraftNeedsOverlap
  <2> SUFFICES ASSUME IInv, BalanceInv, NoWithdrawalPaid, NEW u \in Guest, u \notin crossed
               PROVE  ~(Total(u) < 0)
    BY DEF OverdraftNeedsOverlap
  <2>1. Total(u) \in Int /\ Total(u) >= 0
    BY TotalType DEF IInv, BalanceInv, SolventUnlessCrossed, Solvent
  <2> QED BY <2>1
<1> QED BY <1>1, Invariance, BalanceInvariance, PTL

=============================================================================
