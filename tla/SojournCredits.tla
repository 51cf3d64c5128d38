--------------------------- MODULE SojournCredits ---------------------------
(***************************************************************************)
(* The ledger of sojourn credits.  A booking spends credits and earns new  *)
(* ones, a guest may transfer some; each is a PENDING row of the ledger.   *)
(* The balance is the sum of a guest's CONFIRMED rows.                     *)
(*                                                                         *)
(* Rows are confirmed by the payment they refer to: by the webhook, all    *)
(* rows of the reference at once, or by handleUpdatePayments, one row in   *)
(* each run.  The reference of a withdrawal's payment is null, and a null  *)
(* condition is left out of the query: the job then confirms any row.      *)
(***************************************************************************)
EXTENDS Integers, FiniteSetsExt

CONSTANTS
    Guest,
    Booking,        \* bookings, each with its payment and its reference
    Crypto,         \* the bookings paid at NOWPayments, not at Paystack
    GuestOf,        \* the guest of a booking
    Earned,         \* creditsEarned2Percent of a booking
    Transfer,       \* ids of transfers
    Withdrawal,     \* ids of the payments of hosts' withdrawals
    Amount,         \* amounts guests ask to spend or to transfer
    Call,           \* concurrent requests
    MaxCrashes,     \* bound: restarts of the server
    NULL

\* The rows of the ledger, by what they stand for.
Entry == Booking \X {"spend", "earn"} \cup Transfer \X {"debit", "credit"}
Status == {"PENDING", "CONFIRMED"}
Credit == [user : Guest, amount : Int, status : Status]

ASSUME CreditsAssumption ==
    /\ Crypto \subseteq Booking
    /\ GuestOf \in [Booking -> Guest]
    /\ Earned \in [Booking -> Nat \ {0}]
    /\ Amount \subseteq Nat \ {0}
    /\ MaxCrashes \in Nat
    /\ IsFiniteSet(Booking) /\ IsFiniteSet(Transfer)
    /\ Booking \cap (Transfer \cup Withdrawal) = {}
    /\ NULL \notin Guest \cup Booking \cup Transfer \cup Credit

Stage == {"idle", "book", "debit", "credit"}
\* A request: the booking or transfer it is for, its guests, the credits it uses.
Request == [stage : Stage, id : Booking \cup Transfer \cup {NULL},
            from : Guest \cup {NULL}, to : Guest \cup {NULL}, credits : Amount \cup {0}]

VARIABLES
    ledger,     \* sojourn_credits
    payment,    \* payments.payment_status of bookings and withdrawals
    req,        \* requests, with the balance check behind them
    job,        \* completed payments a run of handleUpdatePayments still has to do
    crashes,
    crossed     \* history: guests whose spends have overlapped

vars == <<ledger, payment, req, job, crashes, crossed>>

TypeOK ==
    /\ ledger \in [Entry -> Credit \cup {NULL}]
    /\ payment \in [Booking \cup Withdrawal -> {"ABSENT", "PENDING", "COMPLETED"}]
    /\ req \in [Call -> Request]
    /\ job \subseteq Booking \cup Withdrawal
    /\ crashes \in 0 .. MaxCrashes
    /\ crossed \subseteq Guest

-----------------------------------------------------------------------------

Idle == [stage |-> "idle", id |-> NULL, from |-> NULL, to |-> NULL, credits |-> 0]

Init ==
    /\ ledger = [e \in Entry |-> NULL]
    /\ payment = [p \in Booking \cup Withdrawal |-> "ABSENT"]
    /\ req = [c \in Call |-> Idle]
    /\ job = {}
    /\ crashes = 0
    /\ crossed = {}

Rows(u) == {e \in Entry : ledger[e] # NULL /\ ledger[e].user = u}
Confirmed(u) == {e \in Rows(u) : ledger[e].status = "CONFIRMED"}
Total(u) == SumFunction([e \in Confirmed(u) |-> ledger[e].amount])

\* Spends of a guest the balance does not know of yet.
Unsettled(u) == {e \in Rows(u) : ledger[e].status = "PENDING" /\ ledger[e].amount < 0}

Pending(user, amount) == [user |-> user, amount |-> amount, status |-> "PENDING"]

\* Fault: the credits asked for are not compared with the balance.
CreditsToApplyUnchecked(u, asked) == asked
CreditsToApply(u, asked) == IF asked <= Total(u) THEN asked ELSE 0

-----------------------------------------------------------------------------
(* initializeTransaction, initializeCryptoTransaction.                     *)

ReadTotal(c, b, asked) ==
    LET u == GuestOf[b]
        credits == CreditsToApply(u, asked)
        overlaps == \/ Unsettled(u) # {}
                    \/ \E d \in Call : /\ req[d].stage = "book" /\ req[d].from = u
                                      /\ req[d].credits > 0
    IN  /\ req[c].stage = "idle" /\ payment[b] = "ABSENT" /\ \A d \in Call : req[d].id # b
        /\ req' = [req EXCEPT ![c] = [stage |-> "book", id |-> b, from |-> u, to |-> NULL,
                                      credits |-> credits]]
        /\ crossed' = crossed \cup (IF credits > 0 /\ overlaps THEN {u} ELSE {})
        /\ UNCHANGED <<ledger, payment, job, crashes>>

\* The provider has answered: payment, spend and reward are committed together.
CommitBooking(c) ==
    LET b == req[c].id
        u == req[c].from
        credits == req[c].credits
    IN  /\ req[c].stage = "book"
        /\ payment' = [payment EXCEPT ![b] = "PENDING"]
        /\ ledger' = [ledger EXCEPT ![<<b, "earn">>] = Pending(u, Earned[b]),
                                    ![<<b, "spend">>] = IF credits > 0 THEN Pending(u, -credits)
                                                        ELSE @]
        /\ req' = [req EXCEPT ![c] = Idle]
        /\ UNCHANGED <<job, crashes, crossed>>

-----------------------------------------------------------------------------
(* transferSojournCredits: no transaction, each row is inserted on its own. *)

CheckTransfer(c, x, from, to, amount) ==
    /\ req[c].stage = "idle"
    /\ ledger[<<x, "debit">>] = NULL /\ \A d \in Call : req[d].id # x
    /\ Total(from) > 0 /\ amount <= Total(from)
    /\ req' = [req EXCEPT ![c] = [stage |-> "debit", id |-> x, from |-> from, to |-> to,
                                  credits |-> amount]]
    /\ UNCHANGED <<ledger, payment, job, crashes, crossed>>

Debit(c) ==
    /\ req[c].stage = "debit"
    /\ ledger' = [ledger EXCEPT ![<<req[c].id, "debit">>] = Pending(req[c].from, -req[c].credits)]
    /\ req' = [req EXCEPT ![c].stage = "credit"]
    /\ UNCHANGED <<payment, job, crashes, crossed>>

Credited(c) ==
    /\ req[c].stage = "credit"
    /\ ledger' = [ledger EXCEPT ![<<req[c].id, "credit">>] = Pending(req[c].to, req[c].credits)]
    /\ req' = [req EXCEPT ![c] = Idle]
    /\ UNCHANGED <<payment, job, crashes, crossed>>

-----------------------------------------------------------------------------
(* Payments complete and confirm the rows that refer to them.              *)

Entries(p) == {e \in Entry : e[1] = p /\ ledger[e] # NULL}
Confirm(es) ==
    ledger' = [e \in Entry |-> IF e \in es THEN [ledger[e] EXCEPT !.status = "CONFIRMED"]
                               ELSE ledger[e]]

\* The webhook of Paystack: the payment and all its rows in one transaction.
UpdatePayment(b) ==
    /\ b \in Booking \ Crypto /\ payment[b] = "PENDING"
    /\ payment' = [payment EXCEPT ![b] = "COMPLETED"]
    /\ Confirm(Entries(b))
    /\ UNCHANGED <<req, job, crashes, crossed>>

\* The poller of NOWPayments leaves the rows to handleUpdatePayments.
PollCryptoPayment(b) ==
    /\ b \in Crypto /\ payment[b] = "PENDING"
    /\ payment' = [payment EXCEPT ![b] = "COMPLETED"]
    /\ UNCHANGED <<ledger, req, job, crashes, crossed>>

\* A host's withdrawal has been paid, see HostWallet.
CompleteWithdrawal(x) ==
    /\ payment[x] # "COMPLETED"
    /\ payment' = [payment EXCEPT ![x] = "COMPLETED"]
    /\ UNCHANGED <<ledger, req, job, crashes, crossed>>

\* Faults: the payments are not filtered; the query does not ask for a pending row.
AllPayments == {p \in DOMAIN payment : payment[p] # "ABSENT"}
MatchesAnyStatus(p) ==
    {e \in Entry : ledger[e] # NULL /\ (p \in Withdrawal \/ e[1] = p)}

FulfilledTransactions == {p \in DOMAIN payment : payment[p] = "COMPLETED"}
Matches(p) == {e \in MatchesAnyStatus(p) : ledger[e].status = "PENDING"}

HandleUpdatePayments ==
    /\ job = {} /\ FulfilledTransactions # {}
    /\ job' = FulfilledTransactions
    /\ UNCHANGED <<ledger, payment, req, crashes, crossed>>

\* findOne: any row that matches.
ConfirmCredit(p) ==
    /\ p \in job
    /\ job' = job \ {p}
    /\ IF Matches(p) = {} THEN UNCHANGED ledger ELSE \E e \in Matches(p) : Confirm({e})
    /\ UNCHANGED <<payment, req, crashes, crossed>>

Restart ==
    /\ crashes < MaxCrashes
    /\ crashes' = crashes + 1
    /\ req' = [c \in Call |-> Idle]
    /\ job' = {}
    /\ UNCHANGED <<ledger, payment, crossed>>

-----------------------------------------------------------------------------

Next ==
    \/ \E c \in Call :
         \/ \E b \in Booking, asked \in Amount \cup {0} : ReadTotal(c, b, asked)
         \/ \E x \in Transfer, from, to \in Guest, amount \in Amount :
              CheckTransfer(c, x, from, to, amount)
         \/ CommitBooking(c) \/ Debit(c) \/ Credited(c)
    \/ \E b \in Booking : UpdatePayment(b) \/ PollCryptoPayment(b)
    \/ \E x \in Withdrawal : CompleteWithdrawal(x)
    \/ HandleUpdatePayments
    \/ \E p \in Booking \cup Withdrawal : ConfirmCredit(p)
    \/ Restart

Spec == Init /\ [][Next]_vars

\* Cron starts the job again and again, and a run gets through its payments.
Fairness ==
    /\ WF_vars(HandleUpdatePayments)
    /\ \A p \in Booking \cup Withdrawal : WF_vars(ConfirmCredit(p))

FairSpec == Spec /\ Fairness

-----------------------------------------------------------------------------
(* Properties.                                                             *)

NoWithdrawalPaid == \A x \in Withdrawal : payment[x] # "COMPLETED"

\* Only money confirms credits: as long as no withdrawal has been paid, a row
\* counts towards the balance only when its booking's payment is complete
\* (updatePayment, handleUpdatePayments).  The first paid withdrawal ends this:
\* its null reference matches the rows of transfers and of unpaid bookings.
ConfirmedWasPaid ==
    NoWithdrawalPaid =>
        \A e \in Entry : ledger[e] # NULL /\ ledger[e].status = "CONFIRMED" =>
            e[1] \in Booking /\ payment[e[1]] = "COMPLETED"

\* The balance is read when a booking is initialised and debited when its payment
\* completes: a guest is overdrawn only through bookings initialised while an
\* earlier spend was still unsettled (payments.service.ts:209-214).
OverdraftNeedsOverlap ==
    NoWithdrawalPaid => \A u \in Guest : Total(u) < 0 => u \in crossed

\* A completed payment's spend and reward reach the balance in the end, one row in
\* each run of the job, across restarts (tasks.service.ts:250-258).
CreditsAreConfirmed ==
    \A b \in Booking : payment[b] = "COMPLETED" ~>
        \A e \in Entries(b) : ledger[e].status = "CONFIRMED"

=============================================================================
