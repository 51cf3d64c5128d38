---------------------------- MODULE Reservations ----------------------------
(***************************************************************************)
(* The life of a booking and of its payment, from the HTTP request that    *)
(* asks for a stay to the end of the stay.                                 *)
(*                                                                         *)
(* One PostgreSQL database holds a booking row and a payment row per       *)
(* accepted request.  They are read and written, with no lock between them,*)
(* by the request handlers (one database transaction per request), by the  *)
(* cron jobs of tasks.service.ts (each save is a transaction of its own)   *)
(* and by the wallet endpoints, which re-save every payment of a host.     *)
(*                                                                         *)
(* A TypeORM save writes the columns in which the entity in memory differs *)
(* from the row.  An entity that was read earlier therefore brings back its*)
(* old values: the model keeps the entities that wait to be saved as sets  *)
(* of records (bookSaves, paySaves), written to the rows by later steps.   *)
(***************************************************************************)
EXTENDS Integers, FiniteSets

CONSTANTS
    Request,        \* the initialise requests; also the id of the booking each creates
    Property,       \* the listings
    Host,           \* the owners of the listings
    HostOf,         \* [Property -> Host]
    Stays,          \* what a guest may ask for: property, dates, means of payment
    Run,            \* overlapping runs of one cron job
    Call,           \* concurrent calls of one wallet or verification endpoint
    HoldTime,       \* the 30 minutes a slot is held for an unpaid booking
    DayLength,      \* 24 hours
    MaxTime,        \* bound: the clock stops here
    MaxDeliveries,  \* bound: deliveries of one charge.success event
    MaxCrashes,     \* bound: restarts of the server
    NULL            \* a NULL column

Time == 0 .. MaxTime
Method == {"CARD", "CRYPTO"}
Stay == [property : Property, checkIn : Nat, checkOut : Nat, method : Method]

ASSUME ConstantsAssumption ==
    /\ HostOf \in [Property -> Host]
    /\ Stays \subseteq Stay
    /\ HoldTime \in Nat /\ DayLength \in Nat \ {0} /\ MaxTime \in Nat
    /\ MaxDeliveries \in Nat /\ MaxCrashes \in Nat
    /\ NULL \notin Nat

BookingStatus == {"PENDING", "PAID_PENDING", "PROCESSING", "FINISHED", "CANCELLED"}
PaymentStatus == {"PENDING", "COMPLETED"}
PaidStatus == {"PAID_PENDING", "PROCESSING", "FINISHED"}

Job == {"handleBookingsInProgress", "handleFinshedBookings",
        "handleCancelBookings", "handleCancelCryptoBookings"}
Endpoint == {"savePayments", "verifyCryptoTransaction"}

\* An entity in memory, changed or only read, whose save has not run yet.
BookingSave == [by : Job, run : Run, id : Request, status : BookingStatus]
PaymentSave == [by : Endpoint, call : Call, id : Request, status : PaymentStatus]

VARIABLES
    now,        \* the wall clock
    dto,        \* what each request asks for
    phase,      \* of each request: "idle", "checked", "committed" or "refused"
    status,     \* bookings.status, "ABSENT" while there is no row
    hold,       \* bookings.holding_window
    payment,    \* payments.payment_status, "ABSENT" while there is no row
    charged,    \* the provider has taken the guest's money
    delivered,  \* deliveries of the provider's event so far
    polls,      \* crypto payments whose status the poller is asking for
    bookSaves,  \* booking entities waiting to be saved by a cron job
    paySaves,   \* payment entities waiting to be saved by an endpoint
    crashes,    \* restarts so far
    raced,      \* history: pairs of requests that were in flight together
    revived     \* history: bookings that left CANCELLED

rows == <<status, hold, payment>>
provider == <<charged, delivered>>
inFlight == <<polls, bookSaves, paySaves>>
history == <<raced, revived>>
vars == <<now, dto, phase, rows, provider, inFlight, crashes, history>>

TypeOK ==
    /\ now \in Nat
    /\ dto \in [Request -> Stays]
    /\ phase \in [Request -> {"idle", "checked", "committed", "refused"}]
    /\ status \in [Request -> BookingStatus \cup {"ABSENT"}]
    /\ hold \in [Request -> Nat \cup {NULL}]
    /\ payment \in [Request -> PaymentStatus \cup {"ABSENT"}]
    /\ charged \in [Request -> BOOLEAN]
    /\ delivered \in [Request -> Nat]
    /\ polls \in SUBSET Request
    /\ bookSaves \in SUBSET BookingSave
    /\ paySaves \in SUBSET PaymentSave
    /\ crashes \in Nat
    /\ raced \in SUBSET SUBSET Request
    /\ revived \in SUBSET Request

-----------------------------------------------------------------------------
(* The availability query and the checks on the dates.                     *)

Exists(r) == status[r] # "ABSENT"

\* Math.ceil of the difference in days.
NumberOfNights(from, to) == (to - from + DayLength - 1) \div DayLength

\* Fault: compares the requested check-out instead of the check-in.
EndsInside(s, b) == b.checkIn <= s.checkOut /\ s.checkOut <= b.checkOut
StartsInside(s, b) == b.checkIn <= s.checkIn /\ s.checkIn <= b.checkOut
StartsBefore(s, b) == s.checkIn <= b.checkIn /\ b.checkIn <= s.checkOut

\* The WHERE clause as the query builder emits it.  The two string conditions
\* are joined by AND without brackets, and AND binds tighter than the OR inside
\* the second: the filter on the property and on the status only guards
\* StartsInside.
Conflicts(s, r) ==
    \/ /\ dto[r].property = s.property
       /\ status[r] \notin {"CANCELLED", "FINISHED"}
       /\ StartsInside(s, dto[r])
    \/ StartsBefore(s, dto[r])

\* Fault: only unpaid bookings block the calendar.
CheckAvailabilityOfPending(s) == \A r \in Request : status[r] = "PENDING" => ~Conflicts(s, r)
CheckAvailabilityOfListing(s) == \A r \in Request : Exists(r) => ~Conflicts(s, r)

DatesAreValid(s) ==
    /\ NumberOfNights(now, s.checkIn) >= 1
    /\ s.checkOut > s.checkIn
    /\ NumberOfNights(s.checkIn, s.checkOut) >= 1

-----------------------------------------------------------------------------
(* Guests' requests.                                                       *)

Init ==
    /\ now = 0
    /\ dto \in [Request -> Stays]
    /\ phase = [r \in Request |-> "idle"]
    /\ status = [r \in Request |-> "ABSENT"]
    /\ hold = [r \in Request |-> NULL]
    /\ payment = [r \in Request |-> "ABSENT"]
    /\ charged = [r \in Request |-> FALSE]
    /\ delivered = [r \in Request |-> 0]
    /\ polls = {} /\ bookSaves = {} /\ paySaves = {}
    /\ crashes = 0
    /\ raced = {} /\ revived = {}

Checked == {r \in Request : phase[r] = "checked"}

\* initializeTransaction and initializeCryptoTransaction up to the calls to the
\* payment provider: an unavailable listing or an invalid date refuses the
\* request, otherwise the handler goes on with what it has just read.
CheckRequest(r) ==
    /\ phase[r] = "idle"
    /\ IF CheckAvailabilityOfListing(dto[r]) /\ DatesAreValid(dto[r])
       THEN /\ phase' = [phase EXCEPT ![r] = "checked"]
            /\ raced' = raced \cup {{q, r} : q \in Checked}
       ELSE /\ phase' = [phase EXCEPT ![r] = "refused"]
            /\ UNCHANGED raced
    /\ UNCHANGED <<now, dto, rows, provider, inFlight, crashes, revived>>

\* The provider has answered: the handler inserts the booking and its payment
\* without looking at the calendar again, and the transaction commits.
CommitBooking(r) ==
    /\ phase[r] = "checked"
    /\ now + HoldTime <= MaxTime    \* bound: the window can still elapse
    /\ phase' = [phase EXCEPT ![r] = "committed"]
    /\ status' = [status EXCEPT ![r] = "PENDING"]
    /\ hold' = [hold EXCEPT ![r] = now + HoldTime]
    /\ payment' = [payment EXCEPT ![r] = "PENDING"]
    /\ UNCHANGED <<now, dto, provider, inFlight, crashes, history>>

\* The provider refuses or cannot be reached: the handler throws and the
\* transaction rolls back.
RollbackRequest(r) ==
    /\ phase[r] = "checked"
    /\ phase' = [phase EXCEPT ![r] = "refused"]
    /\ UNCHANGED <<now, dto, rows, provider, inFlight, crashes, history>>

\* Any booking that is not cancelled can be cancelled; its holding window and
\* its payment stay as they are.
CancelBooking(r) ==
    /\ status[r] \notin {"ABSENT", "CANCELLED"}
    /\ status' = [status EXCEPT ![r] = "CANCELLED"]
    /\ UNCHANGED <<now, dto, phase, hold, payment, provider, inFlight, crashes, history>>

-----------------------------------------------------------------------------
(* The payment providers and what reports their charges.                   *)

\* External: the guest pays by the link or to the address of the payment, also
\* after the booking has been cancelled.
Charge(r) ==
    /\ Exists(r)
    /\ ~charged[r]
    /\ charged' = [charged EXCEPT ![r] = TRUE]
    /\ UNCHANGED <<now, dto, phase, rows, delivered, inFlight, crashes, history>>

\* Fault: an event for a booking that is no longer pending is acknowledged only.
UpdatePaymentOfPending(r) ==
    /\ charged[r] /\ dto[r].method = "CARD"
    /\ delivered[r] < MaxDeliveries
    /\ delivered' = [delivered EXCEPT ![r] = @ + 1]
    /\ payment' = IF status[r] = "PENDING" THEN [payment EXCEPT ![r] = "COMPLETED"] ELSE payment
    /\ UNCHANGED <<now, dto, phase, status, hold, charged, inFlight, crashes, history>>

\* The charge.success webhook, delivered at least once.
UpdatePayment(r) ==
    /\ charged[r] /\ dto[r].method = "CARD"
    /\ delivered[r] < MaxDeliveries
    /\ delivered' = [delivered EXCEPT ![r] = @ + 1]
    /\ payment' = [payment EXCEPT ![r] = "COMPLETED"]
    /\ UNCHANGED <<now, dto, phase, status, hold, charged, inFlight, crashes, history>>

\* handleUpdateCryptoPaymentsToPaid asks the provider about each crypto payment
\* that is pending and whose booking still has a holding window.
PollCryptoPayment(r) ==
    /\ dto[r].method = "CRYPTO" /\ payment[r] = "PENDING" /\ hold[r] # NULL
    /\ polls' = polls \cup {r}
    /\ UNCHANGED <<now, dto, phase, rows, provider, bookSaves, paySaves, crashes, history>>

\* Fault: any answer completes the payment.
AnswerPollUnread(r) ==
    /\ r \in polls
    /\ polls' = polls \ {r}
    /\ payment' = [payment EXCEPT ![r] = "COMPLETED"]
    /\ UNCHANGED <<now, dto, phase, status, hold, provider, bookSaves, paySaves, crashes, history>>

\* The answer: "finished" re-reads the payment and completes it.
AnswerPoll(r) ==
    /\ r \in polls
    /\ polls' = polls \ {r}
    /\ payment' = IF charged[r] THEN [payment EXCEPT ![r] = "COMPLETED"] ELSE payment
    /\ UNCHANGED <<now, dto, phase, status, hold, provider, bookSaves, paySaves, crashes, history>>

-----------------------------------------------------------------------------
(* The cron jobs.  A job reads its rows in one query, decides for each row  *)
(* and saves each row on its own.                                           *)

Idle(job, run) == \A w \in bookSaves : ~(w.by = job /\ w.run = run)

Decisions(job, run, ids, newStatus) ==
    {[by |-> job, run |-> run, id |-> r, status |-> newStatus] : r \in ids}

\* Fault: the jobs also read bookings whose payment is pending.
GetAllWithPayment == {r \in Request : Exists(r)}
GetAllNoConstraints == {r \in Request : Exists(r) /\ payment[r] = "COMPLETED"}
GetAllBookings == {r \in Request : status[r] = "PENDING"}

Reads == UNCHANGED <<now, dto, phase, rows, provider, polls, paySaves, crashes, history>>

Open(r) == r \in GetAllNoConstraints /\ status[r] # "CANCELLED"
\* Faults: forgets the check-in; takes the check-in for the check-out; only
\* finishes a stay that another job has seen in progress.
IsNotOver(r) == dto[r].checkOut > now
IsOverAtCheckIn(r) == now >= dto[r].checkIn
IsOverInProgress(r) == now >= dto[r].checkOut /\ status[r] = "PROCESSING"
HasBegun(r) == dto[r].checkIn <= now /\ dto[r].checkOut > now
IsOver(r) == now >= dto[r].checkOut

HandleBookingsInProgress(run) ==
    LET job == "handleBookingsInProgress"
        begun == {r \in Request : Open(r) /\ HasBegun(r)}
        ahead == {r \in Request : Open(r) /\ dto[r].checkIn > now}
    IN  /\ Idle(job, run)
        /\ bookSaves' = bookSaves \cup Decisions(job, run, begun, "PROCESSING")
                                  \cup Decisions(job, run, ahead, "PAID_PENDING")
        /\ Reads

HandleFinshedBookings(run) ==
    LET job == "handleFinshedBookings"
        over == {r \in Request : Open(r) /\ IsOver(r)}
    IN  /\ Idle(job, run)
        /\ bookSaves' = bookSaves \cup Decisions(job, run, over, "FINISHED")
        /\ Reads

\* Faults: does not compare the window with the clock; takes the bookings with
\* a wallet address out of both jobs.
AnyWindow(method) ==
    {r \in GetAllBookings : hold[r] # NULL /\ payment[r] # "COMPLETED" /\ dto[r].method = method}
ElapsedCard(method) ==
    {r \in GetAllBookings : /\ hold[r] # NULL /\ hold[r] <= now
                            /\ payment[r] # "COMPLETED"
                            /\ dto[r].method = method /\ method = "CARD"}

\* The rows either cancelling job picks: unpaid, with an elapsed window.
Elapsed(method) ==
    {r \in GetAllBookings : /\ hold[r] # NULL /\ hold[r] <= now
                            /\ payment[r] # "COMPLETED"
                            /\ dto[r].method = method}

HandleCancelBookings(run) ==
    LET job == "handleCancelBookings"
    IN  /\ Idle(job, run)
        /\ bookSaves' = bookSaves \cup Decisions(job, run, Elapsed("CARD"), "CANCELLED")
        /\ Reads

HandleCancelCryptoBookings(run) ==
    LET job == "handleCancelCryptoBookings"
    IN  /\ Idle(job, run)
        /\ bookSaves' = bookSaves \cup Decisions(job, run, Elapsed("CRYPTO"), "CANCELLED")
        /\ Reads

\* Every job has set holdingWindow to null on the entity it saves.  The save
\* looks at nothing but the row's id.
SaveBooking(w) ==
    /\ w \in bookSaves
    /\ bookSaves' = bookSaves \ {w}
    /\ status' = [status EXCEPT ![w.id] = w.status]
    /\ hold' = [hold EXCEPT ![w.id] = NULL]
    /\ revived' = IF status[w.id] = "CANCELLED" /\ w.status # "CANCELLED"
                  THEN revived \cup {w.id} ELSE revived
    /\ UNCHANGED <<now, dto, phase, payment, provider, polls, paySaves, crashes, raced>>

-----------------------------------------------------------------------------
(* Endpoints that read payments and save them back.                        *)

\* getWalletById, addAccountDetails and addMoreBankAccounts read all payments
\* of the host to set their wallet ...
ReadHostPayments(h, call) ==
    LET ids == {r \in Request : payment[r] # "ABSENT" /\ HostOf[dto[r].property] = h}
    IN  /\ \A w \in paySaves : ~(w.by = "savePayments" /\ w.call = call)
        /\ paySaves' = paySaves \cup
             {[by |-> "savePayments", call |-> call, id |-> r, status |-> payment[r]] : r \in ids}
        /\ UNCHANGED <<now, dto, phase, rows, provider, polls, bookSaves, crashes, history>>

\* ... and verifyCryptoTransaction saves back a payment it finds completed.
VerifyCryptoTransaction(r, call) ==
    /\ payment[r] = "COMPLETED"
    /\ \A w \in paySaves : ~(w.by = "verifyCryptoTransaction" /\ w.call = call)
    /\ paySaves' = paySaves \cup
         {[by |-> "verifyCryptoTransaction", call |-> call, id |-> r, status |-> "COMPLETED"]}
    /\ UNCHANGED <<now, dto, phase, rows, provider, polls, bookSaves, crashes, history>>

SavePayment(w) ==
    /\ w \in paySaves
    /\ paySaves' = paySaves \ {w}
    /\ payment' = [payment EXCEPT ![w.id] = w.status]
    /\ UNCHANGED <<now, dto, phase, status, hold, provider, polls, bookSaves, crashes, history>>

-----------------------------------------------------------------------------

Tick ==
    /\ now < MaxTime
    /\ now' = now + 1
    /\ UNCHANGED <<dto, phase, rows, provider, inFlight, crashes, history>>

\* The server restarts: open transactions roll back, what was in memory is lost.
Crash ==
    /\ crashes < MaxCrashes
    /\ crashes' = crashes + 1
    /\ phase' = [r \in Request |-> IF phase[r] = "checked" THEN "refused" ELSE phase[r]]
    /\ polls' = {} /\ bookSaves' = {} /\ paySaves' = {}
    /\ UNCHANGED <<now, dto, rows, provider, history>>

Jobs(run) ==
    \/ HandleBookingsInProgress(run) \/ HandleFinshedBookings(run)
    \/ HandleCancelBookings(run) \/ HandleCancelCryptoBookings(run)

Next ==
    \/ \E r \in Request : \/ CheckRequest(r) \/ CommitBooking(r) \/ RollbackRequest(r)
                          \/ CancelBooking(r) \/ Charge(r) \/ UpdatePayment(r)
                          \/ PollCryptoPayment(r) \/ AnswerPoll(r)
    \/ \E run \in Run : Jobs(run)
    \/ \E h \in Host, call \in Call : ReadHostPayments(h, call)
    \/ \E r \in Request, call \in Call : VerifyCryptoTransaction(r, call)
    \/ \E w \in bookSaves : SaveBooking(w)
    \/ \E w \in paySaves : SavePayment(w)
    \/ Tick
    \/ Crash

Spec == Init /\ [][Next]_vars

-----------------------------------------------------------------------------
(* The tables of bookings for guest, host and admin.  A booking is one of   *)
(* its own guest and of the host of its listing.                           *)

CheckBookingStatus(s) ==
    CASE s = "PAID_PENDING" -> "confirmed"
      [] s = "PROCESSING" -> "in-progress"
      [] s = "FINISHED" -> "completed"
      [] s = "CANCELLED" -> "cancelled"
      [] OTHER -> "pending"

\* Fault: cancellation is offered on the day of check-in too.
IsCancellationOpenAtCheckIn(r) == NumberOfNights(now, dto[r].checkIn) >= 0
IsCancellationWindowOpen(r) == NumberOfNights(now, dto[r].checkIn) >= 2

TableRow(r) == [status |-> CheckBookingStatus(status[r]),
                isBookingCancellable |-> IsCancellationWindowOpen(r)]

\* A cancelled booking that was not paid is left out.
GetBookingsByGuestId ==
    [r \in {q \in Request : Exists(q) /\ ~(payment[q] # "COMPLETED" /\ status[q] = "CANCELLED")}
       |-> TableRow(r)]

\* Fault: the host's table leaves cancelled bookings out.
GetOpenBookingsByHostId ==
    [r \in {q \in Request : payment[q] = "COMPLETED" /\ status[q] # "CANCELLED"} |-> TableRow(r)]
GetBookingsByHostId ==
    [r \in {q \in Request : Exists(q) /\ payment[q] = "COMPLETED"} |-> TableRow(r)]

\* The status of the payment is not selected for the admin, so every cancelled
\* booking counts as not paid.
GetBookingsForAdmin ==
    [r \in {q \in Request : Exists(q) /\ status[q] # "CANCELLED"} |-> TableRow(r)]

Tables == {GetBookingsByGuestId, GetBookingsByHostId, GetBookingsForAdmin}

-----------------------------------------------------------------------------
(* Safety.                                                                 *)

\* Two stays that cannot both take place: same listing, a common night.
Overlap(a, b) ==
    /\ a.property = b.property
    /\ a.checkIn < b.checkOut /\ b.checkIn < a.checkOut

Active(r) == status[r] \notin {"ABSENT", "CANCELLED"}

\* The query may refuse too much but never too little: when a request gets past
\* it, no booking that can still take place overlaps the stay it asks for,
\* although the query lost its brackets and skips FINISHED bookings
\* (checkAvailabilityOfListing and the date checks of initializeTransaction).
CheckedStayIsFree ==
    [][\A r \in Request :
         phase[r] = "idle" /\ phase'[r] = "checked" =>
            \A b \in Request : Active(b) => ~Overlap(dto[r], dto[b])]_vars

\* A listing is let twice for the same night only if the two requests were in
\* flight together (the check is not repeated after the provider's answer) or
\* if a job brought a cancelled booking back.  One request after the other
\* never double-books, whatever the jobs, webhooks and restarts do in between.
DoubleBookingNeedsRace ==
    \A a, b \in Request :
        a # b /\ Active(a) /\ Active(b) /\ Overlap(dto[a], dto[b]) =>
            {a, b} \in raced \/ {a, b} \cap revived # {}

\* A payment is COMPLETED only if the provider has the money, in spite of the
\* payment entities the wallet endpoints and the verification save back late.
CompletedIsCharged == \A r \in Request : payment[r] = "COMPLETED" => charged[r]

\* No guest is expected, staying or gone without having been charged, even when
\* the job that says so saves a decision taken on rows that have changed since.
NoUnpaidStay == \A r \in Request : status[r] \in PaidStatus => charged[r]

\* A stay is never in progress before check-in nor finished before check-out,
\* in whatever order the saves of the two jobs reach the row.
NeverAheadOfClock ==
    \A r \in Request : /\ status[r] = "PROCESSING" => dto[r].checkIn <= now
                       /\ status[r] = "FINISHED" => dto[r].checkOut <= now

\* A pending booking always has its holding window: the cancelling jobs and the
\* crypto poller skip a booking without one, so the slot would be held for ever.
PendingIsHeld == \A r \in Request : status[r] = "PENDING" => hold[r] \in Nat

\* A job cancels a booking only when its holding window has elapsed, or when the
\* window is already cleared because another job's save came first.
NoEarlyRelease ==
    [][\A r \in Request :
         /\ bookSaves' # bookSaves
         /\ Active(r) /\ status'[r] = "CANCELLED"
         => hold[r] = NULL \/ hold[r] <= now]_vars

\* A cancelled booking comes back only as a paid one: the jobs that raced with
\* the cancellation had read it as paid.
RevivedWasPaid == \A r \in revived : charged[r]

\* Cancellation is offered only for a stay that has not begun: the days to
\* check-in are rounded up, and the status shown may come from a late save
\* (bookings-utils.ts:72, 178).
OfferedCancellationIsInTime ==
    \A table \in Tables : \A r \in DOMAIN table :
        table[r].isBookingCancellable => table[r].status \notin {"in-progress", "completed"}

\* Guest and host keep seeing a booking whose payment is recorded, also when it is
\* cancelled.  It leaves their tables only when an endpoint of the wallet saves
\* its payment back as it was before the charge (bookings.repository.ts:85-190).
PaidStayIsListed ==
    [][\A r \in DOMAIN GetBookingsByGuestId \cap DOMAIN GetBookingsByHostId :
         \/ r \in (DOMAIN GetBookingsByGuestId)' \cap (DOMAIN GetBookingsByHostId)'
         \/ \E w \in paySaves : w.id = r /\ w.status = "PENDING" /\ SavePayment(w)]_vars

\* The bookings implement the contract of a stay: the status column is the
\* contract, a charge by the provider is the money.
Contract == INSTANCE StayContract WITH
    Stay <- Request, Terms <- Stays,
    clock <- now, terms <- dto, money <- charged, contract <- status

\* Every step of a handler, a job, a webhook or a late save is a step of the
\* contract or invisible to it.
ImplementsContract == Contract!Spec

-----------------------------------------------------------------------------
(* The inductive invariant behind the safety properties.                   *)

\* A booking and its payment are inserted together; only what was inserted can
\* be charged or polled, and a booking that was revived is a row.
RowsTogether ==
    \A r \in Request : /\ Exists(r) <=> phase[r] = "committed"
                       /\ payment[r] # "ABSENT" <=> phase[r] = "committed"
                       /\ charged[r] => Exists(r)

\* What a late save writes is still justified when it reaches the row: money
\* taken stays taken, a date passed stays passed, a window elapsed stays elapsed.
JustifiedBooking(w) ==
    /\ Exists(w.id)
    /\ w.status # "PENDING"
    /\ w.status \in PaidStatus => charged[w.id]
    /\ w.status = "PROCESSING" => dto[w.id].checkIn <= now
    /\ w.status = "FINISHED" => dto[w.id].checkOut <= now
    /\ w.status = "CANCELLED" => hold[w.id] = NULL \/ hold[w.id] <= now

JustifiedPayment(w) ==
    /\ Exists(w.id)
    /\ w.status = "COMPLETED" => charged[w.id]

SavesAreJustified ==
    /\ \A w \in bookSaves : JustifiedBooking(w)
    /\ \A w \in paySaves : JustifiedPayment(w)

\* A request past the check contends for its nights like a booking does.
Contends(r) == phase[r] = "checked" \/ Active(r)

ContentionNeedsRace ==
    \A a, b \in Request :
        a # b /\ Contends(a) /\ Contends(b) /\ Overlap(dto[a], dto[b]) =>
            {a, b} \in raced \/ {a, b} \cap revived # {}

LifeInv ==
    /\ TypeOK
    /\ RowsTogether
    /\ CompletedIsCharged
    /\ NoUnpaidStay
    /\ NeverAheadOfClock
    /\ PendingIsHeld
    /\ RevivedWasPaid
    /\ SavesAreJustified

IInv == LifeInv /\ ContentionNeedsRace

-----------------------------------------------------------------------------
(* What the comments and messages of the code say, and the code does not do.*)

\* "check if booking dates are still available here" (payments.service.ts:862):
\* two bookings of one listing never share a night.
NoDoubleBooking ==
    \A a, b \in Request :
        a # b /\ Active(a) /\ Active(b) => ~Overlap(dto[a], dto[b])

\* "The dates on this booking are no longer available."  (payments.service.ts
\* :142): a request with valid dates is refused by the check only when a booking
\* of that listing that is neither cancelled nor finished touches its dates.
RefusedStayIsTaken ==
    [][\A r \in Request :
         phase[r] = "idle" /\ phase'[r] = "refused" /\ DatesAreValid(dto[r]) =>
            \E b \in Request :
                /\ status[b] \notin {"ABSENT", "CANCELLED", "FINISHED"}
                /\ dto[b].property = dto[r].property
                /\ dto[b].checkIn <= dto[r].checkOut /\ dto[r].checkIn <= dto[b].checkOut]_vars

-----------------------------------------------------------------------------
(* Liveness.  Cron runs every job for ever, a save that was started ends,   *)
(* Paystack repeats an event until it is answered and NOWPayments answers.  *)
(* A host's wallet is not reloaded for ever: each reload can save a payment *)
(* back as pending, and an endless series of them timed against the poller  *)
(* keeps a job from ever seeing the payment completed.  Nothing is assumed  *)
(* of guests.                                                              *)

SaveOf(job, run, r) ==
    \E w \in bookSaves : w.by = job /\ w.run = run /\ w.id = r /\ SaveBooking(w)

Fairness ==
    /\ WF_vars(Tick)
    /\ \A run \in Run :
         /\ WF_vars(HandleBookingsInProgress(run)) /\ WF_vars(HandleFinshedBookings(run))
         /\ WF_vars(HandleCancelBookings(run)) /\ WF_vars(HandleCancelCryptoBookings(run))
    /\ \A job \in Job, run \in Run, r \in Request : WF_vars(SaveOf(job, run, r))
    /\ \A r \in Request : /\ WF_vars(delivered[r] = 0 /\ UpdatePayment(r))
                          /\ WF_vars(PollCryptoPayment(r))
                          /\ WF_vars(AnswerPoll(r))

WalletsRest == <>[][\A h \in Host, call \in Call : ~ReadHostPayments(h, call)]_vars

FairSpec == Spec /\ Fairness /\ WalletsRest

\* A slot held for a guest who does not pay is given back: no booking stays
\* pending for ever (handleCancelBookings, handleCancelCryptoBookings), not
\* even when its payment completes while the window runs out.
SlotIsSettled ==
    \A r \in Request : status[r] = "PENDING" ~> status[r] # "PENDING"

\* A charge completes the payment.  The first report of a charged card does, also
\* when it comes after the booking was cancelled or over a restart (updatePayment);
\* a payment entity saved back late can undo it for good: the event does not come
\* again.  The poller does for a charged crypto payment, unless the holding window is
\* cleared first: it then never asks about it again.
ChargeIsRecorded ==
    \A r \in Request :
        /\ charged[r] /\ dto[r].method = "CARD" /\ delivered[r] = 0 ~> payment[r] = "COMPLETED"
        /\ charged[r] /\ dto[r].method = "CRYPTO" ~>
             payment[r] = "COMPLETED" \/ hold[r] = NULL

\* Stale saves move a booking back and forth, but it settles: from some point on
\* a booking whose payment is completed is finished or cancelled.
PaidStaySettles ==
    <>[](\A r \in Request : payment[r] = "COMPLETED" => status[r] \in {"FINISHED", "CANCELLED"})

=============================================================================
