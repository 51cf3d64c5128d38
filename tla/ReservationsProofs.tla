------------------------- MODULE ReservationsProofs -------------------------
(***************************************************************************)
(* What TLAPS proves about Reservations for every set of requests, listings*)
(* and stays, every length of the holding window and every bound.          *)
(***************************************************************************)
EXTENDS Reservations, TLAPS

\* The requested dates are natural numbers and each stay names a listing.
LEMMA DtoFields ==
    ASSUME TypeOK, NEW r \in Request
    PROVE  /\ dto[r] \in Stay
           /\ dto[r].checkIn \in Nat /\ dto[r].checkOut \in Nat
BY ConstantsAssumption DEF TypeOK, Stay

-----------------------------------------------------------------------------
(* Type correctness.                                                       *)

\* The initial tables and the empty sets of saves are well-typed.
LEMMA TypeInit == Init => TypeOK
BY ConstantsAssumption DEF Init, TypeOK

\* A job only adds well-formed saves.
LEMMA DecisionsType ==
    ASSUME NEW job \in Job, NEW run \in Run, NEW ids \in SUBSET Request,
           NEW s \in BookingStatus
    PROVE  Decisions(job, run, ids, s) \in SUBSET BookingSave
BY DEF Decisions, BookingSave

\* Every handler, job, webhook, late save and restart keeps the types.
LEMMA TypeNext == TypeOK /\ [Next]_vars => TypeOK'
<1> SUFFICES ASSUME TypeOK, [Next]_vars PROVE TypeOK'
    OBVIOUS
<1> USE ConstantsAssumption
<1>1. ASSUME NEW r \in Request, CheckRequest(r) PROVE TypeOK'
    BY <1>1 DEF CheckRequest, TypeOK, Checked, rows, provider, inFlight
<1>2. ASSUME NEW r \in Request, CommitBooking(r) PROVE TypeOK'
    BY <1>2 DEF CommitBooking, TypeOK, provider, inFlight, history, BookingStatus, PaymentStatus
<1>3. ASSUME NEW r \in Request, RollbackRequest(r) PROVE TypeOK'
    BY <1>3 DEF RollbackRequest, TypeOK, rows, provider, inFlight, history
<1>4. ASSUME NEW r \in Request, CancelBooking(r) PROVE TypeOK'
    BY <1>4 DEF CancelBooking, TypeOK, provider, inFlight, history, BookingStatus
<1>5. ASSUME NEW r \in Request, Charge(r) PROVE TypeOK'
    BY <1>5 DEF Charge, TypeOK, rows, inFlight, history
<1>6. ASSUME NEW r \in Request, UpdatePayment(r) PROVE TypeOK'
    BY <1>6 DEF UpdatePayment, TypeOK, inFlight, history, PaymentStatus
<1>7. ASSUME NEW r \in Request, PollCryptoPayment(r) PROVE TypeOK'
    BY <1>7 DEF PollCryptoPayment, TypeOK, rows, provider, history
<1>8. ASSUME NEW r \in Request, AnswerPoll(r) PROVE TypeOK'
    BY <1>8 DEF AnswerPoll, TypeOK, provider, history, PaymentStatus
<1>9. ASSUME NEW run \in Run, Jobs(run) PROVE TypeOK'
  <2>1. bookSaves' \in SUBSET BookingSave
    <3>1. CASE HandleBookingsInProgress(run)
        BY <3>1, DecisionsType DEF HandleBookingsInProgress, TypeOK, Job, BookingStatus
    <3>2. CASE HandleFinshedBookings(run)
        BY <3>2, DecisionsType DEF HandleFinshedBookings, TypeOK, Job, BookingStatus
    <3>3. CASE HandleCancelBookings(run)
        BY <3>3, DecisionsType
        DEF HandleCancelBookings, Elapsed, GetAllBookings, TypeOK, Job, BookingStatus
    <3>4. CASE HandleCancelCryptoBookings(run)
        BY <3>4, DecisionsType
        DEF HandleCancelCryptoBookings, Elapsed, GetAllBookings, TypeOK, Job, BookingStatus
    <3> QED BY <1>9, <3>1, <3>2, <3>3, <3>4 DEF Jobs
  <2>2. Reads
    BY <1>9 DEF Jobs, HandleBookingsInProgress, HandleFinshedBookings,
                HandleCancelBookings, HandleCancelCryptoBookings
  <2> QED BY <2>1, <2>2 DEF Reads, TypeOK, rows, provider, history
<1>10. ASSUME NEW h \in Host, NEW call \in Call, ReadHostPayments(h, call) PROVE TypeOK'
  <2>1. paySaves' \in SUBSET PaymentSave
    BY <1>10 DEF ReadHostPayments, TypeOK, PaymentSave, Endpoint
  <2> QED BY <2>1, <1>10 DEF ReadHostPayments, TypeOK, rows, provider, history
<1>11. ASSUME NEW r \in Request, NEW call \in Call, VerifyCryptoTransaction(r, call) PROVE TypeOK'
    BY <1>11 DEF VerifyCryptoTransaction, TypeOK, rows, provider, history, PaymentSave,
                 Endpoint, PaymentStatus
<1>12. ASSUME NEW w \in bookSaves, SaveBooking(w) PROVE TypeOK'
    BY <1>12 DEF SaveBooking, TypeOK, provider, BookingSave
<1>13. ASSUME NEW w \in paySaves, SavePayment(w) PROVE TypeOK'
    BY <1>13 DEF SavePayment, TypeOK, provider, history, PaymentSave
<1>14. CASE Tick
    BY <1>14 DEF Tick, TypeOK, rows, provider, inFlight, history
<1>15. CASE Crash
    BY <1>15 DEF Crash, TypeOK, rows, provider, history
<1>16. CASE UNCHANGED vars
    BY <1>16 DEF vars, TypeOK, rows, provider, inFlight, history
<1> QED
    BY <1>1, <1>2, <1>3, <1>4, <1>5, <1>6, <1>7, <1>8, <1>9, <1>10, <1>11, <1>12, <1>13,
       <1>14, <1>15, <1>16 DEF Next

\* Every variable keeps its type: no handler, job or late save writes a status
\* that its column does not have.
THEOREM TypeCorrect == Spec => []TypeOK
BY TypeInit, TypeNext, PTL DEF Spec

-----------------------------------------------------------------------------
(* The life of a booking: payments, the clock, the holding window.         *)

\* What the actions that touch neither the rows, the clock nor the waiting saves
\* leave alone is all that the invariant speaks about.
lifeVars == <<now, dto, status, hold, payment, charged, bookSaves, paySaves, revived>>

\* A step that leaves the clock, the rows and the pending saves alone keeps LifeInv.
LEMMA LifeStutter ==
    LifeInv /\ TypeOK' /\ RowsTogether' /\ UNCHANGED lifeVars => LifeInv'
BY DEF LifeInv, lifeVars, Exists, CompletedIsCharged, NoUnpaidStay, NeverAheadOfClock,
       PendingIsHeld, RevivedWasPaid, SavesAreJustified, JustifiedBooking, JustifiedPayment

\* With no row there is nothing to justify.
LEMMA LifeInit == Init => LifeInv
BY TypeInit, ConstantsAssumption
DEF Init, LifeInv, RowsTogether, Exists, CompletedIsCharged, NoUnpaidStay, NeverAheadOfClock,
    PendingIsHeld, RevivedWasPaid, SavesAreJustified, PaidStatus

\* What a job decides on the rows it has just read is justified.
LEMMA JobsJustified ==
    ASSUME LifeInv, NEW run \in Run, Jobs(run)
    PROVE  \A w \in bookSaves' : JustifiedBooking(w)
<1> USE DEF LifeInv, SavesAreJustified
<1>1. CASE HandleBookingsInProgress(run)
    BY <1>1 DEF HandleBookingsInProgress, Decisions, Open, HasBegun, GetAllNoConstraints,
                CompletedIsCharged, JustifiedBooking
<1>2. CASE HandleFinshedBookings(run)
    BY <1>2 DEF HandleFinshedBookings, Decisions, Open, IsOver, GetAllNoConstraints,
                CompletedIsCharged, JustifiedBooking
<1>3. CASE HandleCancelBookings(run)
    BY <1>3 DEF HandleCancelBookings, Decisions, Elapsed, GetAllBookings,
                JustifiedBooking, PaidStatus, Exists
<1>4. CASE HandleCancelCryptoBookings(run)
    BY <1>4 DEF HandleCancelCryptoBookings, Decisions, Elapsed, GetAllBookings,
                JustifiedBooking, PaidStatus, Exists
<1> QED BY <1>1, <1>2, <1>3, <1>4 DEF Jobs

\* One step of any handler, job, webhook or late save keeps LifeInv: a save
\* decided earlier stays justified while it waits.
LEMMA LifeNext == LifeInv /\ [Next]_vars => LifeInv'
<1> SUFFICES ASSUME LifeInv, [Next]_vars PROVE LifeInv'
    OBVIOUS
<1>0. TypeOK /\ TypeOK'
    BY TypeNext DEF LifeInv
<1> USE ConstantsAssumption, <1>0
<1>1. ASSUME NEW r \in Request, CheckRequest(r) \/ RollbackRequest(r) \/ PollCryptoPayment(r)
      PROVE  LifeInv'
  <2>1. UNCHANGED lifeVars
    BY <1>1 DEF CheckRequest, RollbackRequest, PollCryptoPayment, lifeVars, rows, provider,
                inFlight, history
  <2>2. RowsTogether'
    BY <1>1 DEF CheckRequest, RollbackRequest, PollCryptoPayment, LifeInv, RowsTogether, Exists,
                TypeOK, rows, provider
  <2> QED BY <2>1, <2>2, LifeStutter
<1>2. ASSUME NEW r \in Request, CommitBooking(r) PROVE LifeInv'
  <2>1. ~Exists(r)
    BY <1>2 DEF CommitBooking, LifeInv, RowsTogether
  <2>2. RowsTogether'
    BY <1>2 DEF CommitBooking, LifeInv, RowsTogether, Exists, TypeOK, provider
  <2>3. SavesAreJustified'
    BY <1>2, <2>1 DEF CommitBooking, LifeInv, SavesAreJustified, JustifiedBooking,
       JustifiedPayment, Exists, TypeOK, provider, inFlight, BookingSave, PaymentSave
  <2> QED BY <1>2, <2>2, <2>3
          DEF CommitBooking, LifeInv, CompletedIsCharged, NoUnpaidStay, NeverAheadOfClock,
              PendingIsHeld, RevivedWasPaid, TypeOK, provider, history, PaidStatus
<1>3. ASSUME NEW r \in Request, CancelBooking(r) PROVE LifeInv'
  <2>1. RowsTogether'
    BY <1>3 DEF CancelBooking, LifeInv, RowsTogether, Exists, TypeOK, provider
  <2>2. SavesAreJustified'
    BY <1>3 DEF CancelBooking, LifeInv, SavesAreJustified, JustifiedBooking,
       JustifiedPayment, Exists, TypeOK, provider, inFlight, BookingSave, PaymentSave
  <2> QED BY <1>3, <2>1, <2>2
          DEF CancelBooking, LifeInv, CompletedIsCharged, NoUnpaidStay, NeverAheadOfClock,
              PendingIsHeld, RevivedWasPaid, TypeOK, provider, history, PaidStatus
<1>4. ASSUME NEW r \in Request, Charge(r) PROVE LifeInv'
  <2>1. \A q \in Request : charged[q] => charged'[q]
    BY <1>4 DEF Charge, TypeOK
  <2>2. SavesAreJustified'
    BY <1>4, <2>1 DEF Charge, LifeInv, SavesAreJustified, JustifiedBooking,
       JustifiedPayment, Exists, TypeOK, rows, inFlight, BookingSave, PaymentSave
  <2>3. RowsTogether'
    BY <1>4 DEF Charge, LifeInv, RowsTogether, Exists, TypeOK, rows
  <2> QED BY <1>4, <2>1, <2>2, <2>3
          DEF Charge, LifeInv, CompletedIsCharged, NoUnpaidStay, NeverAheadOfClock,
              PendingIsHeld, RevivedWasPaid, TypeOK, rows, history
<1>5. ASSUME NEW r \in Request, UpdatePayment(r) \/ AnswerPoll(r) PROVE LifeInv'
  <2>1. /\ UNCHANGED <<now, dto, phase, status, hold, charged, bookSaves, paySaves, revived>>
        /\ payment' \in {payment, [payment EXCEPT ![r] = "COMPLETED"]}
        /\ payment' # payment => charged[r]
    BY <1>5 DEF UpdatePayment, AnswerPoll, provider, inFlight, history
  <2>2. RowsTogether'
    BY <2>1 DEF LifeInv, RowsTogether, Exists, TypeOK
  <2>3. CompletedIsCharged'
    BY <2>1 DEF LifeInv, CompletedIsCharged, TypeOK
  <2> QED BY <2>1, <2>2, <2>3
          DEF LifeInv, NoUnpaidStay, NeverAheadOfClock, PendingIsHeld, RevivedWasPaid,
              SavesAreJustified, JustifiedBooking, JustifiedPayment, Exists
<1>6. ASSUME NEW run \in Run, Jobs(run) PROVE LifeInv'
  <2>1. Reads
    BY <1>6 DEF Jobs, HandleBookingsInProgress, HandleFinshedBookings,
                HandleCancelBookings, HandleCancelCryptoBookings
  <2>2. SavesAreJustified'
    BY <1>6, <2>1, JobsJustified
    DEF Reads, LifeInv, SavesAreJustified, JustifiedBooking, JustifiedPayment, Exists, rows,
        provider
  <2> QED BY <2>1, <2>2
          DEF Reads, LifeInv, RowsTogether, Exists, CompletedIsCharged, NoUnpaidStay,
              NeverAheadOfClock, PendingIsHeld, RevivedWasPaid, rows, provider, history
<1>7. ASSUME NEW h \in Host, NEW call \in Call, ReadHostPayments(h, call) PROVE LifeInv'
  <2>1. SavesAreJustified'
    BY <1>7 DEF ReadHostPayments, LifeInv, SavesAreJustified, JustifiedBooking, JustifiedPayment,
                RowsTogether, CompletedIsCharged, Exists, rows, provider
  <2> QED BY <1>7, <2>1
          DEF ReadHostPayments, LifeInv, RowsTogether, Exists, CompletedIsCharged, NoUnpaidStay,
              NeverAheadOfClock, PendingIsHeld, RevivedWasPaid, rows, provider, history
<1>8. ASSUME NEW r \in Request, NEW call \in Call, VerifyCryptoTransaction(r, call) PROVE LifeInv'
  <2>1. SavesAreJustified'
    BY <1>8 DEF VerifyCryptoTransaction, LifeInv, SavesAreJustified, JustifiedBooking,
                JustifiedPayment, RowsTogether, CompletedIsCharged, Exists, rows, provider
  <2> QED BY <1>8, <2>1
          DEF VerifyCryptoTransaction, LifeInv, RowsTogether, Exists, CompletedIsCharged,
              NoUnpaidStay, NeverAheadOfClock, PendingIsHeld, RevivedWasPaid, rows, provider,
              history
<1>9. ASSUME NEW w \in bookSaves, SaveBooking(w) PROVE LifeInv'
  <2>1. w.id \in Request /\ w.status \in BookingStatus /\ JustifiedBooking(w)
    BY <1>9 DEF TypeOK, BookingSave, LifeInv, SavesAreJustified
  <2>2. RowsTogether'
    BY <1>9, <2>1 DEF SaveBooking, LifeInv, RowsTogether, Exists, TypeOK, provider, BookingStatus,
                      JustifiedBooking
  <2>3. SavesAreJustified'
    BY <1>9, <2>1 DEF SaveBooking, LifeInv, SavesAreJustified, JustifiedBooking,
       JustifiedPayment, Exists, TypeOK, provider, BookingSave, PaymentSave, BookingStatus
  <2>4. NoUnpaidStay' /\ NeverAheadOfClock' /\ PendingIsHeld'
    BY <1>9, <2>1 DEF SaveBooking, LifeInv, NoUnpaidStay, NeverAheadOfClock, PendingIsHeld,
                      JustifiedBooking, TypeOK, provider, PaidStatus
  <2>5. RevivedWasPaid'
    BY <1>9, <2>1 DEF SaveBooking, LifeInv, RevivedWasPaid, JustifiedBooking, BookingStatus,
                      PaidStatus, provider, TypeOK
  <2> QED BY <1>9, <2>2, <2>3, <2>4, <2>5
          DEF SaveBooking, LifeInv, CompletedIsCharged, provider
<1>10. ASSUME NEW w \in paySaves, SavePayment(w) PROVE LifeInv'
  <2>1. w.id \in Request /\ w.status \in PaymentStatus /\ JustifiedPayment(w)
    BY <1>10 DEF TypeOK, PaymentSave, LifeInv, SavesAreJustified
  <2>2. RowsTogether' /\ CompletedIsCharged'
    BY <1>10, <2>1 DEF SavePayment, LifeInv, RowsTogether, CompletedIsCharged, Exists, TypeOK,
                       provider, PaymentStatus, JustifiedPayment
  <2> QED BY <1>10, <2>2
          DEF SavePayment, LifeInv, NoUnpaidStay, NeverAheadOfClock, PendingIsHeld,
              RevivedWasPaid, SavesAreJustified, JustifiedBooking, JustifiedPayment, Exists,
              provider, history
<1>11. CASE Tick
  <2>1. now \in Nat /\ now' = now + 1
    BY <1>11 DEF Tick, TypeOK
  <2>2. NeverAheadOfClock'
    BY <1>11, <2>1, DtoFields DEF Tick, LifeInv, NeverAheadOfClock, rows
  <2>3. SavesAreJustified'
    BY <1>11, <2>1, DtoFields
    DEF Tick, LifeInv, SavesAreJustified, JustifiedBooking, JustifiedPayment, Exists, TypeOK,
        rows, provider, inFlight, BookingSave
  <2> QED BY <1>11, <2>2, <2>3
          DEF Tick, LifeInv, RowsTogether, Exists, CompletedIsCharged, NoUnpaidStay,
              PendingIsHeld, RevivedWasPaid, rows, provider, history
<1>12. CASE Crash
  <2>1. RowsTogether'
    BY <1>12 DEF Crash, LifeInv, RowsTogether, Exists, rows, provider, TypeOK
  <2> QED BY <1>12, <2>1
          DEF Crash, LifeInv, CompletedIsCharged, NoUnpaidStay, NeverAheadOfClock, PendingIsHeld,
              RevivedWasPaid, SavesAreJustified, rows, provider, history
<1>13. CASE UNCHANGED vars
    BY <1>13, LifeStutter
    DEF vars, lifeVars, LifeInv, RowsTogether, Exists, rows, provider, inFlight, history
<1> QED
    BY <1>1, <1>2, <1>3, <1>4, <1>5, <1>6, <1>7, <1>8, <1>9, <1>10, <1>11, <1>12, <1>13 DEF Next

-----------------------------------------------------------------------------
(* The availability check and double booking.                              *)

\* Rounding the nights up, a stay of at least one night ends after it begins.
LEMMA NightsArePositive ==
    ASSUME NEW from \in Nat, NEW to \in Nat, NumberOfNights(from, to) >= 1
    PROVE  from < to
<1> DEFINE d == to - from + DayLength - 1
           q == d \div DayLength
<1>1. DayLength \in Nat \ {0}
    BY ConstantsAssumption
<1>2. q >= 1
    BY DEF NumberOfNights
<1>3. d \in Int /\ q \in Int /\ DayLength * q <= d
    BY <1>1
<1>4. DayLength * q >= DayLength
    BY <1>1, <1>2, <1>3
<1>5. DayLength <= d
    <2> HIDE DEF q
    <2> QED BY <1>1, <1>3, <1>4
<1> QED BY <1>1, <1>5

\* A request that gets past the check overlaps no booking that is not cancelled.
LEMMA CheckIsComplete ==
    ASSUME LifeInv, NEW r \in Request, NEW b \in Request, Active(b),
           CheckAvailabilityOfListing(dto[r]), DatesAreValid(dto[r])
    PROVE  ~Overlap(dto[r], dto[b])
<1>1. /\ dto[r].checkIn \in Nat /\ dto[r].checkOut \in Nat
      /\ dto[b].checkIn \in Nat /\ dto[b].checkOut \in Nat /\ now \in Nat
    BY DtoFields DEF LifeInv, TypeOK
<1>2. CASE status[b] = "FINISHED"
  <2>1. dto[b].checkOut <= now
    BY <1>2 DEF LifeInv, NeverAheadOfClock
  <2>2. now < dto[r].checkIn
    BY <1>1, NightsArePositive DEF DatesAreValid
  <2> QED BY <1>1, <2>1, <2>2 DEF Overlap
<1>3. CASE status[b] # "FINISHED"
  <2>1. ~Conflicts(dto[r], b)
    BY DEF CheckAvailabilityOfListing, Exists, Active
  <2> QED BY <1>1, <1>3, <2>1 DEF Conflicts, StartsInside, StartsBefore, Overlap, Active
<1> QED BY <1>2, <1>3

\* No request contends for a listing at the start.
LEMMA ContentionInit == Init => ContentionNeedsRace
BY DEF Init, ContentionNeedsRace, Contends, Active

\* Two requests come to contend for a common night only by passing the check
\* together or by a late save that revives a booking.
LEMMA ContentionNext ==
    LifeInv /\ ContentionNeedsRace /\ [Next]_vars => ContentionNeedsRace'
<1> SUFFICES ASSUME LifeInv, ContentionNeedsRace, [Next]_vars PROVE ContentionNeedsRace'
    OBVIOUS
<1> USE DEF ContentionNeedsRace
<1>0. TypeOK
    BY DEF LifeInv
\* A step that makes nobody contend and forgets nothing keeps the invariant.
<1>a. ASSUME dto' = dto, \A r \in Request : Contends(r)' => Contends(r),
             raced \subseteq raced', revived \subseteq revived'
      PROVE  ContentionNeedsRace'
    BY <1>a DEF Overlap
<1>1. ASSUME NEW r \in Request, CheckRequest(r) PROVE ContentionNeedsRace'
  <2>1. CASE ~(CheckAvailabilityOfListing(dto[r]) /\ DatesAreValid(dto[r]))
    BY <1>0, <1>1, <2>1, <1>a DEF CheckRequest, Contends, Active, TypeOK, rows
  <2>2. CASE CheckAvailabilityOfListing(dto[r]) /\ DatesAreValid(dto[r])
    <3>1. /\ UNCHANGED <<dto, status, revived>>
          /\ phase' = [phase EXCEPT ![r] = "checked"]
          /\ raced' = raced \cup {{q, r} : q \in Checked}
      BY <1>1, <2>2 DEF CheckRequest, rows
    <3>2. SUFFICES ASSUME NEW a \in Request, NEW b \in Request, a # b, Contends(a)', Contends(b)',
                          Overlap(dto[a], dto[b])
                   PROVE  {a, b} \in raced' \/ {a, b} \cap revived' # {}
      BY <3>1 DEF Overlap
    \* Whoever overlaps the new contender is itself between check and commit.
    <3>3. ASSUME NEW q \in Request, q # r, Contends(q)', Overlap(dto[r], dto[q])
          PROVE  {q, r} \in raced'
      <4>1. phase[q] = "checked" \/ Active(q)
        BY <1>0, <3>1, <3>3 DEF Contends, Active, TypeOK
      <4>2. ~Active(q)
        BY <2>2, <3>3, CheckIsComplete
      <4> QED BY <3>1, <4>1, <4>2 DEF Checked
    <3>4. CASE a = r
      BY <3>2, <3>3, <3>4
    <3>5. CASE b = r
      BY <3>2, <3>3, <3>5 DEF Overlap
    <3>6. CASE a # r /\ b # r
      BY <1>0, <3>1, <3>2, <3>6 DEF Contends, Active, TypeOK
    <3> QED BY <3>4, <3>5, <3>6
  <2> QED BY <2>1, <2>2
<1>2. ASSUME NEW r \in Request, CommitBooking(r) PROVE ContentionNeedsRace'
    BY <1>0, <1>2, <1>a DEF CommitBooking, Contends, Active, TypeOK, history
<1>3. ASSUME NEW r \in Request, RollbackRequest(r) PROVE ContentionNeedsRace'
    BY <1>0, <1>3, <1>a DEF RollbackRequest, Contends, Active, TypeOK, rows, history
<1>4. ASSUME NEW r \in Request, CancelBooking(r) PROVE ContentionNeedsRace'
    BY <1>0, <1>4, <1>a DEF CancelBooking, Contends, Active, TypeOK, history
<1>5. ASSUME NEW w \in bookSaves, SaveBooking(w) PROVE ContentionNeedsRace'
  <2>1. w.id \in Request /\ w.status \in BookingStatus /\ Exists(w.id)
    BY <1>0, <1>5 DEF TypeOK, BookingSave, LifeInv, SavesAreJustified, JustifiedBooking
  <2>2. UNCHANGED <<dto, phase, raced>> /\ status' = [status EXCEPT ![w.id] = w.status]
    BY <1>5 DEF SaveBooking
  <2>3. CASE status[w.id] = "CANCELLED" /\ w.status # "CANCELLED"
    <3>1. revived' = revived \cup {w.id}
      BY <1>5, <2>3 DEF SaveBooking
    <3>2. \A q \in Request : q # w.id /\ Contends(q)' => Contends(q)
      BY <1>0, <2>2 DEF Contends, Active, TypeOK
    <3> QED BY <2>1, <2>2, <3>1, <3>2 DEF Overlap
  <2>4. CASE ~(status[w.id] = "CANCELLED" /\ w.status # "CANCELLED")
    <3>1. revived' = revived
      BY <1>5, <2>4 DEF SaveBooking
    <3>2. \A q \in Request : Contends(q)' => Contends(q)
      BY <1>0, <2>1, <2>2, <2>4 DEF Contends, Active, TypeOK, Exists, BookingStatus
    <3> QED BY <2>2, <3>1, <3>2, <1>a
  <2> QED BY <2>3, <2>4
<1>6. CASE Crash
    BY <1>0, <1>6, <1>a DEF Crash, Contends, Active, TypeOK, rows, history
<1>7. ASSUME UNCHANGED <<dto, phase, status, raced, revived>> PROVE ContentionNeedsRace'
    BY <1>7, <1>a DEF Contends, Active
<1> QED
  <2>1. ASSUME NEW r \in Request, \/ Charge(r) \/ UpdatePayment(r)
                                  \/ PollCryptoPayment(r) \/ AnswerPoll(r)
        PROVE  UNCHANGED <<dto, phase, status, raced, revived>>
    BY <2>1 DEF Charge, UpdatePayment, PollCryptoPayment, AnswerPoll, rows, history
  <2>2. ASSUME NEW run \in Run, Jobs(run)
        PROVE  UNCHANGED <<dto, phase, status, raced, revived>>
    BY <2>2 DEF Jobs, HandleBookingsInProgress, HandleFinshedBookings, HandleCancelBookings,
                HandleCancelCryptoBookings, Reads, rows, history
  <2>3. ASSUME NEW h \in Host, NEW call \in Call, ReadHostPayments(h, call)
        PROVE  UNCHANGED <<dto, phase, status, raced, revived>>
    BY <2>3 DEF ReadHostPayments, rows, history
  <2>4. ASSUME NEW r \in Request, NEW call \in Call, VerifyCryptoTransaction(r, call)
        PROVE  UNCHANGED <<dto, phase, status, raced, revived>>
    BY <2>4 DEF VerifyCryptoTransaction, rows, history
  <2>5. (\E w \in paySaves : SavePayment(w)) \/ Tick \/ UNCHANGED vars
        => UNCHANGED <<dto, phase, status, raced, revived>>
    BY DEF SavePayment, Tick, vars, rows, history
  <2> QED BY <1>1, <1>2, <1>3, <1>4, <1>5, <1>6, <1>7, <2>1, <2>2, <2>3, <2>4, <2>5 DEF Next

-----------------------------------------------------------------------------
(* The theorems.                                                           *)

\* The inductive invariant holds in every reachable state.
LEMMA Inductive == Spec => []IInv
<1>1. Init => IInv
    BY LifeInit, ContentionInit DEF IInv
<1>2. IInv /\ [Next]_vars => IInv'
    BY LifeNext, ContentionNext DEF IInv
<1> QED BY <1>1, <1>2, PTL DEF Spec

\* Late saves of payment entities never complete a payment nobody was charged for.
THEOREM PaymentsAreCharged == Spec => []CompletedIsCharged
<1>1. IInv => CompletedIsCharged
    BY DEF IInv, LifeInv
<1> QED BY <1>1, Inductive, PTL

\* No booking is expected, in progress or finished before the guest was charged,
\* however the jobs' saves, the webhooks and the cancellations interleave.
THEOREM StaysArePaid == Spec => []NoUnpaidStay
<1>1. IInv => NoUnpaidStay
    BY DEF IInv, LifeInv
<1> QED BY <1>1, Inductive, PTL

\* Overlapping runs of the jobs never show a stay begun or finished too early.
THEOREM StaysFollowTheClock == Spec => []NeverAheadOfClock
<1>1. IInv => NeverAheadOfClock
    BY DEF IInv, LifeInv
<1> QED BY <1>1, Inductive, PTL

\* A pending booking keeps the window by which the jobs can release it.
THEOREM PendingBookingsAreHeld == Spec => []PendingIsHeld
<1>1. IInv => PendingIsHeld
    BY DEF IInv, LifeInv
<1> QED BY <1>1, Inductive, PTL

\* Only a booking that was paid comes back from CANCELLED.
THEOREM RevivedBookingsWerePaid == Spec => []RevivedWasPaid
<1>1. IInv => RevivedWasPaid
    BY DEF IInv, LifeInv
<1> QED BY <1>1, Inductive, PTL

\* Double booking takes two requests in flight together or a revived booking.
THEOREM DoubleBookingIsARace == Spec => []DoubleBookingNeedsRace
<1>1. IInv => DoubleBookingNeedsRace
    BY DEF IInv, ContentionNeedsRace, DoubleBookingNeedsRace, Contends
<1> QED BY <1>1, Inductive, PTL

\* The availability query never lets an overlapping request through.
THEOREM CheckedStaysAreFree == Spec => CheckedStayIsFree
<1> DEFINE Free == \A r \in Request :
                     phase[r] = "idle" /\ phase'[r] = "checked" =>
                       \A b \in Request : Active(b) => ~Overlap(dto[r], dto[b])
<1>1. IInv /\ [Next]_vars => [Free]_vars
  <2> SUFFICES ASSUME IInv, Next, NEW r \in Request, phase[r] = "idle", phase'[r] = "checked",
                      NEW b \in Request, Active(b)
               PROVE  ~Overlap(dto[r], dto[b])
    OBVIOUS
  <2>1. LifeInv /\ phase \in [Request -> {"idle", "checked", "committed", "refused"}]
    BY DEF IInv, LifeInv, TypeOK
  <2>2. \E q \in Request : CheckRequest(q) /\ q = r
    <3>1. phase' # phase
      OBVIOUS
    <3> QED BY <2>1, <3>1
            DEF Next, CheckRequest, CommitBooking, RollbackRequest, CancelBooking, Charge,
                UpdatePayment, PollCryptoPayment, AnswerPoll, Jobs, HandleBookingsInProgress,
                HandleFinshedBookings, HandleCancelBookings, HandleCancelCryptoBookings, Reads,
                ReadHostPayments, VerifyCryptoTransaction, SaveBooking, SavePayment, Tick, Crash
  <2>3. CheckAvailabilityOfListing(dto[r]) /\ DatesAreValid(dto[r])
    BY <2>1, <2>2 DEF CheckRequest
  <2> QED BY <2>1, <2>3, CheckIsComplete
<1> QED BY <1>1, Inductive, PTL DEF Spec, CheckedStayIsFree

\* No job takes a slot from a guest whose holding window is still running.
THEOREM ReleaseIsNeverEarly == Spec => NoEarlyRelease
<1> DEFINE Late == \A r \in Request :
                     /\ bookSaves' # bookSaves
                     /\ Active(r) /\ status'[r] = "CANCELLED"
                     => hold[r] = NULL \/ hold[r] <= now
<1>1. IInv /\ [Next]_vars => [Late]_vars
  <2> SUFFICES ASSUME IInv, Next, NEW r \in Request, Active(r), status'[r] = "CANCELLED"
               PROVE  bookSaves' # bookSaves => hold[r] = NULL \/ hold[r] <= now
    OBVIOUS
  <2>1. TypeOK /\ SavesAreJustified
    BY DEF IInv, LifeInv
  <2>2. status' # status
    BY DEF Active
  <2>3. ASSUME NEW w \in bookSaves, SaveBooking(w) PROVE hold[r] = NULL \/ hold[r] <= now
    BY <2>1, <2>3 DEF SaveBooking, SavesAreJustified, JustifiedBooking, TypeOK, Active
  <2>4. CASE ~\E w \in bookSaves : SaveBooking(w)
    BY <2>2, <2>4
    DEF Next, CheckRequest, CommitBooking, RollbackRequest, CancelBooking, Charge,
        UpdatePayment, PollCryptoPayment, AnswerPoll, Jobs, HandleBookingsInProgress,
        HandleFinshedBookings, HandleCancelBookings, HandleCancelCryptoBookings, Reads,
        ReadHostPayments, VerifyCryptoTransaction, SavePayment, Tick, Crash, rows, inFlight
  <2> QED BY <2>3, <2>4
<1> QED BY <1>1, Inductive, PTL DEF Spec, NoEarlyRelease

-----------------------------------------------------------------------------
(* The tables of bookings.                                                 *)

\* A request past the check asks for at least one night.
DatedStays ==
    \A r \in Request : phase[r] \in {"checked", "committed"} => dto[r].checkIn < dto[r].checkOut

\* The date checks come before everything else and the dates never change.
LEMMA StaysAreDated == Spec => []DatedStays
<1>1. Init => DatedStays
    BY DEF Init, DatedStays
<1>2. TypeOK /\ DatedStays /\ [Next]_vars => DatedStays'
  <2> SUFFICES ASSUME TypeOK, DatedStays, [Next]_vars, NEW r \in Request,
                      phase'[r] \in {"checked", "committed"}
               PROVE  dto'[r].checkIn < dto'[r].checkOut
    BY DEF DatedStays
  <2>1. CASE phase[r] \in {"checked", "committed"} /\ dto' = dto
    BY <2>1 DEF DatedStays
  <2>2. ASSUME NEW q \in Request, CheckRequest(q) PROVE dto'[r].checkIn < dto'[r].checkOut
    <3>1. CASE r = q
      <4>1. dto'[r] = dto[r] /\ NumberOfNights(dto[r].checkIn, dto[r].checkOut) >= 1
        BY <2>2, <3>1 DEF CheckRequest, DatesAreValid, TypeOK
      <4>2. dto[r].checkIn \in Nat /\ dto[r].checkOut \in Nat
        BY DtoFields
      <4> QED BY <4>1, <4>2, NightsArePositive
    <3>2. CASE r # q
      BY <2>2, <3>2 DEF CheckRequest, TypeOK, DatedStays
    <3> QED BY <3>1, <3>2
  <2>3. CASE ~\E q \in Request : CheckRequest(q)
    BY <2>1, <2>3
    DEF Next, vars, CommitBooking, RollbackRequest, CancelBooking, Charge, TypeOK,
        UpdatePayment, PollCryptoPayment, AnswerPoll, Jobs, HandleBookingsInProgress,
        HandleFinshedBookings, HandleCancelBookings, HandleCancelCryptoBookings, Reads,
        ReadHostPayments, VerifyCryptoTransaction, SaveBooking, SavePayment, Tick, Crash
  <2> QED BY <2>2, <2>3
<1> QED BY <1>1, <1>2, TypeCorrect, PTL DEF Spec

\* No table offers to cancel a stay that it shows as begun or finished, although
\* the days to check-in are rounded up and statuses are saved late.
THEOREM CancellationIsOfferedInTime == Spec => []OfferedCancellationIsInTime
<1>1. IInv /\ DatedStays => OfferedCancellationIsInTime
  <2> SUFFICES ASSUME IInv, DatedStays, NEW r \in Request, Exists(r), IsCancellationWindowOpen(r)
               PROVE  CheckBookingStatus(status[r]) \notin {"in-progress", "completed"}
    BY DEF OfferedCancellationIsInTime, Tables, GetBookingsByGuestId, GetBookingsByHostId,
           GetBookingsForAdmin, TableRow
  <2>1. now \in Nat /\ dto[r].checkIn \in Nat /\ dto[r].checkOut \in Nat
    BY DtoFields DEF IInv, LifeInv, TypeOK
  <2>2. NumberOfNights(now, dto[r].checkIn) >= 1
    <3>1. NumberOfNights(now, dto[r].checkIn) \in Int
      BY <2>1, ConstantsAssumption DEF NumberOfNights
    <3> QED BY <3>1 DEF IsCancellationWindowOpen
  <2>3. now < dto[r].checkIn
    BY <2>1, <2>2, NightsArePositive
  <2>4. dto[r].checkIn < dto[r].checkOut
    BY DEF DatedStays, IInv, LifeInv, RowsTogether
  <2>5. status[r] \notin {"PROCESSING", "FINISHED"}
    BY <2>1, <2>3, <2>4 DEF IInv, LifeInv, NeverAheadOfClock
  <2> QED BY <2>5 DEF CheckBookingStatus
<1> QED BY <1>1, Inductive, StaysAreDated, PTL

\* Only a wallet endpoint that saves a payment read before the charge takes a paid
\* booking from the tables of its guest and its host.
THEOREM PaidStaysAreListed == Spec => PaidStayIsListed
<1> DEFINE Listed ==
      \A r \in DOMAIN GetBookingsByGuestId \cap DOMAIN GetBookingsByHostId :
         \/ r \in (DOMAIN GetBookingsByGuestId)' \cap (DOMAIN GetBookingsByHostId)'
         \/ \E w \in paySaves : w.id = r /\ w.status = "PENDING" /\ SavePayment(w)
<1>1. IInv /\ [Next]_vars => [Listed]_vars
  <2> SUFFICES ASSUME IInv, Next, NEW r \in Request, Exists(r), payment[r] = "COMPLETED"
               PROVE  \/ Exists(r)' /\ payment'[r] = "COMPLETED"
                      \/ \E w \in paySaves : w.id = r /\ w.status = "PENDING" /\ SavePayment(w)
    BY DEF GetBookingsByGuestId, GetBookingsByHostId
  <2>1. TypeOK /\ RowsTogether /\ (IInv)' /\ phase[r] = "committed"
    BY LifeNext, ContentionNext DEF IInv, LifeInv, RowsTogether
  <2>2. ASSUME NEW w \in paySaves, SavePayment(w), w.id = r PROVE Exists(r)' /\ (payment'[r] = "COMPLETED" \/ w.status = "PENDING")
    BY <2>1, <2>2 DEF SavePayment, TypeOK, PaymentSave, PaymentStatus, Exists
  <2>3. CASE ~\E w \in paySaves : SavePayment(w) /\ w.id = r
    <3>1. phase'[r] = "committed" /\ payment'[r] = "COMPLETED"
      BY <2>1, <2>3
      DEF Next, CheckRequest, CommitBooking, RollbackRequest, CancelBooking, Charge, TypeOK,
          UpdatePayment, PollCryptoPayment, AnswerPoll, Jobs, HandleBookingsInProgress,
          HandleFinshedBookings, HandleCancelBookings, HandleCancelCryptoBookings, Reads, PaymentSave,
          ReadHostPayments, VerifyCryptoTransaction, SaveBooking, SavePayment, Tick, Crash, rows, inFlight
    <3> QED BY <2>1, <3>1 DEF IInv, LifeInv, RowsTogether
  <2> QED BY <2>2, <2>3
<1> QED BY <1>1, Inductive, PTL DEF Spec, PaidStayIsListed

-----------------------------------------------------------------------------
(* Refinement.                                                             *)

\* The initial rows are a fresh contract of a stay.
LEMMA ContractInit == Init => Contract!Init
BY DEF Init, Contract!Init

\* Each step of the bookings is one step of the contract of a stay, or none.
LEMMA ContractStep == LifeInv /\ [Next]_vars => [Contract!Next]_(Contract!abstractVars)
<1> SUFFICES ASSUME LifeInv, [Next]_vars
             PROVE  [Contract!Next]_(Contract!abstractVars)
    OBVIOUS
<1> USE DEF Contract!abstractVars
<1>0. TypeOK
    BY DEF LifeInv
<1>1. ASSUME NEW r \in Request, CommitBooking(r) PROVE Contract!Agree(r)
    BY <1>1 DEF CommitBooking, LifeInv, RowsTogether, Exists, Contract!Agree, provider
<1>2. ASSUME NEW r \in Request, CancelBooking(r) PROVE Contract!Release(r)
    BY <1>2 DEF CancelBooking, Contract!Release, provider
<1>3. ASSUME NEW r \in Request, Charge(r) PROVE Contract!Pay(r)
    BY <1>3 DEF Charge, Exists, Contract!Pay, rows
\* A late save settles or releases the stay, as its justification allows.
<1>4. ASSUME NEW w \in bookSaves, SaveBooking(w)
      PROVE  w.id \in Request /\ (Contract!Settle(w.id) \/ Contract!Release(w.id))
  <2>1. w.id \in Request /\ w.status \in BookingStatus /\ JustifiedBooking(w)
    BY <1>0, <1>4 DEF TypeOK, BookingSave, LifeInv, SavesAreJustified
  <2>2. /\ UNCHANGED <<now, dto, charged>>
        /\ status[w.id] # "ABSENT"
        /\ status' = [status EXCEPT ![w.id] = w.status]
    BY <1>4, <2>1 DEF SaveBooking, JustifiedBooking, Exists, provider
  <2>3. CASE w.status = "CANCELLED"
    BY <2>1, <2>2, <2>3 DEF Contract!Release
  <2>4. CASE w.status \in PaidStatus
    <3>1. Contract!MaySettle(w.id, w.status)
      BY <2>1, <2>4 DEF JustifiedBooking, PaidStatus, Contract!MaySettle
    <3> QED BY <2>1, <2>2, <2>4, <3>1 DEF Contract!Settle, PaidStatus
  <2> QED BY <2>1, <2>3, <2>4 DEF BookingStatus, JustifiedBooking, PaidStatus
<1>5. CASE Tick
    BY <1>5 DEF Tick, Contract!Next, Contract!Pass, rows, provider
<1>6. ASSUME \/ \E r \in Request : \/ CheckRequest(r) \/ RollbackRequest(r) \/ UpdatePayment(r)
                                   \/ PollCryptoPayment(r) \/ AnswerPoll(r)
             \/ \E run \in Run : Jobs(run)
             \/ \E h \in Host, call \in Call : ReadHostPayments(h, call)
             \/ \E r \in Request, call \in Call : VerifyCryptoTransaction(r, call)
             \/ \E w \in paySaves : SavePayment(w)
             \/ Crash
             \/ UNCHANGED vars
      PROVE  UNCHANGED <<now, dto, charged, status>>
    BY <1>6 DEF CheckRequest, RollbackRequest, UpdatePayment, PollCryptoPayment, AnswerPoll,
                Jobs, HandleBookingsInProgress, HandleFinshedBookings, HandleCancelBookings,
                HandleCancelCryptoBookings, Reads, ReadHostPayments, VerifyCryptoTransaction,
                SavePayment, Crash, vars, rows, provider
<1> QED BY <1>1, <1>2, <1>3, <1>4, <1>5, <1>6 DEF Next, Contract!Next

\* The bookings, with their jobs, webhooks, late saves and restarts, implement
\* the contract of a stay.
THEOREM BookingsImplementContract == Spec => ImplementsContract
<1>1. IInv /\ [Next]_vars => [Contract!Next]_(Contract!abstractVars)
    BY ContractStep DEF IInv
<1> QED BY <1>1, ContractInit, Inductive, PTL DEF Spec, ImplementsContract, Contract!Spec

=============================================================================
