# Sojourn backend: a verification project

Sojourn is a NestJS backend for letting short stays: guests book a listing, pay
through Paystack (cards) or NOWPayments (crypto), hosts withdraw what they have
earned, subscribe to a plan and have their listings inspected. There is one
Node process, one PostgreSQL database reached through TypeORM, and a set of cron
jobs in the same process. This directory holds TLA+ models of its stateful core,
TLC runs that check them, and theorems about them checked by TLAPS.

Paths below are relative to `src/src/` of the repository.

## 1. Inventory

### How the parts interact

* A handler marked with `interceptors/transaction.interceptor.ts` runs in one
  database transaction, committed when it returns and rolled back when it throws:
  payments, the creation of a listing, updates of profiles, and some handlers of
  wallet, bookings, wishlist, referrals and inspectors. All others
  (authentication, messages, restrictions of guests and hosts, decisions about
  inspections, the wallet page, further bank accounts, transfers) run without
  one, and each statement commits on its own. Isolation is PostgreSQL's default,
  read committed; the code takes no locks that matter and declares hardly any
  unique constraint.
* The cron jobs and the provider poller (`tasks/tasks.service.ts`) use the
  `Static*Repository` classes: each query and each save is a transaction of its
  own. `@Cron` does not wait for the previous run, so runs of a job overlap.
* A TypeORM `save(entity)` reloads the row and writes the columns in which the
  entity in memory differs from it. An entity read earlier brings its old values
  back: *read, await, save* is the recurring hazard of this code.
* Paystack calls one webhook (`payments/payments.controller.ts`), at least once
  per event, in no promised order. NOWPayments is polled.
* Handlers emit events (`EventEmitter2`) that send emails, outside the
  transaction and without any answer.

### Components

| Component | State | Operations | Hard part | What makes it correct |
|---|---|---|---|---|
| Bookings and booking payments (`payments`, `bookings`, `tasks`, their repositories) | `bookings.status`, `holding_window`, `payments.payment_status` | initialise (card, crypto), cancel, `charge.success`, poll, verify, four status jobs | check then insert with a provider call between; late saves of jobs against cancellations and webhooks | no night let twice, no stay without a charge, slots released, charges recorded |
| Host wallet (`wallet`, `utils/wallet-utils.ts`) | `payments` rows of type WITHDRAWAL, `withdrawals`, `wallets`, `accounts` | wallet page, withdraw, mark paid, add or delete bank account | balance read, then row inserted; get-or-create of the wallet row; limit of three accounts | a host is never paid more than was earned; three accounts at most |
| Sojourn credits (`wallet`, `repositories/credits.repository.ts`) | `sojourn_credits` rows with a status | spend at booking, earn at booking, transfer, confirm by webhook or job | the total counts confirmed rows only, a spend is pending until its payment completes | a guest never spends credits twice |
| Referrals (`referals`) | `referals` rows | withdrawal request, balance | no path gives a row a positive amount (section 7) | - |
| Subscriptions (`subscriptions`, `payments`) | one `subscriptions` row per host, `subscription_payments` | initialise, upgrade, cancel, six webhook events | lost, repeated and reordered events against the host's own requests | active only after a charge; off while Paystack goes on charging only for the named causes; no answered charge without a payment row |
| Authentication (`auth`, the restrictions in `users`) | `users`, `hosts`, the table of refresh tokens, codes in the memory of the process | sign-up, sign-in, refresh, reset, verify, change of password, restriction | two rows per person; codes checked and removed in steps; whole rows saved as they were read | addresses verified by a code or by the sign-up, a code used once, old sessions ended by a reset, guest and host row agree |
| Listings and inspections (`properties`) | a row of `properties` and one of `property_inspections`, page views | create, edit, decide, cancel, search, recommend, host's table | two writers of the same pair of rows; a search that joins listings with bookings | after its creation active only when approved, no edit lost, a search with a city finds what is free |
| Messages and tickets (`messages`) | `tickets`, `messages` with a status | send, create a ticket, open it, tables of both sides | an opening marks in one statement and finds in later ones; creation in two saves | what is marked read was shown, what nobody saw is counted |
| Reviews, wishlist, profiles, partners, inspectors, admin | plain rows | create, read, update, delete | hardly any: one statement per request | - |
| Email, file storage, invoices, templates, migrations, guards, filters | none, or outside the process | input and output | - | - |


## 2. Plan

Ordered so that the behaviour that matters most comes first. Every module keeps
its parameters as CONSTANTS with named assumptions, one action per operation and
no RECURSIVE operator, so that it can be proved about.

1. `Reservations`, with `StayContract` as its abstract specification and
   `ReservationsProofs`; the tables of bookings for guest, host and admin.
2. `HostWallet`: withdrawal arithmetic and its races, the wallet row, the
   account limit. It takes `StayContract` as its environment. `HostWalletProofs`.
3. `Subscriptions`: the host's requests against Paystack's events.
   `SubscriptionsProofs`.
4. `SojournCredits`: the ledger, with spends, transfers and confirmations.
   `SojournCreditsProofs`.
5. `Accounts`: the rows of guest and host, codes, tokens, restrictions.
   `AccountsProofs`.
6. `Listings`: listings with their inspections, the search, revenue. It takes
   `StayContract` as its environment too. `ListingsProofs`.
7. `Threads`: tickets and messages. `ThreadsProofs`.
8. `FiniteSums`: what the proofs about money need to know of sums over sets.

All of this is done, and every invariant and action property that a run checks
and that holds is proved. What is left: composing `Reservations` with the credits
ledger (a payment reverted by a wallet page hides it from the job that confirms
credits) and with `HostWallet` in place of the contract; and proving more of what
the code promises beyond the runs, such as the balance of a host with several
wallets.

## 3. Modules and how they correspond to the code

### Conventions

* An HTTP request reads and decides in one step (its *check*), calls a provider,
  and writes in one step when its transaction commits. What it read is part of
  the state until then. Requests that run without a transaction write each row
  in a step of its own.
* A cron job reads in one step. A JavaScript callback runs to its next `await`
  without interruption, so read and decision are one step; every later save is
  another.
* `save` of a stale entity is one step: TypeORM's reload of the row and its
  update are not separated. What the entity held when it was read is written.
* `findOne` without an order may return any row that matches.
* Webhooks arrive with `status: success` only, any number of times up to a bound,
  in any order.
* `Call` is a set of requests in flight, `Run` one of overlapping runs of a job.
* Actions under the comment *Fault* are not part of the specifications. They
  are plausible bugs, and each property is known to fail for one of them.

### `StayContract`

What the booking subsystem promises for each booking: it is agreed, paid,
expected, in progress, finished, or cancelled, with the steps between these that
clock and money justify, and whether the guest's money was taken. It does not
know of jobs, webhooks or windows.

### `Reservations`

| TLA+ | Code |
|---|---|
| `dto`, `status`, `hold`, `payment` | the rows of `bookings` and `payments` |
| `CheckRequest`, `CommitBooking`, `RollbackRequest` | `initializeTransaction`, `initializeCryptoTransaction` |
| `Conflicts`, `CheckAvailabilityOfListing` | the query of `checkAvailabilityOfListing` with its missing brackets |
| `UpdatePayment` | `charge.success` |
| `PollCryptoPayment`, `AnswerPoll` | the poller of NOWPayments before and after its call |
| `HandleBookingsInProgress`, `HandleFinshedBookings`, `HandleCancelBookings`, `HandleCancelCryptoBookings`, `SaveBooking` | the four jobs that move bookings, and their saves |
| `ReadHostPayments`, `SavePayment` | the wallet endpoints that save back all payments of a host |
| `VerifyCryptoTransaction` | the endpoint of the same name |
| `CancelBooking`, `Crash` | cancellation, restart |

`verifyTransaction` (payments.service.ts:359-424) always throws and rolls back,
so it changes nothing and has no action.

`CheckBookingStatus`, `IsCancellationWindowOpen` and `TableRow` are what
`bookings-utils.ts` makes of a row; `GetBookingsByGuestId`, `GetBookingsByHostId`
and `GetBookingsForAdmin` are the three tables. The admin's query does not select
the status of the payment, so it drops every cancelled booking, paid or not.
Views of a single booking and invoices are left out.

The row lock on the listing's view
counter is taken after the availability check and does not prevent the race, so
it is left out. Two identical polls in flight are one. `raced` and `revived` are
history variables: which requests were in flight together, and which bookings a
job saved back from CANCELLED.

### `HostWallet`

One host (every query filters on the host). The balance is a formula over
payment rows (`Share`, `Counts`, `Debit`, `Available`, from `applyWithdrawals`),
in hundredths because the host keeps 98 percent. `getWalletById` and
`addMoreBankAccounts` have no transaction, so creating the wallet, reading and
saving payments, counting and inserting are steps of their own; the withdrawal,
the first account and the booking commit at once. The wallet a withdrawal is
booked on is named by the client. Bookings move as `StayContract` allows.
`exposed` is a history variable: two withdrawals were under way at once, or a stay
that counted ceased to (`Lapses`: it was released, went back in its life, or a page
saved its payment as it had been before the charge). It never guards an action.

### `Subscriptions`

One host. `rows` is the table, `remote` Paystack's view, `handlers` the webhook
handlers that have read an entity and not yet committed. The endpoints look for
an ACTIVE row, the webhooks for any row with the host's email, the end of a
period for any row with the customer. `invoice.create` falls through into
`invoice.update`, which switches the row on once more and is the same step.
`subscription.not_renew` and `invoice.payment_failed` only send mail. `crossed` is a
history variable: the rows that two handlers or requests have held at once.
`Restart` may happen at any time and any number of times: it drops handlers and
requests, so that what was not answered comes again.

What does not hold, and the model has the steps: that a charged host keeps an active
plan. An initialisation takes an active row over and switches it off before the new
charge, while Paystack goes on with the old subscription; the end of one subscription
switches off whatever row of the customer is found. `OffNeedsStop` says that these two
and an overlap are all the ways there are.

### `SojournCredits`

`ledger` holds the rows by what they stand for: spend and reward of a booking,
debit and credit of a transfer. The webhook confirms all rows of its reference
in its transaction; crypto payments leave theirs to `handleUpdatePayments`, which
confirms one row of each completed payment in a run (`findOne`). A withdrawal
has no reference, TypeORM leaves a null condition out, and any pending row
matches (`Matches`). The rows of transfers refer to an email and an id, so no
payment of a booking confirms them. Whether a completed payment is later reverted is a matter of
`Reservations` and is left out here.

### `Accounts`

| TLA+ | Code |
|---|---|
| `user`, `host` | the columns of `users` and `hosts` that requests read or write |
| `code` | the codes in the cache of the process: a restart loses them (`Restart`), time or size drop them (`ForgetCode`) |
| `token` | the table of refresh tokens |
| `SignUp`, `CreateHostAccount`, `FindHost` .. `InsertHost` | the statements of the three sign-ups |
| `OpenSession`, `CreateToken`, `RefreshClientToken` | password and Google sign-in, impersonation by the admin, refresh |
| `SendCode`, `ResetPassword`, `ValidateVerify` .. `SaveReset` | codes, confirmation of the address, reset of the password |
| `UpdatePassword`, `UpdateGuest`, `UpdatePartner` | change of password; restriction of both rows |

No endpoint has a transaction: every statement is an action, and `save` writes
the whole row as it was read. A token is the signature of an account and a
second, and its column is unique, so that the second sign-in within a second
fails. A sign-up makes the row from the payload as it came: the type of the payload
declares `isEmailVerified`, no whitelist removes it, and a Google sign-up is taken at
its word, so an account may be verified from the start. `vouched` remembers the
addresses for which that was said or a code was entered. Here as in `Listings`, the
fields enumerated from a request's body are those the payload types declare. The reset
looks for the host by the guest's id and never finds one, so that the host keeps its
old password; `apart` remembers in which of the two columns guest and host may differ
for a reason `GuestAndHostAgree` names, and a change that reaches both takes the
column out again.
Logging out clears cookies and changes no table; it has no action. The admin's
own sign-in and refresh work on another table and are left out.

### `Listings`

`property` and `inspection` are the rows of a listing and of its inspection, and
only their creation is one step. Both rows are made from the form, whose types
declare `activeStatus` and `status`, and nothing strips them: a listing may begin
active, and its inspection may begin in any status. `asCreated` remembers the
listings whose status no request has written since. A decision saves the inspection, then the
listing (`SaveListing`); a cancellation saves the inspection, reads the listing,
and saves all of it (`Deactivate`); a host's edit looks at the approval and
writes later. The search has two forms, and the code picks one by whether there
are bookings at all: `SearchWithoutBookings` filters on people too, `SearchSql`
does not, and without a city its OR is not bracketed. Its price filter is a
minimum. Amenities and pages (a LIMIT without ORDER BY) are left out. A search
in the model does not end before it begins. The booking code never looks at the
status of a listing, so bookings need no guard on it.

### `Threads`

`CreateTicket` saves the first message and `AddTicket` the ticket that points to
it. Opening a ticket is `MarkRead`, then `FindTicket`, then `Answer`, or
`LookUpThrows` when the booking has no payment. `MarkRead` marks all messages of
the ticket, whoever opens it. Creating a ticket about a listing also counts a
page view, which is `GetPropertyById` of `Listings` and is not repeated here.

### `FiniteSums`

No part of the program: facts about `SumFunctionOnSet` and `SumFunction` of the
community modules, in which balances and revenue are written.

## 4. Runs

| Run | Property | What it shows |
|---|---|---|
| race | `DoubleBookingNeedsRace`, `CheckedStayIsFree` | the availability query lets no overlap through; a night is let twice only through two requests in flight together or a revived booking |
| jobs | `CompletedIsCharged`, `NoUnpaidStay`, `NeverAheadOfClock`, `NoEarlyRelease`, `OfferedCancellationIsInTime`, `PaidStayIsListed`, `ImplementsContract` | whatever overlapping jobs and late saves do, status, money and clock stay consistent, the tables show it so, and the bookings refine the contract |
| settle | `SlotIsSettled`, `ChargeIsRecorded`, `PaidStaySettles` | what must happen happens, across a restart |
| double_booking | `NoDoubleBooking` (violated) | two checks before either insert |
| false_conflict | `RefusedStayIsTaken` (violated) | the unbracketed OR refuses free listings |
| wallet | `AccrualIsSound`, `CompletedWithdrawalIsPaid`, `AccountOverrun`, `WalletOverrun`, `OverdrawnNeedsOverlap` | all endpoints overlap: accrual stays between nothing and the host's part, late saves complete no unpaid withdrawal, overruns of accounts and wallets are bounded by the requests in flight, and the balance is overdrawn only when a stay ceases to count or withdrawals overlap |
| overpaid | `NeverOverpaid` (violated) | fee and VAT are taken off twice from the debit |
| subscribed | `AnsweredChargeIsRecorded`, `ActiveWasPaid`, `LostCodeNeedsOverlap`, `OffNeedsStop` | two rows, two subscriptions, events in any order, two handlers or a handler and a request at once, restarts: no row is active before a charge, no answered charge is lost, codes come from their announcement unless two held the row at once, and a plan goes off while Paystack charges for it only by an overlap, a new initialisation or the end of another subscription |
| credits | `ConfirmedWasPaid`, `OverdraftNeedsOverlap`, `CreditsAreConfirmed` | only money confirms credits until the first paid withdrawal; overdrafts need overlapping spends; one row in a run is enough in the end |
| accounts | `VerifiedByCodeOrSignUp`, `HostHasGuest`, `OldSessionsEnd`, `CodeWorksOnce`, `LostUpdateNeedsOverlap`, `GuestAndHostAgree` | two requests of any kind interleave at every statement: what makes an address verified, what a reset ends, that updates are lost only when requests overlapped, and that guest and host agree at rest but for the named exceptions |
| listings | `ActiveWasApproved`, `ActiveWithoutApprovalNeedsOverlap`, `SearchIsExact`, `RevenueWasPaid`, `LostEditNeedsOverlap` | from the first decision on, the two rows drift apart only after an overlap or a restart, the search finds what is wanted and free, revenue was paid |
| threads | `ReadWasShown`, `ShownIsRead`, `CreationIsWhole`, `WaitingIsCounted` | messages arrive between the statements of openings: what counts as read was shown, or marked by an opening that broke off |

The violated properties state what the code or a comment of it says, quoted with
its line in `PROJECT.json`. `TypeOK` of every module is proved (section 6) and not run. `PendingIsHeld` and `RevivedWasPaid` are parts of
the inductive invariant of `Reservations`, proved there; what rests on them,
`SlotIsSettled` and `NoUnpaidStay`, is run.

Distinct states, with two workers: race 45,018, jobs 510,810 (about 70 s),
wallet 784,879 (70 s), subscribed 1,197,945 (70 s), credits 133,942 (50 s), accounts 770,523 (40 s),
listings 134,868, threads 238,944.

### Bounds

* Two requests for overlapping dates are the least that can conflict, and every
  conflict of the query is between two: `race` and `double_booking` have two
  requests on one listing, `false_conflict` two on two listings, `jobs` and
  `settle` one booking on which all jobs, runs and saves compete.
* Two calls or runs are the least that can race; the theorems of section 6 hold
  for any number of them.
* `MaxTime` covers check-in, check-out and a holding window with a unit to
  spare. A booking whose window would end beyond it is not made, so that no
  window is open for good only because the clock stopped.
* Bounds on deliveries, on handlers and requests in flight and on restarts are one or
  two: the second of each is the interesting one.
* `HostWallet`: one stay, one withdrawal, two requests in flight, three wallet
  rows (one more than `WalletOverrun` allows) and a limit of one account, which
  two requests already exceed; dates in half days so that a partial night occurs.
  The withdrawal of 16 costs 19 with its fees and needs both nights of the stay, which
  earn 19.6, so that the balance can be exhausted. With one withdrawal the run
  overdraws the balance by a lapse only; that overlapping withdrawals are the only
  other way is proved for any number of them (section 6).
  Wallets and requests are interchangeable (symmetry). `Op` selects the endpoints
  a run calls: all of them in `wallet`, bookings and four withdrawals in
  `overpaid`.
* `jobs` has a stay from 3 to 4 with days of length 2, and time until 4, so that
  the window in which cancellation is offered opens and closes.
* `Subscriptions`: two rows, two Paystack subscriptions and one request. Two rows are
  the least for which a webhook can pick the wrong one, and with two subscriptions an
  initialisation finds a row that is active. `MaxBusy` lets two handlers, or a handler
  and the request, hold entities at once; two requests at once are left to the proofs.
  `MaxDeliveries` is one answered delivery of each event, repeated as often as
  restarts interrupt it. `Aging` follows one subscription to its invoices and its
  end, the other only to its charge, its creation and its cancellation. The rows are interchangeable
  (symmetry).
* `SojournCredits`: the first booking earns 3, enough for two spends of 3 that
  overdraw the guest, the others earn 1.
* `Accounts`: one address, one password and one second, two requests. The
  properties speak of one address each, a request works on one address, and
  whose password it is matters only as old or new; the proofs cover the rest.
  `Google` lets a sign-up with Google say that it is one (`isGoogle`); one that denies
  it is left to the proofs. What a sign-up says of its address being verified is free.
* `Listings`: one listing, one stay, two requests, two prices, one page view; the
  searches and dates cover every position of a search against a stay.
* `Threads`: two tickets, three messages, two requests. Deadlock is not checked:
  when all messages are sent and no request is open the system rests.

### Fairness

* Cron starts each job again and again and a run gets through its rows: weak
  fairness of each job's read and of each save.
* Providers: Paystack repeats an event until it is answered: weak fairness of the
  first delivery in `Reservations`, where a delivery is one step. The poller asks again every five seconds.
* Endpoints, guests and hosts are not fair: they may stop at any point.
* `Reservations` assumes that the wallet endpoints come to rest
  (`WalletsRest`): a wallet page reloaded forever at the right moments would
  undo every completion. Without it the liveness properties do not hold.

## 5. The contract as abstract specification

`Reservations` defines a refinement mapping to `StayContract` (status and the
charge), and `ImplementsContract` is checked by TLC in `jobs` and proved in
`ReservationsProofs`. A save of a job maps to a step of the contract or to a
stutter; the crucial case is a late save from an old snapshot, which brings a
paid stay back from CANCELLED and is a step the contract has to allow.
`HostWallet` uses the contract in the other direction, as what its environment
may do, so that what is checked of the wallet rests on nothing of the bookings
beyond what they are proved to promise. `Listings` does the same for its search
and for the host's revenue.

## 6. Proofs

`ReservationsProofs` proves for all values of the constants, from
the named assumptions of `Reservations` only:

* `TypeCorrect`, `PaymentsAreCharged`, `StaysArePaid`, `StaysFollowTheClock`,
  `PendingBookingsAreHeld`, `RevivedBookingsWerePaid`, `DoubleBookingIsARace`,
  `CheckedStaysAreFree`, `CancellationIsOfferedInTime`: the invariants;
* `ReleaseIsNeverEarly`, `PaidStaysAreListed`: the action properties;
* `BookingsImplementContract`: initial states map to initial states, and every
  step to a step of the contract or a stutter.

The invariants are not inductive as the runs state them. What a job is about to
save, what the poller is about to answer and what a wallet page is about to save
back were true when read, and the inductive invariant says of each of these
snapshots what makes its late save harmless: a decision to begin or end a stay
was taken for a paid booking and a date that has passed (both stable), a
completed payment in a snapshot was charged, a cancellation was decided after the
window. The proofs go action by action, and by the conjunct an action
can disturb.

`HostWalletProofs` proves, from `WalletAssumption` only:

* `WalletTypeCorrect`;
* `CompletedWithdrawalsArePaid`: the inductive invariant `PaidInv` adds that a
  status read as COMPLETED by a wallet page belongs to a withdrawal that is PAID,
  which never ends, so that the page may save it at any later time;
* `AccountsAreBounded`: `AccountInv` counts with the accounts the calls that have
  passed the limit and may still insert (`Inserting`). A call is let in only
  below the limit, and from then on its insert is paid for;
* `WalletsAreBounded`: in the same way `WalletInv` counts the calls that found no
  wallet (`Creating`). None is added once there is a wallet.

* `AccrualsAreSound`: rounding up is monotone (`NightsGrow`), so the nights so far
  are at most the nights booked, and the contract settles no stay before it
  begins (`BegunInv`);
* `OverdraftsNeedExposure`: with one wallet the balance is the sum of what the
  stays that count have earned less what the recorded withdrawals took
  (`AvailableIsBalance`), and it is never negative before the history is `exposed`.
  `RowInv` says of the rows that each is on a wallet there is and has its amount, so
  that no late save moves a withdrawal off or onto the books. `SolventInv` says that
  the balance is not negative and covers, fees included, the one withdrawal that may
  be under way. A step disturbs it in one of three ways: time passes, and what has
  been earned grows (`ShareGrows`, `EarnedGrows`); a withdrawal is inserted, and
  takes no more than was covered (`DebitedAdd`); or a stay lapses, and the history is
  exposed. The code's double subtraction of fees (run `overpaid`) makes the debit
  smaller than what is checked, so that the bound holds with the fees to spare.

`SubscriptionsProofs` proves `TypeCorrect`, `ActiveRowsWerePaid`
and `AnsweredChargesAreRecorded`. The inductive
invariant adds that each handler in flight still has its place among the
deliveries that are allowed (`Quota`), that handlers work on events that were sent
for subscriptions Paystack has started (`Causes`), that a cancellation has read
a row that names a subscription (`Cancelling`), and that it has stopped that
subscription before it saves (`CancelledIsStopped`). `LostCodesNeedOverlap` rests on
`CodeInv`: a row that was never held twice has one holder at most (`HeldOnce`), and
what that holder has read still stands (`Fresh`). So what it writes back is the row
itself, changed as its event says. `OffRowsNeedStop` follows from the same: the
cancellation that switches such a row off has stopped the subscription the row still
names, and the end of a subscription reaches the row after Paystack has ended it.

`SojournCreditsProofs` proves `TypeCorrect` and `ConfirmedCreditsWerePaid`. A
booking has no rows before its payment and at most one request at work on it
(`UnpaidHasNoRows`, `Single`), and the job holds completed payments only
(`JobIsComplete`). `OverdraftsNeedOverlap` adds `BalanceInv`: as long as no
withdrawal has been paid, a guest whose spends never overlapped is `Solvent`, which is
that the balance is not negative, that at most one spend is on its way to it, asked
for or pending, and that the balance covers that one. Rewards only add.

`AccountsProofs` proves all properties of the run `accounts`. `IInv` says of each
request what its stage implies (`Shape`), that what it read still stands unless
requests have overlapped on its address (`Fresh`, `Alone`), and of each row and
code what is true at rest (`RowOK`, `CodeOK`). A request works on one address, so
`LocalIInv` reduces the preservation of `IInv` to that request and that address.
`GuestsAndHostsAgree` rests on a second invariant, `Agree`, which also says when the
two may differ between the writes of one change (`HalfPassword`, `HalfActive`); steps
that write neither row keep it (`Undisturbed`), and each write has a lemma.

`ListingsProofs` is built in the same way (`Shape`, `Fresh`, `RowOK`, `Alone`,
`LocalIInv`). `SearchesAreExact` rests on two lemmas about intervals of dates,
`SharedDay` and `NotBookedIsFree`, for all dates and all tables of bookings.
`RevenueIsPaidMoney` rests on `SettledWasPaid`, which the contract keeps: the stays
that count as revenue are among the paid ones, and a subset has a smaller sum.

`ThreadsProofs` proves all properties of the run `threads`. Its `Protocol` says
what creations and openings under way know: their tickets are apart
(`Creations`, `Separate`), and of the messages of an opened ticket only those that
came since the marking, the `late` ones, are unread (`Openings`, `Met`, `Found`), and messages belong to tickets (`Linked`).

`FiniteSums` is the theory that `HostWalletProofs`, `SojournCreditsProofs` and
`ListingsProofs` share. The fold takes elements in an order
that `CHOOSE` fixes; `SumExists` shows that the recursion has a solution on every
finite set, and `SumRemove` that any element can be taken first. From there on the
lemmas are about whole numbers: an element more or less, two disjoint sets, larger
values, a larger set. Induction over finite sets is out of reach, because the
library's theorems about it take an operator as parameter; each lemma takes a least
counterexample instead (`MinimalSubset`, from the well-foundedness of the subset
order).

Only model-checked: liveness under fairness (`SlotIsSettled`, `ChargeIsRecorded`,
`PaidStaySettles`, `CreditsAreConfirmed`), which TLAPS does not do.
The violated properties are TLC's alone.

## 7. What is not modelled

* Referrals: no path of the program gives a referral a positive amount. The one
  written at a booking is unreachable (`guest.refererId` is never selected), so
  the table only ever holds withdrawal requests, which its balance check refuses.
* Reviews, wishlist, profiles, inspectors, the admin's counts: one insert, update
  or query per request on rows that one person edits.
* The admin's own sign-in; logging out, which clears cookies and leaves the
  refresh token valid; `hostLogin` and `googleLogin`, which nothing calls.
* Emails and domain events, invoices, templates: output without an answer.
* File storage, exchange rates, guards, filters, configuration, migrations: pure
  input and output, or no state.
* Views of one booking. Prices, rounding to currency, names and texts, wherever
  no property tells them apart.
* `addCronJobValidateCryptoPayment` (tasks.service.ts:263-325) would poll a single
  payment as the poller polls all of them; nothing calls it.
