--------------------------- MODULE Subscriptions ---------------------------
(***************************************************************************)
(* A host's subscription: the host's own requests (initialise, cancel,     *)
(* upgrade) against the events Paystack sends about it.                    *)
(*                                                                         *)
(* The database has one row per initialisation that found no active row.   *)
(* Paystack knows subscriptions of its own and reports on them by webhook, *)
(* at least once and in any order.  A handler looks its row up by the      *)
(* host's email, which all rows of the host share, and saves the entity it *)
(* read: TypeORM then writes back every column that has changed meanwhile. *)
(* An entity in memory is therefore state of its own.                      *)
(***************************************************************************)
EXTENDS Integers, FiniteSets

CONSTANTS
    Id,             \* ids of subscription rows
    Sub,            \* Paystack's subscriptions, by the charge that starts them
    Call,           \* the host's concurrent requests
    Aging,          \* bound: the subscriptions that are followed to invoices and their end
    MaxDeliveries,  \* bound: deliveries of one event
    MaxBusy,        \* bound: handlers and requests at work at once
    NULL

Status == {"ACTIVE", "NOT_ACTIVE"}
Subscription == [status : Status, code : Sub \cup {NULL}, customer : BOOLEAN]
\* An entity in memory.
Entity == [id : Id, row : Subscription]

ASSUME SubscriptionsAssumption ==
    /\ Aging \subseteq Sub /\ MaxDeliveries \in Nat \ {0} /\ MaxBusy \in Nat \ {0}
    /\ NULL \notin Sub \cup Subscription \cup Entity

\* The events whose handlers change a row.
EventType == {"charge.success", "subscription.create", "invoice.create",
              "invoice.update", "subscription.disable"}
Event == [type : EventType, sub : Sub]

Stage == {"idle", "initialise", "cancelRemote", "cancelSave", "upgrade"}
\* A request, and whether it is an upgrade that goes on after its cancellation.
Request == [stage : Stage, upgrade : BOOLEAN, entity : Entity \cup {NULL}]

VARIABLES
    rows,       \* the host's subscriptions rows, NULL while there is none
    payments,   \* subscription_payments rows for the first charge of each
    remote,     \* Paystack's view of each subscription
    emitted,    \* events Paystack has sent
    delivered,  \* deliveries of each event the server has answered
    handlers,   \* webhook handlers that have read their row
    req,        \* the host's requests
    crossed     \* history: rows that two requests or handlers held at once

paystack == <<remote, emitted>>
vars == <<rows, payments, paystack, delivered, handlers, req, crossed>>

RemoteState == {"none", "offered", "active", "nonRenewing", "disabled"}

TypeOK ==
    /\ rows \in [Id -> Subscription \cup {NULL}]
    /\ payments \in [Sub -> Nat]
    /\ remote \in [Sub -> RemoteState]
    /\ emitted \in SUBSET Event
    /\ delivered \in [Event -> 0 .. MaxDeliveries]
    /\ handlers \in SUBSET [event : Event, entity : Entity]
    /\ req \in [Call -> Request]
    /\ crossed \in SUBSET Id

-----------------------------------------------------------------------------

Idle == [stage |-> "idle", upgrade |-> FALSE, entity |-> NULL]

Init ==
    /\ rows = [i \in Id |-> NULL]
    /\ payments = [t \in Sub |-> 0]
    /\ remote = [t \in Sub |-> "none"]
    /\ emitted = {}
    /\ delivered = [e \in Event |-> 0]
    /\ handlers = {}
    /\ req = [c \in Call |-> Idle]
    /\ crossed = {}

Entities == {[id |-> i, row |-> rows[i]] : i \in {j \in Id : rows[j] # NULL}}
OrNull(found) == IF found = {} THEN {NULL} ELSE found

\* findOne without an order: any row that matches.
GetSubscriptionByHostId == {x \in Entities : x.row.status = "ACTIVE"}
\* Fault: the lookup of the webhooks filters like that of the endpoints.
GetActiveByCustomerEmail == {x \in Entities : x.row.status = "ACTIVE"}
GetSubscriptionByCustomerEmail == Entities
GetSubscriptionByCustomerId == {x \in Entities : x.row.customer}

Save(entity, newRow) == rows' = [rows EXCEPT ![entity.id] = newRow]

-----------------------------------------------------------------------------
(* The host's requests.                                                    *)

Working == {c \in Call : req[c].stage \notin {"idle", "upgrade"}}
MayStart == Cardinality(handlers) + Cardinality(Working) < MaxBusy

ReadForInitialise(c) ==
    /\ MayStart
    /\ \E x \in OrNull(GetSubscriptionByHostId) :
         req' = [req EXCEPT ![c] = [Idle EXCEPT !.stage = "initialise", !.entity = x]]

InitializaSubscription(c) ==
    /\ req[c].stage = "idle"
    /\ ReadForInitialise(c)
    /\ UNCHANGED <<rows, payments, paystack, delivered, handlers>>

\* Fault: the new row starts with the column's default.
NewSubscriptionDefault == [status |-> "ACTIVE", code |-> NULL, customer |-> FALSE]
NewSubscription == [status |-> "NOT_ACTIVE", code |-> NULL, customer |-> FALSE]

\* Paystack has offered a transaction: a new row, or the active row read before,
\* which is off until the charge.
CommitSubscription(c) ==
    LET x == req[c].entity
    IN  /\ req[c].stage = "initialise"
        /\ \E t \in Sub : remote[t] = "none" /\ remote' = [remote EXCEPT ![t] = "offered"]
        /\ IF x = NULL
           THEN \E i \in Id : rows[i] = NULL /\ rows' = [rows EXCEPT ![i] = NewSubscription]
           ELSE Save(x, [x.row EXCEPT !.status = "NOT_ACTIVE"])
        /\ req' = [req EXCEPT ![c] = Idle]
        /\ UNCHANGED <<payments, emitted, delivered, handlers>>

\* cancelSubscriptionByHostId needs an active row with a code; upgradeSubscription
\* initialises the new plan afterwards.
CancelSubscriptionByHostId(c, upgrade) ==
    /\ req[c].stage = "idle" /\ MayStart
    /\ \E x \in GetSubscriptionByHostId :
         /\ x.row.code # NULL
         /\ req' = [req EXCEPT ![c] = [stage |-> "cancelRemote", upgrade |-> upgrade, entity |-> x]]
    /\ UNCHANGED <<rows, payments, paystack, delivered, handlers>>

\* Fault: a refusal by Paystack is not noticed.
CancelRemoteUnchecked(c) ==
    /\ req[c].stage = "cancelRemote"
    /\ req' = [req EXCEPT ![c].stage = "cancelSave"]
    /\ UNCHANGED <<rows, payments, paystack, delivered, handlers>>

\* Paystack stops renewing; it refuses a code that is not active.
CancelRemote(c) ==
    LET t == req[c].entity.row.code
    IN  /\ req[c].stage = "cancelRemote"
        /\ remote[t] = "active"
        /\ remote' = [remote EXCEPT ![t] = "nonRenewing"]
        /\ req' = [req EXCEPT ![c].stage = "cancelSave"]
        /\ UNCHANGED <<rows, payments, emitted, delivered, handlers>>

SaveCancelled(c) ==
    LET x == req[c].entity
    IN  /\ req[c].stage = "cancelSave"
        /\ Save(x, [x.row EXCEPT !.status = "NOT_ACTIVE"])
        /\ req' = [req EXCEPT ![c] = IF req[c].upgrade THEN [Idle EXCEPT !.stage = "upgrade"]
                                     ELSE Idle]
        /\ UNCHANGED <<payments, paystack, delivered, handlers>>

UpgradeSubscription(c) ==
    /\ req[c].stage = "upgrade"
    /\ ReadForInitialise(c)
    /\ UNCHANGED <<rows, payments, paystack, delivered, handlers>>

\* Paystack refuses or the server restarts: what was saved stays.
Abort(c) ==
    /\ req[c].stage # "idle"
    /\ req' = [req EXCEPT ![c] = Idle]
    /\ UNCHANGED <<rows, payments, paystack, delivered, handlers>>

-----------------------------------------------------------------------------
(* External: Paystack and the host's card.                                 *)

Emit(types, t) == emitted' = emitted \cup {[type |-> y, sub |-> t] : y \in types}

Charged(t) ==
    /\ remote[t] = "offered"
    /\ remote' = [remote EXCEPT ![t] = "active"]
    /\ Emit({"charge.success", "subscription.create"}, t)

\* The invoice of the next period, then its charge.
Invoiced(t) ==
    /\ t \in Aging /\ remote[t] = "active"
    /\ Emit({"invoice.create"}, t) /\ UNCHANGED remote
Renewed(t) ==
    /\ [type |-> "invoice.create", sub |-> t] \in emitted
    /\ remote[t] = "active"
    /\ Emit({"invoice.update"}, t) /\ UNCHANGED remote

PeriodEnds(t) ==
    /\ t \in Aging /\ remote[t] = "nonRenewing"
    /\ remote' = [remote EXCEPT ![t] = "disabled"]
    /\ Emit({"subscription.disable"}, t)

Paystack(t) ==
    /\ Charged(t) \/ Invoiced(t) \/ Renewed(t) \/ PeriodEnds(t)
    /\ UNCHANGED <<rows, payments, delivered, handlers, req>>

-----------------------------------------------------------------------------
(* handlePaystackSubscriptionsWebhook.                                     *)

LooksUp(e) ==
    IF e.type = "subscription.disable" THEN GetSubscriptionByCustomerId
    ELSE GetSubscriptionByCustomerEmail

InFlight(e) == Cardinality({h \in handlers : h.event = e})
Answered(e) == delivered' = [delivered EXCEPT ![e] = @ + 1]

\* A handler reads its row; without one it answers false, and Paystack is content.
Receive(e) ==
    /\ e \in emitted /\ delivered[e] + InFlight(e) < MaxDeliveries
    /\ MayStart
    /\ \E x \in OrNull(LooksUp(e)) :
         IF x = NULL THEN Answered(e) /\ UNCHANGED handlers
         ELSE handlers' = handlers \cup {[event |-> e, entity |-> x]} /\ UNCHANGED delivered
    /\ UNCHANGED <<rows, payments, paystack, req>>

\* Fault: a charge begins the row anew.
UpdatedAnew(e, row) ==
    CASE e.type = "subscription.create" ->
           [row EXCEPT !.status = "ACTIVE", !.code = e.sub, !.customer = TRUE]
      [] e.type = "subscription.disable" -> [row EXCEPT !.status = "NOT_ACTIVE"]
      [] OTHER -> [status |-> "ACTIVE", code |-> NULL, customer |-> FALSE]

\* updatePayment, updateSubscription, subscriptionInvoiceCreated (which falls
\* through into invoiceUpdated), invoiceUpdated, cancelledSubscription.
Updated(e, row) ==
    CASE e.type = "subscription.create" ->
           [row EXCEPT !.status = "ACTIVE", !.code = e.sub, !.customer = TRUE]
      [] e.type = "subscription.disable" -> [row EXCEPT !.status = "NOT_ACTIVE"]
      [] OTHER -> [row EXCEPT !.status = "ACTIVE"]

\* The handler's transaction commits: the entity, and a payment row for a charge.
Handle(h) ==
    LET e == h.event
    IN  /\ h \in handlers
        /\ handlers' = handlers \ {h}
        /\ Save(h.entity, Updated(e, h.entity.row))
        /\ payments' = IF e.type = "charge.success" THEN [payments EXCEPT ![e.sub] = @ + 1]
                       ELSE payments
        /\ Answered(e)
        /\ UNCHANGED <<paystack, req>>

\* Whatever has not committed is gone; Paystack repeats what was not answered.
Restart ==
    /\ handlers' = {}
    /\ req' = [c \in Call |-> Idle]
    /\ UNCHANGED <<rows, payments, paystack, delivered>>

-----------------------------------------------------------------------------

Step ==
    \/ \E c \in Call :
         \/ InitializaSubscription(c)
         \/ \E upgrade \in BOOLEAN : CancelSubscriptionByHostId(c, upgrade)
         \/ CommitSubscription(c) \/ CancelRemote(c) \/ SaveCancelled(c)
         \/ UpgradeSubscription(c) \/ Abort(c)
    \/ \E t \in Sub : Paystack(t)
    \/ \E e \in Event : Receive(e)
    \/ \E h \in handlers : Handle(h)
    \/ Restart

\* The handlers and the requests that have read a row and may still save it.
HandledBy(i) == {h \in handlers : h.entity.id = i}
RequestedBy(i) == {c \in Call : req[c].entity # NULL /\ req[c].entity.id = i}
Shared(i) ==
    \/ \E g, h \in HandledBy(i) : g # h
    \/ \E c, d \in RequestedBy(i) : c # d
    \/ HandledBy(i) # {} /\ RequestedBy(i) # {}

Track == crossed' = crossed \cup {i \in Id : Shared(i)'}

Next == Step /\ Track

Spec == Init /\ [][Next]_vars

Charge(t) == [type |-> "charge.success", sub |-> t]

-----------------------------------------------------------------------------
(* Properties.                                                             *)

\* A row is active only when the host has been charged at Paystack, whatever
\* entities handlers and requests bring back (initializaSubscription inserts an
\* inactive row, payments.service.ts:1219-1229).
ActiveWasPaid ==
    (\E i \in Id : rows[i] # NULL /\ rows[i].status = "ACTIVE") =>
        \E t \in Sub : remote[t] \in {"active", "nonRenewing", "disabled"}

\* No answered charge is lost: every delivery that Paystack was told is handled
\* left a payment row, whichever row of the host it found and in whatever status
\* (payments.service.ts:746-769).
AnsweredChargeIsRecorded ==
    \A t \in Sub : payments[t] = delivered[Charge(t)]

\* A subscription's code gets into a row from the event that announces it, and from
\* nowhere else.  Without its code the host cannot cancel, and an older code cancels
\* the wrong subscription: only entities that two handlers or requests held at once
\* can bring back what was there before (payments.service.ts:746-753, 775-786).
LostCodeNeedsOverlap ==
    [][\A i \in Id \ crossed :
          rows[i] # NULL /\ rows'[i].code # rows[i].code =>
              \E h \in handlers \ handlers' :
                  /\ h.event = [type |-> "subscription.create", sub |-> rows'[i].code]
                  /\ h.entity.id = i]_vars

\* A plan that goes off while its subscription goes on is a host who pays for nothing.
\* A cancellation never does that: between its answer from Paystack and its save, other
\* events reach the row.  Of two holders of the row the last one can; without them there
\* are two ways, and both happen: a new initialisation takes the active row over before
\* its charge (payments.service.ts:1230-1236), and the end of one subscription is applied
\* to a row of the host that names another one (payments.service.ts:572-577,
\* subscriptions.service.ts:34-54).
Stopped(code) == code \in Sub /\ remote[code] \in {"nonRenewing", "disabled"}
TakenOver(i) ==
    \E c \in RequestedBy(i) : req[c].stage = "initialise" /\ req'[c].stage = "idle"
EndOfAnother(i) ==
    \E h \in HandledBy(i) \ handlers' :
        h.event.type = "subscription.disable" /\ h.event.sub # rows[i].code
OffNeedsStop ==
    [][\A i \in Id \ crossed :
          rows[i] # NULL /\ rows[i].status = "ACTIVE" /\ rows'[i].status # "ACTIVE" =>
              Stopped(rows[i].code) \/ TakenOver(i) \/ EndOfAnother(i)]_vars

=============================================================================
