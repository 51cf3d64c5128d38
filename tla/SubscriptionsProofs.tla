------------------------- MODULE SubscriptionsProofs -------------------------
(***************************************************************************)
(* What TLAPS proves about Subscriptions for every number of rows, of      *)
(* Paystack's subscriptions, of requests and handlers in flight, and every *)
(* bound on deliveries and restarts.                                       *)
(***************************************************************************)
EXTENDS Subscriptions, FiniteSetTheorems, TLAPS

-----------------------------------------------------------------------------
(* The inductive invariant.                                                *)

Started == {"active", "nonRenewing", "disabled"}
SomeRow == \E i \in Id : rows[i] # NULL

\* Every delivery in flight still has its place among those that are allowed.
Quota ==
    /\ IsFiniteSet(handlers)
    /\ \A e \in Event : delivered[e] + InFlight(e) <= MaxDeliveries

\* Handlers work on events that were sent, of subscriptions that were charged, the end
\* of a subscription is sent when it is there, and a subscription that Paystack knows
\* of has left a row.
Causes ==
    /\ \A h \in handlers : h.event \in emitted
    /\ \A e \in emitted : remote[e.sub] \in Started
    /\ \A e \in emitted : e.type = "subscription.disable" => remote[e.sub] = "disabled"
    /\ \A t \in Sub : remote[t] # "none" => SomeRow

\* A cancellation has read a row that names a subscription.
Cancelling ==
    \A c \in Call : req[c].stage \in {"cancelRemote", "cancelSave"} =>
        req[c].entity \in Entity /\ req[c].entity.row.code \in Sub

\* A request that is about to switch a row off has stopped the subscription at Paystack
\* that it has read in it.
CancelledIsStopped ==
    \A c \in Call : req[c].stage = "cancelSave" => Stopped(req[c].entity.row.code)

IInv ==
    /\ TypeOK /\ Quota /\ Causes /\ Cancelling
    /\ ActiveWasPaid /\ CancelledIsStopped /\ AnsweredChargeIsRecorded

-----------------------------------------------------------------------------
(* Facts about rows and entities.                                          *)

\* A request at rest is a request.
LEMMA IdleType == Idle \in Request
BY DEF Idle, Request, Stage

\* What a lookup finds is an entity.
LEMMA EntitiesType == TypeOK => Entities \subseteq Entity
BY DEF TypeOK, Entities, Entity

\* The rows that were held twice are rows.
LEMMA TrackType == ASSUME TypeOK, Track PROVE crossed' \in SUBSET Id
BY DEF TypeOK, Track

\* There is an entity to find when there is a row.
LEMMA SomeRowIsFound == SomeRow => Entities # {}
BY DEF SomeRow, Entities

\* Saving an entity keeps the table well-typed and removes no row.
LEMMA SaveEffect ==
    ASSUME TypeOK, NEW x \in Entity, NEW r \in Subscription, Save(x, r)
    PROVE  /\ rows' \in [Id -> Subscription \cup {NULL}] /\ SomeRow'
           /\ rows'[x.id] = r /\ \A i \in Id : i # x.id => rows'[i] = rows[i]
BY SubscriptionsAssumption DEF TypeOK, Save, Entity, SomeRow

\* What a handler writes is a row.
LEMMA UpdatedType ==
    ASSUME NEW e \in Event, NEW r \in Subscription PROVE Updated(e, r) \in Subscription
BY DEF Event, Subscription, Status, Updated

\* The empty tables satisfy the invariant.
LEMMA InitIInv == Init => IInv
<1> SUFFICES ASSUME Init PROVE IInv
    OBVIOUS
<1> USE SubscriptionsAssumption
<1>1. TypeOK
    BY IdleType DEF Init, TypeOK, RemoteState
<1>2. Quota
  <2>1. \A e \in Event : InFlight(e) = 0
    BY FS_EmptySet DEF Init, InFlight
  <2> QED BY <2>1, FS_EmptySet DEF Init, Quota
<1>3. AnsweredChargeIsRecorded
    BY DEF Init, AnsweredChargeIsRecorded, Charge, Event, EventType
<1> QED BY <1>1, <1>2, <1>3
        DEF Init, IInv, Causes, Cancelling, ActiveWasPaid, CancelledIsStopped, Stopped, Idle

-----------------------------------------------------------------------------
(* The host's requests.                                                    *)

\* Requests that only read leave the tables, Paystack and the handlers alone.
LEMMA ReadOnlyIInv ==
    ASSUME IInv, crossed' \in SUBSET Id,
           UNCHANGED <<rows, payments, remote, emitted, delivered, handlers>>,
           req' \in [Call -> Request],
           \A c \in Call : req'[c] # req[c] =>
              /\ req'[c].stage # "cancelSave"
              /\ req'[c].stage = "cancelRemote" =>
                   req'[c].entity \in Entity /\ req'[c].entity.row.code \in Sub
    PROVE  IInv'
BY DEF IInv, TypeOK, Quota, InFlight, Causes, SomeRow, Cancelling, ActiveWasPaid,
       CancelledIsStopped, Stopped, AnsweredChargeIsRecorded

\* Paystack's offer is committed with its row, which is off.
LEMMA CommitIInv == ASSUME IInv, Track, NEW c \in Call, CommitSubscription(c) PROVE IInv'
<1> USE SubscriptionsAssumption
<1>1. /\ TypeOK /\ UNCHANGED <<payments, emitted, delivered, handlers>>
      /\ req[c].stage = "initialise" /\ req' = [req EXCEPT ![c] = Idle]
    BY DEF IInv, CommitSubscription
<1>2. PICK t \in Sub : remote[t] = "none" /\ remote' = [remote EXCEPT ![t] = "offered"]
    BY DEF CommitSubscription
<1>3. /\ rows' \in [Id -> Subscription \cup {NULL}] /\ SomeRow'
      /\ \A i \in Id : rows'[i] # NULL /\ rows'[i].status = "ACTIVE" =>
           rows[i] # NULL /\ rows[i].status = "ACTIVE"
  <2>1. CASE req[c].entity = NULL
    <3>1. PICK i \in Id : rows' = [rows EXCEPT ![i] = NewSubscription]
      BY <2>1 DEF CommitSubscription
    <3>2. NewSubscription \in Subscription /\ NewSubscription.status # "ACTIVE"
      BY DEF NewSubscription, Subscription, Status
    <3> QED BY <1>1, <3>1, <3>2 DEF TypeOK, SomeRow
  <2>2. CASE req[c].entity # NULL
    <3> DEFINE x == req[c].entity
               new == [x.row EXCEPT !.status = "NOT_ACTIVE"]
    <3>1. x \in Entity
      BY <1>1, <2>2 DEF TypeOK, Request
    <3>2. new \in Subscription /\ new.status # "ACTIVE" /\ x.id \in Id
      BY <3>1 DEF Entity, Subscription, Status
    <3>3. rows' = [rows EXCEPT ![x.id] = new]
      BY <2>2 DEF CommitSubscription, Save
    <3> QED BY <1>1, <3>2, <3>3 DEF TypeOK, SomeRow
  <2> QED BY <2>1, <2>2
<1>4. TypeOK'
    BY TrackType, <1>1, <1>2, <1>3, IdleType DEF TypeOK, RemoteState
<1>5. Quota' /\ AnsweredChargeIsRecorded'
    BY <1>1 DEF IInv, Quota, InFlight, AnsweredChargeIsRecorded
<1>6. \A u \in Sub : remote[u] # "none" => remote'[u] = remote[u]
    BY <1>1, <1>2 DEF TypeOK
<1>7. Causes'
    BY <1>1, <1>3, <1>6 DEF IInv, Causes, Started, TypeOK, Event
<1>8. Cancelling'
    BY <1>1 DEF IInv, Cancelling, TypeOK, Idle
<1>9. ActiveWasPaid'
    BY <1>1, <1>3, <1>6 DEF IInv, ActiveWasPaid
<1>10. CancelledIsStopped'
    BY <1>1, <1>6 DEF IInv, CancelledIsStopped, Stopped, Cancelling, TypeOK, Idle
<1> QED BY <1>4, <1>5, <1>7, <1>8, <1>9, <1>10 DEF IInv

\* Paystack stops the subscription before the row is switched off.
LEMMA CancelRemoteIInv == ASSUME IInv, Track, NEW c \in Call, CancelRemote(c) PROVE IInv'
<1> DEFINE t == req[c].entity.row.code
<1>1. /\ TypeOK /\ UNCHANGED <<rows, payments, emitted, delivered, handlers>>
      /\ req[c].stage = "cancelRemote" /\ remote[t] = "active"
      /\ remote' = [remote EXCEPT ![t] = "nonRenewing"]
      /\ req' = [req EXCEPT ![c].stage = "cancelSave"]
    BY DEF IInv, CancelRemote
<1>2. req[c].entity \in Entity /\ t \in Sub
    BY <1>1 DEF IInv, Cancelling
<1>3. /\ req'[c].stage = "cancelSave" /\ req'[c].entity = req[c].entity
      /\ \A d \in Call : d # c => req'[d] = req[d]
      /\ req' \in [Call -> Request]
    BY <1>1 DEF TypeOK, Request, Stage
<1>4. TypeOK'
    BY TrackType, <1>1, <1>3 DEF TypeOK, RemoteState
<1>5. Quota' /\ AnsweredChargeIsRecorded'
    BY <1>1 DEF IInv, Quota, InFlight, AnsweredChargeIsRecorded
<1>6. /\ remote'[t] = "nonRenewing" /\ \A u \in Sub : u # t => remote'[u] = remote[u]
      /\ \A u \in Sub : remote[u] \in Started => remote'[u] \in Started
      /\ \A u \in Sub : remote'[u] # "none" => remote[u] # "none"
    BY <1>1, <1>2 DEF TypeOK, Started
<1>7. Causes'
    BY <1>1, <1>6 DEF IInv, Causes, SomeRow, TypeOK, Event
<1>8. Cancelling'
    BY <1>2, <1>3 DEF IInv, Cancelling
<1>9. ActiveWasPaid'
    BY <1>1, <1>6 DEF IInv, ActiveWasPaid, Started
<1>10. CancelledIsStopped'
    BY <1>1, <1>2, <1>3, <1>6 DEF IInv, CancelledIsStopped, Stopped, Cancelling
<1> QED BY <1>4, <1>5, <1>7, <1>8, <1>9, <1>10 DEF IInv

\* The row is switched off.
LEMMA SaveCancelledIInv == ASSUME IInv, Track, NEW c \in Call, SaveCancelled(c) PROVE IInv'
<1> DEFINE x == req[c].entity
           new == [x.row EXCEPT !.status = "NOT_ACTIVE"]
<1>1. /\ TypeOK /\ UNCHANGED <<payments, remote, emitted, delivered, handlers>>
      /\ req[c].stage = "cancelSave" /\ Save(x, new)
    BY DEF IInv, SaveCancelled, paystack
<1>2. x \in Entity /\ new \in Subscription /\ new.status = "NOT_ACTIVE"
    BY <1>1 DEF IInv, Cancelling, Entity, Subscription, Status
<1>3. /\ rows' \in [Id -> Subscription \cup {NULL}] /\ SomeRow'
      /\ \A i \in Id : rows'[i] # NULL /\ rows'[i].status = "ACTIVE" =>
           rows[i] # NULL /\ rows[i].status = "ACTIVE"
  <2> HIDE DEF x, new
  <2>1. /\ rows' \in [Id -> Subscription \cup {NULL}] /\ SomeRow'
        /\ rows'[x.id] = new /\ \A i \in Id : i # x.id => rows'[i] = rows[i]
    BY <1>1, <1>2, SaveEffect
  <2> QED BY <1>2, <2>1
<1>4. /\ req' \in [Call -> Request] /\ req'[c].stage \in {"idle", "upgrade"}
      /\ \A d \in Call : d # c => req'[d] = req[d]
    BY <1>1, IdleType DEF SaveCancelled, TypeOK, Request, Stage, Idle
<1>5. TypeOK'
    BY TrackType, <1>1, <1>3, <1>4 DEF TypeOK
<1>6. Quota' /\ AnsweredChargeIsRecorded' /\ Causes'
    BY <1>1, <1>3 DEF IInv, Quota, InFlight, AnsweredChargeIsRecorded, Causes
<1>7. Cancelling' /\ CancelledIsStopped'
    BY <1>1, <1>4 DEF IInv, Cancelling, CancelledIsStopped, Stopped
<1>8. ActiveWasPaid'
    BY <1>1, <1>3 DEF IInv, ActiveWasPaid
<1> QED BY <1>5, <1>6, <1>7, <1>8 DEF IInv
-----------------------------------------------------------------------------
(* Paystack, deliveries, restarts.                                         *)

\* Paystack charges, invoices, and ends periods; it forgets nothing it started.
LEMMA PaystackIInv == ASSUME IInv, Track, NEW t \in Sub, Paystack(t) PROVE IInv'
<1>1. TypeOK /\ UNCHANGED <<rows, payments, delivered, handlers, req>>
    BY DEF IInv, Paystack
<1>2. /\ remote' \in [Sub -> RemoteState]
      /\ \A u \in Sub : remote[u] \in Started => remote'[u] \in Started
      /\ \A u \in Sub : remote'[u] # "none" => remote[u] # "none"
      /\ \A u \in Sub : remote[u] \in {"nonRenewing", "disabled"} =>
                          remote'[u] \in {"nonRenewing", "disabled"}
      /\ remote'[t] \in Started
    BY <1>1 DEF Paystack, Charged, Invoiced, Renewed, PeriodEnds, Started, TypeOK, RemoteState
<1>3. /\ emitted' \subseteq Event /\ emitted \subseteq emitted'
      /\ \A e \in emitted' : e \in emitted \/ e.sub = t
    BY <1>1 DEF Paystack, Charged, Invoiced, Renewed, PeriodEnds, Emit, TypeOK, Event, EventType
<1>4. TypeOK'
    BY TrackType, <1>1, <1>2, <1>3 DEF TypeOK
<1>5. Quota' /\ AnsweredChargeIsRecorded' /\ Cancelling'
    BY <1>1 DEF IInv, Quota, InFlight, AnsweredChargeIsRecorded, Cancelling
<1>6. Causes'
  <2>1. \A e \in emitted' : e.type = "subscription.disable" => remote'[e.sub] = "disabled"
    <3>1. CASE PeriodEnds(t)
      BY <1>1, <1>2, <1>3, <3>1 DEF PeriodEnds, IInv, Causes, TypeOK, Event
    <3>2. CASE ~PeriodEnds(t)
      <4>1. \A e \in emitted' : e.type = "subscription.disable" => e \in emitted
        BY <3>2 DEF Paystack, Charged, Invoiced, Renewed, Emit
      <4>2. \A u \in Sub : remote[u] = "disabled" => remote'[u] = "disabled"
        BY <1>1, <3>2 DEF Paystack, Charged, Invoiced, Renewed, TypeOK
      <4> QED BY <1>1, <4>1, <4>2 DEF IInv, Causes, TypeOK, Event
    <3> QED BY <3>1, <3>2
  <2> QED BY <1>1, <1>2, <1>3, <2>1 DEF IInv, Causes, SomeRow, TypeOK, Event
<1>7. ActiveWasPaid' /\ CancelledIsStopped'
    BY <1>1, <1>2 DEF IInv, ActiveWasPaid, CancelledIsStopped, Stopped, Cancelling, Started
<1> QED BY <1>4, <1>5, <1>6, <1>7 DEF IInv

\* A charge always finds a row, and so is never answered without a payment.
LEMMA ChargeIsFound ==
    ASSUME IInv, NEW t \in Sub, Charge(t) \in emitted
    PROVE  GetSubscriptionByCustomerEmail # {}
<1>1. remote[t] # "none"
    BY DEF IInv, Causes, Charge, Started
<1> QED BY <1>1, SomeRowIsFound DEF IInv, Causes, GetSubscriptionByCustomerEmail

\* The deliveries of an event, counted before and after a handler starts or ends.
LEMMA InFlightType ==
    ASSUME IsFiniteSet(handlers), NEW e PROVE InFlight(e) \in Nat
BY FS_Subset, FS_CardinalityType DEF InFlight

\* A set with one element more.
LEMMA OneMore ==
    ASSUME NEW S, IsFiniteSet(S), NEW x
    PROVE  Cardinality(S \cup {x}) \in Nat /\ Cardinality(S \cup {x}) <= Cardinality(S) + 1
<1>1. Cardinality(S) \in Nat
    BY FS_CardinalityType
<1>2. CASE x \in S
  <2>1. S \cup {x} = S
    BY <1>2
  <2> QED BY <1>1, <2>1
<1>3. CASE x \notin S
    BY <1>1, <1>3, FS_AddElement
<1> QED BY <1>2, <1>3

\* A set without one of its elements.
LEMMA OneLess ==
    ASSUME NEW S, IsFiniteSet(S), NEW x \in S
    PROVE  Cardinality(S \ {x}) \in Nat /\ Cardinality(S \ {x}) = Cardinality(S) - 1
BY FS_RemoveElement, FS_CardinalityType

\* A handler starts, or there is no row and the event is answered at once.
LEMMA ReceiveIInv == ASSUME IInv, Track, NEW e \in Event, Receive(e) PROVE IInv'
<1> USE SubscriptionsAssumption
<1>1. /\ TypeOK /\ Quota /\ UNCHANGED <<rows, payments, remote, emitted, req>>
      /\ e \in emitted /\ delivered[e] + InFlight(e) < MaxDeliveries
    BY DEF IInv, Receive, paystack
<1>2. /\ InFlight(e) \in Nat /\ delivered[e] \in Nat
    BY <1>1, InFlightType DEF Quota, TypeOK
<1>3. PICK x \in OrNull(LooksUp(e)) :
        IF x = NULL THEN Answered(e) /\ UNCHANGED handlers
        ELSE handlers' = handlers \cup {[event |-> e, entity |-> x]} /\ UNCHANGED delivered
    BY DEF Receive
<1>4. LooksUp(e) \subseteq Entity
    BY <1>1, EntitiesType
    DEF LooksUp, GetSubscriptionByCustomerId, GetSubscriptionByCustomerEmail
<1>5. CASE x = NULL
  <2>1. delivered' = [delivered EXCEPT ![e] = @ + 1] /\ handlers' = handlers
    BY <1>3, <1>5 DEF Answered
  <2>2. LooksUp(e) = {}
    BY <1>3, <1>4, <1>5 DEF OrNull
  <2>3. \A t \in Sub : e # Charge(t)
    BY <2>2, <1>1, ChargeIsFound DEF LooksUp, Charge
  <2>4. TypeOK'
    BY TrackType, <1>1, <1>2, <2>1 DEF TypeOK
  <2>5. Quota'
    <3>1. \A f \in Event : InFlight(f)' = InFlight(f)
      BY <2>1 DEF InFlight
    <3>2. \A f \in Event : delivered'[f] = IF f = e THEN delivered[f] + 1 ELSE delivered[f]
      BY <1>1, <2>1 DEF TypeOK
    <3> QED BY <1>1, <1>2, <2>1, <3>1, <3>2 DEF Quota
  <2>6. AnsweredChargeIsRecorded'
    <3>1. \A t \in Sub : delivered'[Charge(t)] = delivered[Charge(t)]
      BY <1>1, <2>1, <2>3 DEF TypeOK, Charge, Event, EventType
    <3> QED BY <1>1, <3>1 DEF IInv, AnsweredChargeIsRecorded
  <2>7. Causes' /\ Cancelling' /\ ActiveWasPaid' /\ CancelledIsStopped'
    BY <1>1, <2>1 DEF IInv, Causes, SomeRow, Cancelling, ActiveWasPaid, CancelledIsStopped, Stopped
  <2> QED BY <2>4, <2>5, <2>6, <2>7 DEF IInv
<1>6. CASE x # NULL
  <2> DEFINE h == [event |-> e, entity |-> x]
  <2>1. handlers' = handlers \cup {h} /\ delivered' = delivered
    BY <1>3, <1>6
  <2>2. x \in Entity
    BY <1>3, <1>4, <1>6 DEF OrNull
  <2>3. TypeOK'
    BY TrackType, <1>1, <2>1, <2>2 DEF TypeOK
  <2>4. Quota'
    <3>1. IsFiniteSet(handlers')
      BY <1>1, <2>1, FS_AddElement DEF Quota
    <3>2. ASSUME NEW f \in Event PROVE delivered'[f] + InFlight(f)' <= MaxDeliveries
      <4> DEFINE old == {g \in handlers : g.event = f}
                 new == {g \in handlers' : g.event = f}
      <4>1. IsFiniteSet(old)
        BY <1>1, FS_Subset DEF Quota
      <4>2. CASE f # e
        <5>1. new = old
          BY <2>1, <4>2
        <5> QED BY <1>1, <2>1, <5>1 DEF Quota, InFlight
      <4>3. CASE f = e
        <5>1. new = old \cup {h}
          BY <2>1, <4>3
        <5>2. Cardinality(new) \in Nat /\ Cardinality(new) <= Cardinality(old) + 1
          <6> HIDE DEF old, new
          <6> QED BY <4>1, <5>1, OneMore
        <5> QED BY <1>1, <1>2, <2>1, <4>3, <5>2 DEF InFlight
      <4> QED BY <4>2, <4>3
    <3> QED BY <3>1, <3>2 DEF Quota
  <2>5. Causes' /\ Cancelling' /\ ActiveWasPaid' /\ CancelledIsStopped' /\ AnsweredChargeIsRecorded'
    BY <1>1, <2>1 DEF IInv, Causes, SomeRow, Cancelling, ActiveWasPaid, CancelledIsStopped, Stopped,
                      AnsweredChargeIsRecorded
  <2> QED BY <2>3, <2>4, <2>5 DEF IInv
<1> QED BY <1>5, <1>6

\* A handler commits: a row that becomes active belongs to a host who was charged,
\* and a charge leaves a payment.
LEMMA HandleIInv == ASSUME IInv, Track, NEW h \in handlers, Handle(h) PROVE IInv'
<1> USE SubscriptionsAssumption
<1> DEFINE e == h.event
           new == Updated(e, h.entity.row)
<1>1. /\ TypeOK /\ Quota /\ UNCHANGED <<remote, emitted, req>>
      /\ handlers' = handlers \ {h} /\ Save(h.entity, new)
      /\ delivered' = [delivered EXCEPT ![e] = @ + 1]
      /\ payments' = IF e.type = "charge.success" THEN [payments EXCEPT ![e.sub] = @ + 1]
                     ELSE payments
    BY DEF IInv, Handle, Answered, paystack
<1>2. e \in Event /\ h.entity \in Entity /\ h.entity.row \in Subscription /\ e.sub \in Sub
    BY <1>1 DEF TypeOK, Entity, Event
<1>3. /\ rows' \in [Id -> Subscription \cup {NULL}] /\ SomeRow'
    BY <1>1, <1>2, SaveEffect, UpdatedType
<1>4. ASSUME NEW f \in Event
      PROVE  /\ delivered'[f] + InFlight(f)' <= MaxDeliveries
             /\ delivered'[f] \in 0 .. MaxDeliveries
  <2> DEFINE old == {g \in handlers : g.event = f}
             next == {g \in handlers' : g.event = f}
  <2>1. /\ IsFiniteSet(old) /\ Cardinality(old) \in Nat /\ delivered[f] \in Nat
        /\ delivered[f] + Cardinality(old) <= MaxDeliveries
    BY <1>1, FS_Subset, FS_CardinalityType DEF Quota, InFlight, TypeOK
  <2>4. InFlight(f)' = Cardinality(next)
    BY DEF InFlight
  <2>2. CASE f # e
    <3>1. next = old /\ delivered'[f] = delivered[f]
      BY <1>1, <2>2 DEF TypeOK
    <3>2. InFlight(f)' = Cardinality(old)
      BY <2>4, <3>1
    <3> HIDE DEF old, next
    <3> QED BY <2>1, <3>1, <3>2
  <2>3. CASE f = e
    <3>1. next = old \ {h} /\ h \in old /\ delivered'[f] = delivered[f] + 1
      BY <1>1, <2>3 DEF TypeOK
    <3>2. Cardinality(next) = Cardinality(old) - 1 /\ Cardinality(next) \in Nat
      <4> HIDE DEF old, next
      <4> QED BY <2>1, <3>1, OneLess
    <3> QED BY <2>1, <2>4, <3>1, <3>2
  <2> QED BY <2>2, <2>3
<1>5. payments' \in [Sub -> Nat]
    BY <1>1, <1>2 DEF TypeOK
<1>6. TypeOK'
  <2>1. delivered' \in [Event -> 0 .. MaxDeliveries]
    BY <1>1, <1>4 DEF TypeOK
  <2> QED BY TrackType, <1>1, <1>3, <1>5, <2>1 DEF TypeOK
<1>7. Quota'
    BY <1>1, <1>4, FS_RemoveElement DEF Quota
<1>8. Causes' /\ Cancelling' /\ CancelledIsStopped'
    BY <1>1, <1>3 DEF IInv, Causes, Cancelling, CancelledIsStopped, Stopped
<1>9. ActiveWasPaid'
    BY <1>1, <1>2 DEF IInv, Causes, ActiveWasPaid, Started
<1>10. AnsweredChargeIsRecorded'
  <2> SUFFICES ASSUME NEW t \in Sub PROVE payments'[t] = delivered'[Charge(t)]
    BY DEF AnsweredChargeIsRecorded
  <2>1. payments[t] = delivered[Charge(t)] /\ Charge(t) \in Event
    BY DEF IInv, AnsweredChargeIsRecorded, Charge, Event, EventType
  <2>2. e = Charge(t) <=> e.type = "charge.success" /\ e.sub = t
    BY <1>2 DEF Charge, Event
  <2> QED BY <1>1, <1>2, <2>1, <2>2 DEF TypeOK
<1> QED BY <1>6, <1>7, <1>8, <1>9, <1>10 DEF IInv

\* A restart drops handlers and requests.
LEMMA RestartIInv == ASSUME IInv, Track, Restart PROVE IInv'
<1> USE SubscriptionsAssumption
<1>1. /\ TypeOK /\ UNCHANGED <<rows, payments, remote, emitted, delivered>>
      /\ handlers' = {}
      /\ req' = [c \in Call |-> Idle]
    BY DEF IInv, Restart, paystack
<1>2. TypeOK'
    BY TrackType, <1>1, IdleType DEF TypeOK
<1>3. Quota'
  <2>1. \A e \in Event : InFlight(e)' = 0
    BY <1>1, FS_EmptySet DEF InFlight
  <2> QED BY <1>1, <2>1, FS_EmptySet DEF Quota, TypeOK
<1>4. Causes' /\ Cancelling' /\ ActiveWasPaid' /\ CancelledIsStopped' /\ AnsweredChargeIsRecorded'
    BY <1>1 DEF IInv, Causes, SomeRow, Cancelling, ActiveWasPaid, CancelledIsStopped, Stopped,
                AnsweredChargeIsRecorded, Idle
<1> QED BY <1>2, <1>3, <1>4 DEF IInv

-----------------------------------------------------------------------------

\* Every step keeps the invariant.
LEMMA NextIInv == IInv /\ [Next]_vars => IInv'
<1> SUFFICES ASSUME IInv, [Next]_vars PROVE IInv'
    OBVIOUS
<1>0. TypeOK
    BY DEF IInv
<1>5. crossed' \in SUBSET Id
    BY <1>0, TrackType DEF Next, vars, TypeOK
<1>1. ASSUME NEW c \in Call, ReadForInitialise(c),
             UNCHANGED <<rows, payments, paystack, delivered, handlers>>
      PROVE  IInv'
  <2>1. PICK x \in OrNull(GetSubscriptionByHostId) :
          req' = [req EXCEPT ![c] = [Idle EXCEPT !.stage = "initialise", !.entity = x]]
    BY <1>1 DEF ReadForInitialise
  <2>2. x \in Entity \cup {NULL}
    BY <1>0, EntitiesType DEF OrNull, GetSubscriptionByHostId
  <2>3. [Idle EXCEPT !.stage = "initialise", !.entity = x] \in Request
    BY <2>2, IdleType DEF Request, Stage
  <2>4. /\ req' \in [Call -> Request] /\ req'[c].stage = "initialise"
        /\ \A d \in Call : d # c => req'[d] = req[d]
    BY <1>0, <2>1, <2>3 DEF TypeOK, Idle
  <2> QED BY <1>1, <1>5, <2>4, ReadOnlyIInv DEF paystack
<1>2. ASSUME NEW c \in Call, NEW upgrade \in BOOLEAN, CancelSubscriptionByHostId(c, upgrade)
      PROVE  IInv'
  <2>1. PICK x \in GetSubscriptionByHostId :
          /\ x.row.code # NULL
          /\ req' = [req EXCEPT ![c] =
                        [stage |-> "cancelRemote", upgrade |-> upgrade, entity |-> x]]
    BY <1>2 DEF CancelSubscriptionByHostId
  <2>2. x \in Entity /\ x.row.code \in Sub
    BY <1>0, <2>1, EntitiesType DEF GetSubscriptionByHostId, Entity, Subscription
  <2>3. [stage |-> "cancelRemote", upgrade |-> upgrade, entity |-> x] \in Request
    BY <2>2 DEF Request, Stage
  <2>4. /\ req' \in [Call -> Request] /\ req'[c].stage = "cancelRemote" /\ req'[c].entity = x
        /\ \A d \in Call : d # c => req'[d] = req[d]
    BY <1>0, <2>1, <2>3 DEF TypeOK
  <2> QED BY <1>2, <1>5, <2>2, <2>4, ReadOnlyIInv DEF CancelSubscriptionByHostId, paystack
<1>3. ASSUME NEW c \in Call, Abort(c) PROVE IInv'
  <2>1. /\ req' \in [Call -> Request] /\ req'[c].stage = "idle"
        /\ \A d \in Call : d # c => req'[d] = req[d]
    BY <1>0, <1>3, IdleType DEF Abort, TypeOK, Idle
  <2> QED BY <1>3, <1>5, <2>1, ReadOnlyIInv DEF Abort, paystack
<1>4. CASE UNCHANGED vars
    BY <1>0, <1>4, <1>5, ReadOnlyIInv DEF vars, paystack, TypeOK
<1> QED BY <1>1, <1>2, <1>3, <1>4, CommitIInv, CancelRemoteIInv, SaveCancelledIInv, PaystackIInv,
           ReceiveIInv, HandleIInv, RestartIInv
        DEF Next, Step, InitializaSubscription, UpgradeSubscription

\* The invariant holds in every state.
LEMMA Invariance == Spec => []IInv
BY InitIInv, NextIInv, PTL DEF Spec

-----------------------------------------------------------------------------
(* The code of a subscription.                                             *)

\* A row that was never held twice has at most one holder, and what that holder has
\* read is still in the table.
HeldOnce == \A i \in Id \ crossed : ~Shared(i)
Fresh ==
    \A i \in Id \ crossed :
        /\ \A h \in HandledBy(i) : h.entity.row = rows[i]
        /\ \A c \in RequestedBy(i) : req[c].entity.row = rows[i]
CodeInv == IInv /\ HeldOnce /\ Fresh

\* What one step may do to the code of a row.
CodeAnnounced ==
    \A i \in Id \ crossed :
        rows[i] # NULL /\ rows'[i].code # rows[i].code =>
            \E h \in handlers \ handlers' :
                /\ h.event = [type |-> "subscription.create", sub |-> rows'[i].code]
                /\ h.entity.id = i

\* An entity that a lookup finds is a row of the table.
LEMMA EntitiesFresh == \A x \in Entities : x.id \in Id /\ x.row = rows[x.id]
BY DEF Entities

\* A step that writes no row keeps Fresh: what is read now is fresh.
LEMMA FreshRead ==
    ASSUME Fresh, crossed \subseteq crossed', rows' = rows,
           \A h \in handlers' : h \in handlers \/ h.entity \in Entities,
           \A c \in Call : \/ req'[c].entity \in {NULL, req[c].entity}
                           \/ req'[c].entity \in Entities
    PROVE  Fresh' /\ CodeAnnounced
BY EntitiesFresh DEF Fresh, HandledBy, RequestedBy, CodeAnnounced

\* A step that writes one row keeps Fresh when nobody holds that row afterwards.
LEMMA FreshWrite ==
    ASSUME Fresh, crossed \subseteq crossed', NEW i \in Id,
           \A j \in Id : j # i => rows'[j] = rows[j],
           handlers' \subseteq handlers,
           \A c \in Call : req'[c].entity \in {NULL, req[c].entity},
           i \in crossed' \/ (HandledBy(i)' = {} /\ RequestedBy(i)' = {})
    PROVE  Fresh'
BY DEF Fresh, HandledBy, RequestedBy

\* A request that writes the row it has read back, but for its status, and lets go of it.
LEMMA RequestWrites ==
    ASSUME IInv, HeldOnce, Fresh, Track, NEW c \in Call, NEW x \in Entity, req[c].entity = x,
           Save(x, [x.row EXCEPT !.status = "NOT_ACTIVE"]),
           handlers' = handlers, req'[c].entity = NULL,
           \A d \in Call : d # c => req'[d] = req[d]
    PROVE  Fresh' /\ CodeAnnounced
<1> DEFINE new == [x.row EXCEPT !.status = "NOT_ACTIVE"]
<1>1. /\ x.id \in Id /\ x.row \in Subscription /\ x # NULL
      /\ new \in Subscription /\ new.code = x.row.code
  BY SubscriptionsAssumption DEF Entity, Subscription, Status
<1>2. rows'[x.id] = new /\ \A j \in Id : j # x.id => rows'[j] = rows[j]
  <2>1. Save(x, new)
    OBVIOUS
  <2> HIDE DEF new
  <2> QED BY <1>1, <2>1, SaveEffect DEF IInv
<1>3. c \in RequestedBy(x.id)
  BY <1>1 DEF RequestedBy
<1>4. x.id \in crossed \/ (x.row = rows[x.id] /\ HandledBy(x.id) = {} /\ RequestedBy(x.id) = {c})
  BY <1>1, <1>3 DEF HeldOnce, Shared, Fresh
<1>5. crossed \subseteq crossed'
  BY DEF Track
<1>6. x.id \in crossed' \/ (HandledBy(x.id)' = {} /\ RequestedBy(x.id)' = {})
  BY <1>4, <1>5 DEF HandledBy, RequestedBy
<1>7. Fresh'
  <2>1. \A d \in Call : req'[d].entity \in {NULL, req[d].entity}
    OBVIOUS
  <2> QED BY <1>1, <1>2, <1>5, <1>6, <2>1, FreshWrite
<1>8. CodeAnnounced
  BY <1>1, <1>2, <1>4 DEF CodeAnnounced
<1> QED BY <1>7, <1>8

\* A new row has no holder yet.
LEMMA CommitCode ==
    ASSUME CodeInv, Track, NEW c \in Call, CommitSubscription(c)
    PROVE  Fresh' /\ CodeAnnounced
<1> USE SubscriptionsAssumption
<1>1. /\ TypeOK /\ IInv /\ HeldOnce /\ Fresh /\ handlers' = handlers
      /\ req' = [req EXCEPT ![c] = Idle] /\ crossed \subseteq crossed'
  BY DEF CodeInv, IInv, CommitSubscription, Track
<1>2. req'[c].entity = NULL /\ \A d \in Call : d # c => req'[d] = req[d]
  BY <1>1 DEF TypeOK, Idle
<1>3. CASE req[c].entity = NULL
  <2>1. PICK i \in Id : rows[i] = NULL /\ rows' = [rows EXCEPT ![i] = NewSubscription]
    BY <1>3 DEF CommitSubscription
  <2>2. \A j \in Id : j # i => rows'[j] = rows[j]
    BY <1>1, <2>1 DEF TypeOK
  <2>3. i \in crossed \/ (HandledBy(i) = {} /\ RequestedBy(i) = {})
    BY <1>1, <2>1 DEF Fresh, HandledBy, RequestedBy, TypeOK, Request, Entity
  <2>4. i \in crossed' \/ (HandledBy(i)' = {} /\ RequestedBy(i)' = {})
    BY <1>1, <1>2, <2>3 DEF HandledBy, RequestedBy
  <2>5. Fresh'
    BY <1>1, <1>2, <2>2, <2>4, FreshWrite
  <2>6. CodeAnnounced
    BY <2>1, <2>2 DEF CodeAnnounced
  <2> QED BY <2>5, <2>6
<1>4. CASE req[c].entity # NULL
  <2>1. req[c].entity \in Entity
    BY <1>1, <1>4 DEF TypeOK, Request
  <2>2. Save(req[c].entity, [req[c].entity.row EXCEPT !.status = "NOT_ACTIVE"])
    BY <1>4 DEF CommitSubscription
  <2> QED BY <1>1, <1>2, <2>1, <2>2, RequestWrites
<1> QED BY <1>3, <1>4

\* A cancellation switches the row off that it has read.
LEMMA SaveCancelledCode ==
    ASSUME CodeInv, Track, NEW c \in Call, SaveCancelled(c)
    PROVE  Fresh' /\ CodeAnnounced
<1>1. /\ TypeOK /\ IInv /\ HeldOnce /\ Fresh /\ handlers' = handlers
      /\ req[c].entity \in Entity
      /\ Save(req[c].entity, [req[c].entity.row EXCEPT !.status = "NOT_ACTIVE"])
  BY DEF CodeInv, IInv, Cancelling, SaveCancelled
<1>2. req'[c].entity = NULL /\ \A d \in Call : d # c => req'[d] = req[d]
  BY <1>1 DEF SaveCancelled, TypeOK, Idle
<1> QED BY <1>1, <1>2, RequestWrites

\* A handler writes the row it has read; only the announcement changes the code.
LEMMA HandleCode ==
    ASSUME CodeInv, Track, NEW h \in handlers, Handle(h)
    PROVE  Fresh' /\ CodeAnnounced
<1> DEFINE e == h.event
           i == h.entity.id
           new == Updated(e, h.entity.row)
<1>1. /\ TypeOK /\ HeldOnce /\ Fresh /\ handlers' = handlers \ {h} /\ req' = req
      /\ Save(h.entity, new) /\ crossed \subseteq crossed'
  BY DEF CodeInv, IInv, Handle, Track
<1>2. e \in Event /\ h.entity \in Entity /\ i \in Id /\ h.entity.row \in Subscription
  BY <1>1 DEF TypeOK, Entity
<1>3. new \in Subscription
  BY <1>2, UpdatedType
<1>4. rows'[i] = new /\ \A j \in Id : j # i => rows'[j] = rows[j]
  <2> HIDE DEF new
  <2> QED BY <1>1, <1>2, <1>3, SaveEffect
<1>5. h \in HandledBy(i)
  BY DEF HandledBy
<1>6. i \in crossed \/ (h.entity.row = rows[i] /\ HandledBy(i) = {h} /\ RequestedBy(i) = {})
  BY <1>1, <1>2, <1>5 DEF HeldOnce, Shared, Fresh
<1>7. i \in crossed' \/ (HandledBy(i)' = {} /\ RequestedBy(i)' = {})
  BY <1>1, <1>6 DEF HandledBy, RequestedBy
<1>8. Fresh'
  <2>1. handlers' \subseteq handlers /\ \A d \in Call : req'[d].entity \in {NULL, req[d].entity}
    BY <1>1
  <2> HIDE DEF i
  <2> QED BY <1>1, <1>2, <1>4, <1>7, <2>1, FreshWrite
<1>9. ASSUME new.code # h.entity.row.code
      PROVE  e = [type |-> "subscription.create", sub |-> new.code]
  BY <1>2, <1>9 DEF Updated, Event, Subscription
<1>10. CodeAnnounced
  <2> HIDE DEF new, e
  <2>1. ASSUME NEW j \in Id \ crossed, rows'[j].code # rows[j].code
        PROVE  /\ h \in handlers \ handlers' /\ h.entity.id = j
               /\ h.event = [type |-> "subscription.create", sub |-> rows'[j].code]
    BY <1>1, <1>4, <1>6, <1>9, <2>1 DEF e
  <2> QED BY <2>1 DEF CodeAnnounced
<1> QED BY <1>8, <1>10

\* Every step keeps the entities of rows that were never held twice fresh, and takes
\* no code but from its announcement.
LEMMA CodeStep == ASSUME CodeInv, [Next]_vars PROVE Fresh' /\ HeldOnce' /\ CodeAnnounced
<1>0. /\ TypeOK /\ Fresh /\ HeldOnce
  BY DEF CodeInv, IInv
<1>1. CASE UNCHANGED vars
  <2>1. Fresh' /\ CodeAnnounced
    BY <1>0, <1>1, FreshRead DEF vars
  <2>2. HeldOnce'
    BY <1>0, <1>1 DEF vars, HeldOnce, Shared, HandledBy, RequestedBy
  <2> QED BY <2>1, <2>2
<1>2. CASE Next
  <2>0. Track /\ crossed \subseteq crossed' /\ Step
    BY <1>2 DEF Next, Track
  <2>1. HeldOnce'
    BY <2>0 DEF Track, HeldOnce
  <2>2. ASSUME NEW c \in Call, ReadForInitialise(c), UNCHANGED <<rows, handlers>>
        PROVE  Fresh' /\ CodeAnnounced
    <3>1. PICK x \in OrNull(GetSubscriptionByHostId) :
            req' = [req EXCEPT ![c] = [Idle EXCEPT !.stage = "initialise", !.entity = x]]
      BY <2>2 DEF ReadForInitialise
    <3>2. /\ req'[c].entity \in Entities \cup {NULL}
          /\ \A d \in Call : d # c => req'[d] = req[d]
      BY <1>0, <3>1 DEF TypeOK, Idle, OrNull, GetSubscriptionByHostId
    <3> QED BY <1>0, <2>0, <2>2, <3>2, FreshRead
  <2>3. ASSUME NEW c \in Call, NEW upgrade \in BOOLEAN, CancelSubscriptionByHostId(c, upgrade)
        PROVE  Fresh' /\ CodeAnnounced
    <3>1. /\ req'[c].entity \in Entities /\ \A d \in Call : d # c => req'[d] = req[d]
          /\ UNCHANGED <<rows, handlers>>
      BY <1>0, <2>3 DEF CancelSubscriptionByHostId, TypeOK, GetSubscriptionByHostId
    <3> QED BY <1>0, <2>0, <3>1, FreshRead
  <2>4. ASSUME NEW c \in Call, CancelRemote(c) \/ Abort(c)
        PROVE  Fresh' /\ CodeAnnounced
    <3>1. /\ \A d \in Call : req'[d].entity \in {NULL, req[d].entity}
          /\ UNCHANGED <<rows, handlers>>
      BY <1>0, <2>4 DEF CancelRemote, Abort, TypeOK, Request, Idle
    <3> QED BY <1>0, <2>0, <3>1, FreshRead
  <2>5. ASSUME NEW t \in Sub, Paystack(t) PROVE Fresh' /\ CodeAnnounced
    BY <1>0, <2>0, <2>5, FreshRead DEF Paystack
  <2>6. ASSUME NEW e \in Event, Receive(e) PROVE Fresh' /\ CodeAnnounced
    <3>1. PICK x \in OrNull(LooksUp(e)) :
            IF x = NULL THEN Answered(e) /\ UNCHANGED handlers
            ELSE handlers' = handlers \cup {[event |-> e, entity |-> x]} /\ UNCHANGED delivered
      BY <2>6 DEF Receive
    <3>2. x \in Entities \cup {NULL}
      BY <3>1 DEF OrNull, LooksUp, GetSubscriptionByCustomerId, GetSubscriptionByCustomerEmail
    <3>3. \A h \in handlers' : h \in handlers \/ h.entity \in Entities
      BY <3>1, <3>2
    <3>4. UNCHANGED <<rows, req>>
      BY <2>6 DEF Receive
    <3> QED BY <1>0, <2>0, <3>3, <3>4, FreshRead
  <2>7. ASSUME Restart PROVE Fresh' /\ CodeAnnounced
    BY <1>0, <2>0, <2>7, FreshRead DEF Restart, Idle
  <2> QED BY <2>0, <2>1, <2>2, <2>3, <2>4, <2>5, <2>6, <2>7,
             CommitCode, SaveCancelledCode, HandleCode
          DEF Step, InitializaSubscription, UpgradeSubscription
<1> QED BY <1>1, <1>2

-----------------------------------------------------------------------------
(* A row that goes off.                                                    *)

\* What one step may do to an active row.
OffExplained ==
    \A i \in Id \ crossed :
        rows[i] # NULL /\ rows[i].status = "ACTIVE" /\ rows'[i].status # "ACTIVE" =>
            Stopped(rows[i].code) \/ TakenOver(i) \/ EndOfAnother(i)

\* An initialisation that switches a row off takes it over.
LEMMA CommitOff ==
    ASSUME TypeOK, NEW c \in Call, CommitSubscription(c) PROVE OffExplained
<1>1. /\ req[c].stage = "initialise" /\ req' = [req EXCEPT ![c] = Idle]
  BY DEF CommitSubscription
<1>2. req'[c].stage = "idle"
  BY <1>1 DEF TypeOK, Idle
<1>3. CASE req[c].entity = NULL
  <2>1. PICK i \in Id : rows[i] = NULL /\ rows' = [rows EXCEPT ![i] = NewSubscription]
    BY <1>3 DEF CommitSubscription
  <2> QED BY <2>1 DEF OffExplained, TypeOK
<1>4. CASE req[c].entity # NULL
  <2>1. \A i \in Id : rows'[i] # rows[i] => req[c].entity.id = i
    BY <1>4 DEF CommitSubscription, Save, TypeOK
  <2>2. \A i \in Id : rows'[i] # rows[i] => TakenOver(i)
    BY <1>1, <1>2, <1>4, <2>1 DEF TakenOver, RequestedBy
  <2> QED BY <2>2 DEF OffExplained
<1> QED BY <1>3, <1>4

\* A cancellation of a row that nobody else holds switches off what it has stopped.
LEMMA SaveCancelledOff ==
    ASSUME CodeInv, NEW c \in Call, SaveCancelled(c) PROVE OffExplained
<1>1. /\ TypeOK /\ Fresh /\ req[c].stage = "cancelSave" /\ req[c].entity \in Entity
      /\ Stopped(req[c].entity.row.code)
  BY DEF CodeInv, IInv, Cancelling, CancelledIsStopped, SaveCancelled
<1>2. \A i \in Id : rows'[i] # rows[i] => req[c].entity.id = i
  BY DEF SaveCancelled, Save, CodeInv, IInv, TypeOK
<1>3. req[c].entity # NULL
  BY <1>1, SubscriptionsAssumption
<1>4. \A i \in Id \ crossed : rows'[i] # rows[i] => req[c].entity.row = rows[i]
  BY <1>1, <1>2, <1>3 DEF Fresh, RequestedBy
<1> QED BY <1>1, <1>4 DEF OffExplained

\* A handler switches a row off when a subscription has ended: the row's own, which is
\* stopped, or another.
LEMMA HandleOff ==
    ASSUME CodeInv, NEW h \in handlers, Handle(h) PROVE OffExplained
<1> DEFINE e == h.event
           i == h.entity.id
           new == Updated(e, h.entity.row)
<1>1. /\ TypeOK /\ IInv /\ Fresh /\ handlers' = handlers \ {h} /\ Save(h.entity, new)
  BY DEF CodeInv, IInv, Handle
<1>2. e \in Event /\ h.entity \in Entity /\ i \in Id /\ h.entity.row \in Subscription
  BY <1>1 DEF TypeOK, Entity
<1>3. rows'[i] = new /\ \A j \in Id : j # i => rows'[j] = rows[j]
  <2>1. new \in Subscription
    BY <1>2, UpdatedType
  <2> HIDE DEF new
  <2> QED BY <1>1, <1>2, <2>1, SaveEffect
<1>4. SUFFICES ASSUME i \notin crossed, rows[i].status = "ACTIVE", new.status # "ACTIVE"
               PROVE  Stopped(rows[i].code) \/ EndOfAnother(i)
  <2> HIDE DEF new, i
  <2> QED BY <1>3 DEF OffExplained
<1>5. h.entity.row = rows[i] /\ h \in HandledBy(i) \ handlers'
  BY <1>1, <1>2, <1>4 DEF Fresh, HandledBy
<1>6. e.type = "subscription.disable"
  BY <1>2, <1>4 DEF Updated, Subscription
<1>7. remote[e.sub] = "disabled" /\ e.sub \in Sub
  BY <1>1, <1>2, <1>6 DEF IInv, Causes, Event
<1> QED BY <1>5, <1>6, <1>7 DEF Stopped, EndOfAnother

\* Every step that switches a row off has its reason.
LEMMA OffStep == CodeInv /\ [Next]_vars => OffExplained
<1> SUFFICES ASSUME CodeInv, [Next]_vars PROVE OffExplained
  OBVIOUS
<1>1. TypeOK
  BY DEF CodeInv, IInv
<1>2. CASE rows' = rows
  BY <1>2 DEF OffExplained
<1>3. CASE Step
  <2>1. ASSUME NEW c \in Call, \/ InitializaSubscription(c) \/ UpgradeSubscription(c)
                               \/ CancelRemote(c) \/ Abort(c)
        PROVE  rows' = rows
    BY <2>1 DEF InitializaSubscription, UpgradeSubscription, CancelRemote, Abort
  <2>2. ASSUME NEW c \in Call, NEW upgrade \in BOOLEAN, CancelSubscriptionByHostId(c, upgrade)
        PROVE  rows' = rows
    BY <2>2 DEF CancelSubscriptionByHostId
  <2>3. ASSUME NEW t \in Sub, Paystack(t) PROVE rows' = rows
    BY <2>3 DEF Paystack
  <2>4. ASSUME NEW e \in Event, Receive(e) PROVE rows' = rows
    BY <2>4 DEF Receive
  <2>5. ASSUME Restart PROVE rows' = rows
    BY <2>5 DEF Restart
  <2> QED BY <1>1, <1>2, <1>3, <2>1, <2>2, <2>3, <2>4, <2>5,
             CommitOff, SaveCancelledOff, HandleOff DEF Step
<1> QED BY <1>2, <1>3 DEF Next, vars

\* CodeInv holds in every state.
LEMMA CodeInvariance == Spec => []CodeInv
<1>1. Init => CodeInv
  BY InitIInv DEF Init, CodeInv, HeldOnce, Shared, Fresh, HandledBy, RequestedBy, Idle
<1>2. CodeInv /\ [Next]_vars => CodeInv'
  BY CodeStep, NextIInv DEF CodeInv
<1> QED BY <1>1, <1>2, PTL DEF Spec

-----------------------------------------------------------------------------
(* The theorems.                                                           *)

\* Rows, Paystack's subscriptions, deliveries and requests stay well-typed; in
\* particular no event is answered more often than it is delivered
\* (payments.service.ts:573-640).
THEOREM TypeCorrect == Spec => []TypeOK
BY Invariance, PTL DEF IInv

\* No row is active before the host has been charged, for any number of rows and
\* of Paystack's subscriptions (payments.service.ts:1219-1229).
THEOREM ActiveRowsWerePaid == Spec => []ActiveWasPaid
BY Invariance, PTL DEF IInv

\* Every answered delivery of a charge has left a payment, because a charge always
\* finds a row of its host (payments.service.ts:746-769).
THEOREM AnsweredChargesAreRecorded == Spec => []AnsweredChargeIsRecorded
BY Invariance, PTL DEF IInv

\* A subscription's code is lost or replaced by an older one only in a row that two
\* requests or handlers held at once, for any number of them and whatever the order of
\* the events (payments.service.ts:746-753, 775-786).
THEOREM LostCodesNeedOverlap == Spec => LostCodeNeedsOverlap
<1>1. CodeInv /\ [Next]_vars => CodeAnnounced
  BY CodeStep
<1>2. CodeInv /\ [Next]_vars => [CodeAnnounced]_vars
  BY <1>1
<1> QED BY <1>2, CodeInvariance, PTL DEF Spec, LostCodeNeedsOverlap, CodeAnnounced

\* A plan goes off while its subscription goes on only in a row that was held twice, by
\* an initialisation that takes the active row over, or by the end of another
\* subscription; never by a cancellation, for any number of rows, requests and handlers
\* (payments.service.ts:572-577, 1230-1236, subscriptions.service.ts:34-54).
THEOREM OffRowsNeedStop == Spec => OffNeedsStop
<1>1. CodeInv /\ [Next]_vars => [OffExplained]_vars
  BY OffStep
<1> QED BY <1>1, CodeInvariance, PTL DEF Spec, OffNeedsStop, OffExplained

=============================================================================
