------------------------------ MODULE Listings ------------------------------
(***************************************************************************)
(* Listings and their inspections, the guests' search and the host's       *)
(* table of listings.                                                      *)
(*                                                                         *)
(* A listing is created together with an inspection; a decision about the  *)
(* inspection makes the listing active or takes it off.  The two are       *)
(* separate rows, and only creation runs in a transaction: a decision is   *)
(* written to the inspection first, what follows for the listing is        *)
(* written later.  The search joins listings with bookings; bookings and   *)
(* their payments are the environment here, and follow StayContract.       *)
(***************************************************************************)
EXTENDS Integers, FiniteSetsExt

CONSTANTS
    Listing,
    Stay, Terms,    \* bookings and the dates they may have, see StayContract
    ListingOf,      \* the listing of a stay
    Net,            \* what a stay's payment leaves the host: fees, VAT, credits taken off
    Attributes,     \* city, type, rooms and people of each listing
    Price,          \* prices a host may ask
    Query,          \* the searches guests may do
    Call,           \* requests in flight
    MaxViews,       \* bound: page views that are counted
    MaxTime,        \* bound: the last day
    NULL

PropertyStatus == {"ACTIVE", "DEACTIVATED"}
PropertyInspectionStatus == {"PENDING", "APPROVED", "CANCELLED"}
\* The columns of a listing that requests write.
Property == [activeStatus : PropertyStatus, price : Price, views : Nat]

\* Dates are whole days, and a stay or a search does not end before it begins.
Dates(t) == t.checkIn \in Nat /\ t.checkOut \in Nat /\ t.checkIn <= t.checkOut

ASSUME ListingsAssumption ==
    /\ ListingOf \in [Stay -> Listing]
    /\ Net \in [Stay -> Nat]
    /\ Price \subseteq Nat
    /\ \A l \in Listing : Attributes[l].rooms \in Nat
    /\ \A t \in Terms : Dates(t)
    /\ Query \subseteq [city : STRING \cup {NULL}, types : SUBSET STRING, rooms : SUBSET Nat,
                       price : Nat, people : Nat, checkIn : Nat, checkOut : Nat]
    /\ \A q \in Query : Dates(q)
    /\ MaxViews \in Nat /\ MaxTime \in Nat
    /\ IsFiniteSet(Stay)
    /\ NULL \notin Listing \cup Price \cup Property \cup PropertyStatus \cup PropertyInspectionStatus

Stage == {"idle", "saveListing", "readListing", "deactivate", "update"}
\* A request: its listing, what it will write (NULL: left alone), and the entity it read.
Request == [stage : Stage, listing : Listing \cup {NULL},
            activeStatus : PropertyStatus \cup {NULL}, price : Price \cup {NULL},
            entity : Property \cup {NULL}]

VARIABLES
    property,       \* properties, NULL before creation
    inspection,     \* the status of the inspection of each
    call,           \* requests in flight
    clock, terms, money, contract,  \* the bookings, see StayContract
    approved,       \* history: listings whose inspection has been APPROVED, from the form on
    asCreated,      \* history: listings whose status is still the one on the form
    disturbed       \* history: listings with overlapping requests, or one cut by a restart

rows == <<property, inspection>>
bookings == <<clock, terms, money, contract>>
vars == <<rows, call, bookings, approved, asCreated, disturbed>>

Contract == INSTANCE StayContract

TypeOK ==
    /\ property \in [Listing -> Property \cup {NULL}]
    /\ inspection \in [Listing -> PropertyInspectionStatus \cup {NULL}]
    /\ call \in [Call -> Request]
    /\ clock \in Nat
    /\ terms \in [Stay -> Terms]
    /\ money \in [Stay -> BOOLEAN]
    /\ contract \in [Stay -> {"ABSENT", "PENDING", "PAID_PENDING", "PROCESSING",
                              "FINISHED", "CANCELLED"}]
    /\ approved \subseteq Listing
    /\ asCreated \subseteq Listing
    /\ disturbed \subseteq Listing

-----------------------------------------------------------------------------

Idle == [stage |-> "idle", listing |-> NULL, activeStatus |-> NULL, price |-> NULL,
         entity |-> NULL]

Init ==
    /\ property = [l \in Listing |-> NULL]
    /\ inspection = [l \in Listing |-> NULL]
    /\ call = [c \in Call |-> Idle]
    /\ Contract!Init
    /\ approved = {}
    /\ asCreated = {}
    /\ disturbed = {}

Exists(l) == property[l] # NULL
Busy(l) == {c \in Call : call[c].listing = l}
Disturbs(l) == disturbed' = disturbed \cup (IF Busy(l) = {} THEN {} ELSE {l})

Begin(c, l, request) ==
    /\ call[c].stage = "idle" /\ Exists(l)
    /\ call' = [call EXCEPT ![c] = [request EXCEPT !.listing = l]]
    /\ Disturbs(l)
Finish(c) == call' = [call EXCEPT ![c] = Idle]

-----------------------------------------------------------------------------
(* Creation: the listing and its inspection in one transaction.  Both rows *)
(* are made from the form, which may name the status of either; without    *)
(* one the columns' defaults hold, DEACTIVATED and PENDING.                *)

NewProperty(status, price) == [activeStatus |-> status, price |-> price, views |-> 0]

CreatePropertyInspection(l, activeStatus, status, price) ==
    /\ ~Exists(l)
    /\ property' = [property EXCEPT ![l] = NewProperty(activeStatus, price)]
    /\ inspection' = [inspection EXCEPT ![l] = status]
    /\ approved' = approved \cup (IF status = "APPROVED" THEN {l} ELSE {})
    /\ asCreated' = asCreated \cup {l}
    /\ UNCHANGED <<call, bookings, disturbed>>

-----------------------------------------------------------------------------
(* updateInspectionById, cancelInspectionById.                             *)

Asked == {"approved", "cancelled", "pending", NULL}
\* An edit that does not mention the status opens the inspection again.
Decided(asked) ==
    CASE asked = "approved" -> "APPROVED"
      [] asked = "cancelled" -> "CANCELLED"
      [] OTHER -> "PENDING"

\* Fault: a cancelled inspection does not take its listing off.
FollowsUnlessCancelled(status) == IF status = "PENDING" THEN "DEACTIVATED" ELSE "ACTIVE"
Follows(status) == IF status = "APPROVED" THEN "ACTIVE" ELSE "DEACTIVATED"

UpdateInspectionById(c, l, asked) ==
    LET status == Decided(asked)
    IN  /\ Begin(c, l, [Idle EXCEPT !.stage = "saveListing", !.activeStatus = Follows(status)])
        /\ inspection' = [inspection EXCEPT ![l] = status]
        /\ approved' = approved \cup (IF asked = "approved" THEN {l} ELSE {})
        /\ UNCHANGED <<property, bookings, asCreated>>

SaveListing(c) ==
    /\ call[c].stage = "saveListing"
    /\ property' = [property EXCEPT ![call[c].listing].activeStatus = call[c].activeStatus]
    /\ asCreated' = asCreated \ {call[c].listing}
    /\ Finish(c)
    /\ UNCHANGED <<inspection, bookings, approved, disturbed>>

CancelInspectionById(c, l) ==
    /\ Begin(c, l, [Idle EXCEPT !.stage = "readListing"])
    /\ inspection' = [inspection EXCEPT ![l] = "CANCELLED"]
    /\ UNCHANGED <<property, bookings, approved, asCreated>>

\* Fault: the listing is built anew from the inspection, without its page views.
DeactivatedAnew(p) == [p EXCEPT !.activeStatus = "DEACTIVATED", !.views = 0]
Deactivated(p) == [p EXCEPT !.activeStatus = "DEACTIVATED"]

ReadListing(c) ==
    LET l == call[c].listing
    IN  /\ call[c].stage = "readListing"
        /\ call' = [call EXCEPT ![c].stage = "deactivate", ![c].entity = Deactivated(property[l])]
        /\ UNCHANGED <<rows, bookings, approved, asCreated, disturbed>>

\* save(entity): the price and the page views go back to what was read.
Deactivate(c) ==
    /\ call[c].stage = "deactivate"
    /\ property' = [property EXCEPT ![call[c].listing] = call[c].entity]
    /\ asCreated' = asCreated \ {call[c].listing}
    /\ Finish(c)
    /\ UNCHANGED <<inspection, bookings, approved, disturbed>>

-----------------------------------------------------------------------------
(* updatePropertyById: the inspection is looked at, then the columns named  *)
(* are updated.  getPropertyById counts a page view.                       *)

\* Fault: an inspection that was not refused will do.
IsNotCancelled(l) == inspection[l] # "CANCELLED"
IsPropertyInspectionApproved(l) == inspection[l] = "APPROVED"

UpdatePropertyById(c, l, status, price) ==
    /\ IsPropertyInspectionApproved(l)
    /\ Begin(c, l, [Idle EXCEPT !.stage = "update", !.activeStatus = status, !.price = price])
    /\ UNCHANGED <<rows, bookings, approved, asCreated>>

UpdateProperty(c) ==
    LET r == call[c]
        Given(new, old) == IF new = NULL THEN old ELSE new
    IN  /\ r.stage = "update"
        /\ property' = [property EXCEPT
                          ![r.listing].activeStatus = Given(r.activeStatus, @),
                          ![r.listing].price = Given(r.price, @)]
        /\ asCreated' = IF r.activeStatus = NULL THEN asCreated ELSE asCreated \ {r.listing}
        /\ Finish(c)
        /\ UNCHANGED <<inspection, bookings, approved, disturbed>>

GetPropertyById(l) ==
    /\ Exists(l) /\ property[l].views < MaxViews
    /\ property' = [property EXCEPT ![l].views = @ + 1]
    /\ Disturbs(l)
    /\ UNCHANGED <<inspection, call, bookings, approved, asCreated>>

-----------------------------------------------------------------------------
(* The environment: bookings of listings, whether active or not; restarts. *)

Bookings ==
    /\ \/ clock < MaxTime /\ Contract!Pass
       \/ \E s \in Stay : \/ Exists(ListingOf[s]) /\ Contract!Agree(s)
                          \/ Contract!Pay(s) \/ Contract!Settle(s) \/ Contract!Release(s)
    /\ UNCHANGED <<rows, call, approved, asCreated, disturbed>>

\* What a request has written stays written.
Restart ==
    /\ \E c \in Call : call[c].stage # "idle"
    /\ call' = [c \in Call |-> Idle]
    /\ disturbed' = disturbed \cup {l \in Listing : Busy(l) # {}}
    /\ UNCHANGED <<rows, bookings, approved, asCreated>>

Next ==
    \/ \E l \in Listing, activeStatus \in PropertyStatus, status \in PropertyInspectionStatus,
          price \in Price : CreatePropertyInspection(l, activeStatus, status, price)
    \/ \E c \in Call, l \in Listing :
         \/ \E asked \in Asked : UpdateInspectionById(c, l, asked)
         \/ CancelInspectionById(c, l)
         \/ \E status \in PropertyStatus \cup {NULL}, price \in Price \cup {NULL} :
              UpdatePropertyById(c, l, status, price)
    \/ \E c \in Call : SaveListing(c) \/ ReadListing(c) \/ Deactivate(c) \/ UpdateProperty(c)
    \/ \E l \in Listing : GetPropertyById(l)
    \/ Bookings
    \/ Restart

Spec == Init /\ [][Next]_vars

-----------------------------------------------------------------------------
(* The search, findPropertiesByParams.  A query gives a city or none,      *)
(* types as the site names them, numbers of rooms, a price, the number of  *)
(* people and dates.                                                       *)

StaysOf(l) == {s \in Stay : ListingOf[s] = l /\ contract[s] # "ABSENT"}

FormatPropertyType(v) ==
    CASE v = "townHouse" -> "town-house"
      [] v = "smartShare" -> "smart-share"
      [] v = "primeInn" -> "prime-inn"
      [] OTHER -> v

\* Four stands for four or more; the values given besides it are compared as they are.
RoomsMatch(rooms, given) ==
    IF 4 \in given THEN 4 <= rooms \/ rooms \in given \ {4} ELSE rooms \in given

\* Fault: only stays that begin or end inside a booking are looked for.
IsBookedAtItsEnds(s, q) ==
    LET t == terms[s]
    IN  /\ contract[s] # "CANCELLED"
        /\ \/ q.checkIn >= t.checkIn /\ q.checkIn <= t.checkOut
           \/ q.checkOut >= t.checkIn /\ q.checkOut <= t.checkOut

IsBooked(s, q) ==
    LET t == terms[s]
    IN  /\ contract[s] # "CANCELLED"
        /\ \/ q.checkIn >= t.checkIn /\ q.checkIn <= t.checkOut
           \/ q.checkOut >= t.checkIn /\ q.checkOut <= t.checkOut
           \/ q.checkIn <= t.checkIn /\ q.checkOut >= t.checkOut

NotExistsBooking(l, q) == \A s \in StaysOf(l) : ~IsBooked(s, q)

\* The conditions before the one on bookings.
Conditions(l, q) ==
    LET a == Attributes[l]
    IN  /\ property[l].activeStatus = "ACTIVE"
        /\ q.city # NULL => a.city = q.city
        /\ q.types # {} => a.type \in {FormatPropertyType(v) : v \in q.types}
        /\ q.rooms # {} => RoomsMatch(a.rooms, q.rooms)
        /\ q.price # 0 => q.price <= property[l].price

\* Without a city, seven cities are put forward by OR, and the condition on
\* bookings is joined to the last of them only.
Suggested == {"abuja", "portharcourt", "lagos", "akwaibom", "delta", "oyo"}
SearchSql(l, q) ==
    IF q.city # NULL THEN Conditions(l, q) /\ NotExistsBooking(l, q)
    ELSE \/ Conditions(l, q)
         \/ Attributes[l].city \in Suggested
         \/ Attributes[l].city = "benin" /\ NotExistsBooking(l, q)

\* While the table of bookings is empty, another query is made.
SearchWithoutBookings(l, q) ==
    LET a == Attributes[l]
    IN  /\ q.city # NULL => a.city = q.city
        /\ a.rooms >= q.people /\ a.people >= q.people
        /\ property[l].activeStatus = "ACTIVE"

NoBookings == \A s \in Stay : contract[s] = "ABSENT"
FindPropertiesByParams(q) ==
    {l \in Listing : /\ Exists(l)
                     /\ IF NoBookings THEN SearchWithoutBookings(l, q) ELSE SearchSql(l, q)}

GetRecommendedPropertiesByCity(city) ==
    {l \in Listing : /\ Exists(l)
                     /\ Attributes[l].city = city /\ property[l].activeStatus = "ACTIVE"}

-----------------------------------------------------------------------------
(* The host's table of listings, transfromProperties.                      *)

\* Fault: the revenue counts whatever is not cancelled.
CountsUnlessCancelled(s) == contract[s] # "CANCELLED"
CountsAsRevenue(s) == contract[s] \notin {"CANCELLED", "PENDING"}
CalculateRevenue(l) ==
    SumFunctionOnSet(Net, {s \in StaysOf(l) : CountsAsRevenue(s)})
NumberOfBookings(l) ==
    Cardinality({s \in StaysOf(l) : contract[s] \in {"FINISHED", "PAID_PENDING", "PROCESSING"}})

-----------------------------------------------------------------------------
(* Properties.                                                             *)

\* After its creation a listing becomes active only with its inspection approved: an
\* active listing has had an approval, or no request has written its status yet and it
\* is the one the form named, in whatever order the writes of hosts and admins arrive
\* and wherever a restart cuts them off (properties.service.ts:180-192, 254-257;
\* properties.repository.ts:67-71).
ActiveWasApproved ==
    \A l \in Listing :
        Exists(l) /\ property[l].activeStatus = "ACTIVE" => l \in approved \cup asCreated

\* A listing whose inspection was cancelled or opened again is not active once the
\* request is done; unless no request has written its status since the form, it takes
\* overlapping requests, or a restart between the two writes, to leave it active
\* (properties.service.ts:239-269, property-inpsection.repository.ts:100-108).
ActiveWithoutApprovalNeedsOverlap ==
    \A l \in Listing :
        /\ Exists(l) /\ property[l].activeStatus = "ACTIVE"
        /\ inspection[l] # "APPROVED" /\ Busy(l) = {}
        => l \in disturbed \cup asCreated

HidesOnly(c) ==
    LET l == call[c].listing
    IN  Deactivate(c) /\ l \notin disturbed =>
          property'[l] = [property[l] EXCEPT !.activeStatus = "DEACTIVATED"]

\* Cancelling an inspection deactivates the listing and changes nothing else of it: a
\* host's new price or a page view goes lost only when it came while the
\* cancellation was under way (property-inpsection.repository.ts:104-108).
LostEditNeedsOverlap == [][\A c \in Call : HidesOnly(c)]_vars

\* The days a stay takes, the day of departure among them.
Days(t) == t.checkIn .. t.checkOut

\* What a guest asks for when naming a city, read off the form: active listings in
\* that city, of a type, a number of rooms (four: four or more) and a price as
\* given, and with no booking but cancelled ones on any of the days.
Wanted(q) ==
    {l \in GetRecommendedPropertiesByCity(q.city) :
       /\ q.types = {} \/ \E v \in q.types : FormatPropertyType(v) = Attributes[l].type
       /\ q.rooms = {} \/ \E n \in q.rooms : n = Attributes[l].rooms \/ (n = 4 /\ n < Attributes[l].rooms)
       /\ q.price <= property[l].price
       /\ \A s \in StaysOf(l) : contract[s] # "CANCELLED" => Days(terms[s]) \cap Days(q) = {}}

\* Once there are bookings, a search with a city finds what is wanted, nothing else
\* and nothing less, and leaving the city out hides none of it
\* (properties.repository.ts:166-278).
SearchIsExact ==
    \A q \in Query : q.city # NULL /\ ~NoBookings =>
        /\ FindPropertiesByParams(q) = Wanted(q)
        /\ Wanted(q) \subseteq FindPropertiesByParams([q EXCEPT !.city = NULL])

\* The revenue in the host's table is money that guests have paid: no stay counts
\* that is unpaid, and the stays counted are the ones the table's number of
\* bookings counts (property-utils.ts:47-70, 100-107).
RevenueWasPaid ==
    \A l \in Listing :
        LET paid == {s \in StaysOf(l) : money[s]}
        IN  /\ CalculateRevenue(l) <= SumFunctionOnSet(Net, paid)
            /\ NumberOfBookings(l) = Cardinality({s \in StaysOf(l) : CountsAsRevenue(s)})

=============================================================================
