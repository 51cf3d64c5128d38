--------------------------- MODULE ListingsProofs ---------------------------
(***************************************************************************)
(* What TLAPS proves about Listings for every number of listings, bookings *)
(* and requests, and every search.                                         *)
(***************************************************************************)
EXTENDS Listings, FiniteSums

-----------------------------------------------------------------------------
(* The inductive invariant.                                                *)

\* What a request may rely on, whoever else is at work on its listing.
Shape(c) ==
    LET r == call[c]
    IN  /\ r.stage = "idle" <=> r.listing = NULL
        /\ r.stage # "idle" => r.listing \in Listing /\ property[r.listing] # NULL
        /\ r.stage = "saveListing" => r.activeStatus \in PropertyStatus
        /\ r.stage = "saveListing" /\ r.activeStatus = "ACTIVE" => r.listing \in approved
        /\ r.stage = "update" => r.listing \in approved
        /\ r.stage = "deactivate" => r.entity \in Property /\ r.entity.activeStatus = "DEACTIVATED"

\* What it may rely on if nothing has disturbed it.
Fresh(c) ==
    LET r == call[c]
    IN  r.listing \notin disturbed =>
        /\ r.stage = "saveListing" => r.activeStatus = Follows(inspection[r.listing])
        /\ r.stage = "update" => inspection[r.listing] = "APPROVED"
        /\ r.stage = "deactivate" => r.entity = Deactivated(property[r.listing])

\* A listing, and one that no request is at work on.
RowOK(l) ==
    /\ property[l] # NULL /\ property[l].activeStatus = "ACTIVE" => l \in approved \cup asCreated
    /\ inspection[l] = "APPROVED" => l \in approved
    /\ property[l] = NULL => inspection[l] = NULL
    /\ property[l] # NULL /\ property[l].activeStatus = "ACTIVE" /\ l \notin disturbed
         /\ (\A c \in Call : call[c].listing # l)
         => inspection[l] = "APPROVED" \/ l \in asCreated

Alone ==
    \A c, d \in Call, l \in Listing :
        c # d /\ call[c].listing = l /\ call[d].listing = l => l \in disturbed

IInv ==
    /\ TypeOK
    /\ \A c \in Call : Shape(c)
    /\ \A c \in Call : Fresh(c)
    /\ \A l \in Listing : RowOK(l)
    /\ Alone

-----------------------------------------------------------------------------
(* Types and frames.                                                       *)

\* A call at rest is a request.
LEMMA IdleType == Idle \in Request /\ Idle.stage = "idle" /\ Idle.listing = NULL
BY DEF Idle, Request, Stage

\* A listing that is there is well-typed.
LEMMA RowType == ASSUME TypeOK, NEW l \in Listing, property[l] # NULL PROVE property[l] \in Property
BY DEF TypeOK

\* A step of request c on listing l.
Local(c, l) ==
    /\ call[c].listing \in {l, NULL} /\ call'[c].listing \in {l, NULL}
    /\ \A d \in Call : d # c => call'[d] = call[d]
    /\ \A m \in Listing : m # l => property'[m] = property[m] /\ inspection'[m] = inspection[m]
    /\ property[l] # NULL => property'[l] # NULL
    /\ approved \subseteq approved' /\ approved' \subseteq approved \cup {l}
    /\ asCreated' \subseteq asCreated /\ asCreated \subseteq asCreated' \cup {l}
    /\ disturbed \subseteq disturbed' /\ disturbed' \subseteq disturbed \cup {l}
    /\ l \in disturbed' \/ \A d \in Call : d # c => call[d].listing # l

\* Of such a step, what remains to be shown is about its own request and listing.
LEMMA LocalIInv ==
    ASSUME IInv, NEW c \in Call, NEW l \in Listing, TypeOK', Local(c, l),
           Shape(c)', Fresh(c)', RowOK(l)'
    PROVE  IInv'
<1> USE ListingsAssumption
<1>1. ASSUME NEW d \in Call, d # c PROVE Shape(d)' /\ Fresh(d)'
  <2>1. call'[d] = call[d] /\ Shape(d) /\ Fresh(d)
    BY <1>1 DEF IInv, Local
  <2>2. Shape(d)'
    BY <2>1 DEF Local, Shape
  <2>3. CASE call[d].listing = NULL
    BY <2>1, <2>3 DEF Shape, Fresh
  <2>4. CASE call[d].listing # l /\ call[d].listing # NULL
    <3>1. PICK m \in Listing : m = call[d].listing /\ m # l
      BY <2>1, <2>4 DEF Shape
    <3>2. property'[m] = property[m] /\ inspection'[m] = inspection[m] /\ (m \in disturbed => m \in disturbed')
      BY <3>1 DEF Local
    <3> QED BY <2>1, <2>2, <3>1, <3>2 DEF Fresh
  <2>5. CASE call[d].listing = l
    BY <1>1, <2>1, <2>2, <2>5 DEF Local, Fresh
  <2> QED BY <2>2, <2>3, <2>4, <2>5
<1>2. ASSUME NEW m \in Listing, m # l PROVE RowOK(m)'
  <2>1. RowOK(m) /\ property'[m] = property[m] /\ inspection'[m] = inspection[m]
        /\ (m \in disturbed' <=> m \in disturbed) /\ (m \in approved => m \in approved')
        /\ (m \in asCreated => m \in asCreated')
    BY <1>2 DEF IInv, Local
  <2>2. (\A d \in Call : call'[d].listing # m) => \A d \in Call : call[d].listing # m
    BY <1>2 DEF Local
  <2> QED BY <2>1, <2>2 DEF RowOK
<1>3. Alone'
  <2> SUFFICES ASSUME NEW d \in Call, NEW e \in Call, NEW m \in Listing, d # e,
                      call'[d].listing = m, call'[e].listing = m
               PROVE  m \in disturbed'
    BY DEF Alone
  <2>1. CASE d # c /\ e # c
    BY <2>1 DEF IInv, Alone, Local
  <2>2. CASE d = c \/ e = c
    BY <2>2 DEF Local
  <2> QED BY <2>1, <2>2
<1> QED BY <1>1, <1>2, <1>3 DEF IInv

\* A request at rest claims nothing.
LEMMA AtRest == ASSUME NEW c \in Call, call'[c] = Idle PROVE Shape(c)' /\ Fresh(c)'
BY IdleType DEF Shape, Fresh

\* A request begins: if another one is at work on the listing, it is disturbed.
LEMMA BeginEffect ==
    ASSUME TypeOK, NEW c \in Call, NEW l \in Listing, NEW r \in Request, Begin(c, l, r)
    PROVE  /\ call[c].stage = "idle" /\ property[l] # NULL /\ call' \in [Call -> Request]
           /\ call'[c] = [r EXCEPT !.listing = l]
           /\ \A d \in Call : d # c => call'[d] = call[d]
           /\ disturbed \subseteq disturbed' /\ disturbed' \subseteq disturbed \cup {l}
           /\ l \in disturbed' \/ \A d \in Call : call[d].listing # l
<1>1. [r EXCEPT !.listing = l] \in Request
    BY DEF Request
<1>2. /\ call' = [call EXCEPT ![c] = [r EXCEPT !.listing = l]] /\ call[c].stage = "idle"
      /\ property[l] # NULL
    BY DEF Begin, Exists
<1>3. /\ disturbed \subseteq disturbed' /\ disturbed' \subseteq disturbed \cup {l}
      /\ Busy(l) # {} => l \in disturbed'
    BY DEF Begin, Disturbs
<1>4. \A d \in Call : call[d].listing = l => d \in Busy(l)
    BY DEF Busy
<1> QED BY <1>1, <1>2, <1>3, <1>4 DEF TypeOK

\* A request ends.
LEMMA FinishEffect ==
    ASSUME TypeOK, NEW c \in Call, Finish(c)
    PROVE  /\ call' \in [Call -> Request] /\ call'[c] = Idle /\ call'[c].listing = NULL
           /\ \A d \in Call : d # c => call'[d] = call[d]
BY IdleType DEF Finish, TypeOK

\* A request at work has its listing, and shares it only if that is on record.
LEMMA Working ==
    ASSUME IInv, NEW c \in Call, call[c].stage # "idle"
    PROVE  /\ TypeOK /\ call[c] \in Request /\ call[c].listing \in Listing
           /\ property[call[c].listing] \in Property /\ Shape(c) /\ Fresh(c) /\ RowOK(call[c].listing)
           /\ \/ call[c].listing \in disturbed
              \/ \A d \in Call : d # c => call[d].listing # call[c].listing
<1>1. TypeOK /\ Shape(c) /\ Fresh(c) /\ call[c] \in Request
    BY DEF IInv, TypeOK
<1>2. call[c].listing \in Listing /\ property[call[c].listing] # NULL
    BY <1>1 DEF Shape
<1> QED BY <1>1, <1>2, RowType DEF IInv, Alone

-----------------------------------------------------------------------------
(* The actions.                                                            *)

\* A listing is created with its inspection, with the statuses of the form.
LEMMA CreateIInv ==
    ASSUME IInv, NEW l \in Listing, NEW activeStatus \in PropertyStatus,
           NEW status \in PropertyInspectionStatus, NEW price \in Price,
           CreatePropertyInspection(l, activeStatus, status, price)
    PROVE  IInv'
<1> USE ListingsAssumption
<1> DEFINE p == NewProperty(activeStatus, price)
<1>1. /\ property[l] = NULL /\ property' = [property EXCEPT ![l] = p]
      /\ inspection' = [inspection EXCEPT ![l] = status]
      /\ approved' = approved \cup (IF status = "APPROVED" THEN {l} ELSE {})
      /\ asCreated' = asCreated \cup {l}
      /\ UNCHANGED <<call, clock, terms, money, contract, disturbed>> /\ TypeOK
    BY DEF CreatePropertyInspection, Exists, bookings, IInv
<1>2. p \in Property
    BY DEF NewProperty, Property
<1> HIDE DEF p
<1>3. /\ property'[l] = p /\ property'[l] # NULL /\ inspection'[l] = status
      /\ \A m \in Listing : m # l => property'[m] = property[m] /\ inspection'[m] = inspection[m]
    BY <1>1, <1>2 DEF TypeOK
<1>4. TypeOK'
    BY <1>1, <1>2 DEF TypeOK
<1>5. ASSUME NEW c \in Call PROVE Shape(c)' /\ Fresh(c)'
  <2>1. Shape(c) /\ Fresh(c)
    BY DEF IInv
  <2>2. Shape(c)'
    BY <1>1, <1>3, <2>1 DEF Shape
  <2>3. Fresh(c)'
    BY <1>1, <1>3, <2>1 DEF Shape, Fresh
  <2> QED BY <2>2, <2>3
<1>6. ASSUME NEW m \in Listing PROVE RowOK(m)'
  <2>1. RowOK(m)
    BY DEF IInv
  <2>2. CASE m = l
    BY <1>1, <1>3, <2>2 DEF RowOK
  <2>3. CASE m # l
    BY <1>1, <1>3, <2>1, <2>3 DEF RowOK
  <2> QED BY <2>2, <2>3
<1>7. Alone'
    BY <1>1 DEF IInv, Alone
<1> QED BY <1>4, <1>5, <1>6, <1>7 DEF IInv

\* An inspection is decided.
LEMMA UpdateInspectionIInv ==
    ASSUME IInv, NEW c \in Call, NEW l \in Listing, NEW asked \in Asked,
           UpdateInspectionById(c, l, asked)
    PROVE  IInv'
<1> USE ListingsAssumption
<1> DEFINE r == [Idle EXCEPT !.stage = "saveListing", !.activeStatus = Follows(Decided(asked))]
<1>1. /\ Begin(c, l, r) /\ inspection' = [inspection EXCEPT ![l] = Decided(asked)]
      /\ approved' = approved \cup (IF asked = "approved" THEN {l} ELSE {})
      /\ UNCHANGED <<property, clock, terms, money, contract, asCreated>> /\ TypeOK /\ RowOK(l) /\ Shape(c)
    BY DEF UpdateInspectionById, bookings, IInv
<1>2. /\ Decided(asked) \in PropertyInspectionStatus /\ Follows(Decided(asked)) \in PropertyStatus
      /\ Decided(asked) = "APPROVED" => l \in approved'
      /\ Follows(Decided(asked)) = "ACTIVE" => Decided(asked) = "APPROVED"
    BY <1>1 DEF Decided, Follows, PropertyStatus, PropertyInspectionStatus
<1>3. r \in Request
    BY <1>2, IdleType DEF Request, Stage
<1>4. /\ call[c].stage = "idle" /\ property[l] # NULL /\ call' \in [Call -> Request]
      /\ call'[c] = [r EXCEPT !.listing = l]
      /\ \A d \in Call : d # c => call'[d] = call[d]
      /\ disturbed \subseteq disturbed' /\ disturbed' \subseteq disturbed \cup {l}
      /\ l \in disturbed' \/ \A d \in Call : call[d].listing # l
  <2> HIDE DEF r
  <2> QED BY <1>1, <1>3, BeginEffect
<1>5. /\ call'[c].stage = "saveListing" /\ call'[c].listing = l
      /\ call'[c].activeStatus = Follows(Decided(asked))
    BY <1>4 DEF Idle
<1>6. /\ inspection'[l] = Decided(asked)
      /\ \A m \in Listing : m # l => inspection'[m] = inspection[m]
    BY <1>1 DEF TypeOK
<1>7. TypeOK'
    BY <1>1, <1>2, <1>4 DEF TypeOK
<1>8. Local(c, l)
    BY <1>1, <1>4, <1>5, <1>6 DEF Local, Shape
<1>9. Shape(c)'
    BY <1>1, <1>2, <1>4, <1>5 DEF Shape
<1>10. Fresh(c)'
    BY <1>5, <1>6 DEF Fresh
<1>11. RowOK(l)'
    BY <1>1, <1>2, <1>4, <1>5, <1>6 DEF RowOK
<1> QED BY <1>7, <1>8, <1>9, <1>10, <1>11, LocalIInv

\* An inspection is cancelled.
LEMMA CancelInspectionIInv ==
    ASSUME IInv, NEW c \in Call, NEW l \in Listing, CancelInspectionById(c, l)
    PROVE  IInv'
<1> USE ListingsAssumption
<1> DEFINE r == [Idle EXCEPT !.stage = "readListing"]
<1>1. /\ Begin(c, l, r) /\ inspection' = [inspection EXCEPT ![l] = "CANCELLED"]
      /\ UNCHANGED <<property, clock, terms, money, contract, approved, asCreated>>
      /\ TypeOK /\ RowOK(l) /\ Shape(c)
    BY DEF CancelInspectionById, bookings, IInv
<1>2. r \in Request
    BY IdleType DEF Request, Stage
<1>3. /\ call[c].stage = "idle" /\ property[l] # NULL /\ call' \in [Call -> Request]
      /\ call'[c] = [r EXCEPT !.listing = l]
      /\ \A d \in Call : d # c => call'[d] = call[d]
      /\ disturbed \subseteq disturbed' /\ disturbed' \subseteq disturbed \cup {l}
      /\ l \in disturbed' \/ \A d \in Call : call[d].listing # l
  <2> HIDE DEF r
  <2> QED BY <1>1, <1>2, BeginEffect
<1>4. call'[c].stage = "readListing" /\ call'[c].listing = l
    BY <1>3 DEF Idle
<1>5. inspection'[l] = "CANCELLED" /\ \A m \in Listing : m # l => inspection'[m] = inspection[m]
    BY <1>1 DEF TypeOK
<1>6. TypeOK'
    BY <1>1, <1>3 DEF TypeOK, PropertyInspectionStatus
<1>7. Local(c, l)
    BY <1>1, <1>3, <1>4, <1>5 DEF Local, Shape
<1>8. Shape(c)' /\ Fresh(c)'
    BY <1>1, <1>3, <1>4 DEF Shape, Fresh
<1>9. RowOK(l)'
    BY <1>1, <1>3, <1>4, <1>5 DEF RowOK
<1> QED BY <1>6, <1>7, <1>8, <1>9, LocalIInv

\* A host's edit has found the inspection approved.
LEMMA UpdatePropertyByIdIInv ==
    ASSUME IInv, NEW c \in Call, NEW l \in Listing, NEW status \in PropertyStatus \cup {NULL},
           NEW price \in Price \cup {NULL}, UpdatePropertyById(c, l, status, price)
    PROVE  IInv'
<1> USE ListingsAssumption
<1> DEFINE r == [Idle EXCEPT !.stage = "update", !.activeStatus = status, !.price = price]
<1>1. /\ Begin(c, l, r) /\ inspection[l] = "APPROVED"
      /\ UNCHANGED <<property, inspection, clock, terms, money, contract, approved, asCreated>>
      /\ TypeOK /\ RowOK(l) /\ Shape(c)
    BY DEF UpdatePropertyById, IsPropertyInspectionApproved, rows, bookings, IInv
<1>2. r \in Request
    BY IdleType DEF Request, Stage
<1>3. /\ call[c].stage = "idle" /\ property[l] # NULL /\ call' \in [Call -> Request]
      /\ call'[c] = [r EXCEPT !.listing = l]
      /\ \A d \in Call : d # c => call'[d] = call[d]
      /\ disturbed \subseteq disturbed' /\ disturbed' \subseteq disturbed \cup {l}
      /\ l \in disturbed' \/ \A d \in Call : call[d].listing # l
  <2> HIDE DEF r
  <2> QED BY <1>1, <1>2, BeginEffect
<1>4. call'[c].stage = "update" /\ call'[c].listing = l
    BY <1>3 DEF Idle
<1>5. TypeOK'
    BY <1>1, <1>3 DEF TypeOK
<1>6. Local(c, l)
    BY <1>1, <1>3, <1>4 DEF Local, Shape
<1>7. Shape(c)' /\ Fresh(c)'
    BY <1>1, <1>3, <1>4 DEF Shape, Fresh, RowOK
<1>8. RowOK(l)'
    BY <1>1, <1>3, <1>4 DEF RowOK
<1> QED BY <1>5, <1>6, <1>7, <1>8, LocalIInv

\* A request that ends by writing its listing.
LEMMA WriteIInv ==
    ASSUME IInv, NEW c \in Call, NEW l \in Listing, l = call[c].listing, call[c].stage # "idle",
           NEW p \in Property, property' = [property EXCEPT ![l] = p], Finish(c),
           UNCHANGED <<inspection, clock, terms, money, contract, approved, disturbed>>,
           asCreated' \subseteq asCreated, asCreated \subseteq asCreated' \cup {l},
           p.activeStatus = "ACTIVE" => l \in approved,
           p.activeStatus = "ACTIVE" /\ l \notin disturbed => inspection[l] = "APPROVED"
    PROVE  IInv'
<1> USE ListingsAssumption
<1>1. /\ TypeOK /\ RowOK(l) /\ property[l] \in Property
      /\ l \in disturbed \/ \A d \in Call : d # c => call[d].listing # l
    BY Working
<1>2. /\ call' \in [Call -> Request] /\ call'[c] = Idle /\ call'[c].listing = NULL
      /\ \A d \in Call : d # c => call'[d] = call[d]
    BY <1>1, FinishEffect
<1>3. /\ property'[l] = p /\ property'[l] # NULL
      /\ \A m \in Listing : m # l => property'[m] = property[m]
    BY <1>1 DEF TypeOK
<1>4. TypeOK'
    BY <1>1, <1>2 DEF TypeOK
<1>5. Local(c, l)
    BY <1>1, <1>2, <1>3 DEF Local
<1>6. RowOK(l)'
    BY <1>1, <1>3 DEF RowOK
<1> QED BY <1>2, <1>4, <1>5, <1>6, AtRest, LocalIInv

\* What follows from the decision is written.
LEMMA SaveListingIInv == ASSUME IInv, NEW c \in Call, SaveListing(c) PROVE IInv'
<1>1. /\ call[c].stage = "saveListing" /\ Finish(c)
      /\ asCreated' = asCreated \ {call[c].listing}
      /\ UNCHANGED <<inspection, clock, terms, money, contract, approved, disturbed>>
    BY DEF SaveListing, bookings
<1>2. PICK l \in Listing : l = call[c].listing /\ Shape(c) /\ Fresh(c) /\ property[l] \in Property
    BY <1>1, Working
<1> DEFINE p == [property[l] EXCEPT !.activeStatus = call[c].activeStatus]
<1>3. property' = [property EXCEPT ![l] = p]
    BY <1>2 DEF SaveListing
<1>4. p \in Property /\ p.activeStatus = call[c].activeStatus
    BY <1>1, <1>2 DEF Property, Shape
<1> HIDE DEF p
<1>5. /\ p.activeStatus = "ACTIVE" => l \in approved
      /\ p.activeStatus = "ACTIVE" /\ l \notin disturbed => inspection[l] = "APPROVED"
    BY <1>1, <1>2, <1>4 DEF Shape, Fresh, Follows
<1> QED BY <1>1, <1>2, <1>3, <1>4, <1>5, WriteIInv

\* A cancellation reads the listing.
LEMMA ReadListingIInv == ASSUME IInv, NEW c \in Call, ReadListing(c) PROVE IInv'
<1> USE ListingsAssumption
<1>1. /\ call[c].stage = "readListing"
      /\ UNCHANGED <<property, inspection, clock, terms, money, contract, approved, asCreated, disturbed>>
    BY DEF ReadListing, rows, bookings
<1>2. PICK l \in Listing : /\ l = call[c].listing /\ Shape(c) /\ Fresh(c) /\ property[l] \in Property
                           /\ TypeOK /\ call[c] \in Request /\ RowOK(l)
                           /\ l \in disturbed \/ \A d \in Call : d # c => call[d].listing # l
    BY <1>1, Working
<1> DEFINE p == Deactivated(property[l])
           r == [call[c] EXCEPT !.stage = "deactivate", !.entity = p]
<1>3. p \in Property /\ p.activeStatus = "DEACTIVATED" /\ p = Deactivated(property[l])
    BY <1>2 DEF Deactivated, Property, PropertyStatus
<1>4. call' = [call EXCEPT ![c] = r]
    BY <1>2 DEF ReadListing
<1> HIDE DEF p
<1>5. r \in Request /\ r.stage = "deactivate" /\ r.entity = p /\ r.listing = l
    BY <1>2, <1>3 DEF Request, Stage
<1> HIDE DEF r
<1>6. call' \in [Call -> Request] /\ call'[c] = r /\ \A d \in Call : d # c => call'[d] = call[d]
    BY <1>2, <1>4, <1>5 DEF TypeOK
<1>7. TypeOK'
    BY <1>1, <1>2, <1>6 DEF TypeOK
<1>8. Local(c, l)
    BY <1>1, <1>2, <1>5, <1>6 DEF Local
<1>9. Shape(c)' /\ Fresh(c)'
  <2>1. Shape(c)'
    BY <1>1, <1>2, <1>3, <1>5, <1>6 DEF Shape
  <2>2. Fresh(c)'
    BY <1>1, <1>3, <1>5, <1>6 DEF Fresh, Deactivated
  <2> QED BY <2>1, <2>2
<1>10. RowOK(l)'
    BY <1>1, <1>2, <1>5, <1>6 DEF RowOK
<1> QED BY <1>7, <1>8, <1>9, <1>10, LocalIInv

\* The cancelled listing is saved as it was read.
LEMMA DeactivateIInv == ASSUME IInv, NEW c \in Call, Deactivate(c) PROVE IInv'
<1>1. /\ call[c].stage = "deactivate" /\ Finish(c)
      /\ asCreated' = asCreated \ {call[c].listing}
      /\ UNCHANGED <<inspection, clock, terms, money, contract, approved, disturbed>>
    BY DEF Deactivate, bookings
<1>2. PICK l \in Listing : l = call[c].listing /\ Shape(c)
    BY <1>1, Working
<1>3. PICK p \in Property : p = call[c].entity /\ p.activeStatus = "DEACTIVATED"
    BY <1>1, <1>2 DEF Shape
<1>4. property' = [property EXCEPT ![l] = p]
    BY <1>2, <1>3 DEF Deactivate
<1> QED BY <1>1, <1>2, <1>3, <1>4, WriteIInv

\* The columns a host has named are updated.
LEMMA UpdatePropertyIInv == ASSUME IInv, NEW c \in Call, UpdateProperty(c) PROVE IInv'
<1>1. /\ call[c].stage = "update" /\ Finish(c)
      /\ asCreated' = asCreated \/ asCreated' = asCreated \ {call[c].listing}
      /\ UNCHANGED <<inspection, clock, terms, money, contract, approved, disturbed>>
    BY DEF UpdateProperty, bookings
<1>2. PICK l \in Listing : /\ l = call[c].listing /\ Shape(c) /\ Fresh(c) /\ property[l] \in Property
                           /\ call[c] \in Request /\ TypeOK
    BY <1>1, Working
<1> DEFINE a == IF call[c].activeStatus = NULL THEN property[l].activeStatus ELSE call[c].activeStatus
           b == IF call[c].price = NULL THEN property[l].price ELSE call[c].price
           p == [property[l] EXCEPT !.activeStatus = a, !.price = b]
<1>3. a \in PropertyStatus /\ b \in Price
    BY <1>2 DEF Request, Property
<1>4. property' = [property EXCEPT ![l] = p]
    BY <1>2 DEF UpdateProperty, TypeOK, Property
<1>5. p \in Property
    BY <1>2, <1>3 DEF Property
<1> HIDE DEF p
<1>6. l \in approved /\ (l \notin disturbed => inspection[l] = "APPROVED")
    BY <1>1, <1>2 DEF Shape, Fresh
<1> QED BY <1>1, <1>2, <1>4, <1>5, <1>6, WriteIInv

\* A page view is counted.
LEMMA GetPropertyByIdIInv == ASSUME IInv, NEW l \in Listing, GetPropertyById(l) PROVE IInv'
<1> USE ListingsAssumption
<1> DEFINE p == [property[l] EXCEPT !.views = property[l].views + 1]
<1>1. /\ property[l] # NULL /\ property' = [property EXCEPT ![l] = p] /\ TypeOK
      /\ UNCHANGED <<inspection, call, clock, terms, money, contract, approved, asCreated>>
    BY DEF GetPropertyById, Exists, bookings, IInv
<1>2. p \in Property /\ p.activeStatus = property[l].activeStatus
    BY <1>1, RowType DEF Property
<1> HIDE DEF p
<1>3. /\ disturbed \subseteq disturbed' /\ disturbed' \subseteq disturbed \cup {l}
      /\ l \in disturbed' \/ \A d \in Call : call[d].listing # l
    BY DEF GetPropertyById, Disturbs, Busy
<1>4. /\ property'[l] = p /\ property'[l] # NULL
      /\ \A m \in Listing : m # l => property'[m] = property[m]
    BY <1>1, <1>2 DEF TypeOK
<1>5. TypeOK'
    BY <1>1, <1>2, <1>3 DEF TypeOK
<1>6. ASSUME NEW c \in Call PROVE Shape(c)' /\ Fresh(c)'
  <2>1. Shape(c) /\ Fresh(c)
    BY DEF IInv
  <2>2. Shape(c)'
    BY <1>1, <1>4, <2>1 DEF Shape
  <2>3. Fresh(c)'
    BY <1>1, <1>3, <1>4, <2>1 DEF Shape, Fresh
  <2> QED BY <2>2, <2>3
<1>7. ASSUME NEW m \in Listing PROVE RowOK(m)'
  <2>1. RowOK(m)
    BY DEF IInv
  <2> QED BY <1>1, <1>2, <1>3, <1>4, <2>1 DEF RowOK
<1>8. Alone'
    BY <1>1, <1>3 DEF IInv, Alone
<1> QED BY <1>5, <1>6, <1>7, <1>8 DEF IInv

\* Bookings and their payments are not looked at by the requests on listings.
LEMMA BookingsIInv == ASSUME IInv, Bookings PROVE IInv'
<1>1. UNCHANGED <<property, inspection, call, approved, asCreated, disturbed>> /\ TypeOK
    BY DEF Bookings, rows, IInv
<1>2. ASSUME Contract!Pass PROVE TypeOK'
    BY <1>1, <1>2 DEF TypeOK, Contract!Pass
<1>3. ASSUME NEW s \in Stay, Contract!Agree(s) \/ Contract!Settle(s) \/ Contract!Release(s)
      PROVE  TypeOK'
    BY <1>1, <1>3 DEF TypeOK, Contract!Agree, Contract!Settle, Contract!Release
<1>5. ASSUME NEW s \in Stay, Contract!Pay(s) PROVE TypeOK'
  <2>1. money' \in [Stay -> BOOLEAN]
    BY <1>1, <1>5, Zenon DEF TypeOK, Contract!Pay
  <2> QED BY <1>1, <1>5, <2>1 DEF TypeOK, Contract!Pay
<1>4. TypeOK'
    BY <1>2, <1>3, <1>5 DEF Bookings
<1> QED BY <1>1, <1>4 DEF IInv, Shape, Fresh, RowOK, Alone

\* The server restarts: listings whose requests are cut off are on record.
LEMMA RestartIInv == ASSUME IInv, Restart PROVE IInv'
<1> USE ListingsAssumption
<1>1. /\ call' = [c \in Call |-> Idle] /\ TypeOK
      /\ UNCHANGED <<property, inspection, clock, terms, money, contract, approved, asCreated>>
      /\ disturbed' = disturbed \cup {l \in Listing : Busy(l) # {}}
    BY DEF Restart, rows, bookings, IInv
<1>2. TypeOK'
    BY <1>1, IdleType DEF TypeOK
<1>3. ASSUME NEW c \in Call PROVE Shape(c)' /\ Fresh(c)'
    BY <1>1, AtRest
<1>4. ASSUME NEW l \in Listing PROVE RowOK(l)'
  <2>1. RowOK(l) /\ (l \in disturbed' \/ \A c \in Call : call[c].listing # l)
    BY <1>1 DEF IInv, Busy
  <2> QED BY <1>1, <2>1 DEF RowOK
<1>5. Alone'
    BY <1>1, IdleType DEF Alone
<1> QED BY <1>2, <1>3, <1>4, <1>5 DEF IInv

-----------------------------------------------------------------------------
(* The invariant is inductive.                                             *)

\* It holds before the first listing.
LEMMA InitIInv == Init => IInv
<1> USE ListingsAssumption
<1> SUFFICES ASSUME Init PROVE IInv
    OBVIOUS
<1>1. TypeOK
    BY IdleType DEF Init, TypeOK, Contract!Init
<1>2. ASSUME NEW c \in Call PROVE Shape(c) /\ Fresh(c)
    BY IdleType DEF Init, Shape, Fresh
<1>3. ASSUME NEW l \in Listing PROVE RowOK(l)
    BY DEF Init, RowOK, PropertyInspectionStatus
<1>4. Alone
    BY IdleType DEF Init, Alone
<1> QED BY <1>1, <1>2, <1>3, <1>4 DEF IInv

\* Every step keeps it.
LEMMA NextIInv == ASSUME IInv, [Next]_vars PROVE IInv'
<1>1. CASE UNCHANGED vars
    BY <1>1 DEF vars, rows, bookings, IInv, TypeOK, Shape, Fresh, RowOK, Alone
<1>2. ASSUME NEW l \in Listing, NEW activeStatus \in PropertyStatus,
             NEW status \in PropertyInspectionStatus, NEW price \in Price,
             CreatePropertyInspection(l, activeStatus, status, price)
      PROVE  IInv'
    BY <1>2, CreateIInv
<1>3. ASSUME NEW c \in Call, NEW l \in Listing, NEW asked \in Asked, UpdateInspectionById(c, l, asked)
      PROVE  IInv'
    BY <1>3, UpdateInspectionIInv
<1>4. ASSUME NEW c \in Call, NEW l \in Listing, CancelInspectionById(c, l) PROVE IInv'
    BY <1>4, CancelInspectionIInv
<1>5. ASSUME NEW c \in Call, NEW l \in Listing, NEW status \in PropertyStatus \cup {NULL},
             NEW price \in Price \cup {NULL}, UpdatePropertyById(c, l, status, price)
      PROVE  IInv'
    BY <1>5, UpdatePropertyByIdIInv
<1>6. ASSUME NEW c \in Call, SaveListing(c) \/ ReadListing(c) \/ Deactivate(c) \/ UpdateProperty(c)
      PROVE  IInv'
    BY <1>6, SaveListingIInv, ReadListingIInv, DeactivateIInv, UpdatePropertyIInv
<1>7. ASSUME NEW l \in Listing, GetPropertyById(l) PROVE IInv'
    BY <1>7, GetPropertyByIdIInv
<1>8. CASE Bookings \/ Restart
    BY <1>8, BookingsIInv, RestartIInv
<1> QED BY <1>1, <1>2, <1>3, <1>4, <1>5, <1>6, <1>7, <1>8 DEF Next

\* It holds in every state.
LEMMA Invariance == Spec => []IInv
BY InitIInv, NextIInv, PTL DEF Spec

-----------------------------------------------------------------------------
(* The theorems.                                                           *)

\* Listings, inspections and requests have their types: an asked status is stored
\* as one of the three (properties.service.ts:212-235).
THEOREM TypeCorrect == Spec => []TypeOK
<1>1. IInv => TypeOK
    BY DEF IInv
<1> QED BY <1>1, Invariance, PTL

\* After its creation a listing becomes active only with its inspection approved.
THEOREM ActiveListingsWereApproved == Spec => []ActiveWasApproved
<1>1. IInv => ActiveWasApproved
    BY DEF IInv, RowOK, ActiveWasApproved, Exists
<1> QED BY <1>1, Invariance, PTL

\* Once its status has been written, a listing is left active without approval only
\* by overlapping requests or a restart between the two writes.
THEOREM WronglyActiveNeedsOverlap == Spec => []ActiveWithoutApprovalNeedsOverlap
<1>1. IInv => ActiveWithoutApprovalNeedsOverlap
  <2> SUFFICES ASSUME IInv, NEW l \in Listing, property[l] # NULL, property[l].activeStatus = "ACTIVE",
                      inspection[l] # "APPROVED", Busy(l) = {}
               PROVE  l \in disturbed \cup asCreated
    BY DEF ActiveWithoutApprovalNeedsOverlap, Exists
  <2>1. \A c \in Call : call[c].listing # l
    BY DEF Busy
  <2> QED BY <2>1 DEF IInv, RowOK
<1> QED BY <1>1, Invariance, PTL

\* A cancellation that nothing disturbs deactivates the listing and changes nothing else.
THEOREM LostEditsNeedOverlap == Spec => LostEditNeedsOverlap
<1>1. ASSUME IInv, NEW c \in Call PROVE HidesOnly(c)
  <2> SUFFICES ASSUME Deactivate(c), call[c].listing \notin disturbed
               PROVE  property'[call[c].listing] =
                        [property[call[c].listing] EXCEPT !.activeStatus = "DEACTIVATED"]
    BY DEF HidesOnly
  <2>1. call[c].stage = "deactivate"
    BY DEF Deactivate
  <2>2. TypeOK /\ call[c].listing \in Listing /\ Fresh(c)
    BY <1>1, <2>1, Working
  <2>3. call[c].entity = Deactivated(property[call[c].listing])
    BY <2>1, <2>2 DEF Fresh
  <2> QED BY <2>2, <2>3 DEF Deactivate, Deactivated, TypeOK
<1>2. IInv /\ [Next]_vars => [\A c \in Call : HidesOnly(c)]_vars
    BY <1>1
<1> QED BY <1>2, Invariance, PTL DEF Spec, LostEditNeedsOverlap

\* The three comparisons of the SQL say that two stays share a day.
LEMMA SharedDay ==
    ASSUME NEW a \in Nat, NEW b \in Nat, NEW x \in Nat, NEW y \in Nat, a <= b, x <= y
    PROVE  ((a .. b) \cap (x .. y) = {}) <=>
             ~((x >= a /\ x <= b) \/ (y >= a /\ y <= b) \/ (x <= a /\ y >= b))
<1>1. ASSUME NEW d \in (a .. b) \cap (x .. y)
      PROVE  (x >= a /\ x <= b) \/ (y >= a /\ y <= b) \/ (x <= a /\ y >= b)
    BY <1>1
<1>2. ASSUME x >= a, x <= b PROVE x \in (a .. b) \cap (x .. y)
    BY <1>2
<1>3. ASSUME y >= a, y <= b PROVE y \in (a .. b) \cap (x .. y)
    BY <1>3
<1>4. ASSUME x <= a, y >= b PROVE a \in (a .. b) \cap (x .. y)
    BY <1>4
<1> QED BY <1>1, <1>2, <1>3, <1>4

\* NOT EXISTS (booking) holds of the listings that are free on all the days.
LEMMA NotBookedIsFree ==
    ASSUME TypeOK, NEW q \in Query, NEW l \in Listing
    PROVE  NotExistsBooking(l, q) <=>
             \A s \in StaysOf(l) : contract[s] # "CANCELLED" => Days(terms[s]) \cap Days(q) = {}
<1> SUFFICES ASSUME NEW s \in StaysOf(l)
             PROVE  ~IsBooked(s, q) <=> (contract[s] # "CANCELLED" => Days(terms[s]) \cap Days(q) = {})
    BY DEF NotExistsBooking
<1>1. s \in Stay /\ terms[s] \in Terms
    BY DEF StaysOf, TypeOK
<1>2. Dates(terms[s]) /\ Dates(q)
    BY <1>1, ListingsAssumption
<1>3. (Days(terms[s]) \cap Days(q) = {}) <=>
        ~(\/ q.checkIn >= terms[s].checkIn /\ q.checkIn <= terms[s].checkOut
          \/ q.checkOut >= terms[s].checkIn /\ q.checkOut <= terms[s].checkOut
          \/ q.checkIn <= terms[s].checkIn /\ q.checkOut >= terms[s].checkOut)
    BY <1>2, SharedDay DEF Dates, Days
<1> QED BY <1>3 DEF IsBooked

\* Once there are bookings, a search with a city finds exactly what is wanted, and
\* leaving the city out hides none of it.
THEOREM SearchesAreExact == Spec => []SearchIsExact
<1>1. IInv => SearchIsExact
  <2> SUFFICES ASSUME IInv, NEW q \in Query, q.city # NULL, ~NoBookings
               PROVE  /\ FindPropertiesByParams(q) = Wanted(q)
                      /\ Wanted(q) \subseteq FindPropertiesByParams([q EXCEPT !.city = NULL])
    BY DEF SearchIsExact
  <2>1. TypeOK /\ q.price \in Nat /\ q.rooms \subseteq Nat
    BY ListingsAssumption DEF IInv
  <2>2. ASSUME NEW l \in Listing, property[l] # NULL
        PROVE  /\ q.types # {} => (Attributes[l].type \in {FormatPropertyType(v) : v \in q.types} <=>
                                     \E v \in q.types : FormatPropertyType(v) = Attributes[l].type)
               /\ RoomsMatch(Attributes[l].rooms, q.rooms) <=>
                    \E n \in q.rooms : n = Attributes[l].rooms \/ (n = 4 /\ n < Attributes[l].rooms)
               /\ (q.price # 0 => q.price <= property[l].price) <=> q.price <= property[l].price
    <3>1. property[l].price \in Nat /\ Attributes[l].rooms \in Nat
      BY <2>1, <2>2, RowType, ListingsAssumption DEF Property
    <3>2. RoomsMatch(Attributes[l].rooms, q.rooms) <=>
            \E n \in q.rooms : n = Attributes[l].rooms \/ (n = 4 /\ n < Attributes[l].rooms)
      BY <2>1, <3>1 DEF RoomsMatch
    <3> QED BY <2>1, <3>1, <3>2
  <2>3. ASSUME NEW l \in Listing, property[l] # NULL
        PROVE  SearchSql(l, q) <=> l \in Wanted(q)
    <3>1. Conditions(l, q) <=>
            /\ Attributes[l].city = q.city /\ property[l].activeStatus = "ACTIVE"
            /\ q.types = {} \/ \E v \in q.types : FormatPropertyType(v) = Attributes[l].type
            /\ q.rooms = {} \/ \E n \in q.rooms : n = Attributes[l].rooms \/ (n = 4 /\ n < Attributes[l].rooms)
            /\ q.price <= property[l].price
      BY <2>2, <2>3 DEF Conditions
    <3> QED BY <2>1, <2>3, <3>1, NotBookedIsFree
            DEF SearchSql, Wanted, GetRecommendedPropertiesByCity, Exists
  <2>4. FindPropertiesByParams(q) = Wanted(q)
    BY <2>3 DEF FindPropertiesByParams, Wanted, GetRecommendedPropertiesByCity, Exists
  <2>5. ASSUME NEW l \in Listing, Conditions(l, q)
        PROVE  Conditions(l, [q EXCEPT !.city = NULL])
    BY <2>5 DEF Conditions
  <2>6. ASSUME NEW l \in Wanted(q) PROVE l \in FindPropertiesByParams([q EXCEPT !.city = NULL])
    <3>1. l \in Listing /\ Exists(l) /\ SearchSql(l, q)
      BY <2>6, <2>4 DEF FindPropertiesByParams
    <3>2. Conditions(l, [q EXCEPT !.city = NULL])
      BY <2>5, <3>1 DEF SearchSql
    <3> QED BY <3>1, <3>2 DEF FindPropertiesByParams, SearchSql
  <2> QED BY <2>4, <2>6
<1> QED BY <1>1, Invariance, PTL

\* A stay gets past PENDING, unless it is cancelled, only with its money: the
\* contract the bookings follow never settles an unpaid stay.
SettledWasPaid ==
    \A s \in Stay : contract[s] \in {"PAID_PENDING", "PROCESSING", "FINISHED"} => money[s]

\* It holds in every state: the contract has no other way to settle a stay.
LEMMA SettledStaysArePaid == Spec => []SettledWasPaid
<1>1. Init => SettledWasPaid
    BY DEF Init, Contract!Init, SettledWasPaid
<1>2. ASSUME IInv, SettledWasPaid, [Next]_vars PROVE SettledWasPaid'
  <2>1. TypeOK
    BY <1>2 DEF IInv
  <2>2. CASE UNCHANGED bookings
    BY <1>2, <2>2 DEF bookings, SettledWasPaid
  <2>3. ASSUME NEW s \in Stay, Contract!Settle(s) PROVE SettledWasPaid'
    BY <1>2, <2>1, <2>3 DEF Contract!Settle, Contract!MaySettle, SettledWasPaid, TypeOK
  <2>4. ASSUME NEW s \in Stay, Contract!Pay(s) PROVE SettledWasPaid'
    <3>1. /\ contract' = contract
          /\ \A r \in Stay : money[r] => money'[r]
      BY <2>1, <2>4, Zenon DEF Contract!Pay, TypeOK
    <3> QED BY <1>2, <3>1 DEF SettledWasPaid
  <2>5. ASSUME NEW s \in Stay, Contract!Agree(s) \/ Contract!Release(s) PROVE SettledWasPaid'
    BY <1>2, <2>1, <2>5 DEF Contract!Agree, Contract!Release, SettledWasPaid, TypeOK
  <2>6. CASE Bookings
    BY <1>2, <2>3, <2>4, <2>5, <2>6 DEF Bookings, Contract!Pass, SettledWasPaid
  <2>7. Bookings \/ UNCHANGED bookings
    BY <1>2 DEF Next, vars, CreatePropertyInspection, UpdateInspectionById, CancelInspectionById,
                UpdatePropertyById, SaveListing, ReadListing, Deactivate, UpdateProperty,
                GetPropertyById, Restart
  <2> QED BY <2>2, <2>6, <2>7
<1> QED BY <1>1, <1>2, Invariance, PTL DEF Spec

\* The host's revenue is paid money, and the number of bookings beside it counts
\* the same stays.
THEOREM RevenueIsPaidMoney == Spec => []RevenueWasPaid
<1>1. ASSUME TypeOK, SettledWasPaid, NEW l \in Listing
      PROVE  /\ CalculateRevenue(l) <= SumFunctionOnSet(Net, {s \in StaysOf(l) : money[s]})
             /\ NumberOfBookings(l) = Cardinality({s \in StaysOf(l) : CountsAsRevenue(s)})
  <2> DEFINE counted == {s \in StaysOf(l) : CountsAsRevenue(s)}
             paid == {s \in StaysOf(l) : money[s]}
  <2>1. counted = {s \in StaysOf(l) : contract[s] \in {"FINISHED", "PAID_PENDING", "PROCESSING"}}
    BY <1>1 DEF TypeOK, StaysOf, CountsAsRevenue
  <2>2. counted \subseteq paid
    BY <2>1, <1>1 DEF SettledWasPaid, StaysOf
  <2>3. IsFiniteSet(paid) /\ paid \subseteq Stay
    BY FS_Subset, ListingsAssumption DEF StaysOf
  <2>4. \A s \in paid : Net[s] \in Int /\ Net[s] >= 0
    BY <2>3, ListingsAssumption
  <2> HIDE DEF paid
  <2>5. SumFunctionOnSet(Net, counted) <= SumFunctionOnSet(Net, paid)
    BY <2>2, <2>3, <2>4, SumSubset
  <2>6. NumberOfBookings(l) = Cardinality(counted)
    BY <2>1 DEF NumberOfBookings
  <2> QED BY <2>5, <2>6 DEF CalculateRevenue, paid
<1>2. IInv /\ SettledWasPaid => RevenueWasPaid
    BY <1>1 DEF IInv, RevenueWasPaid
<1> QED BY <1>2, Invariance, SettledStaysArePaid, PTL

=============================================================================
