----------------------------- MODULE MCListings -----------------------------
(***************************************************************************)
(* Small instances of Listings for TLC.                                    *)
(***************************************************************************)
EXTENDS Listings, TLC

CONSTANTS l1, s1, c1, c2

Symmetry == Permutations({c1, c2})

\* A house in Lagos and its booking, for one of two pairs of dates.
MCAttributes ==
    [l \in Listing |-> [city |-> "lagos", type |-> "town-house", rooms |-> 5, people |-> 6]]
MCListingOf == [s \in Stay |-> l1]
MCNet == [s \in Stay |-> 1]
MCTerms == {[checkIn |-> 1, checkOut |-> 2], [checkIn |-> 3, checkOut |-> 4]}

\* Searches before, around, inside and at the edge of the booking, by type, rooms
\* and price, in the city of the house and in another.
MCQuery ==
    [city : {"lagos"}, types : {{}, {"townHouse", "primeInn"}, {"smartShare"}},
     rooms : {{}, {4}, {2, 3}}, price : {0, 2}, people : {2}, checkIn : {0, 2}, checkOut : {3}]
      \cup [city : {"lagos", "abuja"}, types : {{}}, rooms : {{1, 4}}, price : {0}, people : {2},
            checkIn : {0, 2}, checkOut : {2, 5}]

=============================================================================
