--------------------------- MODULE MCReservations ---------------------------
(***************************************************************************)
(* Small instances of Reservations for TLC.                                *)
(***************************************************************************)
EXTENDS Reservations, TLC

CONSTANTS r1, r2, p1, p2, h1

MCHostOf == [p \in Property |-> h1]

CardStay(p, from, to) == [property |-> p, checkIn |-> from, checkOut |-> to, method |-> "CARD"]
CryptoStay(p, from, to) == [CardStay(p, from, to) EXCEPT !.method = "CRYPTO"]

\* Two stays on one listing; the second begins inside the first.
RaceStays == {CardStay(p1, 1, 3), CardStay(p1, 2, 4)}
\* A stay of each means of payment.
MixedStays == {CardStay(p1, 1, 2), CryptoStay(p1, 1, 2)}
\* The same, and a stay far enough ahead for its cancellation to be offered.
JobStays == MixedStays \cup {CardStay(p1, 3, 4)}
\* Stays on two listings, for the query that forgets the listing.
TwoListings == {CardStay(p1, 1, 2), CardStay(p2, 1, 2), CardStay(p2, 2, 3)}

RequestSymmetry == Permutations(Request)

=============================================================================
