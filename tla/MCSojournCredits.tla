-------------------------- MODULE MCSojournCredits --------------------------
(***************************************************************************)
(* A small instance of SojournCredits for TLC.                            *)
(***************************************************************************)
EXTENDS SojournCredits

CONSTANTS ann, ben, b1, b2, b3, x1, w1

\* Ann's first booking earns enough for two spends that together overdraw her.
AnnsBookings == [b \in Booking |-> ann]
MCEarned == [b \in Booking |-> IF b = b1 THEN 3 ELSE 1]

=============================================================================
