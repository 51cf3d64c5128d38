---------------------------- MODULE MCHostWallet ----------------------------
(***************************************************************************)
(* Small instances of HostWallet for TLC.                                  *)
(***************************************************************************)
EXTENDS HostWallet, TLC

CONSTANTS s1, x1, x2, x3, x4, w1, w2, w3, c1, c2

\* Half days: two nights of 10 with a late check-out, or one night of 12.
HalfDays == {[checkIn |-> 1, checkOut |-> 4, deposit |-> 20]}
OneTerm == {[checkIn |-> 1, checkOut |-> 2, deposit |-> 12]}

\* Wallets and requests are interchangeable.
Symmetry == Permutations(Wallet) \cup Permutations(Call)

=============================================================================
