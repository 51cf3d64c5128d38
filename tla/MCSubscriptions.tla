-------------------------- MODULE MCSubscriptions --------------------------
(***************************************************************************)
(* A small instance of Subscriptions for TLC.  Which of the two rows comes *)
(* first makes no difference.                                              *)
(***************************************************************************)
EXTENDS Subscriptions, TLC

CONSTANTS r1, r2, t1, t2

Rows == Permutations({r1, r2})

=============================================================================
