------------------------------ MODULE MCThreads ------------------------------
(***************************************************************************)
(* A small instance of Threads for TLC.                                    *)
(***************************************************************************)
EXTENDS Threads, TLC

CONSTANTS t1, t2, m1, m2, m3, c1, c2

Symmetry == Permutations({t1, t2}) \cup Permutations({m1, m2, m3}) \cup Permutations({c1, c2})

=============================================================================
