----------------------------- MODULE MCAccounts -----------------------------
(***************************************************************************)
(* Small instances of Accounts for TLC.                                    *)
(***************************************************************************)
EXTENDS Accounts, TLC

CONSTANTS ann, p1, s1, c1, c2

\* Requests are interchangeable.
Symmetry == Permutations({c1, c2})

=============================================================================
