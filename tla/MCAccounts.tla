----------------------------- MODULE MCAccounts -----------------------------
(* Instances of Accounts for TLC.                                          *)
EXTENDS AccountsProps, TLC

CONSTANTS m1

\* m1 moderates, the others are members.
Roles == [u \in Users |-> IF u = m1 THEN "moderator" ELSE "member"]

Symmetry == Permutations(Requests) \union Permutations(Links)

=============================================================================
