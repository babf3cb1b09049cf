----------------------------- MODULE MCSessions -----------------------------
(* Instances of Sessions for TLC.                                          *)
EXTENDS SessionsProps, TLC

Symmetry == Permutations(Requests)

\* Every mishap takes the place of one session id.
Bounded == issued + mishaps <= MaxSids

=============================================================================
