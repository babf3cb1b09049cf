----------------------------- MODULE MCDeletion -----------------------------
(* Instances of AccountDeletion for TLC.                                   *)
EXTENDS DeletionProps, TLC

CONSTANTS u1, u2, r1

Pairs == Users \X Reviews
DistinctKeys == [u \in Users |-> [r \in Reviews |-> <<u, r>>]]

\* Only u2 owns r1; the other reviews are nobody's who can be deleted here.
OwnedByU2 == [r \in Reviews |-> IF r = r1 THEN {u2} ELSE {}]

Symmetry == Permutations(Backends) \union Permutations(Deleters)

\* With one review, any three of the vote, the two deletions and the refresh
\* at once; with two reviews, the votes of one account and one deletion at a
\* time, before anything has overlapped.
Bounded ==
  \/ /\ reviews \subseteq {r1} /\ \A b \in Backends : tx[b].review \in {r1, Nobody}
     /\ \/ cron.pc = "idle"
        \/ \E b \in Backends : tx[b].pc = "idle"
        \/ \E d \in Deleters : del[d].pc = "idle"
  \/ /\ ~overlapped /\ \E d \in Deleters : del[d] = NoDeletion
     /\ \E u \in Users : \A r \in Reviews : vote[r][u] = NoVote

=============================================================================
