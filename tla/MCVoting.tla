------------------------------ MODULE MCVoting ------------------------------
(* Instances of Voting for TLC: hash functions of the advisory lock.       *)
EXTENDS VotingProps

\* Every pair of user and review has a lock key of its own.
Pairs == Users \X Reviews
DistinctKeys == [u \in Users |-> [r \in Reviews |-> <<u, r>>]]

\* hashtext() maps the pairs of one review to the same 32-bit key.
CrowdedReview == CHOOSE r \in Reviews : TRUE
CollidingKeys ==
  [u \in Users |-> [r \in Reviews |-> IF r = CrowdedReview THEN r ELSE <<u, r>>]]
KeysWithCollision == Pairs \union Reviews

=============================================================================
