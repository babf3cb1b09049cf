----------------------------- MODULE VoteLedger -----------------------------
(***************************************************************************)
(* What the votes component promises its callers: a user has at most one   *)
(* vote on a review, a vote changes in one atomic step, and the two        *)
(* counters of a review are at every moment the number of up and of down   *)
(* votes recorded on it.                                                   *)
(***************************************************************************)
EXTENDS Integers, FiniteSets

CONSTANTS
  Users,     \* accounts that may vote
  Reviews    \* reviews that may be voted on

VARIABLES
  vote,      \* vote[r][u]: the vote of user u on review r
  tally      \* tally[r][a]: the counter of review r for the action a

ledgerVars == <<vote, tally>>

VoteAction == {"up", "down"}
NoVote == "none"

\* Number of users whose entry in the column f is the action a.
Count(f, a) == Cardinality({u \in Users : f[u] = a})

LedgerInit ==
  /\ vote = [r \in Reviews |-> [u \in Users |-> NoVote]]
  /\ tally = [r \in Reviews |-> [a \in VoteAction |-> 0]]

\* The vote of u on r becomes x, and the counters of r follow at once.
Record(r, u, x) ==
  /\ vote[r][u] # x
  /\ vote' = [vote EXCEPT ![r][u] = x]
  /\ tally' = [tally EXCEPT ![r] = [a \in VoteAction |-> Count(vote'[r], a)]]

LedgerNext ==
  \E r \in Reviews, u \in Users, x \in VoteAction \union {NoVote} : Record(r, u, x)

LedgerSpec == LedgerInit /\ [][LedgerNext]_ledgerVars

=============================================================================
