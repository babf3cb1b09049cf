------------------------------- MODULE Voting -------------------------------
(***************************************************************************)
(* The votes component: VotesService.voteReview and deleteVote, run by     *)
(* concurrent database sessions against PostgreSQL.  Each action is one    *)
(* SQL statement of a READ COMMITTED transaction.  The variables vote and  *)
(* tally hold committed rows; what a transaction has written and not yet   *)
(* committed is in its record tx[b] and becomes visible at Commit.         *)
(***************************************************************************)
EXTENDS Integers, FiniteSets

CONSTANTS
  Users,      \* ids an account can have
  Reviews,    \* ids a review can have
  Backends,   \* database sessions, one request each at a time
  LockKeys,   \* values of hashtext()
  HashText,   \* HashText[u][r]: the advisory lock key of a user and a review
  Nobody      \* the holder of a free lock

ASSUME VotingAssumption ==
  /\ IsFiniteSet(Users)
  /\ HashText \in [Users -> [Reviews -> LockKeys]]
  /\ Nobody \notin Backends

VARIABLES
  accounts,   \* rows of table account
  reviews,    \* rows of table review
  vote,       \* vote[r][u]: action of the committed row of table vote, or NoVote
  tally,      \* tally[r][a]: committed columns upvotes and downvotes of review r
  tx,         \* tx[b]: the request session b executes
  voteLock,   \* voteLock[k]: holder of the transaction-scoped advisory lock k
  rowLock     \* rowLock[r]: transaction that updated the row of review r

dbVars == <<accounts, reviews, vote, tally>>
lockVars == <<voteLock, rowLock>>
votingVars == <<dbVars, tx, lockVars>>

VoteAction == {"up", "down"}
NoVote == "none"
Untouched == "untouched"     \* the transaction has not written its vote row
NoDelta == [a \in VoteAction |-> 0]

\* A request before its first statement has run; a session without one.
Request(kind, u, r, a) ==
  [pc |-> "exists", kind |-> kind, user |-> u, review |-> r, action |-> a,
   prev |-> NoVote, row |-> Untouched, delta |-> NoDelta, reply |-> "none"]
Idle(reply) ==
  [pc |-> "idle", kind |-> "none", user |-> Nobody, review |-> Nobody, action |-> NoVote,
   prev |-> NoVote, row |-> Untouched, delta |-> NoDelta, reply |-> reply]

\* The statements at which a session that holds its advisory lock can be.
Locked == {"find", "delete", "decrement", "insert", "increment", "commit"}
Busy == {"exists", "lock"} \union Locked

Key(b) == HashText[tx[b].user][tx[b].review]
Count(f, a) == Cardinality({u \in Users : f[u] = a})

-----------------------------------------------------------------------------
(* Steps common to the two operations.                                     *)

Goto(b, pc) == tx' = [tx EXCEPT ![b].pc = pc]

\* Fault: the locks of a finished request stay taken.
ReleaseNothing(b, lock) == lock

Release(b, lock) == [k \in DOMAIN lock |-> IF lock[k] = b THEN Nobody ELSE lock[k]]

\* The transaction ends, its locks are released and the client is answered.
Answer(b, reply) ==
  /\ tx' = [tx EXCEPT ![b] = Idle(reply)]
  /\ voteLock' = Release(b, voteLock)
  /\ rowLock' = Release(b, rowLock)

\* Another transaction has an uncommitted write on the vote row of b's request.
VoteRowBusy(b) ==
  \E c \in Backends \ {b} :
    /\ tx[c].user = tx[b].user
    /\ tx[c].review = tx[b].review
    /\ tx[c].row # Untouched

ReviewRowFree(b) == rowLock[tx[b].review] \in {Nobody, b}

\* Value of column a of b's review as b's transaction sees it.
SeenTally(b, a) == tally[tx[b].review][a] + tx[b].delta[a]

\* Fault: increment() and decrement() swapped.
UpdateCounterSwapped(b, a, n, pc) ==
  /\ tx' = [tx EXCEPT ![b].pc = pc, ![b].delta[a] = @ - n]
  /\ rowLock' = [rowLock EXCEPT ![tx[b].review] = b]

\* UPDATE review SET a = a + n WHERE id = ...: no row, no effect.
UpdateCounter(b, a, n, pc) ==
  IF tx[b].review \in reviews
  THEN /\ tx' = [tx EXCEPT ![b].pc = pc, ![b].delta[a] = @ + n]
       /\ rowLock' = [rowLock EXCEPT ![tx[b].review] = b]
  ELSE /\ Goto(b, pc)
       /\ UNCHANGED rowLock

-----------------------------------------------------------------------------
(* One action per statement.                                               *)

Begin(b) ==
  /\ tx[b].pc = "idle"
  /\ \E u \in accounts, r \in Reviews :
       \/ \E a \in VoteAction : tx' = [tx EXCEPT ![b] = Request("voteReview", u, r, a)]
       \/ tx' = [tx EXCEPT ![b] = Request("deleteVote", u, r, NoVote)]
  /\ UNCHANGED <<dbVars, lockVars>>

\* existsOrThrowTx of voteReview, existsOrThrow (outside the transaction) of deleteVote.
Exists(b) ==
  /\ tx[b].pc = "exists"
  /\ IF tx[b].review \in reviews
     THEN Goto(b, "lock") /\ UNCHANGED lockVars
     ELSE Answer(b, "notFound")
  /\ UNCHANGED dbVars

\* Fault: the result of pg_try_advisory_xact_lock is not looked at.
TryLockIgnored(b) ==
  /\ tx[b].pc = "lock"
  /\ Goto(b, "find")
  /\ UNCHANGED <<dbVars, lockVars>>

\* pg_try_advisory_xact_lock never waits: a busy lock ends the request, which
\* voteReview acknowledges and deleteVote denies.
TryLock(b) ==
  /\ tx[b].pc = "lock"
  /\ IF voteLock[Key(b)] = Nobody
     THEN /\ Goto(b, "find")
          /\ voteLock' = [voteLock EXCEPT ![Key(b)] = b]
          /\ UNCHANGED rowLock
     ELSE Answer(b, IF tx[b].kind = "voteReview" THEN "true" ELSE "false")
  /\ UNCHANGED dbVars

\* Fault: a previous vote ends voteReview whatever its action.
AfterFindAnyVote(b, previous) ==
  IF tx[b].kind = "deleteVote" THEN IF previous = NoVote THEN "commit" ELSE "delete"
  ELSE IF previous = NoVote THEN "insert" ELSE "commit"

AfterFind(b, previous) ==
  IF previous = tx[b].action THEN "commit"   \* nothing to do, for either operation
  ELSE IF previous = NoVote THEN "insert" ELSE "delete"

Find(b) ==
  /\ tx[b].pc = "find"
  /\ LET previous == vote[tx[b].review][tx[b].user]
     IN tx' = [tx EXCEPT ![b].pc = AfterFind(b, previous), ![b].prev = previous]
  /\ UNCHANGED <<dbVars, lockVars>>

\* DELETE FROM vote WHERE id = previous.id: a row replaced since has another id.
Delete(b) ==
  /\ tx[b].pc = "delete"
  /\ ~VoteRowBusy(b)
  /\ tx' = [tx EXCEPT ![b].pc = "decrement",
                      ![b].row = IF vote[tx[b].review][tx[b].user] = tx[b].prev
                                 THEN NoVote ELSE Untouched]
  /\ UNCHANGED <<dbVars, lockVars>>

\* CHECK (upvotes >= 0) and CHECK (downvotes >= 0) reject the new counter.
CounterExhausted(b, a) == tx[b].review \in reviews /\ SeenTally(b, a) < 1

AfterDecrement(b) == IF tx[b].kind = "voteReview" THEN "insert" ELSE "commit"

\* Fault: switching a vote decrements the counter of the new action.
DecrementNewAction(b) ==
  /\ tx[b].pc = "decrement"
  /\ ReviewRowFree(b)
  /\ LET a == IF tx[b].kind = "voteReview" THEN tx[b].action ELSE tx[b].prev
     IN IF CounterExhausted(b, a) THEN Answer(b, "constraint")
        ELSE UpdateCounter(b, a, -1, AfterDecrement(b)) /\ UNCHANGED voteLock
  /\ UNCHANGED dbVars

\* A statement that violates a constraint throws; TypeORM rolls back.
Decrement(b) ==
  /\ tx[b].pc = "decrement"
  /\ ReviewRowFree(b)
  /\ IF CounterExhausted(b, tx[b].prev) THEN Answer(b, "constraint")
     ELSE UpdateCounter(b, tx[b].prev, -1, AfterDecrement(b)) /\ UNCHANGED voteLock
  /\ UNCHANGED dbVars

\* The unique key and the foreign keys of table vote accept the new row.
InsertAllowed(b) ==
  /\ vote[tx[b].review][tx[b].user] = NoVote \/ tx[b].row = NoVote
  /\ tx[b].user \in accounts
  /\ tx[b].review \in reviews

Insert(b) ==
  /\ tx[b].pc = "insert"
  /\ ~VoteRowBusy(b)
  /\ IF InsertAllowed(b)
     THEN /\ tx' = [tx EXCEPT ![b].pc = "increment", ![b].row = tx[b].action]
          /\ UNCHANGED lockVars
     ELSE Answer(b, "constraint")
  /\ UNCHANGED dbVars

Increment(b) ==
  /\ tx[b].pc = "increment"
  /\ ReviewRowFree(b)
  /\ UpdateCounter(b, tx[b].action, 1, "commit")
  /\ UNCHANGED <<dbVars, voteLock>>

\* Fault: deleteVote answers true also when it found no vote.
CommitReplyTrue(b) == "true"

CommitReply(b) ==
  IF tx[b].kind = "deleteVote" /\ tx[b].prev = NoVote THEN "false" ELSE "true"

Commit(b) ==
  /\ tx[b].pc = "commit"
  /\ LET r == tx[b].review
         u == tx[b].user
     IN /\ vote' = IF tx[b].row = Untouched THEN vote
                   ELSE [vote EXCEPT ![r][u] = tx[b].row]
        /\ tally' = [tally EXCEPT ![r] = [a \in VoteAction |-> @[a] + tx[b].delta[a]]]
  /\ Answer(b, CommitReply(b))
  /\ UNCHANGED <<accounts, reviews>>

\* The connection, the server or the process is lost, or the deadlock detector
\* picks this transaction: everything it wrote is undone.
Abort(b) ==
  /\ tx[b].pc \in Busy
  /\ Answer(b, "aborted")
  /\ UNCHANGED dbVars

-----------------------------------------------------------------------------

Step(b) ==
  \/ Exists(b) \/ TryLock(b) \/ Find(b) \/ Delete(b) \/ Decrement(b)
  \/ Insert(b) \/ Increment(b) \/ Commit(b)

VotingInit ==
  /\ accounts = Users
  /\ reviews \in SUBSET Reviews
  /\ vote = [r \in Reviews |-> [u \in Users |-> NoVote]]
  /\ tally = [r \in Reviews |-> [a \in VoteAction |-> 0]]
  /\ tx = [b \in Backends |-> Idle("none")]
  /\ voteLock = [k \in LockKeys |-> Nobody]
  /\ rowLock = [r \in Reviews |-> Nobody]

VotingNext == \E b \in Backends : Begin(b) \/ Step(b) \/ Abort(b)

VotingSpec == VotingInit /\ [][VotingNext]_votingVars

\* A session keeps executing its request; PostgreSQL queues the waiters for a
\* row, so a session that waits for one gets it.
VotingFairSpec == VotingSpec /\ \A b \in Backends : SF_votingVars(Step(b))

=============================================================================
