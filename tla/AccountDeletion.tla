-------------------------- MODULE AccountDeletion --------------------------
(***************************************************************************)
(* Account deletion beside voting: UserDeletionService.deleteOne revokes   *)
(* the user's votes and removes the account in one READ COMMITTED          *)
(* transaction that takes no advisory lock, the foreign keys cascade, and  *)
(* the nightly job of ReviewService recomputes the counters.               *)
(***************************************************************************)
EXTENDS Voting

CONSTANTS
  Deleters,   \* database sessions that run deleteOne
  Cron,       \* the database session of refreshReviewVotes
  Owners      \* Owners[r]: accounts whose removal cascades to review r
              \* (its author and the creator of its item)

ASSUME DeletionAssumption ==
  /\ Owners \in [Reviews -> SUBSET Users]
  /\ Nobody \notin Deleters /\ Deleters \cap Backends = {}
  /\ Cron \notin Deleters \union Backends \union {Nobody}

VARIABLES
  del,          \* del[d]: the deletion session d executes
  accountLock,  \* accountLock[u]: session that is removing the row of account u
  cron          \* the running refreshReviewVotes

deletionVars == <<votingVars, del, accountLock, cron>>

NoDeltas == [r \in Reviews |-> NoDelta]

NoDeletion == [pc |-> "idle", user |-> Nobody, up |-> {}, down |-> {},
               delta |-> NoDeltas, reply |-> "none"]

NoRefresh == [pc |-> "idle", todo |-> {}, actual |-> NoDeltas, delta |-> NoDeltas,
              fresh |-> TRUE]

OwnedBy(u) == {r \in reviews : u \in Owners[r]}

-----------------------------------------------------------------------------
(* What a voting statement waits for while an account is being removed.    *)

Cascading(d, r) == del[d].pc = "commit" /\ del[d].user \in Owners[r]

\* INSERT INTO vote locks its account and its review FOR KEY SHARE, DELETE
\* FROM vote its row: both wait for a removal that has reached those rows.
WaitsForRemoval(b) ==
  \/ /\ tx[b].pc = "insert"
     /\ \/ accountLock[tx[b].user] # Nobody
        \/ \E d \in Deleters : Cascading(d, tx[b].review)
  \/ /\ tx[b].pc = "delete"
     /\ \E d \in Deleters :
          \/ del[d].pc = "commit" /\ del[d].user = tx[b].user
          \/ Cascading(d, tx[b].review)

\* b has inserted a vote of u, or on r, and still holds the key share lock.
SharesAccount(b, u) == tx[b].row \in VoteAction /\ tx[b].user = u
WritesVoteOf(b, u) == tx[b].row # Untouched /\ tx[b].user = u
WritesVoteOn(b, r) == tx[b].row # Untouched /\ tx[b].review = r

-----------------------------------------------------------------------------
(* deleteOne.                                                              *)

\* Fault: an error of the transaction is swallowed and reported as done.
AnswerDeleted(d, reply) ==
  /\ del' = [del EXCEPT ![d] = [NoDeletion EXCEPT !.reply = "deleted"]]
  /\ accountLock' = Release(d, accountLock)
  /\ rowLock' = Release(d, rowLock)
  /\ UNCHANGED <<tx, voteLock>>

AnswerDeletion(d, reply) ==
  /\ del' = [del EXCEPT ![d] = [NoDeletion EXCEPT !.reply = reply]]
  /\ accountLock' = Release(d, accountLock)
  /\ rowLock' = Release(d, rowLock)
  /\ UNCHANGED <<tx, voteLock>>

\* deleteAccount has verified the token of user u; u may be gone already.
BeginDelete(d) ==
  /\ del[d].pc = "idle"
  /\ \E u \in Users : del' = [del EXCEPT ![d] = [NoDeletion EXCEPT !.pc = "find", !.user = u]]
  /\ UNCHANGED <<votingVars, accountLock, cron>>

FindUser(d) ==
  /\ del[d].pc = "find"
  /\ IF del[d].user \in accounts
     THEN /\ del' = [del EXCEPT ![d].pc = "votes"]
          /\ UNCHANGED <<tx, lockVars, accountLock>>
     ELSE AnswerDeletion(d, "notFound")
  /\ UNCHANGED <<dbVars, cron>>

VotedBy(u, a) == {r \in Reviews : vote[r][u] = a}

\* Fault: only the up votes are revoked.
FindUpVotes(d) ==
  /\ del[d].pc = "votes"
  /\ del' = [del EXCEPT ![d].pc = "revoke", ![d].up = VotedBy(del[d].user, "up")]
  /\ UNCHANGED <<votingVars, accountLock, cron>>

FindVotes(d) ==
  /\ del[d].pc = "votes"
  /\ del' = [del EXCEPT ![d].pc = "revoke",
                        ![d].up = VotedBy(del[d].user, "up"),
                        ![d].down = VotedBy(del[d].user, "down")]
  /\ UNCHANGED <<votingVars, accountLock, cron>>

\* The row of column a the running UPDATE ... WHERE id IN (...) reaches next:
\* first every upvoted review, then every downvoted one.
NextRow(d, r, a) ==
  \/ a = "up" /\ r \in del[d].up
  \/ a = "down" /\ r \in del[d].down /\ del[d].up = {}

RowDone(d, r, a) ==
  IF a = "up" THEN [del[d] EXCEPT !.up = @ \ {r}] ELSE [del[d] EXCEPT !.down = @ \ {r}]

\* Fault: the columns have no CHECK constraint.
RevokeUnchecked(d) ==
  /\ del[d].pc = "revoke"
  /\ \E r \in reviews, a \in VoteAction :
       /\ NextRow(d, r, a)
       /\ rowLock[r] \in {Nobody, d}
       /\ del' = [del EXCEPT ![d] = [RowDone(d, r, a) EXCEPT !.delta[r][a] = @ - 1]]
       /\ rowLock' = [rowLock EXCEPT ![r] = d]
  /\ UNCHANGED <<dbVars, tx, voteLock, accountLock, cron>>

\* decrementVotesInTx at one row.  A row deleted since has no effect; a counter
\* that would become negative violates its CHECK.
Revoke(d) ==
  /\ del[d].pc = "revoke"
  /\ \E r \in Reviews, a \in VoteAction :
       /\ NextRow(d, r, a)
       /\ rowLock[r] \in {Nobody, d}
       /\ IF r \notin reviews
          THEN /\ del' = [del EXCEPT ![d] = RowDone(d, r, a)]
               /\ UNCHANGED <<tx, lockVars, accountLock>>
          ELSE IF tally[r][a] + del[d].delta[r][a] < 1
          THEN AnswerDeletion(d, "constraint")
          ELSE /\ del' = [del EXCEPT ![d] = [RowDone(d, r, a) EXCEPT !.delta[r][a] = @ - 1]]
               /\ rowLock' = [rowLock EXCEPT ![r] = d]
               /\ UNCHANGED <<tx, voteLock, accountLock>>
  /\ UNCHANGED <<dbVars, cron>>

\* DELETE FROM account locks the row: it waits for another removal of it and
\* for the votes of this user being inserted.
LockAccount(d) ==
  /\ del[d].pc = "revoke" /\ del[d].up = {} /\ del[d].down = {}
  /\ accountLock[del[d].user] \in {Nobody, d}
  /\ \A b \in Backends : ~SharesAccount(b, del[d].user)
  /\ IF del[d].user \in accounts
     THEN /\ accountLock' = [accountLock EXCEPT ![del[d].user] = d]
          /\ del' = [del EXCEPT ![d].pc = "cascade"]
     ELSE /\ del' = [del EXCEPT ![d].pc = "commit"]     \* removed since: no row to delete
          /\ UNCHANGED accountLock
  /\ UNCHANGED <<votingVars, cron>>

\* ON DELETE CASCADE reaches the user's votes, the reviews the user owns and the
\* votes on those, when no other transaction is writing them.
Cascade(d) ==
  LET u == del[d].user IN
  /\ del[d].pc = "cascade"
  /\ \A r \in OwnedBy(u) : rowLock[r] \in {Nobody, d}
  /\ \A b \in Backends : ~WritesVoteOf(b, u) /\ \A r \in OwnedBy(u) : ~WritesVoteOn(b, r)
  /\ rowLock' = [r \in Reviews |-> IF r \in OwnedBy(u) THEN d ELSE rowLock[r]]
  /\ del' = [del EXCEPT ![d].pc = "commit"]
  /\ UNCHANGED <<dbVars, tx, voteLock, accountLock, cron>>

\* Fault: the foreign key from review to account does not cascade.
RemoveAccountOnly(u, delta) ==
  /\ accounts' = accounts \ {u}
  /\ vote' = [r \in Reviews |-> [vote[r] EXCEPT ![u] = NoVote]]
  /\ tally' = [r \in Reviews |-> [a \in VoteAction |-> tally[r][a] + delta[r][a]]]
  /\ UNCHANGED reviews

\* Rows and counters once the account of u, with all that cascades, is removed.
RemoveAccount(u, delta) ==
  LET removed == IF u \in accounts THEN OwnedBy(u) ELSE {} IN
  /\ accounts' = accounts \ {u}
  /\ reviews' = reviews \ removed
  /\ vote' = [r \in Reviews |-> [w \in Users |->
                IF w = u \/ r \in removed THEN NoVote ELSE vote[r][w]]]
  /\ tally' = [r \in Reviews |-> IF r \in removed THEN NoDelta
                                 ELSE [a \in VoteAction |-> tally[r][a] + delta[r][a]]]

CommitDelete(d) ==
  /\ del[d].pc = "commit"
  /\ RemoveAccount(del[d].user, del[d].delta)
  /\ AnswerDeletion(d, "deleted")
  /\ cron' = [cron EXCEPT !.fresh = (cron.pc = "idle")]

AbortDelete(d) ==
  /\ del[d].pc # "idle"
  /\ AnswerDeletion(d, "aborted")
  /\ UNCHANGED <<dbVars, cron>>

-----------------------------------------------------------------------------
(* refreshReviewVotes: one UPDATE ... FROM (SELECT COUNT ...).             *)

ActualCounts == [r \in Reviews |-> [a \in VoteAction |-> Count(vote[r], a)]]

\* Fault: the WHERE clause compares one of the two columns.
RefreshSnapshotUpOnly ==
  /\ cron.pc = "idle"
  /\ cron' = [NoRefresh EXCEPT !.pc = "update", !.actual = ActualCounts,
                !.todo = {r \in reviews : tally[r]["up"] # ActualCounts[r]["up"]}]
  /\ UNCHANGED <<votingVars, del, accountLock>>

\* The statement's snapshot: the counts, and the rows that differ from them.
RefreshSnapshot ==
  /\ cron.pc = "idle"
  /\ cron' = [NoRefresh EXCEPT !.pc = "update", !.actual = ActualCounts,
                !.todo = {r \in reviews : tally[r] # ActualCounts[r]}]
  /\ UNCHANGED <<votingVars, del, accountLock>>

\* A row locked by a writer is waited for, then compared in its new version
\* with the counts of the old snapshot.
RefreshRow ==
  /\ cron.pc = "update"
  /\ \E r \in cron.todo :
       /\ rowLock[r] \in {Nobody, Cron}
       /\ IF r \in reviews /\ tally[r] # cron.actual[r]
          THEN /\ rowLock' = [rowLock EXCEPT ![r] = Cron]
               /\ cron' = [cron EXCEPT !.todo = @ \ {r},
                             !.delta[r] = [a \in VoteAction |-> cron.actual[r][a] - tally[r][a]]]
          ELSE cron' = [cron EXCEPT !.todo = @ \ {r}] /\ UNCHANGED rowLock
  /\ UNCHANGED <<dbVars, tx, voteLock, del, accountLock>>

RefreshCommit ==
  /\ cron.pc = "update" /\ cron.todo = {}
  /\ tally' = [r \in Reviews |-> [a \in VoteAction |-> tally[r][a] + cron.delta[r][a]]]
  /\ rowLock' = Release(Cron, rowLock)
  /\ cron' = NoRefresh
  /\ UNCHANGED <<accounts, reviews, vote, tx, voteLock, del, accountLock>>

RefreshAbort ==
  /\ cron.pc # "idle"
  /\ rowLock' = Release(Cron, rowLock)
  /\ cron' = NoRefresh
  /\ UNCHANGED <<dbVars, tx, voteLock, del, accountLock>>

-----------------------------------------------------------------------------

DeletionInit ==
  /\ VotingInit
  /\ \A r \in reviews : Owners[r] \subseteq accounts
  /\ del = [d \in Deleters |-> NoDeletion]
  /\ accountLock = [u \in Users |-> Nobody]
  /\ cron = NoRefresh

\* A statement of Voting beside deletions; fresh records whether every commit
\* precedes the refresh's snapshot or follows its end.
VotingStep(b) ==
  /\ \/ Begin(b) \/ Abort(b)
     \/ ~WaitsForRemoval(b) /\ Step(b)
  /\ cron' = [cron EXCEPT !.fresh = IF dbVars' = dbVars THEN cron.fresh ELSE cron.pc = "idle"]
  /\ UNCHANGED <<del, accountLock>>

DeleteStep(d) ==
  \/ BeginDelete(d) \/ FindUser(d) \/ FindVotes(d) \/ Revoke(d) \/ LockAccount(d)
  \/ Cascade(d) \/ CommitDelete(d) \/ AbortDelete(d)

RefreshStep == RefreshSnapshot \/ RefreshRow \/ RefreshCommit \/ RefreshAbort

DeletionNext ==
  \/ \E b \in Backends : VotingStep(b)
  \/ \E d \in Deleters : DeleteStep(d)
  \/ RefreshStep

DeletionSpec == DeletionInit /\ [][DeletionNext]_deletionVars

=============================================================================
