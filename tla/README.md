# rate-wise: formal models

rate-wise is a NestJS/GraphQL back end on PostgreSQL and Redis: users sign up, publish items,
review them and vote on reviews. This directory holds TLA+ models of its concurrent core, the TLC
runs that check them, and TLAPS proofs of the results that matter most. Paths below are relative
to the repository (`src/src/...` is the application, `src/db/...` the migrations). `PROJECT.json`
maps every definition that models code to its lines.

## 1. The system

### Components, state, operations

| component | state | operations | hard behaviour |
|---|---|---|---|
| votes (`votes/`) | table `vote` (one row per user and review), counters in `review` | `voteReview`, `deleteVote`, `revokeUserVotesOnReviewsTx` | read, decide, write in a transaction under a *try* advisory lock on a 32-bit hash; counters are denormalised |
| review counters (`reviews/`) | columns `upvotes`, `downvotes` with CHECKs | increments, decrements, nightly `refreshReviewVotes` | counters and votes change in different statements |
| account deletion (`orchestrators/user-deletion/`) | tables `account`, `review`, `vote` with cascades | `deleteOne` | takes no advisory lock; races with votes and with itself |
| sessions (`sessions/`, `auth/guards/auth.guard.ts`) | Redis: `session:<s>`, `sess_user:<s>`, `index:<u>` | create, count, destroy, destroyAll, deleteAll, cleanup of zombie and dangling sessions, listener for expired keys | three keys per session, written one command at a time, partly after the answer |
| accounts, moderation, tokens (`users/`, `moderation/`, `tokens/`, `auth/`) | row of `account`, cached profile, blacklist of token ids | sign-up, verify, suspend, reactivate, delete, three kinds of e-mailed link, cached read | read-modify-save without lock or version; cache-aside; one-time tokens checked and spent in two steps |
| pagination and record cache (`pagination/`) | Redis cache of records, queue of cache jobs | cursor pages, background fills | stale fills, rows that appear behind a cursor or disappear between two queries |
| items, reviews: creation and listing | tables `item`, `review` | one insert each; pages; cached read of an item | rows come and go under a client that pages through them |
| e-mail queue (`emails/`, `auth/notifications/`) | BullMQ queue in Redis | enqueue, take, send, retry, give up | jobs sent twice by a client that reconnects, workers that die or lose their lock, a provider whose answer is lost |
| boot (`main.ts`, `admin/`, `seed/`) | the whole database | create the administrator, seed | runs in every process at every start of a production process, without a transaction |
| requests (`common/guards/`, `common/filters/`, `common/pipes/`, `auth/guards/`) | counters and blocks of the rate limiter | middleware, rate limiter, guards, validation, handler, exception filter | several processes share one window; what drivers throw becomes an answer |
| shutdown and Redis clients (`redis/`, `common/errors/handle-fatal-error.ts`) | connections | close on a signal or on a fatal error, reconnect, health check | connections close before the requests that use them have ended |
| logging, configuration, pages, documentation | | | no state |

### How they interact

A request passes rate limiting, `AuthGuard` (which reads all three session keys and the account),
`RolesGuard` and `AccountStatusGuard`, and then runs one service operation. `deleteAccount` goes
through tokens, the deletion transaction (votes, counters, account), the profile cache, and
`deleteAll` of sessions, in that order and without one transaction around it. Moderation and
verification meet deletion only in the row of the account; sign-in and deletion meet in the
session keys; votes, deletion, the refresh and the seed meet in `review`. Requests for a link end in the
queue, which the consumers of all processes empty. A process boots (Redis connections,
administrator, seed, listener, HTTP), serves, and closes in the order `onModuleDestroy` (the
connections of the cache, the rate limiter and the queues, at once), HTTP server,
`onApplicationShutdown` (sessions and tokens). Processes share nothing but PostgreSQL and the three
Redis servers: one for sessions, tokens and rate limits, one for the queues, one for the cache.

### What makes each part correct

- votes: counters equal votes; no statement of a vote is refused by the database; replies are true.
- deletion: no row survives its owner; a deletion that is answered has happened; an undisturbed
  refresh repairs what races broke.
- sessions: what has been closed stays closed, whatever is saved later; the limit is exceeded by a
  bounded amount; a sign-out leaves no trace.
- pagination: a client that pages to the end sees every row that was there all along, and none
  twice; the cache comes back to the truth.
- e-mails: an accepted e-mail is handed to the provider or given up in the end, a bounded number of
  times, and `true` means that it is queued.
- boots and seeds: nothing but interference makes a seed fail; whoever boots, there is an
  administrator.
- counters over all of this: they are off only while a seed runs or after one broke off, or after a
  deletion, a vote or a refresh has written by something that it had read before another commit.
- requests and stops: a client is told of an internal error only for a named cause; no client passes
  its limit over all processes; a process that closes on a signal, and can close its connections,
  answers what it accepted, and every process that closes ends.
- accounts: a status changes only as some operation allows; a used link is inert; a cached profile
  is true except for named races.

`PROJECT.json` lists the hazards at their lines with the properties aimed at them; those
without a property yet say why.

## 2. Modules

| module | models | extends |
|---|---|---|
| `VoteLedger` | abstract promise of the votes component: a vote and its counters change in one step | |
| `Voting` | `VotesService` and the counter methods of `ReviewService`, one action per SQL statement | |
| `VotingProps`, `VotingProofs` | properties and inductive invariant; proofs | `Voting` |
| `AccountDeletion` | `UserDeletionService.deleteOne` and `refreshReviewVotes` beside voting | `Voting` |
| `DeletionProps`, `DeletionProofs` | properties of deletion and refresh; inductive invariants and proofs | `AccountDeletion`, `VotingProofs` |
| `Sessions` | `SessionsService`, `AuthGuard`, `SessionsEvents`, session steps of `AuthService` | |
| `SessionsProps`, `SessionsProofs`, `ClosingProofs` | properties; proof of the bound on overshoot; proofs that closed sessions stay closed | `Sessions` |
| `Accounts` | status changes, links, cached profile | |
| `AccountsProps`, `AccountsProofs` | properties and inductive invariant; proofs | `Accounts` |
| `Pagination` | cursor pages, the record cache, its queue of jobs, the cached read of one record | |
| `PaginationProps`, `PaginationProofs` | properties and inductive invariant; proofs | `Pagination` |
| `MailPromise` | abstract promise of an e-mail: accepted, then sent or dropped | |
| `EmailQueue` | a request for a link, the jobs in BullMQ, the consumers of all processes | |
| `EmailProps`, `EmailProofs` | properties, refinement mapping and inductive invariant; proofs | `EmailQueue` |
| `Seeding` | `SeedService.runSeed` and the nightly refresh, over the tables with their cascades and counters | |
| `Policies` | decorators of the resolvers and controllers, guards, exceptions and their codes | |
| `Server` | processes: boot, administrator, close of their connections, fatal errors; composes seeds with them | `Seeding`, `Policies` |
| `Inputs` | validators and transforms of inputs and arguments, against what the database takes | |
| `Requests` | the way of a request, Redis outages, and the whole next-state relation | `Server`, `Inputs` |
| `ServerProps`, `ServerProofs` | history and properties of boots, seeds, requests and stops; inductive invariant and proofs | `Requests` |
| `MCVoting`, `MCDeletion`, `MCSessions`, `MCAccounts`, `MCPagination`, `MCServer` | instances for TLC | the `Props` modules |

Operators whose comment begins with "Fault:" are deliberately wrong variants of the operator that
follows; no specification uses them. They are the bugs each property is shown to detect.

### Voting

`tx[b]` is the transaction of database session `b`: its statement (`pc`), the arguments, the vote
it has read (`prev`), and what it has written and not committed (`row`, `delta`). `vote` and
`tally` are committed rows. READ COMMITTED is modelled as it works here: a statement reads
committed rows plus the transaction's own writes; an UPDATE waits for the row lock (`rowLock`) and
then works on the newest version, so a counter change is an increment of whatever is there at the
commit; a unique key waits for an uncommitted row of the same pair (`VoteRowBusy`).
`pg_try_advisory_xact_lock(hashtext(...))` is `TryLock`: `HashText` is an arbitrary function into
`LockKeys`, so that collisions of the 32-bit hash are behaviours; when the lock is busy the
operation returns at once, and the resolver answers `true` for `voteReview`. Every transaction can
be aborted at any statement. A request whose user has no account is not modelled: the guard has
just read it; its deletion meanwhile is the subject of the next module.

### AccountDeletion

Extends `Voting` with sessions that run `deleteOne` (find user, find votes, the two
`UPDATE ... WHERE id IN` row by row, removal of the account with its cascades, commit) and with
`refreshReviewVotes`, whose single statement is split into its snapshot, the rows it visits, and
its commit, because READ COMMITTED lets it wait for a row and then apply counts of the older
snapshot. Foreign keys appear as what they block: `WaitsForRemoval`, `SharesAccount`. The
accounts whose removal takes a review along (its author, and the creator of its item) are the
constant `Owners`.

### Sessions

`session`, `relation` and `index` are the three kinds of keys. A process sends several Redis
commands together and they take effect in the order sent, between those of other requests:
`todo` is the list still to take effect. What express-session does when the response ends
(`saveUninitialized` off, `resave` off, `unset: 'destroy'`) is `hold`: "save", "destroy" or
"keep". `signIn` counts, regenerates, binds in a MULTI, and the record is written last, at `End`.
Expiry removes the record; its keyspace event may never be handled; the listener's deletes may
never take effect. Any command can fail, and a process can stop at any point. `revoked` and
`barred` are history: a request is barred if its session had been closed by an answered operation
when it arrived.

### Accounts

`row[u]` is the status in the account's row, `"none"` before registration and `"gone"` after
deletion. `saveOne` is three steps: TypeORM's SELECT of the row, its INSERT or UPDATE, and the
deletion of the cache key. Of the entity that is saved only `status` differs from the row.
A link goes through request (with what the guard and then the operation allow), issue, follow
(signature, purpose, blacklist), the operation, and blacklisting: `deleteAccount` spends its link
first, `verifyAccount` last and survives a failure to. `stale`, `late`, `answered` and `raced` are
history variables that only properties read. The cached read is miss, read, store. The closing of
sessions after `deleteAccount` and `signOutAllPublic` is in `Sessions`, the subtraction of votes
in `AccountDeletion`.

Left out of `Accounts`: the expiry of a token (an expired link only becomes useless and its
blacklist entry lives as long), the cookie and password checks,
and the cache jobs, which fill the same keys later and are in `Pagination`.
`updateOne` and `consume` have no caller. Roles never change in the code, so `Role` is a constant.

### Pagination

One table, whichever it is: items, users, reviews and votes are listed by the same code and differ in
which of their writers delete the cached record (`Invalidated`: those of accounts) and in the filter
of a walk (`Filters`; all columns that filters use are written once). A request walks: `StartWalk`,
then for each page `QueryIds` (the statement with the row-value comparison and `LIMIT` one more than
the limit), `Lookup` (one `mget`), `Fetch` of what was missing, `Enqueue` of one job per fetched row,
and `AnswerPage`, after which the client goes on with the cursor of the last edge. Each statement
and each command is an action, so rows come, change and go between any two. `Selects` says what
`ORDER BY ... LIMIT` returns, not how. An id is its place in the order of uuids. `created_at` of a
new row is any instant, not the time of its commit: PostgreSQL takes the start of the transaction.
The cursor carries microseconds, since it is made from `created_at::text`. `base` and `shown` are
history.

`job` has one slot per key because the key is the job's id; the order of jobs of different keys does
not matter to any record. A job can run again after a stall, and a failed job is not retried. Records
are version numbers. `createPagination` (without a cache) has no caller, and `totalCount`, which is
queried at the same time and only returned, is left out.

### EmailQueue

`request[m]` is `sendEmail` for one e-mail, `job[m][k]` the jobs that its `queue.add` has made,
`worker[w]` the consumer of a process, `handed` how often the provider has taken a job. The
connection of the queues has `maxRetriesPerRequest: null`: an `add` whose reply was lost is sent
again and makes a second job (`ReplyLost`, `Copies`). A worker reports the end of a job only while it
holds the job's lock; the stalled check of any running consumer takes the lock from a worker that
died, or, as a fault, from one that is only late and goes on sending. `Fate` maps all this to
`MailPromise`, an e-mail being `sent` once the provider has taken any of its jobs.

### Seeding, Server, Requests

One database and three Redis servers (`"auth"` for sessions, tokens and rate limits, `"queue"`,
`"cache"`: the three addresses of `db.config.service.ts`) under several processes. `Seeding` keeps of each
table what the seed and the keys tell apart: ids of accounts, the creators that have items, reviews as
pairs, votes with their action, and `tally`, the two counters of each review. Each `save` and each query that
`runSeed` waits for is one action; `Shuffled` is the random choice. `refreshReviewVotes` is one statement in
two actions, as in `AccountDeletion`: the counts of its snapshot (`RefreshSnapshot`), and their write
(`RefreshUpdate`), between which others commit. A seed ends with it, and `Midnight` runs it alone
(`Cron`). Any statement of a seed may fail, also for a value of the generators that a unique key or a CHECK
refuses (`StatementRefused`).

`phase[p]` leads a process through `connect`, `findAdmin`, `saveAdmin`, `seeding`, `listen`,
`serving`, and then `destroy`, `dispose`, `disconnect`. In `destroy`, `conn[p]` says of each of the three
connections of `RedisModule` whether it is still open, closed, or could not be closed: each settles in an
action of its own, and `OnModuleDestroy` goes on when all have, to the HTTP server or, when one has
failed, to the exit (`runSettledOrThrow`). Without their servers `quit` of the rate limiter's connection
throws, as it has no offline queue; `quit` of the queues' waits behind the jobs that wait to be added; and
of the cache's client, which is Keyv's, both are allowed. Until all three have settled the process goes on
accepting requests, which meet the connections that are closed already. An error that nothing catches goes to
`HandleFatalError`, which exits at once when there is no app yet or when a close is past its first
step, and otherwise closes under a timer (`CleanupTimeout`).

A request is a record: `throttle` (after the session middleware, in `Arrive`), `guard`, `handle`, and
`session`, `remove`, `revoke`, `save`, `cast`, `retract`, `add` or `seeding` where a handler waits between two
effects. The transactions of voteReview, deleteVote and deleteOne are two steps: what they read (`FindVote`,
`FindAccount`; `found` keeps it), and what they write by it (`CastVote`, `RetractVote`, `RemoveAccount`),
with the constraints that may refuse it then. Their single statements, locks and waits are in `Voting` and
`AccountDeletion`; here they overlap seeds, refreshes, boots and each other. `Locked` is the advisory lock: two
of these steps never belong to one vote. `StatementFails` is the failure of any statement, a deadlock
included, with the undoing of its transaction. `Policies` holds for every operation its tier,
roles and statuses, and how an exception becomes the code in the answer: the filter gives a
`GraphQLError` its code, an `HttpException` its status only in REST, and a driver's error is
`SERVICE_UNAVAILABLE` when its message is the one of ioredis for a closed stream, else
`INTERNAL_SERVER_ERROR`.

`Inputs` has the transforms and the validators of the three inputs that are stored and of the arguments of
lists, and what the database takes: the CHECK and NOT NULL constraints of the columns, no U+0000 in any
text, and a cursor that `decodeCursor` can read. Texts are given by length, surrounding blanks, capitals, U+0000,
odd characters and null, at the bounds of every rule. `Unstorable` are the types for which the two
disagree; `RefuseText` lets any request with such arguments meet that.

Simplified: the two reads of `AuthGuard` are one step (apart in `Sessions`); one item per creator
stands for as many as the seed gives each; one client, so one window per operation; a
seed of the boot that ends while its process closes does not go on to listen; the message that tells
that a session expired is read only while serving; the cache's server matters for the close only, since the
store turns its failures into misses (`Pagination` has the records). signOutAll, the links of verifyAccount and
signOutAllPublic, and moderation are in `Sessions` and `Accounts` and not in this composition.

## 3. What is checked

Every run finishes; the distinct states are those of the full state space of the instance, and for
`server` of its scenarios.

| run | instance | shows |
|---|---|---|
| `voting` | 2 users, 2 reviews, 2 sessions, colliding keys on one review | types, counters, no refusal by the database, the inductive invariant, true replies, refinement of `VoteLedger`, every request answered under fairness (402 thousand states) |
| `deletion_races` | 2 users, 1 or 2 reviews, 1 voting session, 2 deletions, refresh | no orphans, true answers, repair; counters are off only after an overlap (851 thousand states) |
| `sessions_safety` | 1 user, 2 requests, 3 ids, 1 mishap | closed sessions stay closed, sign-out leaves no trace, overshoot of the limit bounded |
| `accounts_safety` | a moderator and a member, 2 requests, 2 links, 1 mishap | legal status changes, inert links, truthful cache (1.6 million states) |
| `pagination` | 2 rows, 2 versions, 2 instants, 1 client, pages of 1 or 2 rows | walks repeat nothing and leave out nothing, `hasNextPage` is kept, stale records fade (486 thousand states) |
| `emails` | 1 e-mail, 2 jobs, 2 consumers, 2 attempts, 1 stall, 3 faults | copies bounded, outcomes justified, `true` means queued, refinement of `MailPromise` with its liveness |
| `server` | 2 processes, 2 requests of 12 operations, 1 person, the nightly refresh, seeds of 2 users; eight scenarios | seeds fail and counters drift only for a reason, there is an administrator, errors have causes, limits hold over processes, an orderly stop loses nothing that it can help, what closes ends (596 thousand states) |
| `voting_replies`, `deletion_drift`, `sessions_refused`, `accounts_irreversible`, `pagination_nodes` | as small as shows it | violated, see section 5 |

### Bounds, and why they are enough

- *Voting.* Two sessions are what a race takes: every guard of the code compares one request with
  one other. The key function puts all pairs of one review under one key and keeps the pairs of
  the other apart, so that both a busy lock of the same pair and one of a stranger occur. Initial
  states include every subset of existing reviews. The proofs remove the bound.
- *Deletion.* Two deletions and one vote give each pair of actors; reviews owned by a deleted user
  and reviews of others both occur (`OwnedByU2`, with either user deleted). One review is enough
  for the races of a row, and there any three of the vote, the two deletions and the refresh are in
  progress at once: a fourth adds no new pair. Two reviews, with the votes of one account and no
  overlap, give a deletion and a refresh that have several rows to change. `DriftOnlyAfterOverlap`
  conditions on a history of overlaps, so that behaviours without one are checked in the same run.
- *Sessions.* Keys of different users are disjoint, so one user is enough for everything except
  a cookie of another user, and the code never mixes the two: every command it sends names the
  session and the user of the request. `MaxSids` bounds the ids generated, `MaxMishaps` counts
  expiries, failed commands and crashes: with one mishap each failure occurs at every point.
- *Accounts.* `ChangesLegal` and `CacheTruthful` need a request that writes between another's read
  and write. Two links give the same link followed twice at once and two links of one account.
  `MaxMishaps` as above.

- *Pagination.* Two rows give a page before and a page after, rows of one instant and of two, a page
  that mixes a hit with a miss, and a filter that selects one of them; the proofs hold for tables and
  numbers of clients of any size. For `StaleFades` a second client would add another old version
  that arrives late, which a job that stalls or waits already does. Two versions tell a stale record
  from a fresh one; `MaxVersion` also means that writers come to rest, as the property requires.
- *E-mails.* E-mails share only workers, so one e-mail and two workers give every race of a job: with
  itself, with a copy, with a worker that lost its lock. Two attempts and one stall make a first and a
  last of each. Three faults combine a lost reply, a crash and a false stall. The safety proofs remove
  the bounds.
- *Server.* Starts, requests and faults all together are too many states, so each behaviour has a
  budget (`most`) and stays in one of eight scenarios: two boots, whose seeds may run over each other
  (`Boots`); two boots and a fault (`FaultyBoot`); a boot and two faults (`FaultyTwice`); two boots and a
  request (`BootAndRequest`); a boot and two requests (`Pair`); two requests and a night over rows that
  an earlier seed left, with a vote to change, to retract or to delete with its account (`Votes`, the
  rows `Voted`); a request and three faults (`Outages`); two processes and two requests (`Replicas`). A
  fault is an outage of one server, a statement that fails, a signal, a crash or an error that nothing
  catches, so `Outages` has a server that goes down in the middle of a close, and a signal under two
  outages. `Bounded` also keeps seeds to one at a time except in `Boots`. `SmallLimits` scales the tiers
  to 1 and 2, which one window of two requests reaches. Seeds create two users, one review and one vote:
  a second review or vote of a seed meets the same rows as the first. Eight seed ids are enough for two
  seeds whose rows are still mentioned. The proofs remove all of these bounds.

Deadlock is checked in `pagination`, where a client can always begin again, and in the runs of
voting and deletion: there an abort is always possible, so what the check adds is that no session
waits without one being waited for; that waiting ends is `EveryRequestAnswered`. It is off for
`Sessions`, `Accounts`, `emails` and `server`, whose instances really come to an end: all ids are
issued and all accounts deleted, all links issued and used up, all jobs removed, or the budget of
starts and requests spent.

### Fairness

`voting` assumes `SF_votingVars(Step(b))` for each session. A session that is
not waiting for a lock keeps executing (the client has sent the statement and PostgreSQL runs
it), and one that waits for a row is queued for it, so it cannot be overtaken for ever: that is
strong, not weak, fairness, since the row is free and taken again while the session waits. Nothing
is assumed about aborts or about the arrival of requests. The advisory lock is only ever tried, so
it needs no fairness.

`pagination` assumes weak fairness of the worker for every job, and of the expiry of every cached
record: the cache has a finite lifetime for every key (`app.module.ts:82`), and a key is set again
only after a reader has found it missing. Nothing is assumed of clients and writers.

`emails` assumes weak fairness of each step of a process (a request that goes on, a worker that sends
and reports, its restart, the timers of back-off and of the stalled check), and strong fairness of
taking a job, since the workers are busy with others in between and the queue is first in, first
out. Redis being down is a fault, of which there are finitely many.

`server` assumes weak fairness of the steps that end a process (the event loop goes on, the timer of
`handleFatalError` goes off) and of the steps of each accepted request with its seed (the database
answers); the close of a connection without its server is not among them. Redis may stay down for
ever, so what needs it may wait for ever: `ClosingEnds` says where.

## 4. What is proved

All for every value of the constants that satisfies the named assumptions (finite sets where
cardinalities occur, distinct null values, natural bounds).

**Voting** (`VotingProofs`). The counters alone are not inductive: that a decrement is right depends
on the session having read the vote that is still there. The inductive invariant `IInv` is types,
`CountersConsistent`, and `SessionInv`: a session past the lock holds its advisory lock; `prev` is
the committed vote; `delta` is what its statement owes for replacing `prev` by `row`; and it holds
the row of the review when it has changed a counter. The lock makes `SessionInv` stable: another
session at a commit has another pair, because one key has one holder. At a commit the new
counters are the new counts, by a lemma on the cardinality of one column after one change.
Theorems: `TypeCorrect`, `Consistency`, `SessionsSound` (the part `SessionInv`, for every state),
`NoRefusal`, and `ImplementsLedger`: every step of Voting is
a step of `VoteLedger` or leaves its variables alone.

The truth of the replies needs two more facts, `RepliesInv`: an advisory lock that is held is held by
a session that is past its lock statement, and the row that a session writes is the one that its request
asked for. From them `VoteAnswersTruthful` and `DeleteAnswersTruthful`.

**Account deletion** (`DeletionProofs`). There are two invariants. `DeletionInv` holds through every
interleaving of votes, deletions and a refresh. Whoever changes the counters of a review holds its row,
and the change leaves no counter negative (`VoterOK`, `DeleterOK`, `CronOK`). From the statement that
removes the account, the deletion holds the account's row, and no session has a vote of that account
uncommitted; from the end of the cascade the same is true of the account's reviews. That is why the commit
can leave no orphan. `FreshOK` says that a refresh during which nothing commits keeps agreeing with
its snapshot. From these come `DeletionTyped`, `RemovalComplete`, `AnswerMeansGone` and `RefreshRepairs`.
`HistoryInv` is about the states before any overlap. There the counters are right and a deletion,
being alone, has taken off exactly the votes it has reached (`Revoked`). When a vote steps, all deletions
are idle, so the invariant of Voting holds and its own lemma `NextInv` is reused for that step.
From it `OnlyOverlapDrifts`.

**Sessions** (`SessionsProofs`). `OvershootBounded`: the size of a user's index plus the number of
requests that have passed the count and not yet bound never exceeds the maximum plus the number
of requests less one. A request can pass the count only while the index is below the maximum,
when at most all other requests are pending; `signUp`, which does not count, is alone for a new
account.

**Closing of sessions** (`ClosingProofs`). A session can be closed in three ways, and `ClosedForGood`
has to show that none of them is undone: it has no record and nobody is about to save one (`Dead`), it is in
no index and nobody is about to add it (`Unindexed`), or its owner's account is deleted (`OwnerDeleted`).
`ClosingInv` says which request may still write keys of which session (`Creator`, one for each id), that
all keys of an id name one user (`OneOwner`), and that a request which arrived with a closed session is on its
way to being turned away (`BarredOK`). For a request that is closing something, `OpenOK` says of every session
that it is to close: each key is gone already, or the command for it is still in `todo`, so when `todo` is
empty the answer is right. The conjunct that makes this inductive is `Presented`: until its
operation starts, the session that a request presented belongs to nobody but the user whom the
guard found. Most steps need only what no step undoes (`Steady`, and `Shrinking` for those that create
no session). From `ClosingInv` come `SessionsTyped`, `ClosedForGood` and `SignOutCleans`.

**Accounts** (`AccountsProofs`). `AccountsInv` holds inductively, and from it `AccountsTypeOK`,
`UsedLinkInert`, `CacheTruthful` and the action property `ChangesLegal`. The strengthening says
where in its operation a request can be and which link it follows (`Control`), what it has read
while the row is still the same (`Reads`), and how far the link is used (`Used`, `Uses`). The
argument about links is the interesting one: `verifyAccount` may answer without blacklisting its
token, and the link is inert all the same because the row is then past verification and nothing
makes it pending again: not even a save that inserts a deleted row, which writes `active` or
`suspended`.

**Pagination** (`PaginationProofs`). `PaginationInv` is inductive: types; what has been shown is not
after the cursor; of the rows there from the beginning nothing before the cursor is missing
(`BehindCursor`); and a page under way leaves out only rows that come after all of it, or none when
it says that it is the last (`PageSound`). It rests on three facts of the code: the order of
`(created_at, id)` is total and the cursor has the full precision, neither column of a row ever
changes, and the row that is popped is the last. From it `PaginationTypeOK`, `WalkNoRepeat`,
`WalkComplete` and `NextPageFollows`. A row that is inserted behind the cursor is not in `base`: the
code does not promise to show it, and does not.

**E-mails** (`EmailProofs`). `EmailInv` is inductive: types, what a job's tries and stalls say about its
state (`JobsOK`), that the sends of a job so far and those in progress are no more than the times it
was taken (`HandedOK`), what a request and a worker know of their job. `CopiesBounded` follows from
`HandedOK`: a job is taken again only after a failure or a stall, both of which are counted. The
delicate step is a false stall, after which two workers send one job: the one that lost the lock
still counts as a take. `OutcomeJustified` and `TrueMeansQueued` follow likewise, and
`ImplementsMail` shows that every step is a step of `MailPromise` or leaves all fates alone: the
mapping needs `EmailInv` to know that a job that was completed has been sent.

**Server** (`ServerProofs`). `ServerInv` has three parts. The rows obey the keys and no counter is less
than zero (`RowsInv`). The control (`ControlInv`) says where seeds, processes and requests can be: a
process whose boot still runs a seed has never listened and has no request (`BootSeeds`); the nightly job
only recounts (`NightSeeds`); a request in flight is in a process that serves, or closes and has not yet
disconnected (`Served`); connections close only in a process that closes, and all before it disposes
of its server (`ConnInv`); and no two transactions that have read votes are about one user and one review
(`LocksInv`, the advisory lock). The counters of the limiter never exceed the limit by more than one
(`LimitsInv`). The proof does not go through every action for every conjunct: it first sorts them by what
they do to the processes and requests (`NextCases`: a process ends, closes, settles a connection, advances or
prepares; `StepGoes`: a request goes on or has its answer). `HistoryInv` adds one part for each history
variable:

- `PassedInv`: what has passed is at most what was counted, and at most the limit. A request that is let
  through was counted below the limit, and counting goes on while the client is blocked.
- `AdminInv`: past `saveAdmin` there is an administrator, unless he left. Only a link takes the
  administrator's row away: the clean start of a seed keeps it.
- `DriftInv`: counters that are right stay right (`CountsStay`) in every step but the ones that the
  property names. For a deletion, a vote and a retraction that write while what they have read is still so,
  this is cardinality: each counter loses or gains exactly the votes that it counts (`RemoveCounts`,
  `CastCounts`, `RetractCounts`, on `OneMore` and `OneLess`); a refresh whose snapshot is still right makes
  counters right from whatever they were (`RefreshCounts`). Nothing supposes that transactions do not
  overlap: where one writes by what is no longer so, `slipped` says it.
- `SeedTruth`: what a seed that nobody has disturbed relies on, step by step: the users it made are there,
  at least two in the end, nothing it is still to save is there yet, and the rows it is to refer to are.
  With two users and an item there is a candidate for a review, and so on. That is why a seed
  fails only when somebody else interfered.
- `CalmInv`: what a request relies on while nothing is amiss (`AtEase`): no server but the cache's is
  down, the counters are right, its process serves, past the guards its user has an account, and
  between the two steps of a transaction the votes that it has read are there still and are all there are of
  that user and review. The last is the hard part (`CastStays`). Another request could add such a
  vote only with the lock that this one holds. A seed takes no lock; but a seed that saves a vote leaves
  counters that are less than the votes (`SavedUncounted`), and then something is amiss. That no CHECK then
  refuses what a transaction takes off is `Countable`: votes that are there are in the counters. `CalmAnswer`
  goes through what each handler throws, with the policies (items, reviews and votes are not public:
  `Guarded`) and the filter (`GqlAnswer`, `HttpAnswer`: a link's refusal keeps its status because
  deleteAccount is REST). That a statement fails, or that the database refuses a text, are causes, and
  `Quiet` excludes these two steps of the same request, and no others of its steps.

From these the theorems on `HistorySpec`. `LossNeedsFailure` is an action property: a process
ends with requests in flight only by a fatal error, a crash or a close that failed; the queues' connection
waits and does not fail (`ConnInv`), and the other ends (`connect`, `disconnect`, a seed of the boot) have
no requests.

**Only model-checked.** Liveness, which is outside this prover's reach: `EveryRequestAnswered`,
`StaleFades`, `MailKept` as a whole (its safety part is `ImplementsMail`) and `ClosingEnds`. Every
invariant and every safety action property that a passing run checks is also a theorem. The theorems say
nothing that the models leave out (section 6), and the fairness of the specifications is not used in any.

## 5. Where code and documents disagree

- `voting_replies`: with its lock busy, `voteReview` answers `true` although nothing was recorded
  (`votes.service.ts:66`), and `deleteVote` answers `false` although there is a vote
  (`votes.service.ts:99`). `voteReview.docs.ts:8` says that `true` is a vote recorded, and
  `deleteVote.docs.ts:8` that `false` is no vote. What does hold of the replies is in `voting`:
  `VoteReplyTruthful` and `DeleteReplyTruthful`, which except the busy lock by name.
- `deletion_drift`: a vote, or a second deletion, that overlaps a deletion leaves counters that
  differ from the votes (`votes.service.ts:129`) until the nightly refresh.
- `sessions_refused`: signing in with a live cookie leaves the old id in the index for ever, and
  it is counted against the user (`sessions.service.ts:165`).
- `accounts_irreversible`: a suspension, reactivation or verification that has read an account
  before its deletion inserts the row again (`users.service.ts:119`).
- `pagination_nodes`: a row removed between the query for ids and the fetch makes a page null
  (`pagination.service.ts:146`).

Seen while reading, and not the subject of a run of its own:

- `signUp` accepts names with capitals, blanks or punctuation and addresses with capitals, which the
  table refuses: the client is told of an internal error, although `signUp.docs.ts:36` lists only
  `CONFLICT`, `BAD_REQUEST` and `TOO_MANY_REQUESTS`. `createItem` with `tags: null` passes
  `@IsOptional` and meets a NOT NULL column. A text with U+0000 passes the validators of sign-ups, items and
  reviews (`create-review.input.ts:11`) and of the filters of items, and PostgreSQL has no such text; any text
  passes as a cursor (`pagination.args.ts:7`), and `decodeCursor` throws for one that is not base64 of JSON.
  All of these are in the model (`Unstorable`, `RefuseText`), and a named cause in `ErrorsHaveCauses`.
- `runSeed`'s documentation says that it needs authentication and that it is there only outside
  production; the resolver is `@Public()`, and `AdminModule` imports `SeedModule` whatever the
  environment and runs it at every production start, which deletes all accounts but the
  administrator's (`admin.service.ts:31`). The seed's users have no randomized roles: the generator
  fills a key that is not a column. Two production processes that boot together can make each other's
  seed, and so each other's boot, fail again and again.
- `rate-limiter.guard.ts:31` says that the tracker is the user once authenticated; the guard runs before
  `AuthGuard`, so it is always the address.
- `redis.module.ts:28` says that the client is replaced on fatal socket errors; nothing does that.
  `redis.module.ts:18` says that the health check covers all connections; the one of the cache is not
  among them (`redis.health.ts:28`).
- An error of node-redis for a client that is offline is not among those that become
  `SERVICE_UNAVAILABLE` (`is-service-unavailable-error.ts:1`), and the status of an `HttpException` is
  lost in GraphQL (`handle-gql-error.ts`).
- A close on a signal waits for ever when a request waits for the queues' Redis and that stays down, and
  may wait for the cache's; only a fatal error has a timer. One connection that fails to close ends the
  process with its requests, since `runSettledOrThrow` throws into the shutdown.

Also: concurrent sign-ins exceed the "hard limit" of
sessions (`auth.service.ts:139`; `OvershootBounded` is what holds instead); the count of a filtered
page starts a second count that nobody awaits (`pagination.service.ts:45`); the documentation of
votes speaks of `SELECT ... FOR UPDATE` on the user row and of serialising all votes of a user, while
the code locks a hash of user and review; an account that is suspended before it was verified becomes
active when it is reactivated.

## 6. What is not modelled, and the plan

- Redis clients: back-off and protocol are the libraries'; modelled is what a caller sees of a server
  that is down. The SMTP server appears as the provider that takes an e-mail or does not, and as
  a check of health that may fail. What the cache's client does when it is disconnected without its server
  is left open: it may fail, or wait.
- Logging, configuration, pages and e-mail texts, GraphQL models and documentation: no state, or
  state that nothing reads.
- Password hashing, JWT signatures, the expiry of a token (an expired link only becomes useless).
- The tests and their tools, `eslint.config.mjs`.

Left of the plan: abstract specifications of the sessions (a set of open sessions of each user) and of the
limiter, with proofs that the detailed modules implement them; and the composition of the links of
verifyAccount and signOutAllPublic, and of moderation, with the processes of `Server`.
