------------------------------ MODULE Seeding ------------------------------
(***************************************************************************)
(* SeedService.runSeed: it deletes every account but the administrator's,  *)
(* creates users, items, reviews and votes one save at a time, and then    *)
(* recounts the votes. Nothing locks the database meanwhile: other seeds,  *)
(* and requests, read and write between any two of its steps. The nightly  *)
(* job does no more than recount.                                          *)
(***************************************************************************)
EXTENDS Integers, FiniteSets, FiniteSetsExt

CONSTANTS
  Seeders,      \* what may run a seed: processes that boot, requests, the nightly job
  SeedIds,      \* ids that the accounts of seeds may take
  PersonIds,    \* ids that the accounts of people may take
  Administrator,
  SeedUsers, SeedReviews, SeedVotes    \* ISeedOptions

ASSUME SeedingAssumption ==
  /\ IsFiniteSet(Seeders) /\ IsFiniteSet(SeedIds) /\ IsFiniteSet(PersonIds)
  /\ SeedUsers \in Nat \ {0, 1} /\ SeedReviews \in Nat \ {0} /\ SeedVotes \in Nat \ {0}
  /\ Administrator \notin SeedIds \union PersonIds

VARIABLES
  accounts,   \* ids of the rows of account
  items,      \* ids of the accounts that have items; a seed gives each as many
  reviews,    \* rows of review, as the creator of the item and the reviewer
  votes,      \* rows of vote, as the review, the voter and the action
  tally,      \* tally[r]: the counters upvotes and downvotes of the row r of review
  seed        \* seed[a]: how far runSeed of a has come

tableVars == <<accounts, items, reviews, votes, tally>>
seedingVars == <<tableVars, seed>>

-----------------------------------------------------------------------------

Ids == SeedIds \union PersonIds \union {Administrator}

VoteAction == {"up", "down"}
Zero == [action \in VoteAction |-> 0]

NoSeed ==
  [pc |-> "off", left |-> 0, users |-> {}, todo |-> {}, recount |-> [r \in {} |-> Zero]]
NewSeed == [NoSeed EXCEPT !.pc = "clean"]
Recounting == [NoSeed EXCEPT !.pc = "refresh"]

Ended == {"off", "done", "failed", "refused"}
Running(a) == seed[a].pc \notin Ended

Become(a, s) == seed' = [seed EXCEPT ![a] = s]
Fail(a) == Become(a, [NoSeed EXCEPT !.pc = "failed"]) /\ UNCHANGED tableVars

\* The record of a seed with rest still to be saved, then to go on at next.
Then(s, rest, next) == [s EXCEPT !.todo = rest, !.pc = IF rest = {} THEN next ELSE @]

-----------------------------------------------------------------------------
(* The tables, with the foreign keys that delete on cascade.               *)

\* An item lives while its creator does.
ItemsOf(kept) == items \intersect kept

\* Fault: the reviews of an item that goes are kept.
CascadeWithoutItems(kept) == {r \in reviews : r.by \in kept}

\* A review lives while its reviewer and its item do, a vote while its voter
\* and its review do.
ReviewsOf(kept) == {r \in reviews : r.item \in kept /\ r.by \in kept}
VotesOf(kept) == {v \in votes : v.by \in kept /\ v.review \in ReviewsOf(kept)}

\* The votes of a user on a review: by the unique key one, or none.
VotesBy(by, review) == {v \in votes : v.by = by /\ v.review = review}

\* What the counters of the reviews should be.
Counts ==
  [r \in reviews |->
     [action \in VoteAction |-> Cardinality({v \in votes : v.review = r /\ v.action = action})]]

\* The rows that refreshReviewVotes finds to update, with their counts.
Recount == [r \in {r \in reviews : tally[r] # Counts[r]} |-> Counts[r]]

-----------------------------------------------------------------------------
(* The steps of runSeed, one for each statement that it waits for.         *)

\* Fault: the administrator goes as well.
CleanAll(a) ==
  /\ seed[a].pc = "clean"
  /\ accounts' = {} /\ items' = {} /\ reviews' = {} /\ votes' = {}
  /\ tally' = [r \in {} |-> Zero]
  /\ Become(a, [NoSeed EXCEPT !.pc = "users", !.left = SeedUsers])

\* delete({ email: Not(admin) }).
CleanDb(a) ==
  /\ seed[a].pc = "clean"
  /\ LET kept == accounts \intersect {Administrator}
     IN /\ accounts' = kept /\ items' = ItemsOf(kept) /\ reviews' = ReviewsOf(kept)
        /\ votes' = VotesOf(kept) /\ tally' = [r \in ReviewsOf(kept) |-> tally[r]]
  /\ Become(a, [NoSeed EXCEPT !.pc = "users", !.left = SeedUsers])

\* Fault: one user too few.
CreateUserOneLess(a, id) ==
  /\ seed[a].pc = "users"
  /\ accounts' = accounts \union {id}
  /\ LET left == seed[a].left - 1
     IN Become(a, [seed[a] EXCEPT !.left = left, !.pc = IF left = 1 THEN "findItemUsers" ELSE @])
  /\ UNCHANGED <<items, reviews, votes, tally>>

CreateUser(a, id) ==
  /\ seed[a].pc = "users"
  /\ accounts' = accounts \union {id}
  /\ LET left == seed[a].left - 1
     IN Become(a, [seed[a] EXCEPT !.left = left, !.pc = IF left = 0 THEN "findItemUsers" ELSE @])
  /\ UNCHANGED <<items, reviews, votes, tally>>

\* getUserIdsOrThrow, at the start of createItems, createReviews, createVotes.
FindUsers(a) ==
  /\ seed[a].pc \in {"findItemUsers", "findReviewUsers", "findVoteUsers"}
  /\ LET users == accounts \ {Administrator}
     IN IF users = {} THEN Fail(a)
        ELSE /\ Become(a, CASE seed[a].pc = "findItemUsers" ->
                                 [seed[a] EXCEPT !.pc = "items", !.todo = users]
                            [] seed[a].pc = "findReviewUsers" ->
                                 [seed[a] EXCEPT !.pc = "findItems", !.users = users]
                            [] OTHER -> [seed[a] EXCEPT !.pc = "findReviews", !.users = users])
             /\ UNCHANGED tableVars

CreateItem(a) ==
  /\ seed[a].pc = "items"
  /\ \E u \in seed[a].todo :
       IF u \notin accounts THEN Fail(a)
       ELSE /\ items' = items \union {u}
            /\ Become(a, Then(seed[a], seed[a].todo \ {u}, "findReviewUsers"))
            /\ UNCHANGED <<accounts, reviews, votes, tally>>

\* The first max of the shuffled candidates, or all when there are fewer.
Shuffled(candidates, max) ==
  LET n == IF Cardinality(candidates) < max THEN Cardinality(candidates) ELSE max
  IN {s \in {Range(drawn) : drawn \in [1..n -> candidates]} : Cardinality(s) = n}

ReviewCandidates(a) == {r \in [item : items, by : seed[a].users] : r.item # r.by}

\* getItemsMetaOrThrow, and the reviews to save.
FindItems(a) ==
  /\ seed[a].pc = "findItems"
  /\ IF items = {} THEN Fail(a)
     ELSE /\ \E chosen \in Shuffled(ReviewCandidates(a), SeedReviews) :
               Become(a, [seed[a] EXCEPT !.pc = IF chosen = {} THEN "findVoteUsers" ELSE "reviews",
                                         !.users = {}, !.todo = chosen])
          /\ UNCHANGED tableVars

\* Both counters have zero for their default.
InsertReview(r) ==
  /\ reviews' = reviews \union {r}
  /\ tally' = [s \in reviews \union {r} |-> IF s = r THEN Zero ELSE tally[s]]

CreateReview(a) ==
  /\ seed[a].pc = "reviews"
  /\ \E r \in seed[a].todo :
       IF r.item \in items /\ r.by \in accounts /\ r \notin reviews
       THEN /\ InsertReview(r)
            /\ Become(a, Then(seed[a], seed[a].todo \ {r}, "findVoteUsers"))
            /\ UNCHANGED <<accounts, items, votes>>
       ELSE Fail(a)

VoteCandidates(a) == [review : reviews, by : seed[a].users]

\* getReviewsIdsOrThrow, and the votes to save.
FindReviews(a) ==
  /\ seed[a].pc = "findReviews"
  /\ IF reviews = {} THEN Fail(a)
     ELSE /\ \E chosen \in Shuffled(VoteCandidates(a), SeedVotes) :
               Become(a, [seed[a] EXCEPT !.pc = "votes", !.users = {}, !.todo = chosen])
          /\ UNCHANGED tableVars

\* A vote is saved without its counter.
CreateVote(a) ==
  /\ seed[a].pc = "votes"
  /\ \E v \in seed[a].todo :
       IF v.by \in accounts /\ v.review \in reviews /\ VotesBy(v.by, v.review) = {}
       THEN /\ \E action \in VoteAction :
                 votes' = votes \union {[review |-> v.review, by |-> v.by, action |-> action]}
            /\ Become(a, Then(seed[a], seed[a].todo \ {v}, "refresh"))
            /\ UNCHANGED <<accounts, items, reviews, tally>>
       ELSE Fail(a)

\* refreshReviewVotes is one statement: it reads counts and counters at once,
RefreshSnapshot(a) ==
  /\ seed[a].pc = "refresh"
  /\ Become(a, [NoSeed EXCEPT !.pc = "update", !.recount = Recount])
  /\ UNCHANGED tableVars

\* and writes these counts to the rows that differed, when it has their locks.
RefreshUpdate(a) ==
  /\ seed[a].pc = "update"
  /\ LET recount == seed[a].recount
     IN tally' = [r \in reviews |-> IF r \in DOMAIN recount THEN recount[r] ELSE tally[r]]
  /\ Become(a, [NoSeed EXCEPT !.pc = "done"])
  /\ UNCHANGED <<accounts, items, reviews, votes>>

\* A statement fails: the database is out of reach or aborts it. The save of a
\* user or of an item may also be refused for what the generators draw: a name
\* or an address that another account has, or that breaks a CHECK of the column,
\* the title of another item of its creator.
StatementRefused(a) ==
  /\ Running(a)
  /\ Become(a, [NoSeed EXCEPT !.pc = "refused"]) /\ UNCHANGED tableVars

=============================================================================
