---------------------------- MODULE ServerProofs ----------------------------
(***************************************************************************)
(* What holds of the boots, seeds, requests and stops, for every number of *)
(* processes and requests, every size of a seed and every limit.           *)
(***************************************************************************)
EXTENDS ServerProps, FiniteSetTheorems, TLAPS

USE ServerAssumption, SeedingAssumption

-----------------------------------------------------------------------------
(* Policies and answers.                                                   *)

\* Of two tables of policies together every entry is a policy.
LEMMA OverTyped ==
  ASSUME NEW S, NEW U, NEW T, NEW f \in [S -> T], NEW g \in [U -> T]
  PROVE  Over(f, g) \in [S \union U -> T]
BY DEF Over

LEMMA OverFirst ==
  ASSUME NEW f, NEW g, NEW o \in DOMAIN f  PROVE  Over(f, g)[o] = f[o]
BY DEF Over

LEMMA OverSecond ==
  ASSUME NEW f, NEW g, NEW o \in DOMAIN g, o \notin DOMAIN f  PROVE  Over(f, g)[o] = g[o]
BY DEF Over

PolicyRecord ==
  [public : BOOLEAN, tier : Tiers, roles : SUBSET Roles, statuses : SUBSET Statuses]

\* Every operation that is asked for has a policy and a limit.
LEMMA PolicyTypes ==
  ASSUME NEW o \in Ops
  PROVE  Policy[o] \in PolicyRecord /\ Limit(o) \in Nat /\ Limit(o) > 0
<1> DEFINE T == PolicyRecord
<1>1. /\ \A tier \in Tiers : Public(tier) \in T
      /\ \A tier \in Tiers, roles \in SUBSET Roles, statuses \in SUBSET Statuses :
           Require(tier, roles, statuses) \in T
  BY DEF Public, Require, PolicyRecord
<1>2. /\ Tiers = {"ULTRA_CRITICAL", "CRITICAL", "BALANCED", "RELAXED", "DEFAULT"}
      /\ Roles \in SUBSET Roles /\ Statuses \in SUBSET Statuses
      /\ {"creator"} \in SUBSET Roles /\ {"reviewer"} \in SUBSET Roles
      /\ {"moderator"} \in SUBSET Roles
      /\ {"active"} \in SUBSET Statuses
      /\ {"pending_verification", "active"} \in SUBSET Statuses
  BY DEF Tiers, RateLimitTier, Roles, Statuses
<1> HIDE DEF T
<1>a. AuthResolver \in [{"signUp", "signIn", "requestSignOutAll", "requestAccountVerification",
                         "requestAccountDeletion", "signOut", "signOutAll"} -> T]
  BY <1>1, <1>2 DEF AuthResolver
<1>b. ItemsResolver \in [{"createItem", "findItemById", "filterItems"} -> T]
  BY <1>1, <1>2 DEF ItemsResolver
<1>c. ReviewResolver \in [{"createReview", "filterReviews"} -> T]
  BY <1>1, <1>2 DEF ReviewResolver
<1>d. VotesResolver \in [{"voteReview", "deleteVote", "findAllReviewVotes"} -> T]
  BY <1>1, <1>2 DEF VotesResolver
<1>e. UsersResolver \in [{"findUserById", "findAllUsers"} -> T]
  BY <1>1, <1>2 DEF UsersResolver
<1>f. ModerationResolver \in [{"suspendAccount", "reactivateAccount"} -> T]
  BY <1>1, <1>2 DEF ModerationResolver
<1>g. SeedResolver \in [{"runSeed"} -> T]
  BY <1>1, <1>2 DEF SeedResolver
<1>h. AuthController \in [{"verifyAccount", "deleteAccount", "signOutAllPublic"} -> T]
  BY <1>1, <1>2 DEF AuthController
<1>i. HealthController \in [{"health"} -> T]
  BY <1>1, <1>2 DEF HealthController
<1> DEFINE Names == Queries \union MailOps \union
       {"signUp", "signIn", "signOut", "createItem", "createReview", "voteReview", "deleteVote",
        "deleteAccount", "runSeed", "health"}
<1>3. \E S : Policy \in [S -> T] /\ Names \subseteq S
  <2>1. Over(ModerationResolver, SeedResolver)
          \in [{"suspendAccount", "reactivateAccount"} \union {"runSeed"} -> T]
    BY <1>f, <1>g, OverTyped
  <2>2. Over(UsersResolver, Over(ModerationResolver, SeedResolver))
          \in [{"findUserById", "findAllUsers"}
                 \union ({"suspendAccount", "reactivateAccount"} \union {"runSeed"}) -> T]
    BY <1>e, <2>1, OverTyped
  <2>3. PICK A : Over(VotesResolver, Over(UsersResolver, Over(ModerationResolver, SeedResolver)))
                   \in [A -> T]
                 /\ {"voteReview", "deleteVote", "findAllReviewVotes", "findUserById",
                     "findAllUsers", "runSeed"} \subseteq A
    <3> DEFINE A == {"voteReview", "deleteVote", "findAllReviewVotes"} \union
                      ({"findUserById", "findAllUsers"}
                         \union ({"suspendAccount", "reactivateAccount"} \union {"runSeed"}))
    <3>1. Over(VotesResolver, Over(UsersResolver, Over(ModerationResolver, SeedResolver)))
            \in [A -> T]
      BY <1>d, <2>2, OverTyped
    <3>2. {"voteReview", "deleteVote", "findAllReviewVotes", "findUserById",
           "findAllUsers", "runSeed"} \subseteq A
      OBVIOUS
    <3> QED  BY <3>1, <3>2
  <2> DEFINE V == Over(VotesResolver,
                       Over(UsersResolver, Over(ModerationResolver, SeedResolver)))
  <2> HIDE DEF V
  <2>4. PICK B : Over(ItemsResolver, Over(ReviewResolver, V)) \in [B -> T]
                 /\ {"createItem", "findItemById", "filterItems", "createReview",
                     "filterReviews"} \union A \subseteq B
    <3> DEFINE B == {"createItem", "findItemById", "filterItems"}
                      \union ({"createReview", "filterReviews"} \union A)
    <3>1. Over(ReviewResolver, V) \in [{"createReview", "filterReviews"} \union A -> T]
      BY <1>c, <2>3, OverTyped DEF V
    <3>2. Over(ItemsResolver, Over(ReviewResolver, V)) \in [B -> T]
      BY <1>b, <3>1, OverTyped
    <3> QED  BY <3>2
  <2>5. PICK C : Resolvers \in [C -> T]
                 /\ {"signUp", "signIn", "requestSignOutAll", "requestAccountDeletion",
                     "signOut"} \union B \subseteq C
    <3> DEFINE C == {"signUp", "signIn", "requestSignOutAll", "requestAccountVerification",
                     "requestAccountDeletion", "signOut", "signOutAll"} \union B
    <3>1. Resolvers \in [C -> T]
      BY <1>a, <2>4, OverTyped DEF Resolvers, V
    <3>2. {"signUp", "signIn", "requestSignOutAll", "requestAccountDeletion",
           "signOut"} \union B \subseteq C
      OBVIOUS
    <3> QED  BY <3>1, <3>2
  <2>6. Over(AuthController, HealthController)
          \in [{"verifyAccount", "deleteAccount", "signOutAllPublic"} \union {"health"} -> T]
    BY <1>h, <1>i, OverTyped
  <2> DEFINE D == C \union ({"verifyAccount", "deleteAccount", "signOutAllPublic"}
                              \union {"health"})
  <2>7. Policy \in [D -> T]
    BY <2>5, <2>6, OverTyped DEF Policy
  <2>8. Names \subseteq D
    BY <2>3, <2>4, <2>5 DEF Queries, Paged, MailOps
  <2> QED  BY <2>7, <2>8
<1>4. Policy[o] \in PolicyRecord
  BY <1>3 DEF T
<1>5. Policy[o].tier \in Tiers
  BY <1>4 DEF PolicyRecord
<1> QED  BY <1>4, <1>5 DEF Limit

LEMMA Guarded ==
  ~Policy["createItem"].public /\ ~Policy["createReview"].public /\ ~Policy["voteReview"].public
<1> DEFINE OfVotes == Over(VotesResolver,
                          Over(UsersResolver, Over(ModerationResolver, SeedResolver)))
           Reviewing == Over(ReviewResolver, OfVotes)
           Other == Over(ItemsResolver, Reviewing)
<1>1. OfVotes["voteReview"] = VotesResolver["voteReview"] /\ "voteReview" \in DOMAIN OfVotes
  BY DEF VotesResolver, Over
<1> HIDE DEF OfVotes
<1>2. /\ Reviewing["createReview"] = ReviewResolver["createReview"]
      /\ Reviewing["voteReview"] = VotesResolver["voteReview"]
      /\ {"createReview", "voteReview"} \subseteq DOMAIN Reviewing
  BY <1>1 DEF ReviewResolver, Over
<1> HIDE DEF Reviewing
<1>3. /\ Other["createItem"] = ItemsResolver["createItem"]
      /\ Other["createReview"] = ReviewResolver["createReview"]
      /\ Other["voteReview"] = VotesResolver["voteReview"]
      /\ {"createItem", "createReview", "voteReview"} \subseteq DOMAIN Other
  BY <1>2 DEF ItemsResolver, Over
<1> HIDE DEF Other
<1>4. Resolvers = Over(AuthResolver, Other)
  BY DEF Resolvers, Other, Reviewing, OfVotes
<1>5. /\ Resolvers["createItem"] = ItemsResolver["createItem"]
      /\ Resolvers["createReview"] = ReviewResolver["createReview"]
      /\ Resolvers["voteReview"] = VotesResolver["voteReview"]
      /\ {"createItem", "createReview", "voteReview"} \subseteq DOMAIN Resolvers
  BY <1>3, <1>4 DEF AuthResolver, Over
<1>6. /\ Policy["createItem"] = ItemsResolver["createItem"]
      /\ Policy["createReview"] = ReviewResolver["createReview"]
      /\ Policy["voteReview"] = VotesResolver["voteReview"]
  BY <1>5, OverFirst DEF Policy
<1> QED  BY <1>6 DEF ItemsResolver, ReviewResolver, VotesResolver, Require

LEMMA GqlAnswer ==
  ASSUME NEW o, NEW c  PROVE  Answer(o, GqlHttpError(c)) = c
BY DEF Answer, GqlHttpError, NormalizeGqlError, ServiceUnavailableErrors, AggregateError,
       DriverError, HandleHttpContext, HandleGqlError

LEMMA HttpAnswer ==
  ASSUME NEW o, NEW c
  PROVE  Answer(o, HttpException(c)) =
           IF o \in RestOperations THEN c ELSE "INTERNAL_SERVER_ERROR"
BY DEF Answer, HttpException, NormalizeGqlError, ServiceUnavailableErrors, AggregateError,
       DriverError, HandleHttpContext, HandleGqlError

LEMMA DriverAnswer ==
  ASSUME NEW o, NEW m
  PROVE  Answer(o, DriverError(m)) \in {"SERVICE_UNAVAILABLE", "INTERNAL_SERVER_ERROR"}
BY DEF Answer, GqlHttpError, NormalizeGqlError, ServiceUnavailableErrors, AggregateError,
       DriverError, HandleHttpContext, HandleGqlError

LEMMA AggregateAnswer ==
  ASSUME NEW o  PROVE  Answer(o, AggregateError) = "INTERNAL_SERVER_ERROR"
BY DEF Answer, GqlHttpError, NormalizeGqlError, ServiceUnavailableErrors, AggregateError,
       DriverError, HandleHttpContext, HandleGqlError

LEMMA TooManyAnswer ==
  ASSUME NEW o  PROVE  Answer(o, TooManyRequests(o)) = "TOO_MANY_REQUESTS"
BY GqlAnswer, HttpAnswer DEF TooManyRequests

LEMMA RestDelete == "deleteAccount" \in RestOperations /\ "health" \in RestOperations
BY DEF RestOperations, AuthController, HealthController
-----------------------------------------------------------------------------
(* The invariant of the states.                                            *)

ReviewRows == {r \in [item : Ids, by : Ids] : r.item # r.by}
VoteRows == [review : ReviewRows, by : Ids, action : VoteAction]
Ballots == [review : ReviewRows, by : Ids]
Counters == [VoteAction -> Nat]

RowsInv ==
  /\ accounts \subseteq Ids /\ reviews \subseteq ReviewRows /\ votes \subseteq VoteRows
  /\ tally \in [reviews -> Counters] /\ KeysHold

Recounts == UNION {[rows -> Counters] : rows \in SUBSET ReviewRows}

SeedRecord ==
  [pc : SeedSteps, left : 0..SeedUsers, users : SUBSET Ids,
   todo : SUBSET (Ids \union ReviewRows \union Ballots), recount : Recounts]

SeedOK(s) ==
  /\ s \in SeedRecord
  /\ s.pc = "users" => s.left > 0
  /\ s.pc = "items" => s.todo \subseteq Ids
  /\ s.pc = "reviews" => s.todo \subseteq ReviewRows
  /\ s.pc = "votes" => s.todo \subseteq Ballots

RequestSteps ==
  {"idle", "throttle", "guard", "handle", "session", "remove", "revoke", "save", "cast", "retract",
   "add", "seeding"}

RequestRecord ==
  [pc : RequestSteps, op : Ops \union {"none"}, proc : Processes \union {Nobody},
   user : Ids \union {Nobody}, on : Ids \union {Nobody}, found : SUBSET VoteRows,
   todo : SUBSET VoteRows, answer : Codes \union {"none", "OK", "lost"}]

\* The votes of one user on one review.
OnePair(some) == \A v, w \in some : v.by = w.by /\ v.review = w.review

\* A request in flight, and what its operation has it hold.
RequestOK(r) ==
  /\ r \in RequestRecord
  /\ r.pc # "idle" => r.op \in Ops /\ r.proc \in Processes /\ r.answer = "none"
  /\ r.user \in People \union {Nobody}
  /\ r.pc = "handle" /\ ~Policy[r.op].public => r.user # Nobody
  /\ r.pc = "session" => r.user \in People
  /\ r.pc = "save" => r.on # r.user /\ r.op = "createReview"
  /\ r.pc \in {"cast", "retract"} => OnePair(r.found \union r.todo)
  /\ r.pc = "seeding" => r.op = "runSeed"

SeedsInv == seed \in [Seeders -> SeedRecord] /\ \A a \in Seeders : SeedOK(seed[a])
RequestsInv == req \in [Requests -> RequestRecord] /\ \A q \in Requests : RequestOK(req[q])

ProcsInv ==
  /\ production \in BOOLEAN /\ listening \subseteq Processes
  /\ phase \in [Processes -> Phases] /\ fatal \in [Processes -> BOOLEAN]
  /\ \A p \in Processes : fatal[p] => Closing(p)
  /\ \A p \in listening : phase[p] \in {"serving", "destroy"}

\* The connections are open until the process closes, and closed before it
\* disposes of its server. The queue's connection waits, and does not fail.
ConnInv ==
  /\ conn \in [Processes -> [Connections -> {"open", "closed", "failed"}]]
  /\ \A p \in Processes :
       /\ conn[p]["queueRedis"] # "failed"
       /\ \A c \in Connections :
            /\ conn[p][c] # "open" => Closing(p)
            /\ phase[p] \in {"dispose", "disconnect"} => Closed(p, c)

\* A process whose boot seeds has not listened yet, and never will if it closes.
BootSeeds ==
  \A p \in Processes : seed[p].pc # "off" =>
    /\ production /\ phase[p] \in {"seeding", "destroy", "dispose", "disconnect"}
    /\ p \notin listening
    /\ \A q \in Requests : InFlight(q) => req[q].proc # p

RequestSeeds == \A q \in Requests : seed[q].pc # "off" <=> req[q].pc = "seeding"

\* The nightly job only recounts.
NightSeeds == seed[Cron].pc \in {"off", "refresh", "update", "done", "refused"}

Served ==
  \A q \in Requests : InFlight(q) => phase[req[q].proc] \in {"serving", "destroy", "dispose"}

\* No two transactions are about the votes of one user on one review.
LocksInv ==
  \A q, o \in Voting : q # o =>
    \A v \in req[q].found \union req[q].todo, w \in req[o].found \union req[o].todo :
      ~(v.by = w.by /\ v.review = w.review)

ControlInv ==
  /\ SeedsInv /\ RequestsInv /\ ProcsInv /\ ConnInv
  /\ BootSeeds /\ RequestSeeds /\ NightSeeds /\ Served /\ LocksInv

LimitsInv ==
  /\ hits \in [Ops -> Nat] /\ blocked \in [Ops -> BOOLEAN]
  /\ \A o \in Ops : hits[o] <= Limit(o) + 1

ServerInv == RowsInv /\ ControlInv /\ LimitsInv /\ live \subseteq People

LEMMA InvImpliesTypes == ServerInv => ServerTypeOK
<1> SUFFICES ASSUME ServerInv PROVE ServerTypeOK
  OBVIOUS
<1>1. \A a \in Seeders : seed[a].pc \in SeedSteps /\ seed[a].left \in 0..SeedUsers
  BY DEF ServerInv, ControlInv, SeedsInv, SeedRecord
<1>2. \A q \in Requests : req[q].answer \in Codes \union {"none", "OK", "lost"}
  BY DEF ServerInv, ControlInv, RequestsInv, RequestRecord
<1>3. \A o \in Ops : hits[o] \in 0..Limit(o) + 1
  BY PolicyTypes DEF ServerInv, LimitsInv
<1>4. \A p \in Processes : seed[p].pc # "off" => production /\ phase[p] # "down"
  BY DEF ServerInv, ControlInv, BootSeeds
<1>5. \A p \in Processes : \A c \in Connections :
        /\ conn[p][c] # "open" => Closing(p)
        /\ phase[p] \in {"dispose", "disconnect"} => Closed(p, c)
  BY DEF ServerInv, ControlInv, ConnInv
<1>6. accounts \subseteq Ids /\ KeysHold /\ tally \in [reviews -> [VoteAction -> Nat]]
  BY DEF ServerInv, RowsInv, Counters
<1>7. \A p \in Processes : phase[p] \in Phases /\ (fatal[p] => Closing(p))
  BY DEF ServerInv, ControlInv, ProcsInv
<1> QED
  BY <1>1, <1>2, <1>3, <1>4, <1>5, <1>6, <1>7
  DEF ServerTypeOK, ServerInv, ControlInv, ProcsInv, RequestSeeds, Served

-----------------------------------------------------------------------------
(* Finitely many rows.                                                     *)

LEMMA IdsFinite == IsFiniteSet(Ids)
<1>1. IsFiniteSet(SeedIds \union PersonIds) /\ IsFiniteSet({Administrator})
  BY FS_Union, FS_Singleton
<1> QED  BY <1>1, FS_Union DEF Ids

LEMMA ReviewsFinite ==
  ASSUME NEW S, NEW T, IsFiniteSet(S), IsFiniteSet(T),
         NEW R \in SUBSET [item : S, by : T]
  PROVE  IsFiniteSet(R)
<1> DEFINE pair == [r \in R |-> <<r.item, r.by>>]
<1>1. IsFiniteSet(S \X T)
  BY FS_Product
<1>2. pair \in [R -> S \X T]
  OBVIOUS
<1>3. ASSUME NEW r \in R, NEW x \in R, pair[r] = pair[x] PROVE r = x
  <2>1. r.item = x.item /\ r.by = x.by
    BY <1>3
  <2> QED  BY <2>1
<1> HIDE DEF pair
<1>4. pair \in Injection(R, S \X T)
  BY <1>2, <1>3 DEF Injection, IsInjective
<1> QED  BY <1>1, <1>4, FS_Injection

LEMMA VotesFinite ==
  ASSUME NEW some \in SUBSET VoteRows
  PROVE  IsFiniteSet(some)
<1> DEFINE T == (ReviewRows \X Ids) \X VoteAction
           triple == [v \in some |-> <<<<v.review, v.by>>, v.action>>]
<1>1. IsFiniteSet(ReviewRows)
  BY IdsFinite, ReviewsFinite DEF ReviewRows
<1>2. IsFiniteSet(VoteAction)
  <2>1. IsFiniteSet({"up"}) /\ IsFiniteSet({"down"}) /\ VoteAction = {"up"} \union {"down"}
    BY FS_Singleton DEF VoteAction
  <2> QED  BY <2>1, FS_Union
<1>3. IsFiniteSet(T)
  <2>1. IsFiniteSet(ReviewRows \X Ids)
    BY <1>1, IdsFinite, FS_Product
  <2> QED  BY <1>2, <2>1, FS_Product
<1>4. triple \in [some -> T]
  BY DEF VoteRows
<1>5. ASSUME NEW v \in some, NEW w \in some, triple[v] = triple[w] PROVE v = w
  <2>1. v.review = w.review /\ v.by = w.by /\ v.action = w.action
    BY <1>5
  <2> QED  BY <2>1 DEF VoteRows
<1> HIDE DEF triple
<1>6. triple \in Injection(some, T)
  BY <1>4, <1>5 DEF Injection, IsInjective
<1> QED  BY <1>3, <1>6, FS_Injection

\* The votes with one action on one review.
VotesOn(some, r, action) == {v \in some : v.review = r /\ v.action = action}

LEMMA CountsTyped ==
  ASSUME votes \subseteq VoteRows
  PROVE  /\ Counts \in [reviews -> Counters]
         /\ \A r \in reviews, action \in VoteAction :
              Counts[r][action] = Cardinality(VotesOn(votes, r, action))
<1>1. \A r \in reviews, action \in VoteAction :
        Cardinality({v \in votes : v.review = r /\ v.action = action}) \in Nat
  BY VotesFinite, FS_CardinalityType
<1> QED  BY <1>1 DEF Counts, Counters, VotesOn

-----------------------------------------------------------------------------
(* The beginning.                                                          *)

LEMMA InitRows == ServerInit => RowsInv /\ tally = Counts
<1> SUFFICES ASSUME ServerInit PROVE RowsInv /\ tally = Counts
  OBVIOUS
<1>1. PICK rows \in Starts :
        /\ accounts = rows.accounts /\ items = rows.items
        /\ reviews = rows.reviews /\ votes = rows.votes
  BY DEF ServerInit
<1>2. /\ accounts \subseteq Ids /\ items \subseteq accounts
      /\ reviews \subseteq {r \in [item : items, by : accounts] : r.item # r.by}
      /\ votes \subseteq [review : reviews, by : accounts, action : VoteAction]
      /\ \A v, w \in votes : v.by = w.by /\ v.review = w.review => v = w
  BY <1>1, StartsAssumption
<1>3. reviews \subseteq ReviewRows /\ votes \subseteq VoteRows
  BY <1>2 DEF ReviewRows, VoteRows
<1>4. KeysHold
  BY <1>2 DEF KeysHold
<1>5. tally = Counts /\ tally \in [reviews -> Counters]
  BY <1>3, CountsTyped DEF ServerInit
<1> QED  BY <1>2, <1>3, <1>4, <1>5 DEF RowsInv

LEMMA NoSeedOK ==
  /\ SeedOK(NoSeed) /\ SeedOK(NewSeed) /\ SeedOK(Recounting)
  /\ NoSeed.pc = "off" /\ NewSeed.pc = "clean" /\ Recounting.pc = "refresh"
  /\ NoSeed.recount \in Recounts
<1>1. [r \in {} |-> Zero] \in Recounts
  <2>1. [r \in {} |-> Zero] \in [{} -> Counters] /\ {} \in SUBSET ReviewRows
    OBVIOUS
  <2> QED  BY <2>1 DEF Recounts
<1> QED  BY <1>1 DEF SeedOK, SeedRecord, NoSeed, NewSeed, Recounting, SeedSteps

LEMMA NoRequestOK ==
  ASSUME NEW x \in Codes \union {"none", "OK", "lost"}
  PROVE  LET r == [NoRequest EXCEPT !.answer = x] IN RequestOK(r) /\ r.pc = "idle" /\ r.answer = x
<1> DEFINE r == [NoRequest EXCEPT !.answer = x]
<1>1. /\ r \in RequestRecord /\ r.pc = "idle" /\ r.user = Nobody /\ r.answer = x
      /\ r.found = {} /\ r.todo = {}
  BY DEF RequestRecord, RequestSteps, NoRequest
<1> HIDE DEF r
<1> QED  BY <1>1 DEF RequestOK, r

LEMMA InitInv == ServerInit => ServerInv
<1> SUFFICES ASSUME ServerInit PROVE ServerInv
  OBVIOUS
<1>1. RowsInv
  BY InitRows
<1>2. SeedsInv /\ NightSeeds
  BY NoSeedOK DEF ServerInit, SeedsInv, NightSeeds, SeedOK
<1>3. RequestsInv
  <2>1. RequestOK(NoRequest) /\ NoRequest.pc = "idle"
    <3>1. NoRequest \in RequestRecord /\ NoRequest.pc = "idle" /\ NoRequest.user = Nobody
      BY DEF RequestRecord, RequestSteps, NoRequest
    <3> QED  BY <3>1 DEF RequestOK
  <2> QED  BY <2>1 DEF ServerInit, RequestsInv, RequestOK
<1>4. ProcsInv
  BY DEF ServerInit, ProcsInv, Phases
<1>5. ConnInv
  BY DEF ServerInit, ConnInv, AllOpen, Connections, Closed
<1>6. BootSeeds /\ RequestSeeds /\ Served /\ LocksInv
  BY NoSeedOK
  DEF ServerInit, BootSeeds, RequestSeeds, Served, LocksInv, Voting, NoRequest, InFlight
<1>7. LimitsInv
  BY PolicyTypes DEF ServerInit, LimitsInv
<1>8. live \subseteq People
  BY DEF ServerInit
<1> QED  BY <1>1, <1>2, <1>3, <1>4, <1>5, <1>6, <1>7, <1>8 DEF ServerInv, ControlInv

LEMMA FreshIsNew ==
  ASSUME NEW ids, HasFresh(ids)
  PROVE  FreshId(ids) \in ids /\ FreshId(ids) \notin Mentioned
BY DEF HasFresh, FreshId

-----------------------------------------------------------------------------
(* The steps, by what they do to the processes and the requests.           *)

\* What it is that ends a process with requests in it.
Cause(p) ==
  \/ fatal[p] \/ Crash(p) \/ \E o \in On(p) : CountUnawaited(o)
  \/ \E c \in {"throttlerRedis", "cacheRedisStore"} : conn[p][c] = "failed"

\* p is gone with its seeds and requests.
Ends(p) ==
  /\ Exit(p) /\ UNCHANGED <<tableVars, settings, limitVars, live, down>>
  /\ Cause(p) \/ phase[p] \in {"connect", "disconnect"} \/ seed[p].pc # "off"

Closes(p) ==
  /\ phase[p] \notin {"down", "connect", "dispose", "disconnect"}
  /\ \E forced \in BOOLEAN : Close(p, forced)
  /\ UNCHANGED <<tableVars, settings, limitVars, live, down>>

Settles(p) ==
  \E c \in Connections, how \in {"closed", "failed"} :
    Settle(p, c, how) /\ (c = "queueRedis" => how = "closed")

Disposes(p) ==
  /\ phase[p] = "destroy" /\ \A c \in Connections : Closed(p, c)
  /\ phase' = [phase EXCEPT ![p] = "dispose"] /\ listening' = listening \ {p}
  /\ UNCHANGED <<tableVars, settings, fatal, conn, seed, req, limitVars, live, down>>

Advances(p) == Start(p) \/ Connect(p) \/ Disposes(p) \/ Dispose(p) \/ Listen(p)

\* The administrator is there, and was or is new.
Prepares(p) ==
  /\ phase[p] \in {"findAdmin", "saveAdmin"} /\ SeedProd(p)
  /\ accounts' = accounts \union {Administrator}
  /\ UNCHANGED <<items, reviews, votes, tally, settings, fatal, listening, conn, req, limitVars,
                 live, down>>

Misses(p) ==
  /\ phase[p] = "findAdmin" /\ phase' = [phase EXCEPT ![p] = "saveAdmin"]
  /\ UNCHANGED <<seed, tableVars, settings, fatal, listening, conn, req, limitVars, live, down>>

ProcessStep(p) ==
  \/ Ends(p) \/ Closes(p) \/ Settles(p) \/ Advances(p) \/ Prepares(p) \/ Misses(p)
  \/ SeedExecuted(p) \/ Midnight(p)

\* The seed of a, or the request q, takes a step, or a statement of it fails.
SeedActs(a) == SeedStep(a) \/ SeedRefused(a)
Acts(q) == Step(q) \/ StatementFails(q)

Environment ==
  \/ \E server \in RedisServers : Outage(server) \/ Recovery(server)
  \/ \E o \in Ops : WindowEnds(o) \/ BlockEnds(o)

LEMMA FatalCases ==
  ASSUME NEW p \in Processes, HandleFatalError(p), phase[p] # "down"
  PROVE  \/ Exit(p) /\ phase[p] \in {"connect", "dispose", "disconnect"}
         \/ /\ phase[p] \notin {"down", "connect", "dispose", "disconnect"}
            /\ \E forced \in BOOLEAN : Close(p, forced)
BY DEF HandleFatalError

\* A fatal error of a process with a request in flight ends it, or closes it.
LEMMA UnawaitedCases ==
  ASSUME ServerInv, NEW q \in Requests, CountUnawaited(q)
  PROVE  \E p \in Processes : Ends(p) \/ Closes(p)
<1> DEFINE p == req[q].proc
<1>1. /\ p \in Processes /\ phase[p] \in {"serving", "destroy", "dispose"}
      /\ req[q].pc = "handle"
  BY DEF ServerInv, ControlInv, RequestsInv, RequestOK, Served, InFlight, CountUnawaited, Handling
<1>2. HandleFatalError(p) /\ UNCHANGED <<tableVars, settings, limitVars, live, down>>
  BY DEF CountUnawaited
<1>3. Cause(p)
  <2>1. q \in On(p)
    BY <1>1 DEF On, InFlight
  <2> QED  BY <2>1 DEF Cause
<1> QED  BY <1>1, <1>2, <1>3, FatalCases DEF Ends, Closes

LEMMA EndCases ==
  ASSUME ServerInv, NEW p \in Processes, End(p)
  PROVE  Ends(p) \/ Settles(p) \/ Advances(p)
<1>0. conn[p] \in [Connections -> {"open", "closed", "failed"}] /\ conn[p]["queueRedis"] # "failed"
  BY DEF ServerInv, ControlInv, ConnInv
<1>1. CASE QuitThrottler(p) \/ QuitQueue(p) \/ DisconnectCache(p)
  BY <1>1 DEF QuitThrottler, QuitQueue, DisconnectCache, Settles, Connections
<1>2. CASE OnModuleDestroy(p)
  <2>1. CASE \A c \in Connections : Closed(p, c)
    BY <1>2, <2>1 DEF OnModuleDestroy, Advances, Disposes
  <2>2. CASE ~\A c \in Connections : Closed(p, c)
    <3>1. Exit(p) /\ UNCHANGED <<tableVars, settings, limitVars, live, down>>
          /\ \A c \in Connections : conn[p][c] # "open"
      BY <1>2, <2>2 DEF OnModuleDestroy
    <3>2. \E c \in {"throttlerRedis", "cacheRedisStore"} : conn[p][c] = "failed"
      BY <1>0, <2>2, <3>1 DEF Closed, Connections
    <3> QED  BY <3>1, <3>2 DEF Ends, Cause
  <2> QED  BY <2>1, <2>2
<1>3. CASE Dispose(p)
  BY <1>3 DEF Advances
<1>4. CASE OnApplicationShutdown(p)
  BY <1>4 DEF OnApplicationShutdown, Ends
<1>5. CASE CleanupTimeout(p)
  BY <1>5 DEF CleanupTimeout, Ends, Cause
<1> QED
  BY <1>1, <1>2, <1>3, <1>4, <1>5 DEF End

LEMMA StopCases ==
  ASSUME ServerInv, NEW p \in Processes, Stop(p)
  PROVE  Ends(p) \/ Closes(p) \/ Settles(p) \/ Advances(p)
<1>1. CASE Signal(p)
  <2>1. CASE phase[p] = "connect"
    BY <1>1, <2>1 DEF Signal, Ends
  <2>2. CASE phase[p] # "connect"
    BY <1>1, <2>2 DEF Signal, Closes, Closing
  <2> QED  BY <2>1, <2>2
<1>2. CASE Crash(p)
  BY <1>2 DEF Crash, Ends, Cause
<1>3. CASE ExpiryUnread(p)
  BY <1>3, FatalCases DEF ExpiryUnread, Closes
<1>4. CASE QuitQueueOffline(p) \/ DisconnectCacheOffline(p)
  BY <1>4 DEF QuitQueueOffline, DisconnectCacheOffline, Settles, Connections
<1> QED
  BY <1>1, <1>2, <1>3, <1>4, EndCases DEF Stop

LEMMA BootCases ==
  ASSUME ServerInv, NEW p \in Processes, Boot(p)
  PROVE  ProcessStep(p)
<1>0. seed[p].pc # "off" => phase[p] \in {"seeding", "destroy", "dispose", "disconnect"}
  BY DEF ServerInv, ControlInv, BootSeeds
<1>1. CASE Start(p) \/ Connect(p) \/ Listen(p)
  BY <1>1 DEF ProcessStep, Advances
<1>2. CASE FindAdmin(p)
  <2>1. CASE Administrator \in accounts
    BY <1>2, <2>1 DEF FindAdmin, ProcessStep, Prepares, tableVars
  <2>2. CASE Administrator \notin accounts
    BY <1>2, <2>2 DEF FindAdmin, ProcessStep, Misses
  <2> QED  BY <2>1, <2>2
<1>3. CASE SaveAdmin(p)
  <2>1. CASE Administrator \in accounts
    BY <1>3, <2>1, FatalCases DEF SaveAdmin, ProcessStep, Closes, tableVars
  <2>2. CASE Administrator \notin accounts
    BY <1>3, <2>2 DEF SaveAdmin, ProcessStep, Prepares
  <2> QED  BY <2>1, <2>2
<1>4. CASE SeedExecuted(p)
  BY <1>4 DEF ProcessStep
<1>5. CASE BootRejected(p)
  BY <1>0, <1>5, FatalCases DEF BootRejected, ProcessStep, Ends, Closes
<1>6. CASE BootStatementFails(p)
  BY <1>6, FatalCases DEF BootStatementFails, ProcessStep, Closes
<1> QED
  BY <1>1, <1>2, <1>3, <1>4, <1>5, <1>6 DEF Boot

LEMMA NextCases ==
  ASSUME ServerInv, ServerNext
  PROVE  \/ \E p \in Processes : ProcessStep(p)
         \/ \E a \in Seeders : SeedActs(a)
         \/ \E q \in Requests : Acts(q)
         \/ \E q \in Requests, p \in Processes : Arrive(q, p)
         \/ Environment
<1>1. ASSUME NEW p \in Processes, Boot(p) \/ Stop(p) \/ Midnight(p) PROVE ProcessStep(p)
  BY <1>1, StopCases, BootCases DEF ProcessStep
<1>2. ASSUME NEW q \in Requests, CountUnawaited(q) PROVE \E p \in Processes : ProcessStep(p)
  BY <1>2, UnawaitedCases DEF ProcessStep
<1> QED  BY <1>1, <1>2 DEF ServerNext, SeedActs, Acts, Environment

-----------------------------------------------------------------------------
(* The steps of requests.                                                  *)

\* q goes on in its process or has its answer, and no seed and no process
\* changes. Who goes on with votes has read them now, or before; who goes on to
\* change those of one pair holds their lock.
Goes(q) ==
  /\ UNCHANGED <<seed, procVars>>
  /\ req[q].pc \notin {"idle", "seeding"}
  /\ \E r : /\ RequestOK(r) /\ r.pc \notin {"throttle", "seeding"} /\ r.answer # "lost"
            /\ r.pc # "idle" => r.proc = req[q].proc /\ r.op = req[q].op
            /\ r.pc \in {"handle", "guard"} => req[q].pc \in {"throttle", "guard"}
            /\ r.pc = "handle" => Policy[r.op].public \/ r.user \in accounts
            /\ r.pc = "save" => /\ req[q].pc = "handle" /\ req[q].op = "createReview"
                               /\ r.user = req[q].user /\ r.on \in items
            /\ r.found \subseteq req[q].found \/ (r.found \subseteq votes /\ UNCHANGED votes)
            /\ r.pc \in {"cast", "retract"} =>
                 \A v \in r.found \union r.todo : ~Locked(v.by, v.review)
            /\ r.pc = "cast" =>
                 /\ req[q].pc = "handle" /\ req[q].op = "voteReview" /\ UNCHANGED tableVars
                 /\ \A v \in r.todo : /\ v.by = req[q].user /\ v.review \in reviews
                                      /\ VotesBy(v.by, v.review) \subseteq r.found
            /\ req' = [req EXCEPT ![q] = r]

\* What the filter makes of what is thrown.
Messages ==
  {"clientOffline", "connectionClosed", "streamNotWriteable", "constraint", "foreignKey",
   "invalidText", "statement", "seedError"}
Thrown ==
  {GqlHttpError(c) : c \in Codes} \union {HttpException(c) : c \in Codes} \union {AggregateError}
    \union {DriverError(m) : m \in Messages}

LEMMA AnswerIsCode ==
  ASSUME NEW o, NEW x \in Thrown  PROVE  Answer(o, x) \in Codes
BY GqlAnswer, HttpAnswer, DriverAnswer, AggregateAnswer DEF Thrown, Codes

LEMMA Throws ==
  /\ \A c \in Codes : GqlHttpError(c) \in Thrown /\ HttpException(c) \in Thrown
  /\ AggregateError \in Thrown
  /\ DriverError("clientOffline") \in Thrown /\ DriverError("connectionClosed") \in Thrown
  /\ DriverError("streamNotWriteable") \in Thrown /\ DriverError("constraint") \in Thrown
  /\ DriverError("foreignKey") \in Thrown /\ DriverError("invalidText") \in Thrown
  /\ DriverError("statement") \in Thrown /\ DriverError("seedError") \in Thrown
  /\ \A o : TooManyRequests(o) \in Thrown
  /\ {"BAD_REQUEST", "SERVICE_UNAVAILABLE", "NOT_FOUND", "CONFLICT", "UNAUTHORIZED",
      "FORBIDDEN", "INTERNAL_SERVER_ERROR"} \subseteq Codes
BY DEF Thrown, Messages, TooManyRequests, Codes

LEMMA FinishGoes ==
  ASSUME RequestsInv, NEW q \in Requests, NEW x \in Codes \union {"OK"}, Finish(q, x),
         req[q].pc \notin {"idle", "seeding"}, UNCHANGED <<seed, procVars>>
  PROVE  Goes(q)
<1> DEFINE r == [NoRequest EXCEPT !.answer = x]
<1>1. RequestOK(r) /\ r.pc = "idle" /\ r.answer = x
  BY NoRequestOK
<1>2. r.found = {} /\ x # "lost"
  BY DEF NoRequest, Codes
<1>3. req' = [req EXCEPT ![q] = r]
  BY DEF Finish
<1> HIDE DEF r
<1> QED  BY <1>1, <1>2, <1>3 DEF Goes

LEMMA ThrowGoes ==
  ASSUME RequestsInv, NEW q \in Requests, NEW x \in Thrown, Throw(q, x),
         req[q].pc \notin {"idle", "seeding"}, UNCHANGED <<seed, procVars>>
  PROVE  Goes(q)
BY AnswerIsCode, FinishGoes DEF Throw

LEMMA GoGoes ==
  ASSUME RequestsInv, accounts \subseteq Ids, NEW q \in Requests,
         NEW pc \in {"guard", "handle", "add"}, Go(q, pc),
         req[q].pc \notin {"idle", "seeding"}, UNCHANGED <<seed, procVars>>,
         pc \in {"guard", "handle"} => req[q].pc \in {"throttle", "guard"},
         pc = "handle" => Policy[req[q].op].public \/ req[q].user \in accounts
  PROVE  Goes(q)
<1> DEFINE r == [req[q] EXCEPT !.pc = pc]
<1>0. req[q] \in RequestRecord /\ RequestOK(req[q])
  BY DEF RequestsInv
<1>1. r \in RequestRecord /\ r.pc = pc /\ r.proc = req[q].proc /\ r.op = req[q].op
      /\ r.user = req[q].user /\ r.found = req[q].found /\ r.answer = req[q].answer
  BY <1>0 DEF RequestRecord, RequestSteps
<1>2. req' = [req EXCEPT ![q] = r]
  BY DEF Go, RequestsInv
<1> HIDE DEF r
<1>3. RequestOK(r) /\ r.answer # "lost"
  BY <1>0, <1>1 DEF RequestOK
<1> QED  BY <1>1, <1>2, <1>3 DEF Goes

\* q goes on for another user.
LEMMA AsUserGoes ==
  ASSUME RequestsInv, NEW q \in Requests, NEW pc \in {"session", "remove"}, NEW u \in People,
         req' = [req EXCEPT ![q].pc = pc, ![q].user = u],
         req[q].pc \notin {"idle", "seeding"}, UNCHANGED <<seed, procVars>>
  PROVE  Goes(q)
<1> DEFINE r == [req[q] EXCEPT !.pc = pc, !.user = u]
<1>0. req[q] \in RequestRecord /\ RequestOK(req[q]) /\ u \in Ids
  BY DEF RequestsInv, People, Ids
<1>3. r \in RequestRecord /\ r.pc = pc /\ r.proc = req[q].proc /\ r.op = req[q].op
      /\ r.user = u /\ r.found = req[q].found /\ r.answer = req[q].answer
  BY <1>0 DEF RequestRecord, RequestSteps
<1> HIDE DEF r
<1>1. RequestOK(r) /\ r.answer # "lost"
  BY <1>0, <1>3 DEF RequestOK
<1>2. req' = [req EXCEPT ![q] = r]
  BY DEF RequestsInv, r
<1> QED  BY <1>1, <1>2, <1>3 DEF Goes

LEMMA SaveGoes ==
  ASSUME RequestsInv, NEW q \in Requests, NEW i \in Ids, i \in items, i # req[q].user,
         req' = [req EXCEPT ![q].pc = "save", ![q].on = i],
         req[q].pc = "handle", UNCHANGED <<seed, procVars>>,
         req[q].op = "createReview"
  PROVE  Goes(q)
<1> DEFINE r == [req[q] EXCEPT !.pc = "save", !.on = i]
<1>0. req[q] \in RequestRecord /\ RequestOK(req[q])
  BY DEF RequestsInv
<1>3. r \in RequestRecord /\ r.pc = "save" /\ r.proc = req[q].proc /\ r.op = req[q].op
      /\ r.user = req[q].user /\ r.on = i /\ r.found = req[q].found /\ r.answer = req[q].answer
  BY <1>0 DEF RequestRecord, RequestSteps
<1> HIDE DEF r
<1>1. RequestOK(r) /\ r.answer # "lost"
  BY <1>0, <1>3 DEF RequestOK
<1>2. req' = [req EXCEPT ![q] = r]
  BY DEF RequestsInv, r
<1> QED  BY <1>1, <1>2, <1>3 DEF Goes

\* A deletion has read its account and the votes.
LEMMA FindAccountGoes ==
  ASSUME RowsInv, RequestsInv, NEW q \in Requests, FindAccount(q)
  PROVE  Goes(q)
<1>0. /\ req[q] \in RequestRecord /\ RequestOK(req[q]) /\ req[q].pc = "remove"
      /\ UNCHANGED <<seed, procVars, votes>>
  BY DEF RequestsInv, FindAccount, Alone, tableVars
<1>1. CASE req[q].user \notin accounts
  BY <1>0, <1>1, Throws, ThrowGoes DEF FindAccount
<1>2. CASE req[q].user \in accounts
  <2> DEFINE mine == {v \in votes : v.by = req[q].user}
             r == [req[q] EXCEPT !.pc = "revoke", !.found = mine]
  <2>1. mine \subseteq votes /\ mine \subseteq VoteRows
    BY DEF RowsInv
  <2> HIDE DEF mine
  <2>2. r \in RequestRecord /\ r.pc = "revoke" /\ r.proc = req[q].proc /\ r.op = req[q].op
        /\ r.user = req[q].user /\ r.found = mine /\ r.answer = req[q].answer
    BY <1>0, <2>1 DEF RequestRecord, RequestSteps
  <2>3. req' = [req EXCEPT ![q] = r]
    BY <1>0, <1>2 DEF FindAccount, RequestsInv, mine
  <2> HIDE DEF r
  <2>4. RequestOK(r) /\ r.answer # "lost"
    BY <1>0, <2>2 DEF RequestOK
  <2> QED  BY <1>0, <2>1, <2>2, <2>3, <2>4 DEF Goes
<1> QED  BY <1>1, <1>2

\* A transaction has its lock, and has read the vote that there is.
LEMMA FindVoteGoes ==
  ASSUME RowsInv, RequestsInv, NEW q \in Requests, FindVote(q)
  PROVE  Goes(q)
<1>0. /\ req[q] \in RequestRecord /\ RequestOK(req[q]) /\ req[q].pc = "handle"
      /\ req[q].op \in {"voteReview", "deleteVote"} /\ UNCHANGED <<seed, procVars, tableVars>>
  BY DEF RequestsInv, FindVote, Handling, Alone
<1>1. CASE Throw(q, GqlHttpError("NOT_FOUND")) \/ Finish(q, "OK")
  BY <1>0, <1>1, Throws, ThrowGoes, FinishGoes
<1>2. CASE ~(Throw(q, GqlHttpError("NOT_FOUND")) \/ Finish(q, "OK"))
  <2> DEFINE u == req[q].user
  <2>1. PICK row \in reviews, action \in VoteAction :
          LET previous == VotesBy(u, row)
              todo == IF req[q].op = "deleteVote" THEN {}
                      ELSE {[review |-> row, by |-> u, action |-> action]}
          IN /\ ~Locked(u, row)
             /\ req' = [req EXCEPT ![q].pc = IF todo = {} THEN "retract" ELSE "cast",
                                   ![q].found = previous, ![q].todo = todo]
    BY <1>2 DEF FindVote
  <2> DEFINE previous == VotesBy(u, row)
             todo == IF req[q].op = "deleteVote" THEN {}
                     ELSE {[review |-> row, by |-> u, action |-> action]}
             pc == IF todo = {} THEN "retract" ELSE "cast"
             r == [req[q] EXCEPT !.pc = pc, !.found = previous, !.todo = todo]
  <2>2. previous \subseteq votes /\ previous \subseteq VoteRows
        /\ \A v \in previous : v.by = u /\ v.review = row
    BY DEF RowsInv, VotesBy
  <2>3. /\ todo \subseteq VoteRows /\ \A v \in todo : v.by = u /\ v.review = row
        /\ todo # {} => req[q].op = "voteReview"
    <3>1. CASE req[q].op = "deleteVote"
      BY <3>1
    <3>2. CASE req[q].op # "deleteVote"
      <4>1. req[q].op = "voteReview" /\ u \in Ids
        BY <1>0, <3>2, Guarded DEF RequestOK, RequestRecord
      <4>2. row \in ReviewRows
        BY DEF RowsInv
      <4> QED  BY <3>2, <4>1, <4>2 DEF VoteRows
    <3> QED  BY <3>1, <3>2
  <2>4. pc \in {"cast", "retract"} /\ (pc = "cast" => todo # {})
    OBVIOUS
  <2>5. req' = [req EXCEPT ![q] = r]
    BY <2>1 DEF RequestsInv
  <2>6. ~Locked(u, row) /\ previous = VotesBy(u, row)
    BY <2>1
  <2> HIDE DEF todo, pc, previous
  <2>7. r \in RequestRecord /\ r.pc = pc /\ r.proc = req[q].proc /\ r.op = req[q].op
        /\ r.user = u /\ r.found = previous /\ r.todo = todo /\ r.answer = req[q].answer
    BY <1>0, <2>2, <2>3, <2>4 DEF RequestRecord, RequestSteps
  <2> HIDE DEF r
  <2>8. RequestOK(r) /\ r.answer # "lost"
    <3>1. OnePair(previous \union todo)
      BY <2>2, <2>3 DEF OnePair
    <3> QED  BY <1>0, <2>4, <2>7, <3>1 DEF RequestOK
  <2>9. \A v \in r.found \union r.todo : ~Locked(v.by, v.review)
    <3>1. \A v \in r.found \union r.todo : v.by = u /\ v.review = row
      BY <2>2, <2>3, <2>7
    <3> QED  BY <2>6, <3>1
  <2>10. r.pc = "cast" =>
           /\ req[q].op = "voteReview"
           /\ \A v \in r.todo : /\ v.by = req[q].user /\ v.review \in reviews
                                /\ VotesBy(v.by, v.review) \subseteq r.found
    <3> SUFFICES ASSUME r.pc = "cast"
                 PROVE  /\ req[q].op = "voteReview"
                        /\ \A v \in r.todo : /\ v.by = req[q].user /\ v.review \in reviews
                                             /\ VotesBy(v.by, v.review) \subseteq r.found
      OBVIOUS
    <3>1. req[q].op = "voteReview"
      BY <2>3, <2>4, <2>7
    <3>2. \A v \in r.todo : v.by = u /\ v.review = row
      BY <2>3, <2>7
    <3> QED  BY <2>6, <2>7, <3>1, <3>2
  <2>11. r.found \subseteq votes /\ UNCHANGED votes
    BY <1>0, <2>2, <2>7 DEF tableVars
  <2> QED  BY <1>0, <2>4, <2>5, <2>7, <2>8, <2>9, <2>10, <2>11 DEF Goes
<1> QED  BY <1>1, <1>2

LEMMA StepGoes ==
  ASSUME ServerInv, NEW q \in Requests, Acts(q)
  PROVE  Goes(q) \/ RunSeed(q) \/ SeedAnswered(q)
<1>0. RequestsInv /\ RowsInv /\ accounts \subseteq Ids
  BY DEF ServerInv, ControlInv, RowsInv
<1> USE DEF Alone, RowsOnly, SessionsOnly, Handling
<1>1. CASE Throttle(q)
  <2> DEFINE next == IF Policy[req[q].op].public THEN "handle" ELSE "guard"
  <2>1. UNCHANGED <<seed, procVars>> /\ req[q].pc = "throttle"
    BY <1>1 DEF Throttle, seedingVars
  <2>2. (\E x \in Thrown : Throw(q, x)) \/ Go(q, next)
    BY <1>1, Throws DEF Throttle
  <2>3. next \in {"guard", "handle", "add"} /\ (next = "handle" => Policy[req[q].op].public)
    OBVIOUS
  <2> QED  BY <1>0, <2>1, <2>2, <2>3, ThrowGoes, GoGoes
<1>2. CASE Guards(q)
  <2>1. UNCHANGED <<seed, procVars>> /\ req[q].pc = "guard"
    BY <1>2 DEF Guards, seedingVars
  <2>2. (\E x \in Thrown : Throw(q, x)) \/ (Go(q, "handle") /\ req[q].user \in accounts)
    BY <1>2, Throws DEF Guards
  <2> QED  BY <1>0, <2>1, <2>2, ThrowGoes, GoGoes
<1>3. CASE SignUp(q)
  <2>1. UNCHANGED <<seed, procVars>> /\ req[q].pc = "handle"
    BY <1>3 DEF SignUp
  <2>2. \/ \E x \in Thrown : Throw(q, x)
        \/ \E u \in People : req' = [req EXCEPT ![q].pc = "session", ![q].user = u]
    BY <1>3, Throws, FreshIsNew DEF SignUp, BadRequest, People
  <2> QED  BY <1>0, <2>1, <2>2, ThrowGoes, AsUserGoes
<1>4. CASE SignIn(q)
  <2>1. UNCHANGED <<seed, procVars>> /\ req[q].pc = "handle"
    BY <1>4 DEF SignIn
  <2>2. \/ \E x \in Thrown : Throw(q, x)
        \/ \E u \in People : req' = [req EXCEPT ![q].pc = "session", ![q].user = u]
    BY <1>4, Throws DEF SignIn
  <2> QED  BY <1>0, <2>1, <2>2, ThrowGoes, AsUserGoes
<1>5. CASE CreateSession(q)
  BY <1>0, <1>5, Throws, ThrowGoes, FinishGoes DEF CreateSession
<1>6. CASE SignOut(q)
  BY <1>0, <1>6, Throws, ThrowGoes, FinishGoes DEF SignOut
<1>7. CASE SpendLink(q)
  <2>1. UNCHANGED <<seed, procVars>> /\ req[q].pc = "handle"
    BY <1>7 DEF SpendLink
  <2>2. \/ \E x \in Thrown : Throw(q, x)
        \/ \E u \in People : req' = [req EXCEPT ![q].pc = "remove", ![q].user = u]
    BY <1>7, Throws DEF SpendLink, RefuseLink
  <2> QED  BY <1>0, <2>1, <2>2, ThrowGoes, AsUserGoes
<1>8. CASE RemoveAccount(q)
  <2>1. UNCHANGED <<seed, procVars>> /\ req[q].pc = "revoke"
    BY <1>8 DEF RemoveAccount
  <2>2. (\E x \in Thrown : Throw(q, x)) \/ Finish(q, "OK")
    BY <1>8, Throws DEF RemoveAccount
  <2> QED  BY <1>0, <2>1, <2>2, ThrowGoes, FinishGoes
<1>9. CASE CreateOneItem(q)
  BY <1>0, <1>9, Throws, ThrowGoes, FinishGoes DEF CreateOneItem, BadRequest
<1>10. CASE FindItemToReview(q)
  <2>1. UNCHANGED <<seed, procVars>> /\ req[q].pc = "handle" /\ req[q].op = "createReview"
    BY <1>10 DEF FindItemToReview
  <2>2. \/ \E x \in Thrown : Throw(q, x)
        \/ \E i \in Ids : /\ i \in items /\ i # req[q].user
                          /\ req' = [req EXCEPT ![q].pc = "save", ![q].on = i]
    BY <1>10, Throws DEF FindItemToReview, BadRequest
  <2> QED  BY <1>0, <2>1, <2>2, ThrowGoes, SaveGoes
<1>11. CASE SaveReview(q)
  <2>1. UNCHANGED <<seed, procVars>> /\ req[q].pc = "save"
    BY <1>11 DEF SaveReview
  <2>2. (\E x \in Thrown : Throw(q, x)) \/ Finish(q, "OK")
    BY <1>11, Throws DEF SaveReview
  <2> QED  BY <1>0, <2>1, <2>2, ThrowGoes, FinishGoes
<1>12. CASE CastVote(q)
  <2>1. UNCHANGED <<seed, procVars>> /\ req[q].pc = "cast"
    BY <1>12 DEF CastVote
  <2>2. (\E x \in Thrown : Throw(q, x)) \/ Finish(q, "OK")
    BY <1>12, Throws DEF CastVote
  <2> QED  BY <1>0, <2>1, <2>2, ThrowGoes, FinishGoes
<1>13. CASE RetractVote(q)
  BY <1>0, <1>13, Throws, ThrowGoes, FinishGoes DEF RetractVote
<1>14. CASE Query(q)
  <2>1. UNCHANGED <<seed, procVars>> /\ req[q].pc = "handle"
    BY <1>14 DEF Query
  <2>2. (\E x \in Thrown : Throw(q, x)) \/ Finish(q, "OK") \/ Go(q, "add")
    BY <1>14, Throws DEF Query, BadRequest
  <2> QED  BY <1>0, <2>1, <2>2, ThrowGoes, GoGoes, FinishGoes
<1>15. CASE FindAddressee(q)
  <2>1. UNCHANGED <<seed, procVars>> /\ req[q].pc = "handle"
    BY <1>15 DEF FindAddressee
  <2>2. Finish(q, "OK") \/ Go(q, "add")
    BY <1>15 DEF FindAddressee
  <2> QED  BY <1>0, <2>1, <2>2, GoGoes, FinishGoes
<1>16. CASE AddJob(q)
  BY <1>0, <1>16, Throws, ThrowGoes, FinishGoes DEF AddJob
<1>17. CASE CheckHealth(q)
  BY <1>0, <1>17, Throws, ThrowGoes, FinishGoes DEF CheckHealth
<1>18. CASE RefuseText(q)
  BY <1>0, <1>18, Throws, ThrowGoes DEF RefuseText
<1>19. CASE StatementFails(q)
  <2>1. UNCHANGED <<seed, procVars>> /\ req[q].pc \notin {"idle", "seeding"}
    BY <1>19 DEF StatementFails
  <2>2. \E x \in Thrown : Throw(q, x)
    BY <1>19, Throws DEF StatementFails
  <2> QED  BY <1>0, <2>1, <2>2, ThrowGoes
<1>20. CASE FindVote(q) \/ FindAccount(q)
  BY <1>0, <1>20, FindVoteGoes, FindAccountGoes
<1> QED
  BY <1>1, <1>2, <1>3, <1>4, <1>5, <1>6, <1>7, <1>8, <1>9, <1>10, <1>11, <1>12, <1>13, <1>14,
     <1>15, <1>16, <1>17, <1>18, <1>19, <1>20 DEF Acts, Step

-----------------------------------------------------------------------------
(* The steps of seeds.                                                     *)

LEMMA ShuffledDraws ==
  ASSUME NEW C, NEW max \in Nat, NEW s \in Shuffled(C, max)
  PROVE  s \subseteq C /\ (IsFiniteSet(C) /\ C # {} /\ max > 0 => s # {})
<1> DEFINE n == IF Cardinality(C) < max THEN Cardinality(C) ELSE max
<1>1. PICK drawn \in [1..n -> C] : s = Range(drawn) /\ Cardinality(s) = n
  BY DEF Shuffled
<1>2. s \subseteq C
  BY <1>1 DEF Range
<1>3. ASSUME IsFiniteSet(C), C # {}, max > 0, s = {} PROVE FALSE
  <2>1. Cardinality(C) \in Nat /\ Cardinality(C) # 0
    BY <1>3, FS_CardinalityType, FS_EmptySet
  <2>2. Cardinality(s) = 0
    BY <1>3, FS_EmptySet
  <2> QED  BY <1>1, <1>3, <2>1, <2>2
<1> QED  BY <1>2, <1>3

\* The seed of a goes on, or ends.
SeedMoves(a) ==
  /\ UNCHANGED <<procVars, req, limitVars, live, down>>
  /\ seed[a].pc \notin Ended
  /\ \E s : /\ SeedOK(s) /\ s.pc \notin {"off", "clean"}
            /\ seed[a].pc \in {"refresh", "update"} => s.pc \in {"update", "done", "refused"}
            /\ seed' = [seed EXCEPT ![a] = s]

LEMMA EndMoves ==
  ASSUME NEW a \in Seeders, NEW pc \in {"done", "failed", "refused"},
         Become(a, [NoSeed EXCEPT !.pc = pc]), seed[a].pc \notin Ended,
         pc # "failed" \/ seed[a].pc \notin {"refresh", "update"},
         UNCHANGED <<procVars, req, limitVars, live, down>>
  PROVE  SeedMoves(a)
<1> DEFINE s == [NoSeed EXCEPT !.pc = pc]
<1>0. NoSeed \in SeedRecord
  BY NoSeedOK DEF SeedOK
<1>1. s \in SeedRecord /\ s.pc = pc
  BY <1>0 DEF SeedRecord, SeedSteps
<1>2. Become(a, s)
  OBVIOUS
<1> HIDE DEF s
<1>3. SeedOK(s)
  BY <1>1 DEF SeedOK
<1> QED  BY <1>1, <1>2, <1>3 DEF SeedMoves, Become

\* The next of the rows to save is saved.
LEMMA SavedOK ==
  ASSUME NEW s, SeedOK(s), NEW row, NEW next \in {"findReviewUsers", "findVoteUsers", "refresh"},
         s.pc \in {"items", "reviews", "votes"}
  PROVE  /\ SeedOK(Then(s, s.todo \ {row}, next))
         /\ Then(s, s.todo \ {row}, next).pc = (IF s.todo \ {row} = {} THEN next ELSE s.pc)
         /\ Then(s, s.todo \ {row}, next).todo = s.todo \ {row}
         /\ Then(s, s.todo \ {row}, next).users = s.users
<1> DEFINE rest == s.todo \ {row}
           t == Then(s, rest, next)
<1>1. s \in SeedRecord
  BY DEF SeedOK
<1>2. /\ t \in SeedRecord /\ t.todo = rest /\ t.left = s.left /\ t.users = s.users
      /\ t.pc = IF rest = {} THEN next ELSE s.pc
  BY <1>1 DEF Then, SeedRecord, SeedSteps
<1> HIDE DEF t
<1>3. SeedOK(t)
  BY <1>2 DEF SeedOK
<1> QED  BY <1>2, <1>3 DEF t

LEMMA SeedStepMoves ==
  ASSUME RowsInv, SeedsInv, NEW a \in Seeders, SeedActs(a)
  PROVE  SeedMoves(a)
<1>0. /\ SeedOK(seed[a]) /\ seed[a] \in SeedRecord
      /\ UNCHANGED <<procVars, req, limitVars, live, down>>
  BY DEF SeedsInv, SeedActs, SeedStep, SeedRefused
<1>f. ASSUME Fail(a), seed[a].pc \notin Ended \union {"refresh", "update"} PROVE SeedMoves(a)
  BY <1>0, <1>f, EndMoves DEF Fail
<1>g. ASSUME NEW s, SeedOK(s), s.pc \notin {"off", "clean"}, Become(a, s),
             seed[a].pc \notin Ended \union {"refresh", "update"}
      PROVE  SeedMoves(a)
  BY <1>0, <1>g DEF SeedMoves, Become
<1>1. CASE CleanDb(a)
  <2> DEFINE s == [NoSeed EXCEPT !.pc = "users", !.left = SeedUsers]
  <2>2. SeedUsers \in 0..SeedUsers /\ SeedUsers > 0
    OBVIOUS
  <2>4. NoSeed \in SeedRecord
    BY NoSeedOK DEF SeedOK
  <2>3. s \in SeedRecord /\ s.pc = "users" /\ s.left = SeedUsers
    BY <2>2, <2>4 DEF SeedRecord, SeedSteps
  <2> HIDE DEF s
  <2>1. SeedOK(s) /\ s.pc = "users"
    BY <2>2, <2>3 DEF SeedOK
  <2> QED  BY <1>1, <1>g, <2>1 DEF CleanDb, Ended, s
<1>2. CASE CreateUser(a, FreshId(SeedIds))
  <2> DEFINE left == seed[a].left - 1
             s == [seed[a] EXCEPT !.left = left, !.pc = IF left = 0 THEN "findItemUsers" ELSE @]
  <2>1. seed[a].pc = "users" /\ seed[a].left \in 0..SeedUsers /\ seed[a].left > 0
        /\ Become(a, s)
    BY <1>0, <1>2 DEF CreateUser, SeedOK, SeedRecord
  <2>2. left \in 0..SeedUsers /\ (left # 0 => left > 0)
    BY <2>1
  <2> HIDE DEF left
  <2>3. s \in SeedRecord /\ s.left = left
        /\ s.pc = IF left = 0 THEN "findItemUsers" ELSE "users"
    BY <1>0, <2>1, <2>2 DEF SeedRecord, SeedSteps
  <2> HIDE DEF s
  <2>4. SeedOK(s) /\ s.pc \notin {"off", "clean"}
    BY <2>2, <2>3 DEF SeedOK
  <2> QED  BY <1>g, <2>1, <2>4 DEF Ended, s
<1>3. CASE FindUsers(a)
  <2> DEFINE users == accounts \ {Administrator}
  <2>1. seed[a].pc \in {"findItemUsers", "findReviewUsers", "findVoteUsers"}
    BY <1>3 DEF FindUsers
  <2>2. users \subseteq Ids
    BY DEF RowsInv
  <2> HIDE DEF users
  <2>3. \/ Fail(a)
        \/ seed[a].pc = "findItemUsers" /\ Become(a, [seed[a] EXCEPT !.pc = "items", !.todo = users])
        \/ Become(a, [seed[a] EXCEPT !.pc = "findItems", !.users = users])
        \/ Become(a, [seed[a] EXCEPT !.pc = "findReviews", !.users = users])
    BY <1>3 DEF FindUsers, users
  <2>4. CASE Become(a, [seed[a] EXCEPT !.pc = "items", !.todo = users])
    <3> DEFINE s == [seed[a] EXCEPT !.pc = "items", !.todo = users]
    <3>1. s \in SeedRecord /\ s.pc = "items" /\ s.todo = users
      BY <1>0, <2>2 DEF SeedRecord, SeedSteps
    <3> HIDE DEF s
    <3>2. SeedOK(s)
      BY <2>2, <3>1 DEF SeedOK
    <3> QED  BY <1>g, <2>1, <2>4, <3>1, <3>2 DEF Ended, s
  <2>5. ASSUME NEW pc \in {"findItems", "findReviews"},
               Become(a, [seed[a] EXCEPT !.pc = pc, !.users = users])
        PROVE  SeedMoves(a)
    <3> DEFINE s == [seed[a] EXCEPT !.pc = pc, !.users = users]
    <3>1. s \in SeedRecord /\ s.pc = pc
      BY <1>0, <2>2 DEF SeedRecord, SeedSteps
    <3> HIDE DEF s
    <3>2. SeedOK(s)
      BY <3>1 DEF SeedOK
    <3> QED  BY <1>g, <2>1, <2>5, <3>1, <3>2 DEF Ended, s
  <2> QED  BY <1>f, <2>1, <2>3, <2>4, <2>5 DEF Ended
<1>4. CASE CreateItem(a)
  <2>1. PICK u \in seed[a].todo :
          \/ Fail(a)
          \/ Become(a, Then(seed[a], seed[a].todo \ {u}, "findReviewUsers"))
    BY <1>4 DEF CreateItem
  <2> QED  BY <1>0, <1>4, <1>f, <1>g, <2>1, SavedOK DEF CreateItem, Ended
<1>5. CASE FindItems(a)
  <2>1. \/ Fail(a)
        \/ \E chosen \in Shuffled(ReviewCandidates(a), SeedReviews) :
             Become(a, [seed[a] EXCEPT !.pc = IF chosen = {} THEN "findVoteUsers" ELSE "reviews",
                                       !.users = {}, !.todo = chosen])
    BY <1>5 DEF FindItems
  <2>2. seed[a].pc \notin Ended \union {"refresh", "update"}
    BY <1>5 DEF FindItems, Ended
  <2>3. ASSUME NEW chosen \in Shuffled(ReviewCandidates(a), SeedReviews),
               Become(a, [seed[a] EXCEPT !.pc = IF chosen = {} THEN "findVoteUsers" ELSE "reviews",
                                         !.users = {}, !.todo = chosen])
        PROVE  SeedMoves(a)
    <3> DEFINE s == [seed[a] EXCEPT !.pc = IF chosen = {} THEN "findVoteUsers" ELSE "reviews",
                                    !.users = {}, !.todo = chosen]
    <3>1. chosen \subseteq ReviewCandidates(a)
      BY <2>3, ShuffledDraws
    <3>2. ReviewCandidates(a) \subseteq ReviewRows
      BY <1>0 DEF ReviewCandidates, ReviewRows, RowsInv, KeysHold, SeedRecord
    <3>3. /\ s \in SeedRecord /\ s.todo = chosen
          /\ s.pc = IF chosen = {} THEN "findVoteUsers" ELSE "reviews"
      BY <1>0, <3>1, <3>2 DEF SeedRecord, SeedSteps
    <3> HIDE DEF s
    <3>4. SeedOK(s) /\ s.pc \notin {"off", "clean"}
      BY <3>1, <3>2, <3>3 DEF SeedOK
    <3>5. Become(a, s)
      BY <2>3 DEF s
    <3> QED  BY <1>g, <2>2, <3>4, <3>5
  <2> QED  BY <1>f, <2>1, <2>2, <2>3
<1>6. CASE CreateReview(a)
  <2>1. PICK r \in seed[a].todo :
          \/ Fail(a)
          \/ Become(a, Then(seed[a], seed[a].todo \ {r}, "findVoteUsers"))
    BY <1>6 DEF CreateReview
  <2> QED  BY <1>0, <1>6, <1>f, <1>g, <2>1, SavedOK DEF CreateReview, Ended
<1>7. CASE FindReviews(a)
  <2>1. \/ Fail(a)
        \/ \E chosen \in Shuffled(VoteCandidates(a), SeedVotes) :
             Become(a, [seed[a] EXCEPT !.pc = "votes", !.users = {}, !.todo = chosen])
    BY <1>7 DEF FindReviews
  <2>2. seed[a].pc \notin Ended \union {"refresh", "update"}
    BY <1>7 DEF FindReviews, Ended
  <2>3. ASSUME NEW chosen \in Shuffled(VoteCandidates(a), SeedVotes),
               Become(a, [seed[a] EXCEPT !.pc = "votes", !.users = {}, !.todo = chosen])
        PROVE  SeedMoves(a)
    <3> DEFINE s == [seed[a] EXCEPT !.pc = "votes", !.users = {}, !.todo = chosen]
    <3>1. chosen \subseteq VoteCandidates(a)
      BY <2>3, ShuffledDraws
    <3>2. VoteCandidates(a) \subseteq Ballots
      BY <1>0 DEF VoteCandidates, Ballots, RowsInv, SeedRecord
    <3>3. s \in SeedRecord /\ s.todo = chosen /\ s.pc = "votes"
      BY <1>0, <3>1, <3>2 DEF SeedRecord, SeedSteps
    <3> HIDE DEF s
    <3>4. SeedOK(s) /\ s.pc \notin {"off", "clean"}
      BY <3>1, <3>2, <3>3 DEF SeedOK
    <3>5. Become(a, s)
      BY <2>3 DEF s
    <3> QED  BY <1>g, <2>2, <3>4, <3>5
  <2> QED  BY <1>f, <2>1, <2>2, <2>3
<1>8. CASE CreateVote(a)
  <2>1. PICK v \in seed[a].todo :
          \/ Fail(a)
          \/ Become(a, Then(seed[a], seed[a].todo \ {v}, "refresh"))
    BY <1>8 DEF CreateVote
  <2> QED  BY <1>0, <1>8, <1>f, <1>g, <2>1, SavedOK DEF CreateVote, Ended
<1>9. CASE RefreshSnapshot(a)
  <2> DEFINE s == [NoSeed EXCEPT !.pc = "update", !.recount = Recount]
  <2>1. Recount \in Recounts
    <3> DEFINE rows == {r \in reviews : tally[r] # Counts[r]}
    <3>1. Recount = [r \in rows |-> Counts[r]] /\ rows \in SUBSET ReviewRows
      BY DEF Recount, RowsInv
    <3>2. \A r \in rows : Counts[r] \in Counters
      BY CountsTyped DEF RowsInv
    <3> HIDE DEF rows
    <3>3. Recount \in [rows -> Counters]
      BY <3>1, <3>2
    <3> QED  BY <3>1, <3>3 DEF Recounts
  <2>2. NoSeed \in SeedRecord
    BY NoSeedOK DEF SeedOK
  <2>3. s \in SeedRecord /\ s.pc = "update"
    BY <2>1, <2>2 DEF SeedRecord, SeedSteps
  <2>4. Become(a, s) /\ seed[a].pc = "refresh"
    BY <1>9 DEF RefreshSnapshot
  <2> HIDE DEF s
  <2>5. SeedOK(s)
    BY <2>3 DEF SeedOK
  <2> QED  BY <1>0, <2>3, <2>4, <2>5 DEF SeedMoves, Become, Ended
<1>10. CASE RefreshUpdate(a)
  BY <1>0, <1>10, EndMoves DEF RefreshUpdate, Ended
<1>11. CASE StatementRefused(a)
  BY <1>0, <1>11, EndMoves DEF StatementRefused, Running
<1> QED
  BY <1>1, <1>2, <1>3, <1>4, <1>5, <1>6, <1>7, <1>8, <1>9, <1>10, <1>11
  DEF SeedActs, SeedStep, SeedRefused

-----------------------------------------------------------------------------
(* The processes, the seeds and the requests fit together.                 *)

LEMMA LostOK ==
  LET r == [NoRequest EXCEPT !.answer = "lost"] IN RequestOK(r) /\ r.pc = "idle"
BY NoRequestOK

LEMMA ProcessesAreNot ==
  /\ \A q \in Requests : q \notin Processes /\ q # Cron /\ q \in Seeders
  /\ \A p \in Processes : p # Cron /\ p \in Seeders
OBVIOUS

\* Who does not go on to change votes takes no lock.
LEMMA LocksStay ==
  ASSUME LocksInv,
         \A q \in Requests : req'[q] = req[q] \/ req'[q].pc \notin {"cast", "retract"}
  PROVE  LocksInv'
<1> SUFFICES ASSUME NEW q \in Voting', NEW o \in Voting', q # o,
                    NEW v \in req'[q].found \union req'[q].todo,
                    NEW w \in req'[o].found \union req'[o].todo
             PROVE  ~(v.by = w.by /\ v.review = w.review)
  BY DEF LocksInv
<1>1. q \in Voting /\ o \in Voting /\ req'[q] = req[q] /\ req'[o] = req[o]
  BY DEF Voting
<1> QED  BY <1>1 DEF LocksInv

LEMMA ConnStays ==
  ASSUME ConnInv, UNCHANGED <<phase, conn>>
  PROVE  ConnInv'
BY DEF ConnInv, Closing, Closed

LEMMA EndsControl ==
  ASSUME ServerInv, NEW p \in Processes, Ends(p)
  PROVE  ControlInv'
<1> USE DEF ServerInv, ControlInv
<1>1. /\ phase' = [phase EXCEPT ![p] = "down"] /\ fatal' = [fatal EXCEPT ![p] = FALSE]
      /\ listening' = listening \ {p} /\ UNCHANGED production
      /\ conn' = [conn EXCEPT ![p] = AllOpen]
      /\ seed' = [a \in Seeders |-> IF a = p \/ a \in On(p) THEN NoSeed ELSE seed[a]]
      /\ req' = [q \in Requests |->
                   IF q \in On(p) THEN [NoRequest EXCEPT !.answer = "lost"] ELSE req[q]]
      /\ On(p) = {q \in Requests : req[q].pc # "idle" /\ req[q].proc = p}
  BY DEF Ends, Exit, settings, On, InFlight
<1> HIDE DEF On
<1>2. SeedsInv'
  <2>1. \A a \in Seeders : SeedOK(seed'[a])
    BY <1>1, NoSeedOK DEF SeedsInv
  <2> QED  BY <1>1, <2>1 DEF SeedsInv, SeedOK
<1>3. RequestsInv'
  <2>1. \A q \in Requests : RequestOK(req'[q])
    BY <1>1, LostOK DEF RequestsInv
  <2> QED  BY <1>1, <2>1 DEF RequestsInv, RequestOK
<1>4. ProcsInv'
  BY <1>1 DEF ProcsInv, Closing, Phases
<1>8. ConnInv'
  BY <1>1 DEF ConnInv, ProcsInv, Closing, Closed, AllOpen, Connections
<1>9. NightSeeds' /\ LocksInv'
  <2>1. NightSeeds'
    BY <1>1, NoSeedOK DEF NightSeeds
  <2>2. \A q \in Requests : req'[q] = req[q] \/ req'[q].pc \notin {"cast", "retract"}
    BY <1>1, LostOK
  <2> QED  BY <2>1, <2>2, LocksStay
<1>5. BootSeeds'
  <2> SUFFICES ASSUME NEW b \in Processes, seed'[b].pc # "off"
               PROVE  /\ production' /\ phase'[b] \in {"seeding", "destroy", "dispose", "disconnect"}
                      /\ b \notin listening'
                      /\ \A q \in Requests : req'[q].pc # "idle" => req'[q].proc # b
    BY DEF BootSeeds, InFlight
  <2>1. b # p /\ seed'[b] = seed[b]
    BY <1>1, NoSeedOK
  <2>2. \A q \in Requests : req'[q].pc # "idle" => req'[q] = req[q]
    BY <1>1, LostOK
  <2>3. phase'[b] = phase[b]
    BY <1>1, <2>1 DEF ProcsInv
  <2> QED  BY <1>1, <2>1, <2>2, <2>3 DEF BootSeeds, InFlight
<1>6. RequestSeeds'
  BY <1>1, NoSeedOK, LostOK, ProcessesAreNot DEF RequestSeeds
<1>7. Served'
  <2> SUFFICES ASSUME NEW q \in Requests, req'[q].pc # "idle"
               PROVE  phase'[req'[q].proc] \in {"serving", "destroy", "dispose"}
    BY DEF Served, InFlight
  <2>1. q \notin On(p) /\ req'[q] = req[q]
    BY <1>1, LostOK
  <2>2. req[q].proc # p
    BY <1>1, <2>1
  <2>3. req[q].proc \in Processes
    BY <2>1 DEF RequestsInv, RequestOK
  <2> QED  BY <1>1, <2>1, <2>2, <2>3 DEF Served, InFlight, ProcsInv
<1> QED  BY <1>2, <1>3, <1>4, <1>5, <1>6, <1>7, <1>8, <1>9

LEMMA ClosesControl ==
  ASSUME ServerInv, NEW p \in Processes, Closes(p)
  PROVE  ControlInv'
<1> USE DEF ServerInv, ControlInv
<1>1. PICK forced \in BOOLEAN :
        /\ phase' = [phase EXCEPT ![p] = "destroy"] /\ fatal' = [fatal EXCEPT ![p] = forced]
        /\ UNCHANGED <<listening, seed, req, production, conn>>
  BY DEF Closes, Close, settings
<1>0. phase[p] \notin {"down", "connect", "dispose", "disconnect"}
  BY DEF Closes
<1>2. SeedsInv' /\ RequestsInv' /\ RequestSeeds' /\ NightSeeds' /\ LocksInv'
  BY <1>1, LocksStay DEF SeedsInv, RequestsInv, RequestSeeds, NightSeeds
<1>3. ProcsInv'
  BY <1>1 DEF ProcsInv, Closing, Phases
<1>5. ConnInv'
  BY <1>1 DEF ConnInv, ProcsInv, Closing, Closed
<1>4. BootSeeds' /\ Served'
  BY <1>0, <1>1 DEF BootSeeds, Served, InFlight, ProcsInv, RequestsInv, RequestOK
<1> QED  BY <1>2, <1>3, <1>4, <1>5

LEMMA SettlesControl ==
  ASSUME ServerInv, NEW p \in Processes, Settles(p)
  PROVE  ControlInv'
<1> USE DEF ServerInv, ControlInv
<1>1. PICK c \in Connections, how \in {"closed", "failed"} :
        Settle(p, c, how) /\ (c = "queueRedis" => how = "closed")
  BY DEF Settles
<1>2. /\ UNCHANGED <<seed, req, production, phase, fatal, listening>>
      /\ conn' = [conn EXCEPT ![p][c] = how] /\ phase[p] = "destroy"
  BY <1>1 DEF Settle, seedingVars, settings
<1>3. SeedsInv' /\ RequestsInv' /\ RequestSeeds' /\ NightSeeds' /\ LocksInv'
  BY <1>2, LocksStay DEF SeedsInv, RequestsInv, RequestSeeds, NightSeeds
<1>4. ProcsInv' /\ BootSeeds' /\ Served'
  BY <1>2 DEF ProcsInv, BootSeeds, Served, InFlight, Closing
<1>5. ConnInv'
  <2>1. conn' \in [Processes -> [Connections -> {"open", "closed", "failed"}]]
    BY <1>2 DEF ConnInv
  <2>2. /\ \A o \in Processes : o # p => conn'[o] = conn[o]
        /\ \A d \in Connections : conn'[p][d] = IF d = c THEN how ELSE conn[p][d]
        /\ "queueRedis" \in Connections
    BY <1>2 DEF ConnInv, Connections
  <2>3. \A o \in Processes : conn'[o]["queueRedis"] # "failed"
    BY <1>1, <2>2 DEF ConnInv
  <2>4. ASSUME NEW o \in Processes, NEW d \in Connections
        PROVE  /\ conn'[o][d] # "open" => Closing(o)'
               /\ phase'[o] \in {"dispose", "disconnect"} => Closed(o, d)'
    <3>1. CASE o = p
      BY <1>2, <3>1 DEF Closing
    <3>2. CASE o # p
      BY <1>2, <2>2, <3>2 DEF ConnInv, Closing, Closed
    <3> QED  BY <3>1, <3>2
  <2> QED  BY <2>1, <2>3, <2>4 DEF ConnInv
<1> QED  BY <1>3, <1>4, <1>5

LEMMA AdvancesControl ==
  ASSUME ServerInv, NEW p \in Processes, Advances(p) \/ Misses(p)
  PROVE  ControlInv'
<1> USE DEF ServerInv, ControlInv
<1>1. UNCHANGED <<seed, req, production, fatal, conn>>
  BY DEF Advances, Misses, Start, Connect, Disposes, Dispose, Listen, seedingVars, settings
<1>2. SeedsInv' /\ RequestsInv' /\ RequestSeeds' /\ NightSeeds' /\ LocksInv'
  BY <1>1, LocksStay DEF SeedsInv, RequestsInv, RequestSeeds, NightSeeds
<1>3. \/ /\ phase[p] = "down" /\ phase' = [phase EXCEPT ![p] = "connect"] /\ UNCHANGED listening
      \/ /\ phase[p] = "connect" /\ phase' = [phase EXCEPT ![p] = "findAdmin"]
         /\ UNCHANGED listening
      \/ /\ phase[p] = "findAdmin" /\ phase' = [phase EXCEPT ![p] = "saveAdmin"]
         /\ UNCHANGED listening
      \/ /\ phase[p] = "listen" /\ phase' = [phase EXCEPT ![p] = "serving"]
         /\ listening' = listening \union {p}
      \/ /\ phase[p] = "destroy" /\ phase' = [phase EXCEPT ![p] = "dispose"]
         /\ listening' = listening \ {p} /\ \A c \in Connections : Closed(p, c)
      \/ /\ phase[p] = "dispose" /\ phase' = [phase EXCEPT ![p] = "disconnect"]
         /\ UNCHANGED listening /\ \A q \in Requests : ~(InFlight(q) /\ req[q].proc = p)
  BY DEF Advances, Misses, Start, Connect, Disposes, Dispose, Listen, On
<1>4. ProcsInv'
  BY <1>1, <1>3 DEF ProcsInv, Closing, Phases
<1>7. ConnInv'
  BY <1>1, <1>3 DEF ConnInv, ProcsInv, Closing, Closed
<1>5. BootSeeds'
  BY <1>1, <1>3 DEF BootSeeds, InFlight, ProcsInv
<1>6. Served'
  BY <1>1, <1>3 DEF Served, InFlight, ProcsInv, RequestsInv, RequestOK
<1> QED  BY <1>2, <1>4, <1>5, <1>6, <1>7

LEMMA BootControl ==
  ASSUME ServerInv, NEW p \in Processes, Prepares(p) \/ SeedExecuted(p)
  PROVE  ControlInv'
<1> USE DEF ServerInv, ControlInv
<1>0. UNCHANGED <<req, production, fatal, listening, conn>>
  BY DEF Prepares, SeedExecuted, settings
<1>1. PICK s, to :
        /\ SeedOK(s) /\ seed' = [seed EXCEPT ![p] = s] /\ phase' = [phase EXCEPT ![p] = to]
        /\ to \in {"seeding", "listen"} /\ (s.pc # "off" => production /\ to = "seeding")
        /\ phase[p] \in {"findAdmin", "saveAdmin", "seeding"}
  <2>1. CASE Prepares(p) /\ production
    BY <2>1, NoSeedOK DEF Prepares, SeedProd, Become
  <2>2. CASE Prepares(p) /\ ~production
    <3>1. phase' = [phase EXCEPT ![p] = "listen"] /\ UNCHANGED seed
          /\ phase[p] \in {"findAdmin", "saveAdmin"}
      BY <2>2 DEF Prepares, SeedProd
    <3>2. seed[p].pc = "off" /\ SeedOK(seed[p]) /\ seed' = [seed EXCEPT ![p] = seed[p]]
      BY <3>1 DEF BootSeeds, SeedsInv
    <3> QED  BY <3>1, <3>2
  <2>3. CASE SeedExecuted(p)
    BY <2>3, NoSeedOK DEF SeedExecuted, Become
  <2> QED  BY <2>1, <2>2, <2>3
<1>2. SeedsInv'
  BY <1>1 DEF SeedsInv, SeedOK
<1>3. RequestsInv' /\ LocksInv' /\ NightSeeds'
  BY <1>0, <1>1, LocksStay, ProcessesAreNot DEF RequestsInv, NightSeeds, SeedsInv
<1>4. ProcsInv'
  BY <1>0, <1>1 DEF ProcsInv, Closing, Phases
<1>9. ConnInv'
  BY <1>0, <1>1 DEF ConnInv, ProcsInv, Closing, Closed
<1>5. p \notin listening /\ \A q \in Requests : InFlight(q) => req[q].proc # p
  BY <1>1 DEF ProcsInv, Served
<1>6. BootSeeds'
  BY <1>0, <1>1, <1>5 DEF BootSeeds, InFlight, ProcsInv, SeedsInv
<1>7. RequestSeeds'
  BY <1>0, <1>1, ProcessesAreNot DEF RequestSeeds, SeedsInv
<1>8. Served'
  BY <1>0, <1>1, <1>5 DEF Served, InFlight, ProcsInv, RequestsInv, RequestOK
<1> QED  BY <1>2, <1>3, <1>4, <1>6, <1>7, <1>8, <1>9

LEMMA MidnightControl ==
  ASSUME ServerInv, NEW p \in Processes, Midnight(p)
  PROVE  ControlInv'
<1> USE DEF ServerInv, ControlInv
<1>1. UNCHANGED <<procVars, req>> /\ seed' = [seed EXCEPT ![Cron] = Recounting]
  BY DEF Midnight, Become
<1>2. SeedsInv' /\ NightSeeds' /\ \A a \in Seeders : a # Cron => seed'[a] = seed[a]
  BY <1>1, NoSeedOK DEF SeedsInv, NightSeeds, SeedOK
<1>3. RequestsInv' /\ ProcsInv' /\ ConnInv' /\ Served' /\ LocksInv'
  BY <1>1, LocksStay, ConnStays
  DEF RequestsInv, ProcsInv, Served, procVars, settings, Closing, InFlight
<1>4. BootSeeds' /\ RequestSeeds'
  BY <1>1, <1>2, ProcessesAreNot DEF BootSeeds, RequestSeeds, procVars, settings, InFlight
<1> QED  BY <1>2, <1>3, <1>4

LEMMA SeedControl ==
  ASSUME ServerInv, NEW a \in Seeders, SeedMoves(a)
  PROVE  ControlInv'
<1> USE DEF ServerInv, ControlInv
<1>1. PICK s : /\ SeedOK(s) /\ s.pc \notin {"off", "clean"} /\ seed' = [seed EXCEPT ![a] = s]
               /\ seed[a].pc \in {"refresh", "update"} => s.pc \in {"update", "done", "refused"}
  BY DEF SeedMoves
<1>2. UNCHANGED <<procVars, req>> /\ seed[a].pc \notin Ended /\ seed[a].pc # "off"
  BY DEF SeedMoves, Ended
<1>3. SeedsInv' /\ NightSeeds'
  BY <1>1, <1>2 DEF SeedsInv, SeedOK, NightSeeds, Ended
<1>4. RequestsInv' /\ ProcsInv' /\ ConnInv' /\ Served' /\ LocksInv'
  BY <1>2, LocksStay, ConnStays
  DEF RequestsInv, ProcsInv, Served, procVars, settings, Closing, InFlight
<1>5. BootSeeds' /\ RequestSeeds'
  BY <1>1, <1>2 DEF BootSeeds, RequestSeeds, procVars, settings, InFlight, SeedsInv
<1> QED  BY <1>3, <1>4, <1>5

LEMMA GoesControl ==
  ASSUME ServerInv, NEW q \in Requests, Goes(q)
  PROVE  ControlInv'
<1> USE DEF ServerInv, ControlInv
<1>1. PICK r : /\ RequestOK(r) /\ r.pc # "seeding" /\ req' = [req EXCEPT ![q] = r]
               /\ r.pc # "idle" => r.proc = req[q].proc
               /\ r.pc \in {"cast", "retract"} =>
                    \A v \in r.found \union r.todo : ~Locked(v.by, v.review)
  BY DEF Goes
<1>2. UNCHANGED <<seed, procVars>> /\ req[q].pc # "idle" /\ req[q].pc # "seeding"
  BY DEF Goes
<1>3. SeedsInv' /\ ProcsInv' /\ ConnInv' /\ NightSeeds'
  BY <1>2, ConnStays DEF SeedsInv, ProcsInv, procVars, settings, Closing, NightSeeds
<1>4. RequestsInv'
  <2>1. r \in RequestRecord
    BY <1>1 DEF RequestOK
  <2>2. req' \in [Requests -> RequestRecord]
    BY <1>1, <2>1 DEF RequestsInv
  <2>3. ASSUME NEW x \in Requests
        PROVE  RequestOK(req'[x])
    BY <1>1 DEF RequestsInv
  <2> QED  BY <2>2, <2>3 DEF RequestsInv
<1>5. BootSeeds' /\ RequestSeeds' /\ Served'
  <2>1. BootSeeds'
    BY <1>1, <1>2 DEF BootSeeds, procVars, settings, InFlight, RequestsInv
  <2>2. RequestSeeds'
    BY <1>1, <1>2 DEF RequestSeeds, procVars, settings, InFlight, RequestsInv
  <2>3. Served'
    BY <1>1, <1>2 DEF Served, procVars, settings, InFlight, RequestsInv
  <2> QED  BY <2>1, <2>2, <2>3
<1>6. LocksInv'
  <2> SUFFICES ASSUME NEW a \in Voting', NEW o \in Voting', a # o,
                      NEW v \in req'[a].found \union req'[a].todo,
                      NEW w \in req'[o].found \union req'[o].todo,
                      v.by = w.by, v.review = w.review
               PROVE  FALSE
    BY DEF LocksInv
  <2>1. /\ a \in Requests /\ o \in Requests
        /\ req'[a].pc \in {"cast", "retract"} /\ req'[o].pc \in {"cast", "retract"}
    BY DEF Voting
  <2>2. \A x \in Requests : req'[x] = IF x = q THEN r ELSE req[x]
    BY <1>1 DEF RequestsInv
  <2>3. CASE a # q /\ o # q
    BY <2>1, <2>2, <2>3 DEF LocksInv, Voting
  <2>4. CASE a = q
    <3>1. o \in Voting /\ w \in req[o].found \union req[o].todo
          /\ ~Locked(v.by, v.review)
      BY <1>1, <2>1, <2>2, <2>4 DEF Voting
    <3> QED  BY <3>1 DEF Locked
  <2>5. CASE o = q
    <3>1. a \in Voting /\ v \in req[a].found \union req[a].todo
          /\ ~Locked(w.by, w.review)
      BY <1>1, <2>1, <2>2, <2>5 DEF Voting
    <3> QED  BY <3>1 DEF Locked
  <2> QED  BY <2>3, <2>4, <2>5
<1> QED  BY <1>3, <1>4, <1>5, <1>6

LEMMA SeedRequestControl ==
  ASSUME ServerInv, NEW q \in Requests, RunSeed(q) \/ SeedAnswered(q)
  PROVE  ControlInv'
<1> USE DEF ServerInv, ControlInv
<1>1. PICK r, s :
        /\ RequestOK(r) /\ req' = [req EXCEPT ![q] = r] /\ (r.pc # "idle" => r.proc = req[q].proc)
        /\ SeedOK(s) /\ seed' = [seed EXCEPT ![q] = s] /\ (s.pc # "off" <=> r.pc = "seeding")
        /\ r.pc \notin {"cast", "retract"}
  <2>1. CASE RunSeed(q)
    <3> DEFINE r == [req[q] EXCEPT !.pc = "seeding"]
    <3>1. req[q] \in RequestRecord /\ RequestOK(req[q]) /\ req[q].pc = "handle"
          /\ req[q].op = "runSeed"
      BY <2>1 DEF RequestsInv, RunSeed, Handling
    <3>2. r \in RequestRecord /\ r.pc = "seeding" /\ r.proc = req[q].proc /\ r.op = req[q].op
          /\ r.user = req[q].user /\ r.found = req[q].found /\ r.answer = req[q].answer
      BY <3>1 DEF RequestRecord, RequestSteps
    <3> HIDE DEF r
    <3>3. RequestOK(r)
      BY <3>1, <3>2 DEF RequestOK
    <3>4. req' = [req EXCEPT ![q] = r] /\ seed' = [seed EXCEPT ![q] = NewSeed]
      BY <2>1 DEF RunSeed, Go, Become, RequestsInv, r
    <3> QED  BY <3>2, <3>3, <3>4, NoSeedOK
  <2>2. CASE SeedAnswered(q)
    <3>1. PICK x \in Codes \union {"OK"} : Finish(q, x)
      BY <2>2, Throws, AnswerIsCode DEF SeedAnswered, Throw
    <3> DEFINE r == [NoRequest EXCEPT !.answer = x]
    <3>2. RequestOK(r) /\ r.pc = "idle"
      BY NoRequestOK
    <3>3. req' = [req EXCEPT ![q] = r] /\ seed' = [seed EXCEPT ![q] = NoSeed]
      BY <2>2, <3>1 DEF SeedAnswered, Become, Finish
    <3> HIDE DEF r
    <3> QED  BY <3>2, <3>3, NoSeedOK
  <2> QED  BY <2>1, <2>2
<1>2. UNCHANGED procVars /\ req[q].pc # "idle" /\ q \in Seeders /\ q \notin Processes
  BY ProcessesAreNot DEF RunSeed, SeedAnswered, Handling
<1>3. SeedsInv' /\ RequestsInv' /\ NightSeeds'
  <2>1. SeedsInv'
    BY <1>1, <1>2 DEF SeedsInv, SeedOK
  <2>2. RequestsInv'
    <3>1. r \in RequestRecord
      BY <1>1 DEF RequestOK
    <3>2. req' \in [Requests -> RequestRecord]
      BY <1>1, <3>1 DEF RequestsInv
    <3>3. ASSUME NEW x \in Requests
          PROVE  RequestOK(req'[x])
      BY <1>1 DEF RequestsInv
    <3> QED  BY <3>2, <3>3 DEF RequestsInv
  <2>3. NightSeeds'
    BY <1>1, ProcessesAreNot DEF NightSeeds, SeedsInv
  <2> QED  BY <2>1, <2>2, <2>3
<1>4. ProcsInv' /\ ConnInv'
  BY <1>2, ConnStays DEF ProcsInv, procVars, settings, Closing
<1>6. LocksInv'
  BY <1>1, LocksStay DEF RequestsInv
<1>5. BootSeeds' /\ RequestSeeds' /\ Served'
  <2>1. BootSeeds'
    BY <1>1, <1>2 DEF BootSeeds, procVars, settings, InFlight, RequestsInv, SeedsInv
  <2>2. RequestSeeds'
    BY <1>1, <1>2 DEF RequestSeeds, procVars, settings, InFlight, RequestsInv, SeedsInv
  <2>3. Served'
    BY <1>1, <1>2 DEF Served, procVars, settings, InFlight, RequestsInv, SeedsInv
  <2> QED  BY <2>1, <2>2, <2>3
<1> QED  BY <1>3, <1>4, <1>5, <1>6

LEMMA ArriveControl ==
  ASSUME ServerInv, NEW q \in Requests, NEW p \in Processes, Arrive(q, p)
  PROVE  ControlInv'
<1> USE DEF ServerInv, ControlInv
<1>1. PICK r : /\ RequestOK(r) /\ req' = [req EXCEPT ![q] = r]
               /\ r.pc \notin {"seeding", "cast", "retract"}
               /\ r.pc # "idle" => r.proc = p
  <2>1. PICK o \in Ops, u \in Cookies :
          LET new == [NoRequest EXCEPT !.pc = "throttle", !.op = o, !.proc = p, !.user = u]
          IN req' = [req EXCEPT ![q] =
                IF u = Nobody \/ Up("auth") THEN new
                ELSE [NoRequest EXCEPT !.answer = Answer(o, DriverError("clientOffline"))]]
    BY DEF Arrive
  <2> DEFINE new == [NoRequest EXCEPT !.pc = "throttle", !.op = o, !.proc = p, !.user = u]
             x == Answer(o, DriverError("clientOffline"))
             refused == [NoRequest EXCEPT !.answer = x]
  <2>2. u \in People \union {Nobody}
    BY DEF Cookies
  <2>3. new \in RequestRecord /\ new.pc = "throttle" /\ new.op = o /\ new.proc = p
        /\ new.user = u /\ new.answer = "none" /\ new.found = {}
    BY <2>2 DEF RequestRecord, RequestSteps, NoRequest, People, Ids
  <2>4. x \in Codes
    BY Throws, AnswerIsCode
  <2>5. RequestOK(refused) /\ refused.pc = "idle"
    BY <2>4, NoRequestOK
  <2>6. req' = [req EXCEPT ![q] = new] \/ req' = [req EXCEPT ![q] = refused]
    BY <2>1
  <2> HIDE DEF new, refused
  <2>7. RequestOK(new)
    BY <2>2, <2>3 DEF RequestOK
  <2> QED  BY <2>3, <2>5, <2>6, <2>7
<1>2. UNCHANGED <<seed, procVars>> /\ req[q].pc = "idle" /\ p \in listening
  BY DEF Arrive, seedingVars, InFlight
<1>3. SeedsInv' /\ ProcsInv' /\ ConnInv' /\ NightSeeds'
  BY <1>2, ConnStays DEF SeedsInv, ProcsInv, procVars, settings, Closing, NightSeeds
<1>4. RequestsInv' /\ LocksInv'
  <2>1. r \in RequestRecord
    BY <1>1 DEF RequestOK
  <2>2. req' \in [Requests -> RequestRecord]
    BY <1>1, <2>1 DEF RequestsInv
  <2>3. ASSUME NEW x \in Requests
        PROVE  RequestOK(req'[x])
    BY <1>1 DEF RequestsInv
  <2>4. LocksInv'
    BY <1>1, LocksStay DEF RequestsInv
  <2> QED  BY <2>2, <2>3, <2>4 DEF RequestsInv
<1>5. BootSeeds' /\ RequestSeeds' /\ Served'
  <2>1. BootSeeds'
    BY <1>1, <1>2 DEF BootSeeds, procVars, settings, InFlight, RequestsInv, ProcsInv
  <2>2. RequestSeeds'
    BY <1>1, <1>2 DEF RequestSeeds, procVars, settings, InFlight, RequestsInv, ProcsInv
  <2>3. Served'
    BY <1>1, <1>2 DEF Served, procVars, settings, InFlight, RequestsInv, ProcsInv
  <2> QED  BY <2>1, <2>2, <2>3
<1> QED  BY <1>3, <1>4, <1>5

-----------------------------------------------------------------------------
(* The rows, whose keys every statement keeps.                             *)

\* What the CHECK on the counters lets through is not negative.
LEMMA DecrementedTyped ==
  ASSUME RowsInv, NEW gone, ~Uncountable(gone)
  PROVE  Decremented(gone) \in [reviews -> Counters]
<1>1. ASSUME NEW r \in reviews, NEW action \in VoteAction
      PROVE  tally[r][action] - (IF \E v \in gone : v.review = r /\ v.action = action THEN 1 ELSE 0)
               \in Nat
  <2>1. tally[r][action] \in Nat
    BY DEF RowsInv, Counters
  <2>2. CASE \E v \in gone : v.review = r /\ v.action = action
    <3>1. tally[r][action] # 0
      BY <2>2 DEF Uncountable
    <3> QED  BY <2>1, <2>2, <3>1
  <2>3. CASE ~\E v \in gone : v.review = r /\ v.action = action
    BY <2>1, <2>3
  <2> QED  BY <2>2, <2>3
<1> QED  BY <1>1 DEF Decremented, Counters

\* The cascade of a delete that keeps some accounts leaves no row without those it names.
LEMMA CascadeKeeps ==
  ASSUME RowsInv, NEW kept \in SUBSET accounts, NEW T \in [reviews -> Counters],
         accounts' = kept, items' = ItemsOf(kept), reviews' = ReviewsOf(kept),
         votes' = VotesOf(kept), tally' = [r \in ReviewsOf(kept) |-> T[r]]
  PROVE  RowsInv'
<1>1. reviews' \subseteq reviews /\ votes' \subseteq votes
  BY DEF ReviewsOf, VotesOf
<1>2. \A r \in reviews' : r.item \in items' /\ r.by \in accounts'
  BY DEF RowsInv, KeysHold, ReviewsOf, ItemsOf
<1>3. \A v \in votes' : v.review \in reviews' /\ v.by \in accounts'
  BY DEF VotesOf
<1>4. tally' \in [reviews' -> Counters]
  BY <1>1
<1>5. items' \subseteq accounts'
  BY DEF ItemsOf
<1>6. KeysHold'
  BY <1>1, <1>2, <1>3, <1>5 DEF RowsInv, KeysHold
<1> QED  BY <1>1, <1>4, <1>6 DEF RowsInv

LEMMA InsertKeeps ==
  ASSUME RowsInv, NEW r \in ReviewRows, r.item \in items, r.by \in accounts, InsertReview(r),
         UNCHANGED <<accounts, items, votes>>
  PROVE  RowsInv'
<1>1. reviews' = reviews \union {r}
  BY DEF InsertReview
<1>2. Zero \in Counters
  BY DEF Zero, Counters
<1>3. tally' \in [reviews' -> Counters]
  BY <1>1, <1>2 DEF InsertReview, RowsInv
<1>4. KeysHold'
  BY <1>1 DEF RowsInv, KeysHold
<1> QED  BY <1>1, <1>3, <1>4 DEF RowsInv

\* A vote v in the place of those that its user has on the review.
LEMMA VoteKeeps ==
  ASSUME RowsInv, NEW gone, NEW v \in VoteRows, v.review \in reviews, v.by \in accounts,
         VotesBy(v.by, v.review) \subseteq gone, votes' = (votes \ gone) \union {v},
         UNCHANGED <<accounts, items, reviews>>, tally' \in [reviews -> Counters]
  PROVE  RowsInv'
<1>1. votes' \subseteq VoteRows /\ \A w \in votes' : w.review \in reviews /\ w.by \in accounts
  BY DEF RowsInv, KeysHold
<1>2. ASSUME NEW w \in votes', NEW x \in votes', w.by = x.by, w.review = x.review PROVE w = x
  <2>1. \A z \in votes \ gone : ~(z.by = v.by /\ z.review = v.review)
    BY DEF VotesBy
  <2> QED  BY <1>2, <2>1 DEF RowsInv, KeysHold
<1>3. KeysHold'
  BY <1>1, <1>2 DEF RowsInv, KeysHold
<1> QED  BY <1>1, <1>3 DEF RowsInv

LEMMA SeedRows ==
  ASSUME RowsInv, SeedsInv, NEW a \in Seeders, SeedActs(a)
  PROVE  RowsInv'
<1>0. SeedOK(seed[a]) /\ seed[a] \in SeedRecord
  BY DEF SeedsInv
<1>u. ASSUME UNCHANGED tableVars PROVE RowsInv'
  BY <1>u DEF tableVars, RowsInv, KeysHold
<1>1. CASE CleanDb(a)
  <2> DEFINE kept == accounts \intersect {Administrator}
  <2>1. /\ accounts' = kept /\ items' = ItemsOf(kept) /\ reviews' = ReviewsOf(kept)
        /\ votes' = VotesOf(kept) /\ tally' = [r \in ReviewsOf(kept) |-> tally[r]]
    BY <1>1 DEF CleanDb
  <2>2. kept \in SUBSET accounts /\ tally \in [reviews -> Counters]
    BY DEF RowsInv
  <2> HIDE DEF kept
  <2> QED  BY <2>1, <2>2, CascadeKeeps
<1>2. CASE HasFresh(SeedIds) /\ CreateUser(a, FreshId(SeedIds))
  <2>1. PICK id \in SeedIds : accounts' = accounts \union {id}
    BY <1>2, FreshIsNew DEF CreateUser
  <2>2. UNCHANGED <<items, reviews, votes, tally>>
    BY <1>2 DEF CreateUser
  <2>3. accounts' \subseteq Ids
    BY <2>1 DEF RowsInv, Ids
  <2> QED  BY <2>1, <2>2, <2>3 DEF RowsInv, KeysHold
<1>3. CASE \/ FindUsers(a) \/ FindItems(a) \/ FindReviews(a)
           \/ RefreshSnapshot(a) \/ StatementRefused(a)
  <2>1. UNCHANGED tableVars
    BY <1>3 DEF FindUsers, FindItems, FindReviews, RefreshSnapshot, StatementRefused, Fail
  <2> QED  BY <1>u, <2>1
<1>4. CASE CreateItem(a)
  <2>1. CASE UNCHANGED tableVars
    BY <1>u, <2>1
  <2>2. CASE ~UNCHANGED tableVars
    <3>1. PICK u \in accounts : items' = items \union {u}
                                /\ UNCHANGED <<accounts, reviews, votes, tally>>
      BY <1>4, <2>2 DEF CreateItem, Fail
    <3> QED  BY <3>1 DEF RowsInv, KeysHold
  <2> QED  BY <2>1, <2>2
<1>5. CASE CreateReview(a)
  <2>1. CASE UNCHANGED tableVars
    BY <1>u, <2>1
  <2>2. CASE ~UNCHANGED tableVars
    <3>1. PICK r \in seed[a].todo :
            /\ r.item \in items /\ r.by \in accounts /\ InsertReview(r)
            /\ UNCHANGED <<accounts, items, votes>>
      BY <1>5, <2>2 DEF CreateReview, Fail
    <3>2. r \in ReviewRows
      BY <1>0, <1>5 DEF CreateReview, SeedOK
    <3> QED  BY <3>1, <3>2, InsertKeeps
  <2> QED  BY <2>1, <2>2
<1>6. CASE CreateVote(a)
  <2>1. CASE UNCHANGED tableVars
    BY <1>u, <2>1
  <2>2. CASE ~UNCHANGED tableVars
    <3>1. PICK b \in seed[a].todo :
            /\ b.review \in reviews /\ b.by \in accounts /\ VotesBy(b.by, b.review) = {}
            /\ \E action \in VoteAction :
                 votes' = votes \union {[review |-> b.review, by |-> b.by, action |-> action]}
            /\ UNCHANGED <<accounts, items, reviews, tally>>
      BY <1>6, <2>2 DEF CreateVote, Fail
    <3>2. PICK action \in VoteAction :
            votes' = votes \union {[review |-> b.review, by |-> b.by, action |-> action]}
      BY <3>1
    <3> DEFINE v == [review |-> b.review, by |-> b.by, action |-> action]
    <3>3. b \in Ballots
      BY <1>0, <1>6 DEF CreateVote, SeedOK
    <3>4. v \in VoteRows /\ v.review = b.review /\ v.by = b.by
      BY <3>3 DEF VoteRows, Ballots
    <3>5. votes' = (votes \ {}) \union {v} /\ tally' \in [reviews -> Counters]
      BY <3>1, <3>2 DEF RowsInv
    <3> HIDE DEF v
    <3> QED  BY <3>1, <3>4, <3>5, VoteKeeps
  <2> QED  BY <2>1, <2>2
<1>7. CASE RefreshUpdate(a)
  <2>1. \A r \in DOMAIN seed[a].recount : seed[a].recount[r] \in Counters
    BY <1>0 DEF SeedRecord, Recounts
  <2>2. tally' \in [reviews -> Counters] /\ UNCHANGED <<accounts, items, reviews, votes>>
    BY <1>7, <2>1 DEF RefreshUpdate, RowsInv
  <2> QED  BY <2>2 DEF RowsInv, KeysHold
<1> QED
  BY <1>1, <1>2, <1>3, <1>4, <1>5, <1>6, <1>7 DEF SeedActs, SeedStep, SeedRefused

\* A request that reads, or only its sessions and its answer change.
Reads(q) ==
  \/ Throttle(q) \/ Guards(q) \/ SignIn(q) \/ CreateSession(q) \/ SignOut(q) \/ SpendLink(q)
  \/ FindAccount(q) \/ FindItemToReview(q) \/ FindVote(q) \/ Query(q) \/ RefuseText(q)
  \/ FindAddressee(q) \/ AddJob(q) \/ CheckHealth(q) \/ RunSeed(q) \/ SeedAnswered(q)
  \/ StatementFails(q)

LEMMA ReadsOnly ==
  ASSUME NEW q \in Requests, Reads(q)
  PROVE  UNCHANGED tableVars
BY DEF Reads, Throttle, Guards, SignIn, CreateSession, SignOut, SpendLink, FindAccount,
       FindItemToReview, FindVote, Query, RefuseText, FindAddressee, AddJob, CheckHealth, RunSeed,
       SeedAnswered, StatementFails, Alone, SessionsOnly, seedingVars

LEMMA StepCases ==
  ASSUME NEW q \in Requests, Acts(q)
  PROVE  \/ Reads(q) \/ SignUp(q) \/ RemoveAccount(q) \/ CreateOneItem(q) \/ SaveReview(q)
         \/ CastVote(q) \/ RetractVote(q)
BY DEF Acts, Step, Reads

LEMMA RequestRows ==
  ASSUME RowsInv, RequestsInv, NEW q \in Requests, Acts(q)
  PROVE  RowsInv'
<1>0. RequestOK(req[q]) /\ req[q] \in RequestRecord
  BY DEF RequestsInv
<1>u. ASSUME UNCHANGED tableVars PROVE RowsInv'
  BY <1>u DEF tableVars, RowsInv, KeysHold
<1>1. CASE Reads(q)
  BY <1>1, <1>u, ReadsOnly
<1>2. CASE SignUp(q)
  <2>1. UNCHANGED accounts \/ \E id \in PersonIds : accounts' = accounts \union {id}
    BY <1>2, FreshIsNew DEF SignUp
  <2>2. UNCHANGED <<items, reviews, votes, tally>>
    BY <1>2 DEF SignUp
  <2>3. accounts \subseteq accounts' /\ accounts' \subseteq Ids
    BY <2>1 DEF RowsInv, Ids
  <2> QED  BY <2>2, <2>3 DEF RowsInv, KeysHold
<1>3. CASE RemoveAccount(q)
  <2>1. CASE Uncountable(req[q].found)
    BY <1>3, <1>u, <2>1 DEF RemoveAccount
  <2>2. CASE ~Uncountable(req[q].found)
    <3> DEFINE kept == accounts \ {req[q].user}
               T == Decremented(req[q].found)
    <3>1. /\ accounts' = kept /\ items' = ItemsOf(kept) /\ reviews' = ReviewsOf(kept)
          /\ votes' = VotesOf(kept) /\ tally' = [r \in ReviewsOf(kept) |-> T[r]]
      BY <1>3, <2>2 DEF RemoveAccount
    <3>2. kept \in SUBSET accounts /\ T \in [reviews -> Counters]
      BY <2>2, DecrementedTyped
    <3> HIDE DEF kept, T
    <3> QED  BY <3>1, <3>2, CascadeKeeps
  <2> QED  BY <2>1, <2>2
<1>4. CASE CreateOneItem(q)
  <2>1. UNCHANGED items \/ \E u \in accounts : items' = items \union {u}
    BY <1>4 DEF CreateOneItem
  <2>2. UNCHANGED <<accounts, reviews, votes, tally>>
    BY <1>4 DEF CreateOneItem
  <2> QED  BY <2>1, <2>2 DEF RowsInv, KeysHold
<1>5. CASE SaveReview(q)
  <2> DEFINE r == [item |-> req[q].on, by |-> req[q].user]
  <2>1. \/ UNCHANGED <<reviews, tally>>
        \/ r.item \in items /\ r.by \in accounts /\ InsertReview(r)
    BY <1>5 DEF SaveReview
  <2>2. UNCHANGED <<accounts, items, votes>> /\ req[q].on # req[q].user
    BY <1>0, <1>5 DEF SaveReview, RequestOK
  <2>3. r.item \in items /\ r.by \in accounts => r \in ReviewRows
    BY <2>2 DEF RowsInv, KeysHold, ReviewRows
  <2> HIDE DEF r
  <2> QED  BY <1>u, <2>1, <2>2, <2>3, InsertKeeps DEF tableVars
<1>6. CASE CastVote(q)
  <2>0. UNCHANGED <<accounts, items, reviews>> /\ req[q].todo \subseteq VoteRows
    BY <1>0, <1>6 DEF CastVote, RequestRecord
  <2>1. PICK v \in req[q].todo :
          \/ UNCHANGED <<votes, tally>>
          \/ /\ v.by \in accounts /\ v.review \in reviews
             /\ VotesBy(v.by, v.review) \subseteq req[q].found
             /\ ~Uncountable(req[q].found)
             /\ votes' = (votes \ req[q].found) \union {v}
             /\ tally' = [Decremented(req[q].found) EXCEPT ![v.review][v.action] = @ + 1]
    BY <1>6 DEF CastVote
  <2>2. CASE UNCHANGED <<votes, tally>>
    BY <1>u, <2>0, <2>2 DEF tableVars
  <2>3. CASE ~UNCHANGED <<votes, tally>>
    <3>1. v \in VoteRows /\ v.action \in VoteAction
      BY <2>0 DEF VoteRows
    <3>2. Decremented(req[q].found) \in [reviews -> Counters]
      BY <2>1, <2>3, DecrementedTyped
    <3>3. tally' \in [reviews -> Counters]
      BY <2>1, <2>3, <3>1, <3>2 DEF Counters
    <3> QED  BY <2>0, <2>1, <2>3, <3>1, <3>3, VoteKeeps
  <2> QED  BY <2>2, <2>3
<1>7. CASE RetractVote(q)
  <2>0. UNCHANGED <<accounts, items, reviews>>
    BY <1>7 DEF RetractVote
  <2>1. CASE Uncountable(req[q].found)
    BY <1>7, <1>u, <2>0, <2>1 DEF RetractVote, tableVars
  <2>2. CASE ~Uncountable(req[q].found)
    <3>1. votes' \subseteq votes /\ tally' \in [reviews -> Counters]
      BY <1>7, <2>2, DecrementedTyped DEF RetractVote
    <3> QED  BY <2>0, <3>1 DEF RowsInv, KeysHold
  <2> QED  BY <2>1, <2>2
<1> QED
  BY <1>1, <1>2, <1>3, <1>4, <1>5, <1>6, <1>7, StepCases

LEMMA ProcessRows ==
  ASSUME RowsInv, NEW p \in Processes, ProcessStep(p)
  PROVE  RowsInv'
<1>1. CASE Prepares(p)
  BY <1>1 DEF Prepares, RowsInv, KeysHold, Ids
<1>2. CASE ~Prepares(p)
  <2>1. UNCHANGED tableVars
    BY <1>2 DEF ProcessStep, Ends, Closes, Settles, Settle, Advances, Misses, SeedExecuted, Start,
                Connect, Disposes, Dispose, Listen, Midnight, seedingVars
  <2> QED  BY <2>1 DEF tableVars, RowsInv, KeysHold
<1> QED  BY <1>1, <1>2

-----------------------------------------------------------------------------
(* The counters of the rate limiter.                                       *)

LEMMA OnlyThrottle ==
  ASSUME NEW q \in Requests, Acts(q)
  PROVE  IF req[q].pc = "throttle" THEN Throttle(q) ELSE UNCHANGED limitVars
BY DEF Acts, Step, Throttle, Guards, SignUp, SignIn, CreateSession, SignOut, SpendLink,
       FindAccount, RemoveAccount, CreateOneItem, FindItemToReview, SaveReview, FindVote, CastVote,
       RetractVote, Query, RefuseText, FindAddressee, AddJob, CheckHealth, RunSeed, SeedAnswered,
       StatementFails, Alone, RowsOnly, SessionsOnly, Handling

LEMMA ThrottleCounts ==
  ASSUME LimitsInv, RequestsInv, NEW q \in Requests, Throttle(q)
  PROVE  \/ UNCHANGED limitVars /\ req' = [req EXCEPT ![q] = req'[q]] /\ req'[q].pc = "idle"
         \/ /\ hits' \in [Ops -> Nat] /\ blocked' \in [Ops -> BOOLEAN]
            /\ \A o \in Ops \ {req[q].op} : hits'[o] = hits[o]
            /\ LET o == req[q].op
               IN IF hits[o] > Limit(o) THEN hits'[o] = hits[o] /\ req'[q].pc = "idle"
                  ELSE /\ hits'[o] = hits[o] + 1
                       /\ hits[o] + 1 > Limit(o) => req'[q].pc = "idle"
            /\ req' = [req EXCEPT ![q] = req'[q]]
<1> DEFINE o == req[q].op
           n == IF hits[o] > Limit(o) THEN hits[o] ELSE hits[o] + 1
<1>1. o \in Ops /\ req[q].pc = "throttle"
  BY DEF Throttle, RequestsInv, RequestOK
<1>2. Limit(o) \in Nat /\ hits[o] \in Nat /\ n \in Nat
  BY <1>1, PolicyTypes DEF LimitsInv
<1>3. ASSUME NEW x, Throw(q, x)
      PROVE  req' = [req EXCEPT ![q] = req'[q]] /\ req'[q].pc = "idle"
  BY <1>3 DEF Throw, Finish, NoRequest, RequestsInv
<1>4. ASSUME NEW pc, Go(q, pc) PROVE req' = [req EXCEPT ![q] = req'[q]]
  BY <1>4 DEF Go, RequestsInv
<1>5. CASE Closed(req[q].proc, "throttlerRedis") \/ ~Up("auth")
  <2>1. UNCHANGED limitVars /\ \E x : Throw(q, x)
    BY <1>5 DEF Throttle
  <2> QED  BY <1>3, <2>1
<1>6. CASE ~Closed(req[q].proc, "throttlerRedis") /\ Up("auth")
  <2>1. /\ hits' = [hits EXCEPT ![o] = n]
        /\ blocked' = [blocked EXCEPT ![o] = @ \/ n > Limit(o)]
        /\ IF blocked'[o] THEN Throw(q, TooManyRequests(o))
           ELSE Go(q, IF Policy[o].public THEN "handle" ELSE "guard")
    BY <1>6 DEF Throttle
  <2>2. req' = [req EXCEPT ![q] = req'[q]]
    BY <1>3, <1>4, <2>1
  <2>3. n > Limit(o) => blocked'[o]
    BY <1>1, <2>1 DEF LimitsInv
  <2>4. n > Limit(o) => req'[q].pc = "idle"
    BY <1>3, <2>1, <2>3
  <2>5. hits' \in [Ops -> Nat] /\ hits'[o] = n /\ \A b \in Ops \ {o} : hits'[b] = hits[b]
    BY <1>1, <1>2, <2>1 DEF LimitsInv
  <2>6. blocked' \in [Ops -> BOOLEAN]
    BY <1>1, <2>1 DEF LimitsInv
  <2>7. IF hits[o] > Limit(o) THEN hits'[o] = hits[o] /\ req'[q].pc = "idle"
        ELSE /\ hits'[o] = hits[o] + 1
             /\ hits[o] + 1 > Limit(o) => req'[q].pc = "idle"
    BY <1>2, <2>4, <2>5
  <2> QED  BY <2>2, <2>5, <2>6, <2>7
<1> QED  BY <1>5, <1>6

\* The steps that count nothing, and let no request through.
CountsNothing ==
  /\ hits' \in [Ops -> Nat] /\ blocked' \in [Ops -> BOOLEAN]
  /\ \A o \in Ops : hits'[o] = hits[o] \/ hits'[o] = 0
  /\ \A q \in Requests : req[q].pc = "throttle" => req'[q].pc \notin {"handle", "guard"}

LEMMA CountCases ==
  ASSUME ServerInv, ServerNext
  PROVE  (\E q \in Requests : Throttle(q)) \/ CountsNothing
<1> USE DEF ServerInv, ControlInv, LimitsInv
<1>1. CASE \E p \in Processes : ProcessStep(p)
  <2>1. PICK p \in Processes : ProcessStep(p)
    BY <1>1
  <2>2. UNCHANGED limitVars
    BY <2>1 DEF ProcessStep, Ends, Closes, Settles, Settle, Advances, Prepares, Misses,
                SeedExecuted, Start, Connect, Disposes, Dispose, Listen, Midnight
  <2>3. CASE Ends(p)
    <3>1. \A q \in Requests : req'[q] = req[q] \/ req'[q].pc = "idle"
      BY <2>3 DEF Ends, Exit, NoRequest
    <3> QED  BY <2>2, <3>1 DEF CountsNothing, limitVars
  <2>4. CASE ~Ends(p)
    <3>1. UNCHANGED req
      BY <2>1, <2>4 DEF ProcessStep, Closes, Close, Settles, Settle, Advances, Prepares, Misses,
                        SeedExecuted, Start, Connect, Disposes, Dispose, Listen, Midnight
    <3> QED  BY <2>2, <3>1 DEF CountsNothing, limitVars
  <2> QED  BY <2>3, <2>4
<1>2. CASE \E a \in Seeders : SeedActs(a)
  BY <1>2 DEF SeedActs, SeedStep, SeedRefused, CountsNothing, limitVars
<1>3. CASE \E q \in Requests : Acts(q)
  <2>1. PICK q \in Requests : Acts(q)
    BY <1>3
  <2>2. CASE req[q].pc = "throttle"
    BY <2>1, <2>2, OnlyThrottle
  <2>3. CASE req[q].pc # "throttle"
    <3>1. \A b \in Requests \ {q} : req'[b] = req[b]
      BY <2>1, StepGoes DEF Goes, RunSeed, SeedAnswered, Go, Finish, Throw, RequestsInv
    <3> QED  BY <2>1, <2>3, <3>1, OnlyThrottle DEF CountsNothing, limitVars
  <2> QED  BY <2>2, <2>3
<1>4. CASE \E q \in Requests, p \in Processes : Arrive(q, p)
  <2>1. PICK q \in Requests, p \in Processes : Arrive(q, p)
    BY <1>4
  <2>2. \A b \in Requests \ {q} : req'[b] = req[b]
    BY <2>1 DEF Arrive, RequestsInv
  <2>3. req[q].pc = "idle" /\ UNCHANGED limitVars
    BY <2>1 DEF Arrive, InFlight
  <2> QED  BY <2>2, <2>3 DEF CountsNothing, limitVars
<1>5. CASE Environment
  <2>1. UNCHANGED req
    BY <1>5 DEF Environment, Outage, Recovery, WindowEnds, BlockEnds
  <2>2. \/ UNCHANGED limitVars
        \/ \E o \in Ops : hits' = [hits EXCEPT ![o] = 0] /\ UNCHANGED blocked
        \/ \E o \in Ops : blocked' = [blocked EXCEPT ![o] = FALSE] /\ UNCHANGED hits
    BY <1>5 DEF Environment, Outage, Recovery, WindowEnds, BlockEnds
  <2>3. /\ hits' \in [Ops -> Nat] /\ blocked' \in [Ops -> BOOLEAN]
        /\ \A o \in Ops : hits'[o] = hits[o] \/ hits'[o] = 0
    <3>1. hits \in [Ops -> Nat] /\ blocked \in [Ops -> BOOLEAN]
      OBVIOUS
    <3>2. CASE UNCHANGED limitVars
      BY <3>1, <3>2 DEF limitVars
    <3>3. ASSUME NEW o \in Ops, hits' = [hits EXCEPT ![o] = 0], UNCHANGED blocked
          PROVE  /\ hits' \in [Ops -> Nat] /\ blocked' \in [Ops -> BOOLEAN]
                 /\ \A b \in Ops : hits'[b] = hits[b] \/ hits'[b] = 0
      BY <3>1, <3>3
    <3>4. ASSUME NEW o \in Ops, blocked' = [blocked EXCEPT ![o] = FALSE], UNCHANGED hits
          PROVE  /\ hits' \in [Ops -> Nat] /\ blocked' \in [Ops -> BOOLEAN]
                 /\ \A b \in Ops : hits'[b] = hits[b] \/ hits'[b] = 0
      BY <3>1, <3>4
    <3> QED  BY <2>2, <3>2, <3>3, <3>4
  <2> QED  BY <2>1, <2>3 DEF CountsNothing
<1> QED  BY <1>1, <1>2, <1>3, <1>4, <1>5, NextCases

LEMMA NextLimits ==
  ASSUME ServerInv, ServerNext
  PROVE  LimitsInv'
<1> USE DEF ServerInv, ControlInv
<1>0. \A o \in Ops : Limit(o) \in Nat
  BY PolicyTypes
<1>1. CASE CountsNothing
  BY <1>0, <1>1 DEF CountsNothing, LimitsInv
<1>2. CASE \E q \in Requests : Throttle(q)
  <2>1. PICK q \in Requests : Throttle(q)
    BY <1>2
  <2>2. req[q].op \in Ops
    BY <2>1 DEF Throttle, RequestsInv, RequestOK
  <2>3. CASE UNCHANGED limitVars
    BY <2>3 DEF limitVars, LimitsInv
  <2>4. CASE ~UNCHANGED limitVars
    <3>1. /\ hits' \in [Ops -> Nat] /\ blocked' \in [Ops -> BOOLEAN]
          /\ \A o \in Ops \ {req[q].op} : hits'[o] = hits[o]
          /\ LET o == req[q].op
             IN IF hits[o] > Limit(o) THEN hits'[o] = hits[o] ELSE hits'[o] = hits[o] + 1
      BY <2>1, <2>4, ThrottleCounts
    <3> QED  BY <1>0, <2>2, <3>1 DEF LimitsInv
  <2> QED  BY <2>3, <2>4
<1> QED  BY <1>1, <1>2, CountCases

-----------------------------------------------------------------------------
(* Every step keeps the invariant.                                         *)

LEMMA NextLive ==
  ASSUME ServerInv, ServerNext
  PROVE  live' \subseteq People
<1> USE DEF ServerInv, ControlInv
<1>1. CASE \E p \in Processes : ProcessStep(p)
  BY <1>1 DEF ProcessStep, Ends, Closes, Settles, Settle, Advances, Prepares, Misses, SeedExecuted,
              Start, Connect, Disposes, Dispose, Listen, Midnight
<1>2. CASE \E a \in Seeders : SeedActs(a)
  BY <1>2 DEF SeedActs, SeedStep, SeedRefused
<1>3. CASE \E q \in Requests : Acts(q)
  <2>1. PICK q \in Requests : Acts(q)
    BY <1>3
  <2>2. req[q].pc = "session" => req[q].user \in People
    BY DEF RequestsInv, RequestOK
  <2>3. CASE Guards(q) \/ CreateSession(q) \/ SignOut(q) \/ RemoveAccount(q)
    <3>1. live' \subseteq live \/ (live' = live \union {req[q].user} /\ req[q].pc = "session")
      <4>1. CASE Guards(q)
        BY <4>1 DEF Guards
      <4>2. CASE CreateSession(q)
        BY <4>2 DEF CreateSession
      <4>3. CASE SignOut(q)
        BY <4>3 DEF SignOut
      <4>4. CASE RemoveAccount(q)
        <5>1. UNCHANGED live \/ live' = IF Up("auth") THEN live \ {req[q].user} ELSE live
          BY <4>4 DEF RemoveAccount
        <5> QED  BY <5>1
      <4> QED  BY <2>3, <4>1, <4>2, <4>3, <4>4
    <3> QED  BY <2>2, <3>1
  <2>4. CASE ~(Guards(q) \/ CreateSession(q) \/ SignOut(q) \/ RemoveAccount(q))
    <3>1. UNCHANGED live
      BY <2>1, <2>4 DEF Acts, Step, Throttle, SignUp, SignIn, SpendLink, FindAccount, CreateOneItem,
                        FindItemToReview, SaveReview, FindVote, CastVote, RetractVote, Query,
                        RefuseText, FindAddressee, AddJob, CheckHealth, RunSeed, SeedAnswered,
                        StatementFails, Alone, RowsOnly
    <3> QED  BY <3>1
  <2> QED  BY <2>3, <2>4
<1>4. CASE \E q \in Requests, p \in Processes : Arrive(q, p)
  BY <1>4 DEF Arrive
<1>5. CASE Environment
  BY <1>5 DEF Environment, Outage, Recovery, WindowEnds, BlockEnds
<1> QED  BY <1>1, <1>2, <1>3, <1>4, <1>5, NextCases

LEMMA NextServerInv ==
  ASSUME ServerInv, ServerNext
  PROVE  ServerInv'
<1>0. RowsInv /\ SeedsInv /\ RequestsInv
  BY DEF ServerInv, ControlInv
<1>1. RowsInv' /\ ControlInv'
  <2>1. ASSUME NEW p \in Processes, ProcessStep(p) PROVE RowsInv' /\ ControlInv'
    BY <1>0, <2>1, ProcessRows, EndsControl, ClosesControl, SettlesControl, AdvancesControl,
       BootControl, MidnightControl DEF ProcessStep
  <2>2. ASSUME NEW a \in Seeders, SeedActs(a) PROVE RowsInv' /\ ControlInv'
    BY <1>0, <2>2, SeedRows, SeedStepMoves, SeedControl
  <2>3. ASSUME NEW q \in Requests, Acts(q) PROVE RowsInv' /\ ControlInv'
    BY <1>0, <2>3, RequestRows, StepGoes, GoesControl, SeedRequestControl
  <2>4. ASSUME NEW q \in Requests, NEW p \in Processes, Arrive(q, p)
        PROVE  RowsInv' /\ ControlInv'
    <3>1. UNCHANGED tableVars
      BY <2>4 DEF Arrive, seedingVars
    <3> QED  BY <1>0, <2>4, <3>1, ArriveControl DEF RowsInv, KeysHold, tableVars
  <2>5. ASSUME Environment PROVE RowsInv' /\ ControlInv'
    <3>1. UNCHANGED <<seedingVars, procVars, req>>
      BY <2>5 DEF Environment, Outage, Recovery, WindowEnds, BlockEnds
    <3>2. RowsInv'
      BY <1>0, <3>1 DEF RowsInv, KeysHold, tableVars, seedingVars
    <3>3. ControlInv'
      BY <3>1, LocksStay, ConnStays
      DEF ServerInv, ControlInv, SeedsInv, RequestsInv, ProcsInv, BootSeeds, RequestSeeds,
          NightSeeds, Served, Closing, InFlight, procVars, settings, seedingVars
    <3> QED  BY <3>2, <3>3
  <2> QED  BY <2>1, <2>2, <2>3, <2>4, <2>5, NextCases
<1> QED  BY <1>1, NextLimits, NextLive DEF ServerInv

LEMMA StutterInv ==
  ASSUME ServerInv, UNCHANGED serverVars
  PROVE  ServerInv'
BY LocksStay, ConnStays
DEF ServerInv, RowsInv, KeysHold, ControlInv, SeedsInv, RequestsInv, ProcsInv, BootSeeds,
    RequestSeeds, NightSeeds, Served, LimitsInv, Closing, InFlight, serverVars, seedingVars,
    tableVars, procVars, settings, limitVars

\* The invariant of the states holds throughout.
THEOREM ServerInvariance == ServerSpec => []ServerInv
<1>1. ServerInv /\ [ServerNext]_serverVars => ServerInv'
  BY NextServerInv, StutterInv
<1> QED  BY InitInv, <1>1, PTL DEF ServerSpec

-----------------------------------------------------------------------------
(* With history: the limits.                                               *)

\* What is let through is counted, and no more is let through than the limit.
PassedInv ==
  /\ passed \in [Ops -> Nat]
  /\ \A o \in Ops : passed[o] <= hits[o] /\ passed[o] <= Limit(o)

LEMMA NextPassed ==
  ASSUME ServerInv, PassedInv, HistoryNext
  PROVE  PassedInv'
<1>0. \A o \in Ops : Limit(o) \in Nat /\ hits[o] \in Nat /\ passed[o] \in Nat
  BY PolicyTypes DEF ServerInv, LimitsInv, PassedInv
<1>1. passed' = [o \in Ops |-> IF hits'[o] = 0 THEN 0
                               ELSE passed[o] + (IF LetThrough(o) THEN 1 ELSE 0)]
  BY DEF HistoryNext
<1>2. LimitsInv /\ RequestsInv /\ ServerNext
  BY DEF ServerInv, ControlInv, HistoryNext
<1>3. CASE CountsNothing
  <2>1. \A o \in Ops : ~LetThrough(o)
    BY <1>3 DEF CountsNothing, LetThrough
  <2>2. \A o \in Ops : passed'[o] = 0 \/ (passed'[o] = passed[o] /\ hits'[o] = hits[o])
    BY <1>0, <1>1, <1>3, <2>1 DEF CountsNothing
  <2>3. \A o \in Ops : hits'[o] \in Nat
    BY <1>3 DEF CountsNothing
  <2> QED  BY <1>0, <1>1, <2>2, <2>3 DEF PassedInv
<1>4. CASE \E q \in Requests : Throttle(q)
  <2>1. PICK q \in Requests : Throttle(q)
    BY <1>4
  <2> DEFINE o == req[q].op
  <2>2. o \in Ops /\ req[q].pc = "throttle"
    BY <1>2, <2>1 DEF Throttle, RequestsInv, RequestOK
  <2>3. req' = [req EXCEPT ![q] = req'[q]]
    BY <1>2, <2>1, ThrottleCounts
  <2>4. \A b \in Ops \ {o} : ~LetThrough(b)
    <3>1. \A u \in Requests : u # q => req'[u] = req[u]
      BY <1>2, <2>3 DEF RequestsInv
    <3> QED  BY <3>1 DEF LetThrough
  <2>5. req'[q].pc = "idle" => ~LetThrough(o)
    BY <1>2, <2>3 DEF LetThrough, RequestsInv
  <2>6. CASE UNCHANGED limitVars /\ req'[q].pc = "idle"
    <3>1. \A b \in Ops : ~LetThrough(b)
      BY <2>4, <2>5, <2>6
    <3>2. \A b \in Ops : passed'[b] = 0 \/ passed'[b] = passed[b]
      BY <1>0, <1>1, <3>1
    <3> QED  BY <1>0, <1>1, <2>6, <3>2 DEF PassedInv, limitVars
  <2>7. CASE /\ hits' \in [Ops -> Nat]
             /\ \A b \in Ops \ {o} : hits'[b] = hits[b]
             /\ IF hits[o] > Limit(o) THEN hits'[o] = hits[o] /\ req'[q].pc = "idle"
                ELSE /\ hits'[o] = hits[o] + 1
                     /\ hits[o] + 1 > Limit(o) => req'[q].pc = "idle"
    <3>1. \A b \in Ops \ {o} : passed'[b] = 0 \/ passed'[b] = passed[b]
      BY <1>0, <1>1, <2>4
    <3>2. \A b \in Ops \ {o} : passed'[b] <= hits'[b] /\ passed'[b] <= Limit(b)
      BY <1>0, <2>7, <3>1 DEF PassedInv
    <3>3. passed'[o] <= hits'[o] /\ passed'[o] <= Limit(o) /\ passed'[o] \in Nat
      <4>1. CASE ~LetThrough(o)
        <5>1. passed'[o] = 0 \/ passed'[o] = passed[o]
          BY <1>0, <1>1, <2>2, <4>1
        <5>2. hits'[o] >= hits[o] /\ hits'[o] \in Nat
          BY <1>0, <2>2, <2>7
        <5> QED  BY <1>0, <2>2, <5>1, <5>2 DEF PassedInv
      <4>2. CASE LetThrough(o)
        <5>1. hits'[o] = hits[o] + 1 /\ hits[o] + 1 <= Limit(o)
          BY <1>0, <2>2, <2>5, <2>7, <4>2
        <5>2. passed'[o] = passed[o] + 1
          BY <1>0, <1>1, <2>2, <4>2, <5>1
        <5> QED  BY <1>0, <2>2, <5>1, <5>2 DEF PassedInv
      <4> QED  BY <4>1, <4>2
    <3>4. \A b \in Ops : passed'[b] \in Nat
      BY <1>0, <3>1, <3>3
    <3> QED  BY <1>1, <3>2, <3>3, <3>4 DEF PassedInv
  <2> QED  BY <1>2, <2>1, <2>6, <2>7, ThrottleCounts
<1> QED  BY <1>2, <1>3, <1>4, CountCases

-----------------------------------------------------------------------------
(* With history: the administrator.                                        *)

\* A process that has got past its administrator has one, unless he has left.
AdminInv ==
  /\ adminLeft \in BOOLEAN
  /\ (\E p \in Processes : phase[p] \in {"seeding", "listen", "serving"}) =>
       Administrator \in accounts \/ adminLeft

\* Only a link or the clean start of a seed takes rows away.
LEMMA OnlyRemovals ==
  ASSUME ServerInv, ServerNext
  PROVE  \/ accounts \subseteq accounts' /\ items \subseteq items'
         \/ \E q \in Requests : RemoveAccount(q)
         \/ \E a \in Seeders : SeedStep(a) /\ CleanDb(a)
<1>1. CASE \E p \in Processes : ProcessStep(p)
  BY <1>1 DEF ProcessStep, Ends, Closes, Settles, Settle, Advances, Prepares, Misses, SeedExecuted,
              Start, Connect, Disposes, Dispose, Listen, Midnight, seedingVars, tableVars
<1>2. CASE \E a \in Seeders : SeedActs(a)
  <2>1. PICK a \in Seeders : SeedActs(a)
    BY <1>2
  <2>2. CASE SeedRefused(a)
    BY <2>2 DEF SeedRefused, StatementRefused, tableVars
  <2>3. CASE SeedStep(a)
    <3>1. CASE CleanDb(a)
      BY <2>3, <3>1
    <3>2. CASE FindUsers(a) \/ FindItems(a) \/ FindReviews(a)
      BY <3>2 DEF FindUsers, FindItems, FindReviews, Fail, tableVars
    <3>3. CASE HasFresh(SeedIds) /\ CreateUser(a, FreshId(SeedIds))
      BY <3>3 DEF CreateUser, tableVars, Fail
    <3>4. CASE CreateItem(a)
      BY <3>4 DEF CreateItem, tableVars, Fail
    <3>5. CASE CreateReview(a) \/ CreateVote(a)
      BY <3>5 DEF CreateReview, CreateVote, tableVars, Fail
    <3>6. CASE RefreshSnapshot(a) \/ RefreshUpdate(a)
      BY <3>6 DEF RefreshSnapshot, RefreshUpdate, tableVars, Fail
    <3> QED  BY <2>3, <3>1, <3>2, <3>3, <3>4, <3>5, <3>6 DEF SeedStep
  <2> QED  BY <2>1, <2>2, <2>3 DEF SeedActs
<1>3. CASE \E q \in Requests : Acts(q)
  <2>1. PICK q \in Requests : Acts(q)
    BY <1>3
  <2>2. CASE Reads(q)
    BY <2>2, ReadsOnly DEF tableVars
  <2>3. CASE ~Reads(q)
    BY <2>1, <2>3, StepCases DEF SignUp, CreateOneItem, SaveReview, CastVote, RetractVote
  <2> QED  BY <2>2, <2>3
<1>4. CASE \E q \in Requests, p \in Processes : Arrive(q, p)
  BY <1>4 DEF Arrive, seedingVars, tableVars
<1>5. CASE Environment
  BY <1>5 DEF Environment, Outage, Recovery, WindowEnds, BlockEnds, seedingVars, tableVars
<1> QED  BY <1>1, <1>2, <1>3, <1>4, <1>5, NextCases

\* The phases that come after the administrator are entered with him there.
LEMMA PhaseCases ==
  ASSUME ServerInv, ServerNext, NEW p \in Processes,
         phase'[p] \in {"seeding", "listen", "serving"}
  PROVE  phase[p] \in {"seeding", "listen", "serving"} \/ Administrator \in accounts'
<1>0. phase \in [Processes -> Phases]
  BY DEF ServerInv, ControlInv, ProcsInv
<1>1. ASSUME NEW b \in Processes, ProcessStep(b)
      PROVE  phase[p] \in {"seeding", "listen", "serving"} \/ Administrator \in accounts'
  <2>1. CASE Prepares(b)
    BY <2>1 DEF Prepares
  <2>3. CASE Settles(b) \/ Midnight(b)
    BY <2>3 DEF Settles, Settle, Midnight, procVars
  <2>2. CASE ~(Prepares(b) \/ Settles(b) \/ Midnight(b))
    <3>1. \/ \E to : phase' = [phase EXCEPT ![b] = to] /\ to \notin {"seeding", "listen", "serving"}
          \/ \E to : phase' = [phase EXCEPT ![b] = to] /\ phase[b] \in {"seeding", "listen"}
      BY <1>1, <2>2 DEF ProcessStep, Ends, Exit, Closes, Close, Advances, Misses, SeedExecuted,
                        Start, Connect, Disposes, Dispose, Listen
    <3> QED  BY <1>0, <3>1
  <2> QED  BY <2>1, <2>2, <2>3
<1>2. CASE ~\E b \in Processes : ProcessStep(b)
  <2>1. ASSUME NEW a \in Seeders, SeedActs(a) PROVE UNCHANGED phase
    BY <2>1 DEF SeedActs, SeedStep, SeedRefused, procVars
  <2>2. ASSUME NEW q \in Requests, Acts(q) PROVE UNCHANGED phase
    BY <2>2, StepGoes DEF Goes, RunSeed, SeedAnswered, procVars
  <2>3. UNCHANGED phase
    BY <1>2, <2>1, <2>2, NextCases
    DEF Arrive, Environment, Outage, Recovery, WindowEnds, BlockEnds, procVars
  <2> QED  BY <2>3
<1> QED  BY <1>1, <1>2

LEMMA NextAdmin ==
  ASSUME ServerInv, AdminInv, HistoryNext
  PROVE  AdminInv'
<1>1. ServerNext /\ adminLeft' = ((adminLeft \/ AdminLeaves) /\ Administrator \notin accounts')
  BY DEF HistoryNext
<1>2. Administrator \in accounts /\ Administrator \notin accounts' => AdminLeaves
  <2> SUFFICES ASSUME Administrator \in accounts, Administrator \notin accounts'
               PROVE  AdminLeaves
    OBVIOUS
  <2>1. ASSUME NEW a \in Seeders, CleanDb(a) PROVE FALSE
    BY <2>1 DEF CleanDb
  <2>2. PICK q \in Requests : RemoveAccount(q)
    BY <1>1, <2>1, OnlyRemovals
  <2>3. req[q].pc = "revoke" /\ req[q].user = Administrator
    BY <2>2 DEF RemoveAccount, tableVars
  <2> QED  BY <2>3 DEF AdminLeaves
<1>3. adminLeft' \in BOOLEAN
  BY <1>1
<1>4. ASSUME NEW p \in Processes, phase'[p] \in {"seeding", "listen", "serving"}
      PROVE  Administrator \in accounts' \/ adminLeft'
  <2>1. CASE Administrator \in accounts'
    BY <2>1
  <2>2. CASE Administrator \notin accounts'
    <3>1. Administrator \in accounts \/ adminLeft
      BY <1>1, <1>4, <2>2, PhaseCases DEF AdminInv
    <3> QED  BY <1>1, <1>2, <2>2, <3>1
  <2> QED  BY <2>1, <2>2
<1> QED  BY <1>3, <1>4 DEF AdminInv

-----------------------------------------------------------------------------
(* With history: what happens to the seeds.                                *)

\* What steps other than those of a seed do to seeds: they end or start them.
Interrupts ==
  \A a \in Seeders : \/ seed'[a] = seed[a] \/ seed'[a].pc = "off"
                     \/ seed[a].pc = "off" /\ seed'[a].pc = "clean"
                     \/ a = Cron /\ seed[a].pc \in Ended /\ seed'[a].pc = "refresh"

LEMMA OtherSteps ==
  ASSUME ServerInv, ServerNext
  PROVE  (\E a \in Seeders : SeedActs(a)) \/ Interrupts
<1> USE DEF ServerInv, ControlInv
<1>0. seed \in [Seeders -> SeedRecord] /\ NoSeed.pc = "off" /\ NewSeed.pc = "clean"
      /\ Recounting.pc = "refresh"
  BY NoSeedOK DEF SeedsInv
<1>u. UNCHANGED seed => Interrupts
  BY DEF Interrupts
<1>1. ASSUME NEW p \in Processes, ProcessStep(p) PROVE Interrupts
  <2>1. CASE Ends(p)
    BY <1>0, <2>1 DEF Ends, Exit, Interrupts
  <2>2. CASE Prepares(p)
    <3>1. UNCHANGED seed \/ seed' = [seed EXCEPT ![p] = NewSeed]
      BY <2>2 DEF Prepares, SeedProd, Become
    <3>2. seed[p].pc = "off"
      BY <2>2 DEF Prepares, BootSeeds
    <3> QED  BY <1>0, <3>1, <3>2 DEF Interrupts
  <2>3. CASE SeedExecuted(p)
    BY <1>0, <2>3 DEF SeedExecuted, Become, Interrupts
  <2>4. CASE Closes(p) \/ Settles(p) \/ Advances(p) \/ Misses(p)
    BY <1>u, <2>4 DEF Closes, Close, Settles, Settle, Advances, Misses, Start, Connect, Disposes,
                      Dispose, Listen, seedingVars
  <2>5. CASE Midnight(p)
    BY <1>0, <2>5 DEF Midnight, Become, Running, Interrupts
  <2> QED  BY <1>1, <2>1, <2>2, <2>3, <2>4, <2>5 DEF ProcessStep
<1>2. ASSUME NEW q \in Requests, Acts(q) PROVE Interrupts
  <2>1. CASE Goes(q)
    BY <1>u, <2>1 DEF Goes
  <2>2. CASE RunSeed(q)
    <3>1. seed' = [seed EXCEPT ![q] = NewSeed] /\ req[q].pc = "handle"
      BY <2>2 DEF RunSeed, Become, Handling
    <3>2. seed[q].pc = "off"
      BY <3>1 DEF RequestSeeds
    <3> QED  BY <1>0, <3>1, <3>2 DEF Interrupts
  <2>3. CASE SeedAnswered(q)
    BY <1>0, <2>3 DEF SeedAnswered, Become, Interrupts
  <2> QED  BY <1>2, <2>1, <2>2, <2>3, StepGoes
<1>3. ASSUME NEW q \in Requests, NEW p \in Processes, Arrive(q, p) PROVE Interrupts
  BY <1>u, <1>3 DEF Arrive, seedingVars
<1>4. ASSUME Environment PROVE Interrupts
  BY <1>u, <1>4 DEF Environment, Outage, Recovery, WindowEnds, BlockEnds, seedingVars
<1> QED  BY <1>1, <1>2, <1>3, <1>4, NextCases

\* Nobody reviews an item of his own, so a clean start leaves no review and no vote.
LEMMA CleanEmpties ==
  ASSUME RowsInv, NEW a \in Seeders, CleanDb(a)
  PROVE  reviews' = {} /\ votes' = {} /\ accounts' = accounts \intersect {Administrator}
<1> DEFINE kept == accounts \intersect {Administrator}
<1>1. ReviewsOf(kept) = {}
  BY DEF ReviewsOf, RowsInv, ReviewRows
<1> QED  BY <1>1 DEF CleanDb, VotesOf

-----------------------------------------------------------------------------
(* With history: the counters.                                             *)

\* The counters have their cause to differ from the votes.
DriftInv == DriftHasCause

\* Counters that are what the votes are, row by row.
LEMMA CountsAre ==
  ASSUME tally' \in [reviews' -> Counters],
         \A r \in reviews', action \in VoteAction :
           tally'[r][action] = Cardinality(VotesOn(votes', r, action))
  PROVE  tally' = Counts'
<1>1. Counts' = [r \in reviews' |->
                   [action \in VoteAction |-> Cardinality(VotesOn(votes', r, action))]]
  BY DEF Counts, VotesOn
<1>2. \A r \in reviews' :
        tally'[r] = [action \in VoteAction |-> Cardinality(VotesOn(votes', r, action))]
  BY DEF Counters
<1> QED  BY <1>1, <1>2

LEMMA CountsStay ==
  ASSUME UNCHANGED <<reviews, votes, tally>>
  PROVE  (tally' = Counts') <=> (tally = Counts)
BY DEF Counts

LEMMA CountsRead ==
  ASSUME RowsInv, tally = Counts, NEW r \in reviews, NEW action \in VoteAction
  PROVE  tally[r][action] = Cardinality(VotesOn(votes, r, action))
BY CountsTyped DEF RowsInv

\* One element more, or less.
LEMMA OneMore ==
  ASSUME NEW S, NEW x, IsFiniteSet(S), x \notin S
  PROVE  Cardinality(S \union {x}) = Cardinality(S) + 1
BY FS_AddElement

LEMMA OneLess ==
  ASSUME NEW S, NEW x \in S, IsFiniteSet(S)
  PROVE  Cardinality(S \ {x}) = Cardinality(S) - 1
BY FS_RemoveElement

\* The votes of one user are off the counters, one of each.
LEMMA TakenOff ==
  ASSUME RowsInv, tally = Counts, NEW gone \in SUBSET votes, \A v, w \in gone : v.by = w.by
  PROVE  \A r \in reviews, action \in VoteAction :
           Decremented(gone)[r][action] = Cardinality(VotesOn(votes \ gone, r, action))
<1> SUFFICES ASSUME NEW r \in reviews, NEW action \in VoteAction
             PROVE  Decremented(gone)[r][action] = Cardinality(VotesOn(votes \ gone, r, action))
  OBVIOUS
<1> DEFINE all == VotesOn(votes, r, action)
           rest == VotesOn(votes \ gone, r, action)
<1>0. tally[r][action] = Cardinality(all)
  BY CountsRead
<1>1. IsFiniteSet(all) /\ Cardinality(all) \in Nat
  BY VotesFinite, FS_CardinalityType DEF VotesOn, RowsInv
<1>2. Decremented(gone)[r][action]
        = tally[r][action] - (IF \E v \in gone : v.review = r /\ v.action = action THEN 1 ELSE 0)
  BY DEF Decremented
<1>3. CASE \E v \in gone : v.review = r /\ v.action = action
  <2>1. PICK v \in gone : v.review = r /\ v.action = action
    BY <1>3
  <2>2. rest = all \ {v} /\ v \in all
    BY <2>1 DEF VotesOn, RowsInv, KeysHold
  <2> HIDE DEF all, rest
  <2>3. Cardinality(rest) = Cardinality(all) - 1
    <3>1. Cardinality(all \ {v}) = Cardinality(all) - 1
      BY <1>1, <2>2, OneLess
    <3> QED  BY <2>2, <3>1
  <2> QED  BY <1>0, <1>2, <1>3, <2>3 DEF rest
<1>4. CASE ~\E v \in gone : v.review = r /\ v.action = action
  <2>1. rest = all
    BY <1>4 DEF VotesOn
  <2> QED  BY <1>0, <1>1, <1>2, <1>4, <2>1
<1> QED  BY <1>3, <1>4

\* A review that is new has no votes, and no counts.
LEMMA InsertCounts ==
  ASSUME RowsInv, RowsInv', tally = Counts, NEW r, r \notin reviews, InsertReview(r),
         UNCHANGED votes
  PROVE  tally' = Counts'
<1>1. reviews' = reviews \union {r} /\ tally' \in [reviews' -> Counters]
  BY DEF InsertReview, RowsInv
<1>2. ASSUME NEW s \in reviews', NEW action \in VoteAction
      PROVE  tally'[s][action] = Cardinality(VotesOn(votes', s, action))
  <2>1. CASE s = r
    <3>1. VotesOn(votes', s, action) = {}
      BY <2>1 DEF VotesOn, RowsInv, KeysHold
    <3>2. tally'[s][action] = 0
      BY <1>1, <2>1 DEF InsertReview, Zero
    <3> QED  BY <3>1, <3>2, FS_EmptySet
  <2>2. CASE s # r
    <3>1. s \in reviews /\ tally'[s] = tally[s]
      BY <1>1, <2>2 DEF InsertReview
    <3> QED  BY <3>1, CountsRead
  <2> QED  BY <2>1, <2>2
<1> QED  BY <1>1, <1>2, CountsAre

\* A deletion by the votes as they are.
LEMMA RemoveCounts ==
  ASSUME RowsInv, RowsInv', tally = Counts, NEW q \in Requests, RemoveAccount(q),
         req[q].found = Reading(q)
  PROVE  tally' = Counts'
<1> DEFINE u == req[q].user
           kept == accounts \ {u}
           gone == req[q].found
<1>0. req[q].pc = "revoke" /\ gone = {v \in votes : v.by = u}
  BY DEF RemoveAccount, Reading
<1>1. CASE Uncountable(gone)
  BY <1>1, CountsStay DEF RemoveAccount, tableVars
<1>2. CASE ~Uncountable(gone)
  <2>1. /\ reviews' = ReviewsOf(kept) /\ votes' = VotesOf(kept)
        /\ tally' = [r \in ReviewsOf(kept) |-> Decremented(gone)[r]]
    BY <1>2 DEF RemoveAccount
  <2>2. ASSUME NEW r \in reviews', NEW action \in VoteAction
        PROVE  tally'[r][action] = Cardinality(VotesOn(votes', r, action))
    <3>1. r \in reviews /\ tally'[r] = Decremented(gone)[r]
      BY <2>1 DEF ReviewsOf
    <3>2. VotesOn(votes', r, action) = VotesOn(votes \ gone, r, action)
      BY <1>0, <2>1 DEF VotesOn, VotesOf, RowsInv, KeysHold
    <3>3. gone \in SUBSET votes /\ \A v, w \in gone : v.by = w.by
      BY <1>0
    <3> HIDE DEF gone
    <3>4. Decremented(gone)[r][action] = Cardinality(VotesOn(votes \ gone, r, action))
      BY <3>1, <3>3, TakenOff
    <3> QED  BY <3>1, <3>2, <3>4
  <2> QED  BY <2>2, CountsAre DEF RowsInv
<1> QED  BY <1>1, <1>2

\* A vote by the vote that there is.
LEMMA CastCounts ==
  ASSUME RowsInv, RowsInv', RequestsInv, tally = Counts, NEW q \in Requests, CastVote(q),
         req[q].found = Reading(q)
  PROVE  tally' = Counts'
<1> DEFINE gone == req[q].found
<1>0. /\ req[q].pc = "cast" /\ OnePair(gone \union req[q].todo) /\ req[q].todo \subseteq VoteRows
      /\ UNCHANGED reviews
  BY DEF CastVote, RequestsInv, RequestOK, RequestRecord
<1>1. PICK v \in req[q].todo :
        \/ UNCHANGED <<votes, tally>>
        \/ /\ v.review \in reviews /\ VotesBy(v.by, v.review) \subseteq gone
           /\ votes' = (votes \ gone) \union {v}
           /\ tally' = [Decremented(gone) EXCEPT ![v.review][v.action] = @ + 1]
  BY DEF CastVote
<1>2. CASE UNCHANGED <<votes, tally>>
  BY <1>0, <1>2, CountsStay
<1>3. CASE ~UNCHANGED <<votes, tally>>
  <2>1. gone \in SUBSET votes /\ \A x, y \in gone : x.by = y.by
    <3>1. gone = UNION {VotesBy(x.by, x.review) : x \in gone \union req[q].todo}
      BY <1>0 DEF Reading
    <3>2. gone \subseteq votes
      BY <3>1 DEF VotesBy
    <3> QED  BY <1>0, <3>2 DEF OnePair
  <2>2. v \notin votes \ gone
    BY <1>1, <1>3 DEF VotesBy
  <2>3. \A r \in reviews, action \in VoteAction :
          Decremented(gone)[r][action] = Cardinality(VotesOn(votes \ gone, r, action))
    <3> HIDE DEF gone
    <3> QED  BY <2>1, TakenOff
  <2>4. v \in VoteRows /\ v.action \in VoteAction
    BY <1>0 DEF VoteRows
  <2>5. ASSUME NEW r \in reviews', NEW action \in VoteAction
        PROVE  tally'[r][action] = Cardinality(VotesOn(votes', r, action))
    <3> DEFINE rest == VotesOn(votes \ gone, r, action)
    <3>1. r \in reviews /\ Decremented(gone)[r][action] = Cardinality(rest)
      BY <1>0, <2>3
    <3>2. IsFiniteSet(rest) /\ Cardinality(rest) \in Nat
      BY VotesFinite, FS_CardinalityType DEF VotesOn, RowsInv
    <3>3. CASE r = v.review /\ action = v.action
      <4>1. VotesOn(votes', r, action) = rest \union {v} /\ v \notin rest
        BY <1>1, <1>3, <2>2, <3>3 DEF VotesOn
      <4>2. tally'[r][action] = Decremented(gone)[r][action] + 1
        BY <1>1, <1>3, <3>1, <3>3 DEF Decremented
      <4> HIDE DEF rest
      <4>3. Cardinality(rest \union {v}) = Cardinality(rest) + 1
        BY <3>2, <4>1, OneMore
      <4> QED  BY <3>1, <4>1, <4>2, <4>3
    <3>4. CASE ~(r = v.review /\ action = v.action)
      <4>1. VotesOn(votes', r, action) = rest
        BY <1>1, <1>3, <3>4 DEF VotesOn
      <4>2. CASE r # v.review
        <5>1. tally'[r] = Decremented(gone)[r]
          BY <1>1, <1>3, <3>1, <4>2 DEF Decremented
        <5> QED  BY <3>1, <4>1, <5>1
      <4>3. CASE action # v.action
        <5>1. r \in DOMAIN Decremented(gone) /\ action \in DOMAIN Decremented(gone)[r]
          BY <3>1 DEF Decremented
        <5>2. tally' = [Decremented(gone) EXCEPT ![v.review][v.action] = @ + 1]
          BY <1>1, <1>3
        <5>3. tally'[r][action] = Decremented(gone)[r][action]
          BY <4>3, <5>1, <5>2
        <5> QED  BY <3>1, <4>1, <5>3
      <4> QED  BY <3>4, <4>2, <4>3
    <3> QED  BY <3>3, <3>4
  <2> QED  BY <2>5, CountsAre DEF RowsInv
<1> QED  BY <1>2, <1>3

LEMMA RetractCounts ==
  ASSUME RowsInv, RowsInv', RequestsInv, tally = Counts, NEW q \in Requests, RetractVote(q),
         req[q].found = Reading(q)
  PROVE  tally' = Counts'
<1> DEFINE gone == req[q].found
<1>0. req[q].pc = "retract" /\ OnePair(gone \union req[q].todo) /\ UNCHANGED reviews
  BY DEF RetractVote, RequestsInv, RequestOK
<1>1. CASE Uncountable(gone)
  BY <1>0, <1>1, CountsStay DEF RetractVote
<1>2. CASE ~Uncountable(gone)
  <2>1. gone \in SUBSET votes /\ \A x, y \in gone : x.by = y.by
    <3>1. gone = UNION {VotesBy(x.by, x.review) : x \in gone \union req[q].todo}
      BY <1>0 DEF Reading
    <3>2. gone \subseteq votes
      BY <3>1 DEF VotesBy
    <3> QED  BY <1>0, <3>2 DEF OnePair
  <2>2. votes' = votes \ gone /\ tally' = Decremented(gone)
    BY <1>2 DEF RetractVote
  <2>3. \A r \in reviews', action \in VoteAction :
          tally'[r][action] = Cardinality(VotesOn(votes', r, action))
    <3> HIDE DEF gone
    <3>1. \A r \in reviews, action \in VoteAction :
            Decremented(gone)[r][action] = Cardinality(VotesOn(votes \ gone, r, action))
      BY <2>1, TakenOff
    <3> QED  BY <1>0, <2>2, <3>1
  <2> QED  BY <2>3, CountsAre DEF RowsInv
<1> QED  BY <1>1, <1>2

\* A request makes a counter wrong only by what it had read before another commit.
LEMMA RequestsCount ==
  ASSUME RowsInv, RowsInv', RequestsInv, NEW q \in Requests, Acts(q), tally = Counts
  PROVE  tally' = Counts' \/ WritesOutdated
<1>0. req \in [Requests -> RequestRecord]
  BY DEF RequestsInv
<1>1. CASE Reads(q)
  BY <1>1, ReadsOnly, CountsStay DEF tableVars
<1>2. CASE SignUp(q) \/ CreateOneItem(q)
  BY <1>2, CountsStay DEF SignUp, CreateOneItem
<1>3. CASE SaveReview(q)
  <2> DEFINE r == [item |-> req[q].on, by |-> req[q].user]
  <2>1. UNCHANGED <<reviews, tally>> \/ (r \notin reviews /\ InsertReview(r))
    BY <1>3 DEF SaveReview
  <2>2. UNCHANGED votes
    BY <1>3 DEF SaveReview
  <2> HIDE DEF r
  <2> QED  BY <2>1, <2>2, InsertCounts, CountsStay
<1>4. CASE RemoveAccount(q) \/ CastVote(q) \/ RetractVote(q)
  <2>1. req[q].pc \in {"revoke", "cast", "retract"} /\ req'[q].pc = "idle"
    <3>1. \E x : req' = [req EXCEPT ![q] = [NoRequest EXCEPT !.answer = x]]
      BY <1>4 DEF RemoveAccount, CastVote, RetractVote, Throw, Finish
    <3>2. \A x : [NoRequest EXCEPT !.answer = x].pc = "idle"
      BY DEF NoRequest
    <3>3. req[q].pc \in {"revoke", "cast", "retract"}
      BY <1>4 DEF RemoveAccount, CastVote, RetractVote
    <3> QED  BY <1>0, <3>1, <3>2, <3>3
  <2>2. CASE req[q].found = Reading(q)
    BY <1>4, <2>2, RemoveCounts, CastCounts, RetractCounts
  <2>3. CASE req[q].found # Reading(q) /\ (votes' # votes \/ tally' # tally)
    BY <2>1, <2>3 DEF WritesOutdated, InFlight
  <2>4. CASE UNCHANGED <<votes, tally>>
    <3>1. UNCHANGED reviews
      <4>1. DOMAIN tally = reviews /\ DOMAIN tally' = reviews'
        BY DEF RowsInv
      <4> QED  BY <2>4, <4>1
    <3> QED  BY <2>4, <3>1, CountsStay
  <2> QED  BY <2>2, <2>3, <2>4
<1> QED  BY <1>1, <1>2, <1>3, <1>4, StepCases

LEMMA VoteStep ==
  ASSUME SeedsInv, NEW a \in Seeders, CreateVote(a)
  PROVE  seed'[a].pc \in {"votes", "refresh"} \/ (Fail(a) /\ seed'[a].pc = "failed")
<1>0. seed \in [Seeders -> SeedRecord] /\ SeedOK(seed[a]) /\ seed[a].pc = "votes"
  BY DEF SeedsInv, CreateVote
<1>1. CASE Fail(a)
  BY <1>0, <1>1 DEF Fail, Become, NoSeed
<1>2. CASE ~Fail(a)
  <2>1. PICK v : Become(a, Then(seed[a], seed[a].todo \ {v}, "refresh"))
    BY <1>2 DEF CreateVote
  <2>2. seed'[a] = Then(seed[a], seed[a].todo \ {v}, "refresh")
    BY <1>0, <2>1 DEF Become
  <2>3. Then(seed[a], seed[a].todo \ {v}, "refresh").pc
          = IF seed[a].todo \ {v} = {} THEN "refresh" ELSE seed[a].pc
    BY <1>0, SavedOK
  <2>4. seed'[a].pc = IF seed[a].todo \ {v} = {} THEN "refresh" ELSE "votes"
    BY <1>0, <2>2, <2>3
  <2> QED  BY <2>4
<1> QED  BY <1>1, <1>2

\* A refresh by the counts as they are repairs every counter.
LEMMA RefreshCounts ==
  ASSUME RowsInv, NEW a \in Seeders, RefreshUpdate(a), seed[a].recount = Recount
  PROVE  tally' = Counts'
<1>1. tally' = [r \in reviews |-> IF r \in DOMAIN Recount THEN Recount[r] ELSE tally[r]]
      /\ UNCHANGED <<reviews, votes>>
  BY DEF RefreshUpdate
<1>2. \A r \in reviews : tally'[r] = Counts[r]
  BY <1>1 DEF Recount
<1>3. tally' = [r \in reviews |-> Counts[r]] /\ Counts = [r \in reviews |-> Counts[r]]
  BY <1>1, <1>2 DEF Counts
<1>4. Counts' = Counts
  BY <1>1 DEF Counts
<1> QED  BY <1>3, <1>4

\* A seed makes counters wrong by its votes, until it refreshes, or by a refresh
\* with what it counted before another commit.
LEMMA SeedCounts ==
  ASSUME RowsInv, RowsInv', SeedsInv, NightSeeds, NEW a \in Seeders, SeedActs(a), tally = Counts
  PROVE  tally' = Counts' \/ WritesOutdated \/ Unrefreshed(a)'
<1>0. seed \in [Seeders -> SeedRecord] /\ SeedOK(seed[a])
  BY DEF SeedsInv
<1>1. CASE CleanDb(a)
  <2>1. reviews' = {}
    BY <1>1, CleanEmpties
  <2> QED  BY <2>1, CountsAre DEF RowsInv
<1>2. CASE RefreshUpdate(a)
  <2>1. CASE seed[a].recount = Recount
    BY <1>2, <2>1, RefreshCounts
  <2>2. CASE seed[a].recount # Recount
    <3>1. Moves(a, "update", "done")
      BY <1>0, <1>2 DEF RefreshUpdate, Moves, Become, NoSeed
    <3> QED  BY <2>2, <3>1 DEF WritesOutdated
  <2> QED  BY <2>1, <2>2
<1>3. CASE CreateVote(a)
  <2>1. CASE Fail(a)
    BY <2>1, CountsStay DEF Fail, tableVars
  <2>2. CASE ~Fail(a)
    <3>1. seed'[a].pc \in {"votes", "refresh"} /\ seed[a].pc = "votes"
      BY <1>3, <2>2, VoteStep DEF CreateVote
    <3> QED  BY <3>1 DEF NightSeeds, Unrefreshed
  <2> QED  BY <2>1, <2>2
<1>4. CASE CreateReview(a)
  <2>1. CASE Fail(a)
    BY <2>1, CountsStay DEF Fail, tableVars
  <2>2. CASE ~Fail(a)
    <3>1. PICK r : r \notin reviews /\ InsertReview(r) /\ UNCHANGED votes
      BY <1>4, <2>2 DEF CreateReview
    <3> QED  BY <3>1, InsertCounts
  <2> QED  BY <2>1, <2>2
<1>5. CASE ~(CleanDb(a) \/ RefreshUpdate(a) \/ CreateVote(a) \/ CreateReview(a))
  <2>1. UNCHANGED <<reviews, votes, tally>>
    BY <1>5 DEF SeedActs, SeedStep, SeedRefused, StatementRefused, FindUsers, FindItems,
                FindReviews, Fail, CreateUser, CreateItem, RefreshSnapshot, tableVars
  <2> QED  BY <2>1, CountsStay
<1> QED  BY <1>1, <1>2, <1>3, <1>4, <1>5

\* A seed that has saved votes goes on to its refresh, or breaks off.
LEMMA UnrefreshedStays ==
  ASSUME ServerInv, ServerNext, NEW a \in Seeders, Unrefreshed(a)
  PROVE  Unrefreshed(a)' \/ BreaksOff(a) \/ (RefreshUpdate(a) /\ Moves(a, "update", "done"))
<1>0. SeedsInv /\ RowsInv /\ seed \in [Seeders -> SeedRecord]
  BY DEF ServerInv, ControlInv, SeedsInv
<1>1. CASE Interrupts
  BY <1>1 DEF Interrupts, Unrefreshed, BreaksOff, Ended
<1>2. ASSUME NEW b \in Seeders, SeedActs(b), b # a PROVE Unrefreshed(a)'
  <2>1. seed'[a] = seed[a]
    BY <1>0, <1>2, SeedStepMoves DEF SeedMoves
  <2> QED  BY <2>1 DEF Unrefreshed
<1>3. CASE SeedActs(a)
  <2>1. CASE CreateVote(a)
    BY <1>0, <2>1, VoteStep DEF Unrefreshed, BreaksOff
  <2>2. CASE RefreshSnapshot(a)
    BY <1>0, <2>2 DEF RefreshSnapshot, Become, NoSeed, Unrefreshed
  <2>3. CASE RefreshUpdate(a)
    BY <1>0, <2>3 DEF RefreshUpdate, Become, NoSeed, Moves
  <2>4. CASE StatementRefused(a)
    BY <1>0, <2>4 DEF StatementRefused, Become, NoSeed, BreaksOff
  <2> QED
    BY <1>3, <2>1, <2>2, <2>3, <2>4
    DEF SeedActs, SeedStep, SeedRefused, Unrefreshed, CleanDb, CreateUser, FindUsers, CreateItem,
        FindItems, CreateReview, FindReviews
<1> QED  BY <1>1, <1>2, <1>3, OtherSteps

LEMMA NextDrift ==
  ASSUME ServerInv, DriftInv, HistoryNext
  PROVE  DriftInv'
<1>1. ServerNext
      /\ slipped' = /\ tally' # Counts'
                    /\ slipped \/ WritesOutdated \/ \E a \in Seeders : BreaksOff(a)
  BY DEF HistoryNext
<1>2. RowsInv /\ SeedsInv /\ RequestsInv /\ NightSeeds /\ RowsInv'
  BY <1>1, NextServerInv DEF ServerInv, ControlInv
<1> SUFFICES ASSUME tally' # Counts', ~WritesOutdated, ~slipped,
                    ~\E a \in Seeders : BreaksOff(a)
             PROVE  \E a \in Seeders : Unrefreshed(a)'
  BY <1>1 DEF DriftInv, DriftHasCause
<1>3. CASE tally # Counts
  <2>1. PICK a \in Seeders : Unrefreshed(a)
    BY <1>3 DEF DriftInv, DriftHasCause
  <2>2. CASE RefreshUpdate(a) /\ Moves(a, "update", "done")
    <3>1. seed[a].recount = Recount
      BY <2>2 DEF WritesOutdated
    <3> QED  BY <1>2, <2>2, <3>1, RefreshCounts
  <2> QED  BY <1>1, <2>1, <2>2, UnrefreshedStays
<1>4. CASE tally = Counts
  <2>1. ASSUME NEW p \in Processes, ProcessStep(p) PROVE FALSE
    <3>1. UNCHANGED <<reviews, votes, tally>>
      BY <2>1 DEF ProcessStep, Ends, Closes, Settles, Settle, Advances, Prepares, Misses,
                  SeedExecuted, Start, Connect, Disposes, Dispose, Listen, Midnight, seedingVars,
                  tableVars
    <3> QED  BY <1>4, <3>1, CountsStay
  <2>2. ASSUME NEW q \in Requests, Acts(q) PROVE FALSE
    BY <1>2, <1>4, <2>2, RequestsCount
  <2>3. ASSUME NEW a \in Seeders, SeedActs(a) PROVE Unrefreshed(a)'
    BY <1>2, <1>4, <2>3, SeedCounts
  <2>4. ASSUME Environment \/ \E q \in Requests, p \in Processes : Arrive(q, p) PROVE FALSE
    <3>1. UNCHANGED <<reviews, votes, tally>>
      BY <2>4 DEF Environment, Arrive, Outage, Recovery, WindowEnds, BlockEnds, seedingVars,
                  tableVars
    <3> QED  BY <1>4, <3>1, CountsStay
  <2> QED  BY <1>1, <2>1, <2>2, <2>3, <2>4, NextCases
<1> QED  BY <1>3, <1>4

-----------------------------------------------------------------------------
(* Requests are lost by failures only.                                     *)

Lost(q) ==
  InFlight(q) /\ req'[q].answer = "lost" => Cause(req[q].proc)

LEMMA NextLost ==
  ASSUME ServerInv, ServerNext, NEW q \in Requests
  PROVE  Lost(q)
<1> USE DEF ServerInv, ControlInv
<1>0. /\ req \in [Requests -> RequestRecord]
      /\ \A b \in Requests : InFlight(b) => req[b].answer = "none" /\ req[b].proc \in Processes
  BY DEF RequestsInv, RequestOK, InFlight
<1>u. req'[q] = req[q] => Lost(q)
  BY <1>0 DEF Lost
<1>1. ASSUME NEW p \in Processes, Ends(p), InFlight(q) PROVE Lost(q)
  <2>1. CASE req[q].proc # p
    BY <1>1, <1>u, <2>1 DEF Ends, Exit, On
  <2>2. CASE req[q].proc = p
    <3>1. phase[p] \notin {"connect", "disconnect"} /\ seed[p].pc = "off"
      BY <1>1, <2>2 DEF Served, BootSeeds
    <3> QED  BY <1>1, <2>2, <3>1 DEF Ends, Lost
  <2> QED  BY <2>1, <2>2
<1>2. ASSUME NEW p \in Processes, ProcessStep(p), ~Ends(p) PROVE UNCHANGED req
  BY <1>2 DEF ProcessStep, Closes, Close, Settles, Settle, Advances, Prepares, Misses,
              SeedExecuted, Start, Connect, Disposes, Dispose, Listen, Midnight
<1>3. ASSUME NEW a \in Seeders, SeedActs(a) PROVE UNCHANGED req
  BY <1>3 DEF SeedActs, SeedStep, SeedRefused
<1>4. ASSUME NEW b \in Requests, Acts(b) PROVE Lost(q)
  <2>1. CASE b # q
    <3>1. req'[q] = req[q]
      BY <1>0, <1>4, <2>1, StepGoes DEF Goes, RunSeed, SeedAnswered, Go, Finish, Throw
    <3> QED  BY <1>u, <3>1
  <2>2. CASE Goes(q)
    BY <1>0, <2>2 DEF Goes, Lost
  <2>3. CASE RunSeed(q)
    <3>1. req'[q].answer = req[q].answer
      BY <1>0, <2>3 DEF RunSeed, Go, RequestRecord
    <3> QED  BY <1>0, <3>1 DEF Lost
  <2>4. CASE SeedAnswered(q)
    <3>1. PICK x \in Codes \union {"OK"} : Finish(q, x)
      BY <2>4, Throws, AnswerIsCode DEF SeedAnswered, Throw
    <3>2. req'[q].answer = x
      BY <1>0, <3>1 DEF Finish, NoRequest
    <3> QED  BY <3>2 DEF Codes, Lost
  <2> QED  BY <1>4, <2>1, <2>2, <2>3, <2>4, StepGoes
<1>5. ASSUME NEW b \in Requests, NEW p \in Processes, Arrive(b, p) PROVE Lost(q)
  <2>1. CASE b # q
    BY <1>0, <1>5, <1>u, <2>1 DEF Arrive
  <2>2. CASE b = q
    BY <1>5, <2>2 DEF Arrive, Lost
  <2> QED  BY <2>1, <2>2
<1>6. ASSUME Environment PROVE UNCHANGED req
  BY <1>6 DEF Environment, Outage, Recovery, WindowEnds, BlockEnds
<1>7. ~InFlight(q) => Lost(q)
  BY DEF Lost
<1> QED  BY <1>u, <1>1, <1>2, <1>3, <1>4, <1>5, <1>6, <1>7, NextCases

-----------------------------------------------------------------------------
(* With history: the seeds.                                                *)

Others == accounts \ {Administrator}
Two(S) == \E x, y \in S : x # y

\* What a seed relies on between its steps, and what nobody takes from it as
\* long as it is not disturbed.
SeedTrue(a) ==
  LET s == seed[a] IN
  /\ s.pc # "failed"
  /\ s.pc = "users" => /\ s.left < SeedUsers => Others # {}
                       /\ s.left < SeedUsers - 1 => Two(Others)
  /\ s.pc \in {"findItemUsers", "items", "findReviewUsers", "findItems", "reviews",
               "findVoteUsers"} => Two(Others)
  /\ s.pc = "items" => s.todo # {} /\ s.todo \subseteq accounts
  /\ s.pc \in {"findReviewUsers", "findItems"} => items # {}
  /\ s.pc = "findItems" => s.users \subseteq accounts /\ Two(s.users)
  /\ s.pc \in {"users", "findItemUsers", "items", "findReviewUsers", "findItems"} => reviews = {}
  /\ s.pc = "reviews" => /\ s.todo # {} /\ s.todo \intersect reviews = {}
                         /\ \A r \in s.todo : r.item \in items /\ r.by \in accounts
  /\ s.pc \in {"findVoteUsers", "findReviews"} => reviews # {}
  /\ s.pc = "findReviews" => s.users \subseteq accounts
  /\ s.pc \in {"users", "findItemUsers", "items", "findReviewUsers", "findItems", "reviews",
               "findVoteUsers", "findReviews"} => votes = {}
  /\ s.pc = "votes" => \A v \in s.todo : /\ v.review \in reviews /\ v.by \in accounts
                                         /\ VotesBy(v.by, v.review) = {}

SeedTruth ==
  /\ disturbed \in [Seeders -> BOOLEAN]
  /\ \A a \in Seeders : disturbed[a] \/ SeedTrue(a)

LEMMA SeedTrueStays ==
  ASSUME NEW a \in Seeders, SeedTrue(a), seed'[a] = seed[a], ~Meddling
  PROVE  SeedTrue(a)'
<1>1. accounts \subseteq accounts' /\ items \subseteq items' /\ reviews' = reviews /\ votes' = votes
  BY DEF Meddling, Removal
<1>2. (Others # {} => Others' # {}) /\ (Two(Others) => Two(Others'))
  BY <1>1 DEF Others, Two
<1>3. items # {} => items' # {}
  BY <1>1
<1> QED  BY <1>1, <1>2, <1>3 DEF SeedTrue, Two, VotesBy

\* The steps of a seed that it is not to fail for keep to what it relies on.
LEMMA SeedStepTrue ==
  ASSUME RowsInv, SeedsInv, NEW a \in Seeders, SeedActs(a),
         seed[a].pc = "clean" \/ SeedTrue(a)
  PROVE  SeedTrue(a)'
<1>0. seed \in [Seeders -> SeedRecord] /\ SeedOK(seed[a]) /\ seed[a] \in SeedRecord
  BY DEF SeedsInv
<1>b. ASSUME NEW s, Become(a, s) PROVE seed'[a] = s
  BY <1>0, <1>b DEF Become
<1>1. CASE CleanDb(a)
  <2>1. reviews' = {} /\ votes' = {}
    BY <1>1, CleanEmpties
  <2>2. seed'[a].pc = "users" /\ seed'[a].left = SeedUsers
    BY <1>1, <1>b DEF CleanDb, NoSeed
  <2> QED  BY <2>1, <2>2 DEF SeedTrue
<1>2. CASE HasFresh(SeedIds) /\ CreateUser(a, FreshId(SeedIds))
  <2> DEFINE id == FreshId(SeedIds)
             left == seed[a].left - 1
  <2>1. id \in SeedIds /\ id \notin accounts /\ id # Administrator
    BY <1>2, FreshIsNew DEF Mentioned
  <2> HIDE DEF id
  <2>2. Others' = Others \union {id} /\ id \notin Others /\ UNCHANGED <<reviews, votes>>
    BY <1>2, <2>1 DEF CreateUser, Others, id
  <2>3. seed[a].pc = "users" /\ seed[a].left \in 0..SeedUsers /\ seed[a].left > 0 /\ SeedTrue(a)
    BY <1>0, <1>2 DEF CreateUser, SeedOK, SeedRecord
  <2>4. seed'[a] = [seed[a] EXCEPT !.left = left, !.pc = IF left = 0 THEN "findItemUsers" ELSE @]
    BY <1>2, <1>b DEF CreateUser
  <2>5. seed'[a].left = left /\ seed'[a].pc = IF left = 0 THEN "findItemUsers" ELSE "users"
    BY <1>0, <2>3, <2>4 DEF SeedRecord
  <2>6. Others' # {}
    BY <2>2
  <2>7. left < SeedUsers - 1 => Two(Others')
    <3>1. left < SeedUsers - 1 => seed[a].left < SeedUsers
      BY <2>3
    <3>2. Others # {} => Two(Others')
      BY <2>2 DEF Two
    <3> QED  BY <2>3, <3>1, <3>2 DEF SeedTrue
  <2>8. left = 0 => left < SeedUsers - 1
    BY <2>3
  <2>9. reviews' = {} /\ votes' = {}
    BY <2>2, <2>3 DEF SeedTrue
  <2> HIDE DEF left
  <2> QED  BY <2>5, <2>6, <2>7, <2>8, <2>9 DEF SeedTrue
<1>3. CASE FindUsers(a)
  <2>1. SeedTrue(a) /\ seed[a].pc \in {"findItemUsers", "findReviewUsers", "findVoteUsers"}
    BY <1>3 DEF FindUsers
  <2>2. Two(Others) /\ Others # {}
    BY <2>1 DEF SeedTrue, Two
  <2>3. /\ UNCHANGED tableVars
        /\ \/ /\ seed[a].pc = "findItemUsers"
              /\ Become(a, [seed[a] EXCEPT !.pc = "items", !.todo = Others])
           \/ /\ seed[a].pc = "findReviewUsers"
              /\ Become(a, [seed[a] EXCEPT !.pc = "findItems", !.users = Others])
           \/ /\ seed[a].pc = "findVoteUsers"
              /\ Become(a, [seed[a] EXCEPT !.pc = "findReviews", !.users = Others])
    BY <1>3, <2>1, <2>2 DEF FindUsers, Others
  <2>4. \/ seed[a].pc = "findItemUsers" /\ seed'[a].pc = "items" /\ seed'[a].todo = Others
        \/ seed[a].pc = "findReviewUsers" /\ seed'[a].pc = "findItems" /\ seed'[a].users = Others
        \/ seed[a].pc = "findVoteUsers" /\ seed'[a].pc = "findReviews" /\ seed'[a].users = Others
    <3>1. CASE seed[a].pc = "findItemUsers"
      BY <1>0, <1>b, <2>3, <3>1 DEF SeedRecord
    <3>2. CASE seed[a].pc = "findReviewUsers"
      BY <1>0, <1>b, <2>3, <3>2 DEF SeedRecord
    <3>3. CASE seed[a].pc = "findVoteUsers"
      BY <1>0, <1>b, <2>3, <3>3 DEF SeedRecord
    <3> QED  BY <2>1, <3>1, <3>2, <3>3
  <2>5. Others' = Others /\ Others \subseteq accounts /\ accounts' = accounts /\ items' = items
        /\ reviews' = reviews /\ votes' = votes
    BY <2>3 DEF Others, tableVars
  <2> QED  BY <2>1, <2>2, <2>4, <2>5 DEF SeedTrue
<1>4. CASE CreateItem(a)
  <2>1. SeedTrue(a) /\ seed[a].pc = "items" /\ seed[a].todo \subseteq accounts
    BY <1>4 DEF CreateItem, SeedTrue
  <2>2. PICK u \in seed[a].todo :
          /\ items' = items \union {u} /\ UNCHANGED <<accounts, reviews, votes>>
          /\ Become(a, Then(seed[a], seed[a].todo \ {u}, "findReviewUsers"))
    BY <1>4, <2>1 DEF CreateItem
  <2> DEFINE t == Then(seed[a], seed[a].todo \ {u}, "findReviewUsers")
  <2>3. t.pc = (IF seed[a].todo \ {u} = {} THEN "findReviewUsers" ELSE seed[a].pc)
        /\ t.todo = seed[a].todo \ {u}
    BY <1>0, <2>1, SavedOK
  <2>4. seed'[a] = t
    BY <1>b, <2>2
  <2> HIDE DEF t
  <2>5. items' # {} /\ Others' = Others
    BY <2>2 DEF Others
  <2> QED  BY <2>1, <2>2, <2>3, <2>4, <2>5 DEF SeedTrue
<1>5. CASE FindItems(a)
  <2>1. /\ SeedTrue(a) /\ seed[a].pc = "findItems" /\ items # {} /\ reviews = {} /\ votes = {}
        /\ seed[a].users \subseteq accounts /\ Two(seed[a].users) /\ Two(Others)
    BY <1>5 DEF FindItems, SeedTrue
  <2>2. PICK chosen \in Shuffled(ReviewCandidates(a), SeedReviews) :
          Become(a, [seed[a] EXCEPT !.pc = IF chosen = {} THEN "findVoteUsers" ELSE "reviews",
                                    !.users = {}, !.todo = chosen])
    BY <1>5, <2>1 DEF FindItems
  <2>3. UNCHANGED tableVars
    BY <1>5 DEF FindItems, Fail
  <2>4. ReviewCandidates(a) # {}
    <3>1. PICK i \in items, x \in seed[a].users, y \in seed[a].users : x # y
      BY <2>1 DEF Two
    <3>2. PICK u \in seed[a].users : u # i
      BY <3>1
    <3>3. [item |-> i, by |-> u] \in ReviewCandidates(a)
      BY <3>2 DEF ReviewCandidates
    <3> QED  BY <3>3
  <2>5. IsFiniteSet(ReviewCandidates(a))
    <3>1. IsFiniteSet(items) /\ IsFiniteSet(seed[a].users)
      <4>1. items \subseteq Ids /\ seed[a].users \subseteq Ids
        BY <1>0 DEF RowsInv, KeysHold, SeedRecord
      <4> QED  BY <4>1, IdsFinite, FS_Subset
    <3>2. ReviewCandidates(a) \in SUBSET [item : items, by : seed[a].users]
      BY DEF ReviewCandidates
    <3> QED  BY <3>1, <3>2, ReviewsFinite
  <2>6. chosen \subseteq ReviewCandidates(a) /\ chosen # {}
    BY <2>4, <2>5, ShuffledDraws
  <2>7. seed'[a].pc = "reviews" /\ seed'[a].todo = chosen
    BY <1>0, <1>b, <2>2, <2>6 DEF SeedRecord
  <2>8. \A r \in chosen : r.item \in items /\ r.by \in accounts
    BY <2>1, <2>6 DEF ReviewCandidates
  <2>9. Others' = Others /\ accounts' = accounts /\ items' = items /\ reviews' = {} /\ votes' = {}
    BY <2>1, <2>3 DEF Others, tableVars
  <2> QED  BY <2>1, <2>6, <2>7, <2>8, <2>9 DEF SeedTrue
<1>6. CASE CreateReview(a)
  <2>1. /\ SeedTrue(a) /\ seed[a].pc = "reviews" /\ seed[a].todo \intersect reviews = {}
        /\ votes = {} /\ Two(Others)
        /\ \A r \in seed[a].todo : r.item \in items /\ r.by \in accounts
    BY <1>6 DEF CreateReview, SeedTrue
  <2>2. PICK r \in seed[a].todo :
          /\ reviews' = reviews \union {r} /\ UNCHANGED <<accounts, items, votes>>
          /\ Become(a, Then(seed[a], seed[a].todo \ {r}, "findVoteUsers"))
    BY <1>6, <2>1 DEF CreateReview, InsertReview
  <2> DEFINE t == Then(seed[a], seed[a].todo \ {r}, "findVoteUsers")
  <2>3. t.pc = (IF seed[a].todo \ {r} = {} THEN "findVoteUsers" ELSE seed[a].pc)
        /\ t.todo = seed[a].todo \ {r}
    BY <1>0, <2>1, SavedOK
  <2>4. seed'[a] = t
    BY <1>b, <2>2
  <2> HIDE DEF t
  <2>5. reviews' # {} /\ Others' = Others /\ t.todo \intersect reviews' = {}
    BY <2>1, <2>2, <2>3 DEF Others
  <2>6. \A x \in t.todo : x.item \in items /\ x.by \in accounts
    BY <2>1, <2>3
  <2> QED  BY <2>1, <2>2, <2>3, <2>4, <2>5, <2>6 DEF SeedTrue
<1>7. CASE FindReviews(a)
  <2>1. /\ SeedTrue(a) /\ seed[a].pc = "findReviews" /\ reviews # {} /\ votes = {}
        /\ seed[a].users \subseteq accounts
    BY <1>7 DEF FindReviews, SeedTrue
  <2>2. PICK chosen \in Shuffled(VoteCandidates(a), SeedVotes) :
          Become(a, [seed[a] EXCEPT !.pc = "votes", !.users = {}, !.todo = chosen])
    BY <1>7, <2>1 DEF FindReviews
  <2>3. UNCHANGED tableVars
    BY <1>7 DEF FindReviews, Fail
  <2>4. chosen \subseteq VoteCandidates(a)
    BY ShuffledDraws
  <2>5. seed'[a].pc = "votes" /\ seed'[a].todo = chosen
    BY <1>0, <1>b, <2>2 DEF SeedRecord
  <2>6. \A v \in chosen : v.review \in reviews /\ v.by \in accounts
    BY <2>1, <2>4 DEF VoteCandidates
  <2>7. votes' = {} /\ accounts' = accounts /\ reviews' = reviews
    BY <2>1, <2>3 DEF tableVars
  <2> QED  BY <2>5, <2>6, <2>7 DEF SeedTrue, VotesBy
<1>8. CASE CreateVote(a)
  <2>1. /\ SeedTrue(a) /\ seed[a].pc = "votes" /\ seed[a].todo \subseteq Ballots
        /\ \A v \in seed[a].todo : /\ v.review \in reviews /\ v.by \in accounts
                                   /\ VotesBy(v.by, v.review) = {}
    BY <1>0, <1>8 DEF CreateVote, SeedTrue, SeedOK
  <2>2. PICK v \in seed[a].todo :
          /\ \E action \in VoteAction :
               votes' = votes \union {[review |-> v.review, by |-> v.by, action |-> action]}
          /\ UNCHANGED <<accounts, items, reviews>>
          /\ Become(a, Then(seed[a], seed[a].todo \ {v}, "refresh"))
    BY <1>8, <2>1 DEF CreateVote
  <2> DEFINE t == Then(seed[a], seed[a].todo \ {v}, "refresh")
  <2>3. t.pc = (IF seed[a].todo \ {v} = {} THEN "refresh" ELSE seed[a].pc)
        /\ t.todo = seed[a].todo \ {v}
    BY <1>0, <2>1, SavedOK
  <2>4. seed'[a] = t
    BY <1>b, <2>2
  <2> HIDE DEF t
  <2>5. ASSUME NEW x \in t.todo PROVE VotesBy(x.by, x.review)' = {}
    <3>1. x \in Ballots /\ v \in Ballots /\ x # v /\ VotesBy(x.by, x.review) = {}
      BY <2>1, <2>2, <2>3
    <3>2. ~(x.by = v.by /\ x.review = v.review)
      BY <3>1 DEF Ballots
    <3>3. PICK action : votes' = votes \union {[review |-> v.review, by |-> v.by, action |-> action]}
      BY <2>2
    <3> QED  BY <3>1, <3>2, <3>3 DEF VotesBy
  <2>6. \A x \in t.todo : x.review \in reviews' /\ x.by \in accounts'
    BY <2>1, <2>2, <2>3
  <2> QED  BY <2>1, <2>3, <2>4, <2>5, <2>6 DEF SeedTrue
<1>9. CASE RefreshSnapshot(a) \/ RefreshUpdate(a)
  <2>1. seed'[a].pc \in {"update", "done"}
    BY <1>9, <1>b DEF RefreshSnapshot, RefreshUpdate, NoSeed
  <2> QED  BY <2>1 DEF SeedTrue
<1>10. CASE SeedRefused(a)
  <2>1. seed'[a].pc = "refused"
    BY <1>10, <1>b DEF SeedRefused, StatementRefused, NoSeed
  <2> QED  BY <2>1 DEF SeedTrue
<1> QED
  BY <1>1, <1>2, <1>3, <1>4, <1>5, <1>6, <1>7, <1>8, <1>9, <1>10 DEF SeedActs, SeedStep

LEMMA NextSeedTruth ==
  ASSUME ServerInv, SeedTruth, HistoryNext
  PROVE  SeedTruth'
<1>1. /\ ServerNext
      /\ disturbed' = [a \in Seeders |->
                         /\ seed[a].pc \notin {"off", "clean"}
                         /\ disturbed[a] \/ (Meddling /\ seed'[a] = seed[a])]
  BY DEF HistoryNext
<1>2. RowsInv /\ SeedsInv
  BY DEF ServerInv, ControlInv
<1>3. disturbed' \in [Seeders -> BOOLEAN]
  BY <1>1
<1>4. ASSUME NEW a \in Seeders, ~disturbed'[a] PROVE SeedTrue(a)'
  <2>1. CASE seed'[a] = seed[a] /\ seed[a].pc \in {"off", "clean"}
    BY <2>1 DEF SeedTrue
  <2>2. CASE seed'[a] = seed[a] /\ seed[a].pc \notin {"off", "clean"}
    <3>1. SeedTrue(a) /\ ~Meddling
      BY <1>1, <1>4, <2>2 DEF SeedTruth
    <3> QED  BY <2>2, <3>1, SeedTrueStays
  <2>3. CASE seed'[a].pc \in {"off", "clean"}
    BY <2>3 DEF SeedTrue
  <2>4. CASE SeedActs(a)
    <3>1. seed[a].pc # "off"
      BY <2>4 DEF SeedActs, SeedStep, SeedRefused, StatementRefused, Running, Ended
    <3>2. seed[a].pc = "clean" \/ SeedTrue(a)
      BY <1>1, <1>4, <3>1 DEF SeedTruth
    <3> QED  BY <1>2, <2>4, <3>2, SeedStepTrue
  <2>5. CASE \E b \in Seeders \ {a} : SeedActs(b)
    <3>1. seed'[a] = seed[a]
      BY <1>2, <2>5, SeedStepMoves DEF SeedMoves, SeedsInv
    <3> QED  BY <2>1, <2>2, <3>1
  <2>6. CASE Interrupts
    <3>1. CASE seed'[a].pc = "refresh"
      BY <3>1 DEF SeedTrue
    <3> QED  BY <2>1, <2>2, <2>3, <2>6, <3>1 DEF Interrupts
  <2> QED  BY <1>1, <2>4, <2>5, <2>6, OtherSteps
<1> QED  BY <1>3, <1>4 DEF SeedTruth

-----------------------------------------------------------------------------
(* With history: the errors.                                               *)

Errors == {"INTERNAL_SERVER_ERROR", "SERVICE_UNAVAILABLE"}

\* What a request in flight relies on for as long as nothing has gone amiss.
AtEase(q) ==
  /\ down \subseteq {"cache"} /\ tally = Counts
  /\ phase[req[q].proc] = "serving" /\ req[q].op # "runSeed"
  /\ req[q].pc = "handle" /\ ~Policy[req[q].op].public => req[q].user \in accounts
  /\ req[q].pc = "save" => req[q].user \in accounts /\ req[q].on \in items
  /\ req[q].found \subseteq votes
  /\ req[q].pc = "cast" =>
       \A v \in req[q].todo : /\ v.by \in accounts /\ v.review \in reviews
                              /\ VotesBy(v.by, v.review) \subseteq req[q].found

CalmInv ==
  /\ calm \in [Requests -> BOOLEAN]
  /\ \A q \in Requests :
       calm[q] => IF InFlight(q) THEN AtEase(q) ELSE req[q].answer \notin Errors

\* q has its answer, and it is no error.
AnswersWell(q) == \E x : x \notin Errors /\ Finish(q, x)

LEMMA ThrowsWell ==
  ASSUME NEW q, NEW c, c \notin Errors, Throw(q, GqlHttpError(c))
  PROVE  AnswersWell(q)
BY GqlAnswer DEF Throw, AnswersWell

LEMMA FinishesWell ==
  ASSUME NEW q, Finish(q, "OK")
  PROVE  AnswersWell(q)
BY DEF AnswersWell, Errors

\* Votes that are there are in the counters.
LEMMA Countable ==
  ASSUME RowsInv, tally = Counts, NEW some \in SUBSET votes
  PROVE  ~Uncountable(some)
<1> SUFFICES ASSUME NEW v \in some, v.review \in reviews, tally[v.review][v.action] = 0
             PROVE  FALSE
  BY DEF Uncountable
<1> DEFINE all == VotesOn(votes, v.review, v.action)
<1>1. v \in all /\ v.action \in VoteAction
  BY DEF VotesOn, RowsInv, VoteRows
<1>2. tally[v.review][v.action] = Cardinality(all)
  BY <1>1, CountsRead
<1>3. IsFiniteSet(all)
  BY VotesFinite DEF VotesOn, RowsInv
<1> HIDE DEF all
<1>4. Cardinality(all) # 0
  BY <1>1, <1>3, FS_EmptySet
<1> QED  BY <1>2, <1>4

\* When nothing is amiss a step of a request answers well, or goes on.
LEMMA CalmAnswer ==
  ASSUME ServerInv, NEW q \in Requests, Acts(q), AtEase(q), Quiet(q, req[q].proc)
  PROVE  AnswersWell(q) \/ InFlight(q)'
<1>0. /\ req \in [Requests -> RequestRecord] /\ RequestOK(req[q]) /\ RowsInv
      /\ Up("auth") /\ Up("queue") /\ tally = Counts
      /\ ~RefuseText(q) /\ ~StatementFails(q)
  BY DEF ServerInv, ControlInv, RequestsInv, AtEase, Up, Quiet
<1>c. InFlight(q) => \A c \in Connections : ~Closed(req[q].proc, c)
  <2> SUFFICES ASSUME InFlight(q), NEW c \in Connections PROVE ~Closed(req[q].proc, c)
    OBVIOUS
  <2>1. req[q].proc \in Processes /\ ~Closing(req[q].proc)
    BY <1>0 DEF RequestOK, InFlight, AtEase, Closing
  <2>2. \A p \in Processes : conn[p][c] # "open" => Closing(p)
    BY DEF ServerInv, ControlInv, ConnInv
  <2> QED  BY <2>1, <2>2 DEF Closed
<1>r. ~Uncountable(req[q].found)
  BY <1>0, Countable DEF AtEase
<1>g. ASSUME NEW r, req' = [req EXCEPT ![q] = r], r.pc # "idle" PROVE InFlight(q)'
  BY <1>0, <1>g DEF InFlight
<1>h. ASSUME NEW pc, pc # "idle", Go(q, pc) PROVE InFlight(q)'
  <2>1. [req[q] EXCEPT !.pc = pc].pc = pc
    BY <1>0 DEF RequestRecord
  <2>2. req' = [req EXCEPT ![q] = [req[q] EXCEPT !.pc = pc]]
    BY <1>h DEF Go
  <2> QED  BY <1>g, <1>h, <2>1, <2>2
<1>s. ASSUME NEW pc, pc # "idle", NEW u, req' = [req EXCEPT ![q].pc = pc, ![q].user = u]
      PROVE  InFlight(q)'
  <2>1. [req[q] EXCEPT !.pc = pc, !.user = u].pc = pc
    BY <1>0 DEF RequestRecord
  <2>2. req' = [req EXCEPT ![q] = [req[q] EXCEPT !.pc = pc, !.user = u]]
    BY <1>0, <1>s
  <2> QED  BY <1>g, <1>s, <2>1, <2>2
<1>e. \A c \in {"BAD_REQUEST", "NOT_FOUND", "CONFLICT", "UNAUTHORIZED", "FORBIDDEN",
                "TOO_MANY_REQUESTS"} : c \notin Errors
  BY DEF Errors
<1>1. CASE Throttle(q)
  <2>1. Throw(q, TooManyRequests(req[q].op)) \/ Go(q, "handle") \/ Go(q, "guard")
    BY <1>0, <1>1, <1>c DEF Throttle, InFlight, Connections
  <2>2. CASE Throw(q, TooManyRequests(req[q].op))
    BY <1>e, <2>2, TooManyAnswer DEF Throw, AnswersWell
  <2> QED  BY <1>h, <2>1, <2>2
<1>2. CASE Guards(q)
  <2>1. Throw(q, GqlHttpError("UNAUTHORIZED")) \/ Throw(q, GqlHttpError("FORBIDDEN"))
        \/ Go(q, "handle")
    BY <1>0, <1>2 DEF Guards
  <2> QED  BY <1>e, <1>h, <2>1, ThrowsWell
<1>3. CASE SignUp(q)
  <2>1. \/ Throw(q, GqlHttpError("BAD_REQUEST")) \/ Throw(q, GqlHttpError("CONFLICT"))
        \/ \E u : req' = [req EXCEPT ![q].pc = "session", ![q].user = u]
    BY <1>3 DEF SignUp, BadRequest
  <2> QED  BY <1>e, <1>s, <2>1, ThrowsWell
<1>4. CASE SignIn(q)
  <2>1. PICK u \in People :
          CASE u \notin accounts -> Throw(q, GqlHttpError("UNAUTHORIZED"))
            [] u \in accounts /\ ~Up("auth") -> Throw(q, DriverError("clientOffline"))
            [] OTHER -> \/ req' = [req EXCEPT ![q].pc = "session", ![q].user = u]
                        \/ u \in live /\ Throw(q, GqlHttpError("FORBIDDEN"))
    BY <1>4 DEF SignIn
  <2>2. \/ Throw(q, GqlHttpError("UNAUTHORIZED")) \/ Throw(q, GqlHttpError("FORBIDDEN"))
        \/ req' = [req EXCEPT ![q].pc = "session", ![q].user = u]
    BY <1>0, <2>1
  <2> QED  BY <1>e, <1>s, <2>2, ThrowsWell
<1>5. CASE CreateSession(q)
  BY <1>0, <1>5, FinishesWell DEF CreateSession
<1>6. CASE SignOut(q)
  BY <1>0, <1>6, FinishesWell DEF SignOut
<1>7. CASE SpendLink(q)
  <2>1. \/ Throw(q, HttpException("BAD_REQUEST")) \/ Throw(q, GqlHttpError("UNAUTHORIZED"))
        \/ \E u : req' = [req EXCEPT ![q].pc = "remove", ![q].user = u]
    BY <1>0, <1>7 DEF SpendLink, RefuseLink
  <2>2. Answer(req[q].op, HttpException("BAD_REQUEST")) = "BAD_REQUEST"
    BY <1>7, HttpAnswer, RestDelete DEF SpendLink, Handling
  <2>3. CASE Throw(q, HttpException("BAD_REQUEST"))
    BY <1>e, <2>2, <2>3 DEF Throw, AnswersWell
  <2> QED  BY <1>e, <1>s, <2>1, <2>3, ThrowsWell
<1>8. CASE FindAccount(q) \/ RemoveAccount(q)
  <2>1. CASE FindAccount(q)
    <3> DEFINE some == {v \in votes : v.by = req[q].user}
    <3>1. Throw(q, GqlHttpError("NOT_FOUND"))
          \/ req' = [req EXCEPT ![q].pc = "revoke", ![q].found = some]
      BY <2>1 DEF FindAccount
    <3>2. [req[q] EXCEPT !.pc = "revoke", !.found = some].pc = "revoke"
      BY <1>0 DEF RequestRecord
    <3>3. CASE req' = [req EXCEPT ![q].pc = "revoke", ![q].found = some]
      <4>1. req' = [req EXCEPT ![q] = [req[q] EXCEPT !.pc = "revoke", !.found = some]]
        BY <1>0, <3>3
      <4> QED  BY <1>g, <3>2, <4>1
    <3> QED  BY <1>e, <3>1, <3>3, ThrowsWell
  <2>2. CASE RemoveAccount(q)
    BY <1>r, <2>2, FinishesWell DEF RemoveAccount
  <2> QED  BY <1>8, <2>1, <2>2
<1>9. CASE CreateOneItem(q)
  <2>1. req[q].pc = "handle" /\ req[q].op = "createItem"
    BY <1>9 DEF CreateOneItem, Handling
  <2>2. req[q].user \in accounts
    BY <2>1, Guarded DEF AtEase
  <2>3. \/ Throw(q, GqlHttpError("BAD_REQUEST")) \/ Throw(q, GqlHttpError("CONFLICT"))
        \/ Finish(q, "OK")
    BY <1>9, <2>2 DEF CreateOneItem, BadRequest
  <2> QED  BY <1>e, <2>3, ThrowsWell, FinishesWell
<1>10. CASE FindItemToReview(q)
  <2>1. \/ Throw(q, GqlHttpError("BAD_REQUEST")) \/ Throw(q, GqlHttpError("NOT_FOUND"))
        \/ Throw(q, GqlHttpError("FORBIDDEN"))
        \/ \E i : req' = [req EXCEPT ![q].pc = "save", ![q].on = i]
    <3>1. CASE BadRequest(q, CreateReviewInput)
      BY <3>1 DEF BadRequest
    <3>2. CASE ~BadRequest(q, CreateReviewInput)
      <4>1. PICK i \in Ids :
              CASE i \notin items -> Throw(q, GqlHttpError("NOT_FOUND"))
                [] i \in items /\ i = req[q].user -> Throw(q, GqlHttpError("FORBIDDEN"))
                [] OTHER -> req' = [req EXCEPT ![q].pc = "save", ![q].on = i]
        BY <1>10, <3>2 DEF FindItemToReview
      <4> QED  BY <4>1
    <3> QED  BY <3>1, <3>2
  <2>2. ASSUME NEW i, req' = [req EXCEPT ![q].pc = "save", ![q].on = i] PROVE InFlight(q)'
    <3>1. [req[q] EXCEPT !.pc = "save", !.on = i].pc = "save"
      BY <1>0 DEF RequestRecord
    <3>2. req' = [req EXCEPT ![q] = [req[q] EXCEPT !.pc = "save", !.on = i]]
      BY <1>0, <2>2
    <3> QED  BY <1>g, <3>1, <3>2
  <2> QED  BY <1>e, <2>1, <2>2, ThrowsWell
<1>11. CASE SaveReview(q)
  <2> DEFINE r == [item |-> req[q].on, by |-> req[q].user]
  <2>1. r.item \in items /\ r.by \in accounts
    BY <1>11 DEF SaveReview, AtEase
  <2>2. Throw(q, GqlHttpError("CONFLICT")) \/ Finish(q, "OK")
    <3>1. CASE r \in reviews
      BY <1>11, <2>1, <3>1 DEF SaveReview
    <3>2. CASE r \notin reviews
      BY <1>11, <2>1, <3>2 DEF SaveReview
    <3> QED  BY <3>1, <3>2
  <2> QED  BY <1>e, <2>2, ThrowsWell, FinishesWell
<1>12. CASE FindVote(q)
  <2> SUFFICES ASSUME ~Throw(q, GqlHttpError("NOT_FOUND")), ~Finish(q, "OK")
               PROVE  InFlight(q)'
    BY <1>e, ThrowsWell, FinishesWell
  <2>1. \E pc \in {"retract", "cast"} : \E found, todo :
          req' = [req EXCEPT ![q].pc = pc, ![q].found = found, ![q].todo = todo]
    <3>1. PICK r \in reviews, action \in VoteAction :
            LET u == req[q].user
                previous == VotesBy(u, r)
                todo == IF req[q].op = "deleteVote" THEN {}
                        ELSE {[review |-> r, by |-> u, action |-> action]}
            IN /\ ~Locked(u, r)
               /\ IF previous = todo THEN Finish(q, "OK")
                  ELSE req' = [req EXCEPT ![q].pc = IF todo = {} THEN "retract" ELSE "cast",
                                          ![q].found = previous, ![q].todo = todo]
      BY <1>12 DEF FindVote
    <3> DEFINE todo == IF req[q].op = "deleteVote" THEN {}
                       ELSE {[review |-> r, by |-> req[q].user, action |-> action]}
               next == IF todo = {} THEN "retract" ELSE "cast"
    <3>2. req' = [req EXCEPT ![q].pc = next, ![q].found = VotesBy(req[q].user, r), ![q].todo = todo]
      BY <3>1
    <3>3. next \in {"retract", "cast"}
      OBVIOUS
    <3> HIDE DEF todo, next
    <3> QED  BY <3>2, <3>3
  <2>2. PICK pc \in {"retract", "cast"} : \E found, todo :
          req' = [req EXCEPT ![q].pc = pc, ![q].found = found, ![q].todo = todo]
    BY <2>1
  <2>3. PICK found, todo :
          req' = [req EXCEPT ![q].pc = pc, ![q].found = found, ![q].todo = todo]
    BY <2>2
  <2>4. [req[q] EXCEPT !.pc = pc, !.found = found, !.todo = todo].pc = pc
    BY <1>0 DEF RequestRecord
  <2>5. req' = [req EXCEPT ![q] = [req[q] EXCEPT !.pc = pc, !.found = found, !.todo = todo]]
    BY <1>0, <2>3
  <2> QED  BY <1>g, <2>4, <2>5
<1>13. CASE CastVote(q) \/ RetractVote(q)
  <2>1. CASE CastVote(q)
    <3>1. req[q].pc = "cast"
      BY <2>1 DEF CastVote
    <3> QED  BY <1>r, <2>1, <3>1, FinishesWell DEF CastVote, AtEase
  <2>2. CASE RetractVote(q)
    BY <1>r, <2>2, FinishesWell DEF RetractVote
  <2> QED  BY <1>13, <2>1, <2>2
<1>14. CASE Query(q)
  BY <1>e, <1>h, <1>14, ThrowsWell, FinishesWell DEF Query, BadRequest
<1>15. CASE FindAddressee(q)
  BY <1>h, <1>15, FinishesWell DEF FindAddressee
<1>16. CASE AddJob(q)
  BY <1>0, <1>16, <1>c, FinishesWell DEF AddJob, InFlight, Connections
<1>17. CASE CheckHealth(q)
  BY <1>0, <1>17, <1>c, FinishesWell DEF CheckHealth, InFlight, Connections, Handling
<1>18. CASE RunSeed(q) \/ SeedAnswered(q)
  BY <1>0, <1>18 DEF RunSeed, SeedAnswered, Handling, RequestOK, AtEase
<1> QED
  BY <1>1, <1>2, <1>3, <1>4, <1>5, <1>6, <1>7, <1>8, <1>9, <1>10, <1>11, <1>12, <1>13, <1>14,
     <1>15, <1>16, <1>17, <1>18, <1>0 DEF Acts, Step

\* A request in flight takes a step of its own, or waits, or is lost.
LEMMA InFlightCases ==
  ASSUME ServerInv, ServerNext, NEW q \in Requests, InFlight(q)
  PROVE  Acts(q) \/ req'[q] = req[q] \/ req'[q] = [NoRequest EXCEPT !.answer = "lost"]
<1> USE DEF ServerInv, ControlInv
<1>0. req \in [Requests -> RequestRecord]
  BY DEF RequestsInv
<1>1. ASSUME NEW p \in Processes, Ends(p)
      PROVE  req'[q] = req[q] \/ req'[q] = [NoRequest EXCEPT !.answer = "lost"]
  BY <1>1 DEF Ends, Exit
<1>2. ASSUME NEW p \in Processes, ProcessStep(p), ~Ends(p) PROVE UNCHANGED req
  BY <1>2 DEF ProcessStep, Closes, Close, Settles, Settle, Advances, Prepares, Misses,
              SeedExecuted, Start, Connect, Disposes, Dispose, Listen, Midnight
<1>3. ASSUME NEW a \in Seeders, SeedActs(a) PROVE UNCHANGED req
  BY <1>3 DEF SeedActs, SeedStep, SeedRefused
<1>4. ASSUME NEW b \in Requests, Acts(b), b # q PROVE req'[q] = req[q]
  BY <1>0, <1>4, StepGoes DEF Goes, RunSeed, SeedAnswered, Go, Finish, Throw
<1>5. ASSUME NEW b \in Requests, NEW p \in Processes, Arrive(b, p) PROVE req'[q] = req[q]
  BY <1>0, <1>5 DEF Arrive
<1>6. ASSUME Environment PROVE UNCHANGED req
  BY <1>6 DEF Environment, Outage, Recovery, WindowEnds, BlockEnds
<1> QED  BY <1>1, <1>2, <1>3, <1>4, <1>5, <1>6, NextCases

\* One that is not comes in, or nothing happens to it.
LEMMA IdleCases ==
  ASSUME ServerInv, ServerNext, NEW q \in Requests, ~InFlight(q)
  PROVE  req'[q] = req[q] \/ \E p \in Processes : Arrive(q, p)
<1> USE DEF ServerInv, ControlInv
<1>0. req \in [Requests -> RequestRecord]
  BY DEF RequestsInv
<1>1. ASSUME NEW p \in Processes, Ends(p) PROVE req'[q] = req[q]
  BY <1>1 DEF Ends, Exit, On
<1>2. ASSUME NEW p \in Processes, ProcessStep(p), ~Ends(p) PROVE UNCHANGED req
  BY <1>2 DEF ProcessStep, Closes, Close, Settles, Settle, Advances, Prepares, Misses,
              SeedExecuted, Start, Connect, Disposes, Dispose, Listen, Midnight
<1>3. ASSUME NEW a \in Seeders, SeedActs(a) PROVE UNCHANGED req
  BY <1>3 DEF SeedActs, SeedStep, SeedRefused
<1>4. ASSUME NEW b \in Requests, Acts(b) PROVE req'[q] = req[q]
  <2>1. b # q
    BY <1>4 DEF Acts, Step, StatementFails, Handling, InFlight
  <2> QED  BY <1>0, <1>4, <2>1, StepGoes DEF Goes, RunSeed, SeedAnswered, Go, Finish, Throw
<1>5. ASSUME NEW b \in Requests, NEW p \in Processes, Arrive(b, p), b # q PROVE req'[q] = req[q]
  BY <1>0, <1>5 DEF Arrive
<1>6. ASSUME Environment PROVE UNCHANGED req
  BY <1>6 DEF Environment, Outage, Recovery, WindowEnds, BlockEnds
<1> QED  BY <1>1, <1>2, <1>3, <1>4, <1>5, <1>6, NextCases

\* A calm request that comes in meets nothing amiss, or has its answer at once.
LEMMA CalmArrival ==
  ASSUME ServerInv, NEW q \in Requests, NEW p \in Processes, Arrive(q, p),
         Quiet(q, req'[q].proc)
  PROVE  IF InFlight(q)' THEN AtEase(q)' ELSE req'[q].answer \notin Errors
<1>0. req \in [Requests -> RequestRecord]
  BY DEF ServerInv, ControlInv, RequestsInv
<1>1. PICK o \in Ops, u \in Cookies :
        req' = [req EXCEPT ![q] =
                  IF u = Nobody \/ Up("auth")
                  THEN [NoRequest EXCEPT !.pc = "throttle", !.op = o, !.proc = p, !.user = u]
                  ELSE [NoRequest EXCEPT !.answer = Answer(o, DriverError("clientOffline"))]]
  BY DEF Arrive
<1>2. down' = down /\ down' \subseteq {"cache"} /\ tally' = Counts'
  BY DEF Arrive, Quiet
<1>3. req'[q] = [NoRequest EXCEPT !.pc = "throttle", !.op = o, !.proc = p, !.user = u]
  BY <1>0, <1>1, <1>2 DEF Up
<1>4. req'[q].pc = "throttle" /\ req'[q].proc = p /\ req'[q].found = {}
  BY <1>3 DEF NoRequest
<1>5. phase'[p] = "serving" /\ req'[q].op # "runSeed"
  BY <1>4, ServerAssumption DEF Quiet
<1> QED  BY <1>2, <1>4, <1>5 DEF AtEase, InFlight

\* Where nobody removes an account or an item no review goes, and votes come by
\* the transactions of requests and the saves of seeds.
LEMMA RowsGrow ==
  ASSUME ServerInv, ServerNext, ~Removal
  PROVE  /\ reviews \subseteq reviews'
         /\ \/ votes' \subseteq votes
            \/ \E o \in Requests : CastVote(o)
            \/ \E a \in Seeders : CreateVote(a)
<1>0. RowsInv /\ RowsInv' /\ accounts \subseteq accounts'
  BY NextServerInv DEF ServerInv, Removal
<1>k. ASSUME NEW kept, kept \subseteq accounts, accounts' = kept,
             reviews' = ReviewsOf(kept), votes' = VotesOf(kept)
      PROVE  reviews' = reviews /\ votes' \subseteq votes
  <2>1. kept = accounts
    BY <1>0, <1>k
  <2>2. ReviewsOf(accounts) = reviews
    BY <1>0 DEF ReviewsOf, RowsInv, KeysHold
  <2> QED  BY <1>k, <2>1, <2>2 DEF VotesOf
<1>1. ASSUME NEW p \in Processes, ProcessStep(p) PROVE UNCHANGED <<reviews, votes>>
  BY <1>1 DEF ProcessStep, Ends, Closes, Settles, Settle, Advances, Prepares, Misses, SeedExecuted,
              Start, Connect, Disposes, Dispose, Listen, Midnight, seedingVars, tableVars
<1>2. ASSUME NEW a \in Seeders, SeedActs(a), ~CreateVote(a)
      PROVE  reviews \subseteq reviews' /\ votes' \subseteq votes
  <2>1. CASE CleanDb(a)
    BY <1>k, <2>1 DEF CleanDb
  <2>2. CASE ~CleanDb(a)
    BY <1>2, <2>2 DEF SeedActs, SeedStep, SeedRefused, StatementRefused, FindUsers, FindItems,
                      FindReviews, Fail, CreateUser, CreateItem, CreateReview, InsertReview,
                      RefreshSnapshot, RefreshUpdate, tableVars
  <2> QED  BY <2>1, <2>2
<1>3. ASSUME NEW a \in Seeders, CreateVote(a) PROVE UNCHANGED reviews
  BY <1>3 DEF CreateVote, Fail, tableVars
<1>4. ASSUME NEW o \in Requests, Acts(o), ~CastVote(o)
      PROVE  reviews \subseteq reviews' /\ votes' \subseteq votes
  <2>1. CASE Reads(o)
    BY <2>1, ReadsOnly DEF tableVars
  <2>2. CASE RemoveAccount(o)
    BY <1>k, <2>2 DEF RemoveAccount, tableVars
  <2>3. CASE ~(Reads(o) \/ RemoveAccount(o))
    BY <1>4, <2>3, StepCases DEF SignUp, CreateOneItem, SaveReview, InsertReview, RetractVote
  <2> QED  BY <2>1, <2>2, <2>3
<1>5. ASSUME NEW o \in Requests, CastVote(o) PROVE UNCHANGED reviews
  BY <1>5 DEF CastVote
<1>6. ASSUME Environment \/ \E o \in Requests, p \in Processes : Arrive(o, p)
      PROVE  UNCHANGED <<reviews, votes>>
  BY <1>6 DEF Environment, Arrive, Outage, Recovery, WindowEnds, BlockEnds, seedingVars, tableVars
<1> QED  BY <1>1, <1>2, <1>3, <1>4, <1>5, <1>6, NextCases

\* A vote that a seed saves is in no counter.
LEMMA SavedUncounted ==
  ASSUME RowsInv, RowsInv', SeedsInv, tally = Counts, NEW a \in Seeders, CreateVote(a),
         tally' = Counts'
  PROVE  votes' = votes
<1> SUFFICES ASSUME votes' # votes PROVE FALSE
  OBVIOUS
<1>1. PICK v \in seed[a].todo, action \in VoteAction :
        /\ v.review \in reviews /\ VotesBy(v.by, v.review) = {}
        /\ votes' = votes \union {[review |-> v.review, by |-> v.by, action |-> action]}
        /\ UNCHANGED <<reviews, tally>>
  BY DEF CreateVote, Fail, tableVars
<1> DEFINE w == [review |-> v.review, by |-> v.by, action |-> action]
           all == VotesOn(votes, v.review, action)
<1>2. VotesOn(votes', v.review, action) = all \union {w} /\ w \notin all
  BY <1>1 DEF VotesOn, VotesBy
<1>3. IsFiniteSet(all) /\ Cardinality(all) \in Nat
  BY VotesFinite, FS_CardinalityType DEF VotesOn, RowsInv
<1>4. tally[v.review][action] = Cardinality(all)
  BY <1>1, CountsRead
<1>5. tally'[v.review][action] = Cardinality(all \union {w})
  <2>1. Counts'[v.review][action] = Cardinality(VotesOn(votes', v.review, action))
    BY <1>1 DEF Counts, VotesOn
  <2> QED  BY <1>2, <2>1
<1> HIDE DEF all, w
<1>6. Cardinality(all \union {w}) = Cardinality(all) + 1
  BY <1>2, <1>3, OneMore
<1> QED  BY <1>1, <1>3, <1>4, <1>5, <1>6

\* What a vote has read stays all there is of its user and review.
LEMMA CastStays ==
  ASSUME ServerInv, ServerNext, NEW q \in Requests, AtEase(q), req[q].pc = "cast",
         req'[q] = req[q], ~Removal, tally' = Counts', NEW v \in req[q].todo
  PROVE  v.review \in reviews' /\ VotesBy(v.by, v.review)' \subseteq req[q].found
<1>0. /\ RowsInv /\ RowsInv' /\ SeedsInv /\ RequestsInv /\ LocksInv /\ tally = Counts
      /\ v.review \in reviews /\ VotesBy(v.by, v.review) \subseteq req[q].found
      /\ req \in [Requests -> RequestRecord]
  BY NextServerInv DEF ServerInv, ControlInv, AtEase, RequestsInv
<1>1. v.review \in reviews'
  BY <1>0, RowsGrow
<1>2. CASE votes' \subseteq votes
  BY <1>0, <1>1, <1>2 DEF VotesBy
<1>3. ASSUME NEW o \in Requests, CastVote(o)
      PROVE  VotesBy(v.by, v.review)' \subseteq req[q].found
  <2>1. PICK w \in req[o].todo :
          UNCHANGED votes \/ votes' = (votes \ req[o].found) \union {w}
    BY <1>3 DEF CastVote
  <2>2. req[o].pc = "cast" /\ o # q
    <3>1. req[o].pc = "cast" /\ \E x : Finish(o, x)
      BY <1>3 DEF CastVote, Throw
    <3>2. req'[o].pc = "idle"
      BY <1>0, <3>1 DEF Finish, NoRequest
    <3> QED  BY <3>1, <3>2
  <2>3. ~(w.by = v.by /\ w.review = v.review)
    BY <1>0, <2>1, <2>2 DEF LocksInv, Voting
  <2> QED  BY <1>0, <2>1, <2>3 DEF VotesBy
<1>4. ASSUME NEW a \in Seeders, CreateVote(a)
      PROVE  VotesBy(v.by, v.review)' \subseteq req[q].found
  <2>1. votes' = votes
    BY <1>0, <1>4, SavedUncounted
  <2> QED  BY <1>0, <2>1 DEF VotesBy
<1> QED  BY <1>1, <1>2, <1>3, <1>4, RowsGrow

\* What a calm request relies on still holds when it has gone on.
LEMMA EaseStays ==
  ASSUME ServerInv, ServerNext, NEW q \in Requests, AtEase(q), Quiet(q, req[q].proc), InFlight(q),
         Acts(q) \/ req'[q] = req[q], InFlight(q)'
  PROVE  AtEase(q)'
<1>0. /\ req \in [Requests -> RequestRecord] /\ RequestOK(req[q])
      /\ req[q].proc \in Processes
  BY DEF ServerInv, ControlInv, RequestsInv, RequestOK, InFlight
<1>1. /\ down' \subseteq {"cache"} /\ tally' = Counts' /\ phase'[req[q].proc] = "serving"
      /\ req'[q].op # "runSeed" /\ accounts \subseteq accounts' /\ items \subseteq items'
      /\ req[q].found \subseteq votes' /\ ~Removal
  BY <1>0, ServerAssumption DEF Quiet, Removal
<1>2. CASE req'[q] = req[q]
  <2>1. req[q].pc = "cast" =>
          \A v \in req[q].todo : /\ v.by \in accounts' /\ v.review \in reviews'
                                 /\ VotesBy(v.by, v.review)' \subseteq req[q].found
    BY <1>1, <1>2, CastStays DEF AtEase
  <2> QED  BY <1>1, <1>2, <2>1 DEF AtEase
<1>3. CASE Goes(q)
  <2>1. PICK r : /\ r.pc # "idle" => r.proc = req[q].proc /\ r.op = req[q].op
                 /\ r.pc = "handle" => Policy[r.op].public \/ r.user \in accounts
                 /\ r.pc = "save" => /\ req[q].pc = "handle" /\ req[q].op = "createReview"
                                     /\ r.user = req[q].user /\ r.on \in items
                 /\ r.found \subseteq req[q].found \/ (r.found \subseteq votes /\ UNCHANGED votes)
                 /\ r.pc = "cast" =>
                      /\ req[q].pc = "handle" /\ req[q].op = "voteReview" /\ UNCHANGED tableVars
                      /\ \A v \in r.todo : /\ v.by = req[q].user /\ v.review \in reviews
                                           /\ VotesBy(v.by, v.review) \subseteq r.found
                 /\ req' = [req EXCEPT ![q] = r]
    BY <1>3 DEF Goes
  <2>2. req'[q] = r /\ r.proc = req[q].proc
    BY <1>0, <2>1 DEF InFlight
  <2>3. r.pc \in {"save", "cast"} => req[q].user \in accounts
    BY <2>1, Guarded DEF AtEase
  <2>4. r.found \subseteq votes'
    BY <1>1, <2>1
  <2>5. r.pc = "cast" =>
          \A v \in r.todo : /\ v.by \in accounts' /\ v.review \in reviews'
                            /\ VotesBy(v.by, v.review)' \subseteq r.found
    BY <2>1, <2>3 DEF tableVars, VotesBy
  <2> QED  BY <1>1, <2>1, <2>2, <2>3, <2>4, <2>5 DEF AtEase
<1>4. CASE RunSeed(q) \/ SeedAnswered(q)
  BY <1>0, <1>4 DEF RunSeed, SeedAnswered, Handling, RequestOK, AtEase
<1> QED  BY <1>2, <1>3, <1>4, StepGoes DEF ServerInv, ControlInv

LEMMA NextCalm ==
  ASSUME ServerInv, CalmInv, HistoryNext
  PROVE  CalmInv'
<1>0. /\ req \in [Requests -> RequestRecord] /\ ServerNext
      /\ calm' = [q \in Requests |->
                    IF InFlight(q) THEN calm[q] /\ Quiet(q, req[q].proc)
                    ELSE IF req'[q] # req[q] THEN Quiet(q, req'[q].proc) ELSE calm[q]]
  BY DEF ServerInv, ControlInv, RequestsInv, HistoryNext
<1>1. ASSUME NEW q \in Requests, calm'[q]
      PROVE  IF InFlight(q)' THEN AtEase(q)' ELSE req'[q].answer \notin Errors
  <2>1. CASE InFlight(q)
    <3>1. AtEase(q) /\ Quiet(q, req[q].proc)
      BY <1>0, <1>1, <2>1 DEF CalmInv
    <3>2. CASE req'[q] = [NoRequest EXCEPT !.answer = "lost"]
      BY <3>2 DEF NoRequest, InFlight, Errors
    <3>3. CASE InFlight(q)' /\ (Acts(q) \/ req'[q] = req[q])
      BY <1>0, <2>1, <3>1, <3>3, EaseStays
    <3>4. CASE ~InFlight(q)' /\ Acts(q)
      <4>1. PICK x : x \notin Errors /\ Finish(q, x)
        BY <3>1, <3>4, CalmAnswer DEF AnswersWell
      <4>2. req'[q].answer = x
        BY <1>0, <4>1 DEF Finish, NoRequest
      <4> QED  BY <3>4, <4>1, <4>2
    <3>5. InFlight(q)' \/ req'[q] # req[q]
      BY <2>1 DEF InFlight
    <3> QED  BY <1>0, <2>1, <3>2, <3>3, <3>4, <3>5, InFlightCases
  <2>2. CASE ~InFlight(q) /\ req'[q] = req[q]
    BY <1>0, <1>1, <2>2 DEF CalmInv, InFlight
  <2>3. CASE ~InFlight(q) /\ req'[q] # req[q]
    <3>1. Quiet(q, req'[q].proc)
      BY <1>0, <1>1, <2>3
    <3> QED  BY <1>0, <2>3, <3>1, IdleCases, CalmArrival
  <2> QED  BY <2>1, <2>2, <2>3
<1>2. calm' \in [Requests -> BOOLEAN]
  <2>1. ASSUME NEW q \in Requests PROVE calm'[q] \in BOOLEAN
    <3>1. calm[q] \in BOOLEAN
      BY DEF CalmInv
    <3> QED  BY <1>0, <3>1 DEF Quiet
  <2> QED  BY <1>0, <2>1
<1> QED  BY <1>1, <1>2 DEF CalmInv

-----------------------------------------------------------------------------
(* The theorems.                                                           *)

HistoryInv == ServerInv /\ PassedInv /\ AdminInv /\ DriftInv /\ SeedTruth /\ CalmInv

LEMMA HistoryInitInv == HistoryInit => HistoryInv
<1> SUFFICES ASSUME HistoryInit PROVE HistoryInv
  OBVIOUS
<1>1. ServerInit /\ ServerInv
  BY InitInv DEF HistoryInit
<1>2. PassedInv
  BY <1>1, PolicyTypes DEF HistoryInit, ServerInit, PassedInv
<1>3. AdminInv
  BY <1>1 DEF HistoryInit, ServerInit, AdminInv
<1>4. DriftInv
  BY <1>1, InitRows DEF DriftInv, DriftHasCause
<1>5. SeedTruth
  BY <1>1 DEF HistoryInit, ServerInit, SeedTruth, SeedTrue, NoSeed
<1>6. CalmInv
  BY DEF HistoryInit, CalmInv
<1> QED  BY <1>1, <1>2, <1>3, <1>4, <1>5, <1>6 DEF HistoryInv

LEMMA HistoryNextInv == HistoryInv /\ [HistoryNext]_historyVars => HistoryInv'
<1> SUFFICES ASSUME HistoryInv, [HistoryNext]_historyVars PROVE HistoryInv'
  OBVIOUS
<1>1. CASE HistoryNext
  <2>1. ServerNext
    BY <1>1 DEF HistoryNext
  <2> QED
    BY <1>1, <2>1, NextServerInv, NextPassed, NextAdmin, NextDrift, NextSeedTruth, NextCalm
    DEF HistoryInv
<1>2. CASE UNCHANGED historyVars
  <2>1. UNCHANGED serverVars
    BY <1>2 DEF historyVars
  <2>2. ServerInv'
    BY <2>1, StutterInv DEF HistoryInv
  <2>3. /\ UNCHANGED <<accounts, items, reviews, votes, tally, seed, phase, req, hits, down>>
        /\ UNCHANGED <<disturbed, slipped, adminLeft, calm, passed>>
    BY <1>2 DEF historyVars, serverVars, seedingVars, tableVars, procVars, limitVars
  <2>4. PassedInv' /\ AdminInv'
    BY <2>3 DEF HistoryInv, PassedInv, AdminInv
  <2>5. DriftInv'
    BY <2>3, CountsStay DEF HistoryInv, DriftInv, DriftHasCause, Unrefreshed
  <2>6. SeedTruth'
    BY <2>3 DEF HistoryInv, SeedTruth, SeedTrue, Others, Two, VotesBy
  <2>7. CalmInv'
    BY <2>3, CountsStay DEF HistoryInv, CalmInv, AtEase, InFlight, VotesBy
  <2> QED  BY <2>2, <2>4, <2>6, <2>7, <2>5 DEF HistoryInv
<1> QED  BY <1>1, <1>2

(* The invariant of the states, and what holds of the history, hold         *)
(* throughout: of the limits; of the administrator; of the counters, over   *)
(* deletions, votes and refreshes that write what they read before another  *)
(* commit; of the seeds that nobody disturbs; and of the requests for which *)
(* nothing has gone amiss, between the steps of their transactions too.     *)
THEOREM HistoryInvariance == HistorySpec => []HistoryInv
<1> QED  BY HistoryInitInv, HistoryNextInv, PTL DEF HistorySpec

(* The variables have their types, every row names rows that exist, no      *)
(* counter is negative, only a process that boots or a request in flight    *)
(* runs a seed, and a process disposes of its server only after its three   *)
(* connections to Redis have closed.                                        *)
THEOREM ServerTyped == HistorySpec => []ServerTypeOK
<1>1. HistoryInv => ServerTypeOK
  BY InvImpliesTypes DEF HistoryInv
<1> QED  BY <1>1, HistoryInvariance, PTL

(* runSeed fails for a key it breaks, or for a table it finds empty, only   *)
(* when another seed or a request has changed the rows under it.            *)
THEOREM SeedsFailForAReason == HistorySpec => []SeedFailsForAReason
<1>1. HistoryInv => SeedFailsForAReason
  BY DEF HistoryInv, SeedTruth, SeedTrue, SeedFailsForAReason
<1> QED  BY <1>1, HistoryInvariance, PTL

(* The counters of the reviews differ from their votes only while a seed    *)
(* has yet to refresh them, or since a seed broke off before it did, or     *)
(* since a deletion, a vote or a refresh wrote what it had read before      *)
(* another commit: every other commit of requests and seeds, in any order,  *)
(* leaves right counters right, and a refresh by right counts repairs them. *)
THEOREM DriftCaused == HistorySpec => []DriftHasCause
<1>1. HistoryInv => DriftHasCause
  BY DEF HistoryInv, DriftInv
<1> QED  BY <1>1, HistoryInvariance, PTL

(* Where a process serves, the administrator that the boot creates has an   *)
(* account, unless a link of his own has deleted it: whichever processes    *)
(* boot together, and whatever their seeds delete.                          *)
THEOREM AdminServes == HistorySpec => []ServingHasAdmin
<1>1. HistoryInv => ServingHasAdmin
  BY DEF HistoryInv, AdminInv, ServingHasAdmin
<1> QED  BY <1>1, HistoryInvariance, PTL

(* RateLimiterGuard lets no more requests through in a window than the      *)
(* limit of the operation's tier, however many processes count.             *)
THEOREM LimitHolds == HistorySpec => []LimitPerWindow
<1>1. HistoryInv => LimitPerWindow
  BY DEF HistoryInv, PassedInv, LimitPerWindow
<1> QED  BY <1>1, HistoryInvariance, PTL

(* What the filter answers is an internal error, or that the service is     *)
(* unavailable, only when, while the request was in flight, Redis was down  *)
(* (but for the cache), the process closed, rows had gone or counters were  *)
(* wrong, a statement failed, or the request had a text that the database   *)
(* refuses, or asked for a seed. Nothing else that other requests, seeds    *)
(* and the nightly job do between the steps of a handler turns into an      *)
(* error, nor do two votes of one user on one review.                       *)
THEOREM ErrorsCaused == HistorySpec => []ErrorsHaveCauses
<1>1. HistoryInv => ErrorsHaveCauses
  <2> SUFFICES ASSUME HistoryInv, NEW q \in Requests, req[q].answer \in Errors, calm[q]
               PROVE  FALSE
    BY DEF ErrorsHaveCauses, Errors
  <2>1. InFlight(q)
    BY DEF HistoryInv, CalmInv
  <2>2. req[q].answer = "none"
    BY <2>1 DEF HistoryInv, ServerInv, ControlInv, RequestsInv, RequestOK, InFlight
  <2> QED  BY <2>2 DEF Errors
<1> QED  BY <1>1, HistoryInvariance, PTL

(* A request gets no answer only after a fatal error or a crash of its      *)
(* process, or when the connection of the rate limiter or of the cache has  *)
(* failed to close: a close on a signal whose three connections close       *)
(* answers all that it accepted.                                            *)
THEOREM LossNeedsFailure == HistorySpec => LostOnlyByFailure
<1>1. HistoryInv /\ [HistoryNext]_historyVars
        => [\A q \in Requests :
              LET p == req[q].proc
              IN InFlight(q) /\ req'[q].answer = "lost" =>
                   \/ fatal[p] \/ Crash(p) \/ \E o \in On(p) : CountUnawaited(o)
                   \/ \E c \in {"throttlerRedis", "cacheRedisStore"} :
                        conn[p][c] = "failed"]_serverVars
  <2> SUFFICES ASSUME HistoryInv, HistoryNext PROVE \A q \in Requests : Lost(q)
    BY DEF historyVars, Lost, Cause
  <2> QED  BY NextLost DEF HistoryInv, HistoryNext
<1> QED  BY <1>1, HistoryInvariance, PTL DEF HistorySpec, LostOnlyByFailure

=============================================================================
