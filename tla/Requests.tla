------------------------------ MODULE Requests ------------------------------
(***************************************************************************)
(* The way of a request through a process, beside the boots, the seeds and *)
(* the stops of Server. What a handler does to one component in detail is  *)
(* in the module of that component; here are its effects on the rows and   *)
(* sessions that others use, in the steps that it waits between. Of a      *)
(* transaction these are two: what it reads, and what it writes.           *)
(***************************************************************************)
EXTENDS Server, Inputs

Go(q, pc) == req' = [req EXCEPT ![q].pc = pc]
Finish(q, answer) == req' = [req EXCEPT ![q] = [NoRequest EXCEPT !.answer = answer]]
Throw(q, x) == Finish(q, Answer(req[q].op, x))

Handling(q, ops) == req[q].pc = "handle" /\ req[q].op \in ops

\* What only answers, or changes no more than the variables it names.
Alone == UNCHANGED <<tableVars, seed, procVars, limitVars, live, down, events>>
RowsOnly == UNCHANGED <<seed, procVars, limitVars, live, down, events>>
SessionsOnly == UNCHANGED <<tableVars, seed, procVars, limitVars, down, events>>

-----------------------------------------------------------------------------
(* Before the handler.                                                     *)

\* Whose cookies come: one that names no record is the same as none, as long as
\* Redis can be asked.
Cookies == (IF Up("auth") THEN live ELSE People) \union {Nobody}

\* The session middleware reads the record that the cookie names; a request
\* without a cookie asks Redis nothing.
Arrive(q, p) ==
  /\ ~InFlight(q) /\ p \in listening /\ Event("request")
  /\ \E o \in Ops, u \in Cookies :
       LET new == [NoRequest EXCEPT !.pc = "throttle", !.op = o, !.proc = p, !.user = u]
       IN req' = [req EXCEPT ![q] =
                    IF u = Nobody \/ Up("auth") THEN new
                    ELSE [NoRequest EXCEPT !.answer = Answer(o, DriverError("clientOffline"))]]
  /\ UNCHANGED <<seedingVars, procVars, limitVars, live, down>>

\* Fault: the request is let through before it is counted.
ThrottleAfterwards(q) ==
  /\ req[q].pc = "throttle"
  /\ LET o == req[q].op
         n == IF hits[o] > Limit(o) THEN hits[o] ELSE hits[o] + 1
     IN IF Closed(req[q].proc, "throttlerRedis")
        THEN Throw(q, DriverError("connectionClosed")) /\ UNCHANGED limitVars
        ELSE IF ~Up("auth") THEN Throw(q, DriverError("streamNotWriteable")) /\ UNCHANGED limitVars
        ELSE /\ hits' = [hits EXCEPT ![o] = n]
             /\ blocked' = [blocked EXCEPT ![o] = @ \/ hits[o] > Limit(o)]
             /\ IF blocked'[o] THEN Throw(q, TooManyRequests(o))
                ELSE Go(q, IF Policy[o].public THEN "handle" ELSE "guard")
  /\ UNCHANGED <<seedingVars, procVars, live, down, events>>

\* RateLimiterGuard. Redis counts for all processes; a client over the limit
\* is blocked, and asking while it is blocked counts as well.
Throttle(q) ==
  /\ req[q].pc = "throttle"
  /\ LET o == req[q].op
         n == IF hits[o] > Limit(o) THEN hits[o] ELSE hits[o] + 1
     IN IF Closed(req[q].proc, "throttlerRedis")
        THEN Throw(q, DriverError("connectionClosed")) /\ UNCHANGED limitVars
        ELSE IF ~Up("auth") THEN Throw(q, DriverError("streamNotWriteable")) /\ UNCHANGED limitVars
        ELSE /\ hits' = [hits EXCEPT ![o] = n]
             /\ blocked' = [blocked EXCEPT ![o] = @ \/ n > Limit(o)]
             /\ IF blocked'[o] THEN Throw(q, TooManyRequests(o))
                ELSE Go(q, IF Policy[o].public THEN "handle" ELSE "guard")
  /\ UNCHANGED <<seedingVars, procVars, live, down, events>>

\* Fault: a session is trusted without its account.
GuardsBySession(q) ==
  /\ req[q].pc = "guard"
  /\ LET u == req[q].user
     IN \/ (u = Nobody \/ (Up("auth") /\ u \notin live)) /\ Throw(q, GqlHttpError("UNAUTHORIZED"))
        \/ u # Nobody /\ ~Up("auth") /\ Throw(q, DriverError("clientOffline"))
        \/ Up("auth") /\ u \in live /\ Go(q, "handle")
  /\ UNCHANGED <<seedingVars, procVars, limitVars, live, down, events>>

\* AuthGuard and the two guards after it. An account's status is what it is
\* now; a session of an account that is gone is removed when Redis lets it.
Guards(q) ==
  /\ req[q].pc = "guard"
  /\ LET u == req[q].user
         o == req[q].op
     IN \/ /\ u = Nobody \/ (u \in accounts /\ Up("auth") /\ u \notin live)
           /\ Throw(q, GqlHttpError("UNAUTHORIZED")) /\ UNCHANGED live
        \/ /\ u # Nobody /\ u \notin accounts
           /\ Throw(q, GqlHttpError("UNAUTHORIZED"))
           /\ live' = IF Up("auth") THEN live \ {u} ELSE live
        \/ /\ u \in accounts /\ ~Up("auth")
           /\ Throw(q, DriverError("clientOffline")) /\ UNCHANGED live
        \/ /\ u \in accounts /\ Up("auth") /\ u \in live
           /\ \E status \in Statuses :
                IF /\ AccountStatusGuard(o, status)
                   /\ RolesGuard(o, IF u = Administrator THEN Roles ELSE DefaultRoles)
                THEN Go(q, "handle") ELSE Throw(q, GqlHttpError("FORBIDDEN"))
           /\ UNCHANGED live
  /\ UNCHANGED <<seedingVars, procVars, limitVars, down, events>>

\* AppValidationPipe runs after the guards.
BadRequest(q, fields) == fields \in Refusable /\ Throw(q, GqlHttpError("BAD_REQUEST"))

-----------------------------------------------------------------------------
(* Accounts and sessions.                                                  *)

\* The account is committed before its session is opened.
SignUp(q) ==
  /\ Handling(q, {"signUp"})
  /\ \/ BadRequest(q, SignUpInput) /\ UNCHANGED accounts
     \/ Throw(q, GqlHttpError("CONFLICT")) /\ accounts # {} /\ UNCHANGED accounts
     \/ /\ HasFresh(PersonIds)
        /\ LET id == FreshId(PersonIds)
           IN /\ accounts' = accounts \union {id}
              /\ req' = [req EXCEPT ![q].pc = "session", ![q].user = id]
  /\ UNCHANGED <<items, reviews, votes, tally>> /\ RowsOnly

\* The account is found, the password compared, and the sessions counted.
SignIn(q) ==
  /\ Handling(q, {"signIn"})
  /\ \E u \in People :
       CASE u \notin accounts -> Throw(q, GqlHttpError("UNAUTHORIZED"))
         [] u \in accounts /\ ~Up("auth") -> Throw(q, DriverError("clientOffline"))
         [] OTHER -> \/ req' = [req EXCEPT ![q].pc = "session", ![q].user = u]
                     \/ u \in live /\ Throw(q, GqlHttpError("FORBIDDEN"))
  /\ Alone

\* SessionsService.create.
CreateSession(q) ==
  /\ req[q].pc = "session"
  /\ IF Up("auth") THEN live' = live \union {req[q].user} /\ Finish(q, "OK")
     ELSE Throw(q, DriverError("clientOffline")) /\ UNCHANGED live
  /\ SessionsOnly

\* Of the three deletes that go out at once all fail, or none.
SignOut(q) ==
  /\ Handling(q, {"signOut"})
  /\ IF Up("auth") THEN live' = live \ {req[q].user} /\ Finish(q, "OK")
     ELSE Throw(q, AggregateError) /\ UNCHANGED live
  /\ SessionsOnly

\* No link, or one that is forged, expired or spent.
RefuseLink(q) ==
  Throw(q, HttpException("BAD_REQUEST")) \/ Throw(q, GqlHttpError("UNAUTHORIZED"))

\* The link is verified and spent.
SpendLink(q) ==
  /\ Handling(q, {"deleteAccount"})
  /\ \/ RefuseLink(q)
     \/ \E u \in People :
          IF Up("auth") THEN req' = [req EXCEPT ![q].pc = "remove", ![q].user = u]
          ELSE Throw(q, DriverError("clientOffline"))
  /\ Alone

\* Fault: the votes go and the counters stay.
DecrementNone(gone) == tally

\* decrementVotesTx, for votes that have been read: one off a counter of each
\* review that is there,
Decremented(gone) ==
  [r \in reviews |->
     [action \in VoteAction |->
        tally[r][action] - (IF \E v \in gone : v.review = r /\ v.action = action THEN 1 ELSE 0)]]

\* unless the CHECK on the counters refuses it.
Uncountable(gone) == \E v \in gone : v.review \in reviews /\ tally[v.review][v.action] = 0

\* deleteOne in its transaction finds the account and its votes,
FindAccount(q) ==
  /\ req[q].pc = "remove"
  /\ IF req[q].user \notin accounts THEN Throw(q, GqlHttpError("NOT_FOUND"))
     ELSE req' = [req EXCEPT ![q].pc = "revoke",
                             ![q].found = {v \in votes : v.by = req[q].user}]
  /\ Alone

\* takes these votes off the counters and removes the account, if it is there
\* still; then the sessions, whose loss is not an error.
RemoveAccount(q) ==
  /\ req[q].pc = "revoke"
  /\ LET u == req[q].user
         kept == accounts \ {u}
     IN IF Uncountable(req[q].found)
        THEN Throw(q, DriverError("constraint")) /\ UNCHANGED <<tableVars, live>>
        ELSE /\ Finish(q, "OK")
             /\ accounts' = kept /\ items' = ItemsOf(kept) /\ reviews' = ReviewsOf(kept)
             /\ votes' = VotesOf(kept)
             /\ tally' = [r \in ReviewsOf(kept) |-> Decremented(req[q].found)[r]]
             /\ live' = IF Up("auth") THEN live \ {u} ELSE live
  /\ UNCHANGED <<seed, procVars, limitVars, down, events>>

-----------------------------------------------------------------------------
(* Items, reviews and votes.                                               *)

CreateOneItem(q) ==
  /\ Handling(q, {"createItem"})
  /\ LET u == req[q].user
     IN \/ BadRequest(q, CreateItemInput) /\ UNCHANGED items
        \/ /\ u \in accounts /\ items' = items \union {u} /\ Finish(q, "OK")
        \/ /\ u \in items /\ Throw(q, GqlHttpError("CONFLICT")) /\ UNCHANGED items
        \/ /\ u \notin accounts
           /\ Throw(q, HttpException("INTERNAL_SERVER_ERROR")) /\ UNCHANGED items
  /\ UNCHANGED <<accounts, reviews, votes, tally>> /\ RowsOnly

FindItemToReview(q) ==
  /\ Handling(q, {"createReview"})
  /\ \/ BadRequest(q, CreateReviewInput)
     \/ \E i \in Ids :
          CASE i \notin items -> Throw(q, GqlHttpError("NOT_FOUND"))
            [] i \in items /\ i = req[q].user -> Throw(q, GqlHttpError("FORBIDDEN"))
            [] OTHER -> req' = [req EXCEPT ![q].pc = "save", ![q].on = i]
  /\ Alone

SaveReview(q) ==
  /\ req[q].pc = "save"
  /\ LET r == [item |-> req[q].on, by |-> req[q].user]
     IN CASE r.item \notin items \/ r.by \notin accounts ->
               Throw(q, DriverError("foreignKey")) /\ UNCHANGED <<reviews, tally>>
          [] r \in reviews -> Throw(q, GqlHttpError("CONFLICT")) /\ UNCHANGED <<reviews, tally>>
          [] OTHER -> InsertReview(r) /\ Finish(q, "OK")
  /\ UNCHANGED <<accounts, items, votes>> /\ RowsOnly

\* Who is between the two steps of a vote, and holds the lock of its user and
\* review.
Voting == {q \in Requests : req[q].pc \in {"cast", "retract"}}
Locked(by, review) ==
  \E q \in Voting : \E v \in req[q].found \union req[q].todo : v.by = by /\ v.review = review

\* Both operations ask for the review, try the lock and read the vote. A lock
\* that is held, for these or by its hash for others, ends them, and so does a
\* vote that already is as it should be.
FindVote(q) ==
  /\ Handling(q, {"voteReview", "deleteVote"})
  /\ \/ Throw(q, GqlHttpError("NOT_FOUND"))
     \/ reviews # {} /\ Voting # {} /\ Finish(q, "OK")
     \/ \E r \in reviews, action \in VoteAction :
          LET u == req[q].user
              previous == VotesBy(u, r)
              todo == IF req[q].op = "deleteVote" THEN {}
                      ELSE {[review |-> r, by |-> u, action |-> action]}
          IN /\ ~Locked(u, r)
             /\ IF previous = todo THEN Finish(q, "OK")
                ELSE req' = [req EXCEPT ![q].pc = IF todo = {} THEN "retract" ELSE "cast",
                                        ![q].found = previous, ![q].todo = todo]
  /\ Alone

\* The previous vote is deleted, with its counter, and the new one saved.
CastVote(q) ==
  /\ req[q].pc = "cast"
  /\ \E v \in req[q].todo :
       IF \/ v.by \notin accounts \/ v.review \notin reviews
          \/ ~(VotesBy(v.by, v.review) \subseteq req[q].found)
          \/ Uncountable(req[q].found)
       THEN Throw(q, DriverError("constraint")) /\ UNCHANGED <<votes, tally>>
       ELSE /\ votes' = (votes \ req[q].found) \union {v}
            /\ tally' = [Decremented(req[q].found) EXCEPT ![v.review][v.action] = @ + 1]
            /\ Finish(q, "OK")
  /\ UNCHANGED <<accounts, items, reviews>> /\ RowsOnly

\* A vote that is gone is deleted without an error.
RetractVote(q) ==
  /\ req[q].pc = "retract"
  /\ IF Uncountable(req[q].found)
     THEN Throw(q, DriverError("constraint")) /\ UNCHANGED <<votes, tally>>
     ELSE /\ votes' = votes \ req[q].found /\ tally' = Decremented(req[q].found)
          /\ Finish(q, "OK")
  /\ UNCHANGED <<accounts, items, reviews>> /\ RowsOnly

-----------------------------------------------------------------------------
(* Queries, and what any statement may meet.                               *)

RowsFor(o) ==
  CASE o = "filterItems" -> items
    [] o = "filterReviews" -> reviews
    [] o = "findAllReviewVotes" -> votes
    [] OTHER -> accounts

\* A page of records that the cache does not have goes on to add jobs for them.
Query(q) ==
  /\ Handling(q, Queries)
  /\ \/ Finish(q, "OK")
     \/ req[q].op # "findAllUsers" /\ Throw(q, GqlHttpError("NOT_FOUND"))
     \/ BadRequest(q, ArgsOf(req[q].op))
     \/ req[q].op \in Paged /\ RowsFor(req[q].op) # {} /\ Go(q, "add")
  /\ Alone

\* The database or the decoding of a cursor refuses a text that the validators
\* let through.
RefuseText(q) ==
  /\ ArgsOf(req[q].op) \in Unstorable
  /\ \/ Handling(q, {"signUp"} \union Paged)
     \/ Handling(q, {"createItem"}) /\ req[q].user \in accounts
     \/ req[q].pc = "save" /\ req[q].on \in items /\ req[q].user \in accounts
  /\ Throw(q, DriverError("invalidText")) /\ Alone

\* The operations whose handlers begin with a statement, or a ping.
Asking == Queries \union {"signUp", "signIn", "createItem", "createReview", "voteReview",
                          "deleteVote", "requestSignOutAll", "health"}

\* A statement fails and undoes its transaction: the database is out of reach, or
\* ends a deadlock at the cost of this one. Of health it is a ping that fails,
\* also that of the mail server.
StatementFails(q) ==
  /\ \/ req[q].pc \in {"remove", "revoke", "cast", "retract", "save"}
     \/ req[q].pc = "guard" /\ req[q].user # Nobody
     \/ Handling(q, Asking)
  /\ Throw(q, IF req[q].op = "health" THEN HttpException("SERVICE_UNAVAILABLE")
              ELSE DriverError("statement"))
  /\ Event("fault") /\ UNCHANGED <<tableVars, seed, procVars, limitVars, live, down>>

\* The count of the whole table, which these start and do not wait for: when
\* the database fails it, nothing catches the error.
CountUnawaited(q) ==
  /\ Handling(q, {"filterItems", "filterReviews", "findAllReviewVotes"})
  /\ Event("fault") /\ HandleFatalError(req[q].proc)
  /\ UNCHANGED <<tableVars, settings, limitVars, live, down>>

-----------------------------------------------------------------------------
(* Mail, health and seed.                                                  *)

\* Somebody who is not signed in names an address. One that no account has, or
\* a suspended one, is sent nothing.
FindAddressee(q) ==
  /\ Handling(q, MailOps)
  /\ \/ req[q].op = "requestSignOutAll" /\ Finish(q, "OK")
     \/ accounts # {} /\ Go(q, "add")
  /\ Alone

\* queue.add waits for as long as its server is down.
AddJob(q) ==
  /\ req[q].pc = "add"
  /\ IF Closed(req[q].proc, "queueRedis") THEN Throw(q, DriverError("connectionClosed"))
     ELSE Up("queue") /\ Finish(q, "OK")
  /\ Alone

\* The clients of the sessions, tokens, rate limiter and queues are pinged,
\* the store of the cache is not.
CheckHealth(q) ==
  /\ Handling(q, {"health"})
  /\ IF /\ Up("auth") /\ Up("queue")
        /\ \A c \in {"throttlerRedis", "queueRedis"} : ~Closed(req[q].proc, c)
     THEN Finish(q, "OK") ELSE Throw(q, HttpException("SERVICE_UNAVAILABLE"))
  /\ Alone

RunSeed(q) ==
  /\ Handling(q, {"runSeed"})
  /\ Become(q, NewSeed) /\ Go(q, "seeding")
  /\ UNCHANGED <<tableVars, procVars, limitVars, live, down, events>>

SeedAnswered(q) ==
  /\ req[q].pc = "seeding" /\ ~Running(q)
  /\ IF seed[q].pc = "done" THEN Finish(q, "OK") ELSE Throw(q, DriverError("seedError"))
  /\ Become(q, NoSeed)
  /\ UNCHANGED <<tableVars, procVars, limitVars, live, down, events>>

-----------------------------------------------------------------------------
(* Redis.                                                                  *)

Outage(server) ==
  /\ Up(server) /\ Event("fault")
  /\ down' = down \union {server}
  /\ UNCHANGED <<seedingVars, procVars, req, limitVars, live>>

Recovery(server) ==
  /\ ~Up(server) /\ down' = down \ {server}
  /\ UNCHANGED <<seedingVars, procVars, req, limitVars, live, events>>

\* The key that counts expires with the window, the other one with the block.
WindowEnds(o) ==
  /\ hits[o] > 0 /\ hits' = [hits EXCEPT ![o] = 0]
  /\ UNCHANGED <<seedingVars, procVars, req, blocked, live, down, events>>

BlockEnds(o) ==
  /\ blocked[o] /\ blocked' = [blocked EXCEPT ![o] = FALSE]
  /\ UNCHANGED <<seedingVars, procVars, req, hits, live, down, events>>

-----------------------------------------------------------------------------

ServerInit ==
  /\ \E rows \in Starts :
       /\ accounts = rows.accounts /\ items = rows.items
       /\ reviews = rows.reviews /\ votes = rows.votes
  /\ tally = Counts /\ live = accounts \intersect People
  /\ seed = [a \in Seeders |-> NoSeed]
  /\ production \in BOOLEAN /\ most \in Budgets
  /\ phase = [p \in Processes |-> "down"] /\ fatal = [p \in Processes |-> FALSE]
  /\ listening = {} /\ conn = [p \in Processes |-> AllOpen]
  /\ req = [q \in Requests |-> NoRequest]
  /\ hits = [o \in Ops |-> 0] /\ blocked = [o \in Ops |-> FALSE]
  /\ down = {} /\ events = [kind \in Kinds |-> 0]

SeedStep(a) ==
  /\ Running(a)
  /\ \/ CleanDb(a) \/ FindUsers(a) \/ CreateItem(a) \/ FindItems(a) \/ CreateReview(a)
     \/ FindReviews(a) \/ CreateVote(a) \/ RefreshSnapshot(a) \/ RefreshUpdate(a)
     \/ HasFresh(SeedIds) /\ CreateUser(a, FreshId(SeedIds))
  /\ UNCHANGED <<procVars, req, limitVars, live, down, events>>

SeedRefused(a) ==
  /\ StatementRefused(a) /\ Event("fault")
  /\ UNCHANGED <<procVars, req, limitVars, live, down>>

Boot(p) == Start(p) \/ Connect(p) \/ FindAdmin(p) \/ SaveAdmin(p) \/ BootStatementFails(p)
             \/ SeedExecuted(p) \/ BootRejected(p) \/ Listen(p)
End(p) == QuitThrottler(p) \/ QuitQueue(p) \/ DisconnectCache(p) \/ OnModuleDestroy(p)
            \/ Dispose(p) \/ OnApplicationShutdown(p) \/ CleanupTimeout(p)
Stop(p) == Signal(p) \/ Crash(p) \/ ExpiryUnread(p) \/ QuitQueueOffline(p)
             \/ DisconnectCacheOffline(p) \/ End(p)

Step(q) ==
  /\ InFlight(q)
  /\ \/ Throttle(q) \/ Guards(q) \/ SignUp(q) \/ SignIn(q) \/ CreateSession(q) \/ SignOut(q)
     \/ SpendLink(q) \/ FindAccount(q) \/ RemoveAccount(q) \/ CreateOneItem(q)
     \/ FindItemToReview(q) \/ SaveReview(q) \/ FindVote(q) \/ CastVote(q) \/ RetractVote(q)
     \/ Query(q) \/ RefuseText(q) \/ FindAddressee(q) \/ AddJob(q) \/ CheckHealth(q)
     \/ RunSeed(q) \/ SeedAnswered(q)

ServerNext ==
  \/ \E p \in Processes : Boot(p) \/ Stop(p) \/ Midnight(p)
  \/ \E a \in Seeders : SeedStep(a) \/ SeedRefused(a)
  \/ \E q \in Requests : \/ Step(q) \/ StatementFails(q) \/ CountUnawaited(q)
                         \/ \E p \in Processes : Arrive(q, p)
  \/ \E server \in RedisServers : Outage(server) \/ Recovery(server)
  \/ \E o \in Ops : WindowEnds(o) \/ BlockEnds(o)

\* The event loop goes on with what may go on, the database answers, and the
\* timer of handleFatalError goes off. Nothing is assumed of clients, of Redis
\* or of what starts and stops processes.
ServerFairness ==
  /\ \A p \in Processes : WF_serverVars(End(p))
  /\ \A q \in Requests : WF_serverVars(Step(q) \/ SeedStep(q))

ServerSpec == ServerInit /\ [][ServerNext]_serverVars /\ ServerFairness

=============================================================================
