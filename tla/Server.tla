------------------------------- MODULE Server -------------------------------
(***************************************************************************)
(* The application as processes that start, serve and stop, over one       *)
(* database and the Redis servers they share: the boot, with its           *)
(* administrator and its seed; the way of a request through the session    *)
(* middleware, the rate limiter and the guards to its handler; and how a   *)
(* process closes on a signal, on a fatal error, or not at all.            *)
(***************************************************************************)
EXTENDS Seeding, Policies

CONSTANTS
  Processes,   \* instances of the application
  Requests,    \* requests that may be in flight at once
  Cron,        \* the nightly refresh of the counters
  Ops,         \* the operations asked for
  Starts,      \* what the tables may hold at the beginning
  Budgets,     \* bounds on what comes from outside, one for a behaviour
  Nobody       \* the user of a request without a session

Paged == {"filterItems", "filterReviews", "findAllReviewVotes", "findAllUsers"}
Queries == Paged \union {"findItemById", "findUserById"}
MailOps == {"requestAccountDeletion", "requestSignOutAll"}

\* What happens to the processes from outside.
Kinds == {"start", "request", "night", "fault"}

\* The Redis servers, and the connections to them that RedisModule closes.
RedisServers == {"auth", "queue", "cache"}
Connections == {"throttlerRedis", "queueRedis", "cacheRedisStore"}

ASSUME ServerAssumption ==
  /\ Seeders = Processes \union Requests \union {Cron} /\ Processes \intersect Requests = {}
  /\ Cron \notin Processes \union Requests
  /\ Nobody \notin Processes \union Ids /\ Budgets \subseteq [Kinds -> Nat]
  /\ IsFiniteSet(Seeders)
  /\ RATE_LIMIT_PROFILES \in [Tiers -> Nat \ {0}]
  /\ Ops \subseteq Queries \union MailOps \union
       {"signUp", "signIn", "signOut", "createItem", "createReview", "voteReview", "deleteVote",
        "deleteAccount", "runSeed", "health"}

\* The rows of an earlier time keep the keys.
ASSUME StartsAssumption ==
  \A rows \in Starts :
    /\ rows.accounts \subseteq Ids /\ rows.items \subseteq rows.accounts
    /\ rows.reviews \subseteq {r \in [item : rows.items, by : rows.accounts] : r.item # r.by}
    /\ rows.votes \subseteq [review : rows.reviews, by : rows.accounts, action : VoteAction]
    /\ \A v, w \in rows.votes : v.by = w.by /\ v.review = w.review => v = w

VARIABLES
  production,   \* NODE_ENV, the same for every process
  most,         \* the bounds of this behaviour
  phase,        \* phase[p]: where p is between its start and its exit
  fatal,        \* fatal[p]: p closes because of a fatal error
  listening,    \* processes that accept requests
  conn,         \* conn[p]: the connections of p that RedisModule closes
  req,          \* req[q]: a request, or the answer of the last one
  hits,         \* hits[o]: requests for o in the client's window
  blocked,      \* blocked[o]: the client is blocked for o
  live,         \* users that have a session
  down,         \* Redis servers that are down
  events        \* events[kind]: so many so far

settings == <<production, most>>
procVars == <<settings, phase, fatal, listening, conn>>
limitVars == <<hits, blocked>>
serverVars == <<seedingVars, procVars, req, limitVars, live, down, events>>

-----------------------------------------------------------------------------

People == PersonIds \union {Administrator}

\* on is the item to review; found are the votes that a transaction has read,
\* todo is the vote that it is to save.
NoRequest == [pc |-> "idle", op |-> "none", proc |-> Nobody, user |-> Nobody,
              on |-> Nobody, found |-> {}, todo |-> {}, answer |-> "none"]

InFlight(q) == req[q].pc # "idle"
On(p) == {q \in Requests : InFlight(q) /\ req[q].proc = p}

Up(server) == server \notin down

AllOpen == [c \in Connections |-> "open"]
Closed(p, c) == conn[p][c] = "closed"

Closing(p) == phase[p] \in {"destroy", "dispose", "disconnect"}

Event(kind) ==
  /\ events[kind] < most[kind]
  /\ events' = [events EXCEPT ![kind] = @ + 1]

\* The ids in votes, and what a record of a seed or of a request still names.
IdsIn(some) == UNION {{v.by, v.review.item, v.review.by} : v \in some}

NamedBySeed(a) ==
  seed[a].users \union UNION {{r.item, r.by} : r \in DOMAIN seed[a].recount} \union
  (CASE seed[a].pc = "items" -> seed[a].todo
     [] seed[a].pc = "reviews" -> UNION {{r.item, r.by} : r \in seed[a].todo}
     [] seed[a].pc = "votes" -> IdsIn(seed[a].todo)
     [] OTHER -> {})

NamedBy(q) == {req[q].user, req[q].on} \union IdsIn(req[q].found \union req[q].todo)

Mentioned ==
  accounts \union live \union UNION {NamedBy(q) : q \in Requests}
    \union UNION {NamedBySeed(a) : a \in Seeders}

\* gen_random_uuid(): all ids that nothing mentions are alike.
FreshId(ids) == CHOOSE id \in ids : id \notin Mentioned
HasFresh(ids) == ids \ Mentioned # {}

-----------------------------------------------------------------------------
(* The end of a process.                                                   *)

\* process.exit, a signal that is not caught, or a crash: the seeds of the
\* process stop where they are and its requests get no answer.
Exit(p) ==
  /\ phase' = [phase EXCEPT ![p] = "down"] /\ fatal' = [fatal EXCEPT ![p] = FALSE]
  /\ listening' = listening \ {p} /\ conn' = [conn EXCEPT ![p] = AllOpen]
  /\ seed' = [a \in Seeders |-> IF a = p \/ a \in On(p) THEN NoSeed ELSE seed[a]]
  /\ req' = [q \in Requests |->
               IF q \in On(p) THEN [NoRequest EXCEPT !.answer = "lost"] ELSE req[q]]

Close(p, forced) ==
  /\ phase' = [phase EXCEPT ![p] = "destroy"] /\ fatal' = [fatal EXCEPT ![p] = forced]
  /\ UNCHANGED <<listening, conn, seed, req>>

\* handleFatalError: without an app it exits; a second close of connections
\* that are closed fails, and then it exits too. While they are being closed it
\* may exit as soon as the timer lets it, which is sooner or later.
HandleFatalError(p) ==
  IF phase[p] \in {"connect", "dispose", "disconnect"} THEN Exit(p) ELSE Close(p, TRUE)

\* Fault: the timer waits for the requests.
PatientTimeout(p) ==
  /\ fatal[p] /\ On(p) = {} /\ Exit(p)
  /\ UNCHANGED <<tableVars, settings, limitVars, live, down, events>>

\* The timer of handleFatalError.
CleanupTimeout(p) ==
  /\ fatal[p] /\ Exit(p)
  /\ UNCHANGED <<tableVars, settings, limitVars, live, down, events>>

\* RedisModule.onModuleDestroy closes three connections at once, and each close
\* settles for itself. Until all have, the process accepts requests.
Settle(p, c, how) ==
  /\ phase[p] = "destroy" /\ conn[p][c] = "open"
  /\ conn' = [conn EXCEPT ![p][c] = how]
  /\ UNCHANGED <<seedingVars, settings, phase, fatal, listening, req, limitVars>>
  /\ UNCHANGED <<live, down, events>>

\* Without its server, quit of the rate limiter's connection throws.
QuitThrottler(p) == Settle(p, "throttlerRedis", IF Up("auth") THEN "closed" ELSE "failed")

QuitQueue(p) == Up("queue") /\ Settle(p, "queueRedis", "closed")

\* Without its server, quit waits behind every job that waits to be added.
QuitQueueOffline(p) ==
  /\ ~Up("queue") /\ ~\E q \in On(p) : req[q].pc = "add"
  /\ Settle(p, "queueRedis", "closed")

DisconnectCache(p) == Up("cache") /\ Settle(p, "cacheRedisStore", "closed")

\* Without its server, the client of the cache may fail, or wait.
DisconnectCacheOffline(p) ==
  ~Up("cache") /\ \E how \in {"closed", "failed"} : Settle(p, "cacheRedisStore", how)

\* runSettledOrThrow, when the last of them has settled.
OnModuleDestroy(p) ==
  /\ phase[p] = "destroy" /\ \A c \in Connections : conn[p][c] # "open"
  /\ IF \A c \in Connections : Closed(p, c)
     THEN /\ phase' = [phase EXCEPT ![p] = "dispose"] /\ listening' = listening \ {p}
          /\ UNCHANGED <<fatal, conn, seed, req>>
     ELSE Exit(p)
  /\ UNCHANGED <<tableVars, settings, limitVars, live, down, events>>

\* Fault: the HTTP server does not wait for the requests.
DisposeAtOnce(p) ==
  /\ phase[p] = "dispose"
  /\ phase' = [phase EXCEPT ![p] = "disconnect"]
  /\ UNCHANGED <<seedingVars, settings, fatal, listening, conn, req, limitVars, live, down, events>>

\* The HTTP server closes when the last request has its answer.
Dispose(p) ==
  /\ phase[p] = "dispose" /\ On(p) = {}
  /\ phase' = [phase EXCEPT ![p] = "disconnect"]
  /\ UNCHANGED <<seedingVars, settings, fatal, listening, conn, req, limitVars, live, down, events>>

\* onApplicationShutdown of the sessions and of the tokens, then the exit.
OnApplicationShutdown(p) ==
  /\ phase[p] = "disconnect" /\ Exit(p)
  /\ UNCHANGED <<tableVars, settings, limitVars, live, down, events>>

\* SIGTERM; a process that has no app, or no hooks yet, just ends.
Signal(p) ==
  /\ phase[p] # "down" /\ ~Closing(p) /\ Event("fault")
  /\ IF phase[p] = "connect" THEN Exit(p) ELSE Close(p, FALSE)
  /\ UNCHANGED <<tableVars, settings, limitVars, live, down>>

Crash(p) ==
  /\ phase[p] # "down" /\ Event("fault") /\ Exit(p)
  /\ UNCHANGED <<tableVars, settings, limitVars, live, down>>

\* SessionsEvents hears that a session expired and cannot read whose it was.
ExpiryUnread(p) ==
  /\ phase[p] = "serving" /\ ~Up("auth") /\ Event("fault")
  /\ HandleFatalError(p)
  /\ UNCHANGED <<tableVars, settings, limitVars, live, down>>

-----------------------------------------------------------------------------
(* The boot.                                                               *)

Start(p) ==
  /\ phase[p] = "down" /\ Event("start")
  /\ phase' = [phase EXCEPT ![p] = "connect"]
  /\ UNCHANGED <<seedingVars, settings, fatal, listening, conn, req, limitVars, live, down>>

\* The factories of the sessions and of the tokens wait for their server.
Connect(p) ==
  /\ phase[p] = "connect" /\ Up("auth")
  /\ phase' = [phase EXCEPT ![p] = "findAdmin"]
  /\ UNCHANGED <<seedingVars, settings, fatal, listening, conn, req, limitVars, live, down, events>>

\* seedProd, when the administrator is there.
SeedProd(p) ==
  /\ phase' = [phase EXCEPT ![p] = IF production THEN "seeding" ELSE "listen"]
  /\ IF production THEN Become(p, NewSeed) ELSE UNCHANGED seed

FindAdmin(p) ==
  /\ phase[p] = "findAdmin"
  /\ IF Administrator \in accounts THEN SeedProd(p)
     ELSE phase' = [phase EXCEPT ![p] = "saveAdmin"] /\ UNCHANGED seed
  /\ UNCHANGED <<tableVars, settings, fatal, listening, conn, req, limitVars, live, down, events>>

\* The e-mail of an account is unique: of two that save it one fails to boot.
SaveAdmin(p) ==
  /\ phase[p] = "saveAdmin"
  /\ IF Administrator \in accounts THEN HandleFatalError(p) /\ UNCHANGED accounts
     ELSE /\ accounts' = accounts \union {Administrator}
          /\ SeedProd(p) /\ UNCHANGED <<fatal, listening, conn, req>>
  /\ UNCHANGED <<items, reviews, votes, tally, settings, limitVars, live, down, events>>

\* The statement of either step fails.
BootStatementFails(p) ==
  /\ phase[p] \in {"findAdmin", "saveAdmin"} /\ Event("fault")
  /\ HandleFatalError(p)
  /\ UNCHANGED <<tableVars, settings, limitVars, live, down>>

SeedExecuted(p) ==
  /\ phase[p] = "seeding" /\ seed[p].pc = "done"
  /\ phase' = [phase EXCEPT ![p] = "listen"] /\ Become(p, NoSeed)
  /\ UNCHANGED <<tableVars, settings, fatal, listening, conn, req, limitVars, live, down, events>>

\* Nothing catches the error of a seed of the boot, also when it comes late.
BootRejected(p) ==
  /\ seed[p].pc \in {"failed", "refused"} /\ ~fatal[p]
  /\ HandleFatalError(p)
  /\ UNCHANGED <<tableVars, settings, limitVars, live, down, events>>

\* The subscriber of SessionsEvents connects, and the server listens.
Listen(p) ==
  /\ phase[p] = "listen" /\ Up("auth")
  /\ phase' = [phase EXCEPT ![p] = "serving"] /\ listening' = listening \union {p}
  /\ UNCHANGED <<seedingVars, settings, fatal, conn, req, limitVars, live, down, events>>

\* The scheduler of a process that serves starts refreshReviewVotes.
Midnight(p) ==
  /\ phase[p] = "serving" /\ ~Running(Cron) /\ Event("night")
  /\ Become(Cron, Recounting)
  /\ UNCHANGED <<tableVars, procVars, req, limitVars, live, down>>

=============================================================================
