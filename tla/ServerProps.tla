---------------------------- MODULE ServerProps ----------------------------
(***************************************************************************)
(* What holds of the boots, seeds, requests and stops of the processes.    *)
(***************************************************************************)
EXTENDS Requests

Phases == {"down", "connect", "findAdmin", "saveAdmin", "seeding", "listen", "serving",
           "destroy", "dispose", "disconnect"}
SeedSteps == {"off", "clean", "users", "findItemUsers", "items", "findReviewUsers", "findItems",
              "reviews", "findVoteUsers", "findReviews", "votes", "refresh", "update", "done",
              "failed", "refused"}

\* The rows that the keys allow: each one names rows that are there, and a user
\* has one vote on a review.
KeysHold ==
  /\ items \subseteq accounts
  /\ \A r \in reviews : r.item \in items /\ r.by \in accounts
  /\ \A v \in votes : v.review \in reviews /\ v.by \in accounts
  /\ \A v, w \in votes : v.by = w.by /\ v.review = w.review => v = w

\* The variables have their types, rows keep the keys and the CHECK on the
\* counters, only a process that boots or a request in flight runs a seed, and
\* connections are closed for good before the HTTP server is.
ServerTypeOK ==
  /\ accounts \subseteq Ids /\ KeysHold
  /\ tally \in [reviews -> [VoteAction -> Nat]]
  /\ \A a \in Seeders : seed[a].pc \in SeedSteps /\ seed[a].left \in 0..SeedUsers
  /\ \A p \in Processes : phase[p] \in Phases /\ (fatal[p] => Closing(p))
  /\ \A p \in Processes : seed[p].pc # "off" => production /\ phase[p] # "down"
  /\ \A p \in Processes : \A c \in Connections :
       /\ conn[p][c] # "open" => Closing(p)
       /\ phase[p] \in {"dispose", "disconnect"} => Closed(p, c)
  /\ \A q \in Requests : seed[q].pc # "off" <=> req[q].pc = "seeding"
  /\ \A q \in Requests : req[q].answer \in Codes \union {"none", "OK", "lost"}
  /\ \A p \in listening : phase[p] \in {"serving", "destroy"}
  /\ \A q \in Requests : InFlight(q) => phase[req[q].proc] \in {"serving", "destroy", "dispose"}
  /\ \A o \in Ops : hits[o] \in 0..Limit(o) + 1
  /\ live \subseteq People

-----------------------------------------------------------------------------
(* History.                                                                *)

VARIABLES
  disturbed,  \* disturbed[a]: another actor has removed rows, or changed reviews
              \* or votes, between the steps of the seed of a
  slipped,    \* since the counters were last right, a seed has stopped before its
              \* refresh, or something has been written on an outdated reading
  adminLeft,  \* the administrator has used a link to delete the account
  calm,       \* calm[q]: nothing was amiss for as long as q was in flight
  passed      \* passed[o]: requests for o let through in the client's window

historyVars == <<serverVars, disturbed, slipped, adminLeft, calm, passed>>

Removal == ~(accounts \subseteq accounts' /\ items \subseteq items')
Meddling == Removal \/ reviews' # reviews \/ votes' # votes

Moves(a, from, to) == seed[a].pc = from /\ seed'[a].pc = to

\* A seed with votes that no counter has, and one that stops then.
Unrefreshed(a) == a # Cron /\ seed[a].pc \in {"votes", "refresh", "update"}
BreaksOff(a) == Unrefreshed(a) /\ seed'[a].pc \in {"off", "failed", "refused"}

\* The votes that a transaction would read now.
Reading(q) ==
  IF req[q].pc = "revoke" THEN {v \in votes : v.by = req[q].user}
  ELSE UNION {VotesBy(v.by, v.review) : v \in req[q].found \union req[q].todo}

\* A transaction changes rows by what another has changed since it read, or a
\* refresh writes what it counted before.
WritesOutdated ==
  \/ /\ votes' # votes \/ tally' # tally
     /\ \E q \in Requests : /\ req[q].pc \in {"revoke", "cast", "retract"} /\ ~InFlight(q)'
                            /\ req[q].found # Reading(q)
  \/ \E a \in Seeders : Moves(a, "update", "done") /\ seed[a].recount # Recount

AdminLeaves == \E q \in Requests : /\ req[q].pc = "revoke" /\ req[q].user = Administrator
                                   /\ Administrator \in accounts /\ Administrator \notin accounts'

\* Nothing that q meets in process p is amiss after this step.
Quiet(q, p) ==
  /\ down' \subseteq {"cache"} /\ tally' = Counts' /\ ~Removal
  /\ req[q].found \subseteq votes' \/ ~InFlight(q)'
  /\ (p = Nobody \/ phase'[p] = "serving") /\ req'[q].op # "runSeed"
  /\ ~RefuseText(q) /\ ~StatementFails(q)

LetThrough(o) ==
  \E q \in Requests : req[q].pc = "throttle" /\ req[q].op = o /\ req'[q].pc \in {"handle", "guard"}

HistoryInit ==
  /\ ServerInit
  /\ disturbed = [a \in Seeders |-> FALSE] /\ slipped = FALSE /\ adminLeft = FALSE
  /\ calm = [q \in Requests |-> FALSE] /\ passed = [o \in Ops |-> 0]

HistoryNext ==
  /\ ServerNext
  /\ disturbed' = [a \in Seeders |->
                     /\ seed[a].pc \notin {"off", "clean"}
                     /\ disturbed[a] \/ (Meddling /\ seed'[a] = seed[a])]
  /\ slipped' = /\ tally' # Counts'
                /\ slipped \/ WritesOutdated \/ \E a \in Seeders : BreaksOff(a)
  /\ adminLeft' = ((adminLeft \/ AdminLeaves) /\ Administrator \notin accounts')
  /\ calm' = [q \in Requests |->
                IF InFlight(q) THEN calm[q] /\ Quiet(q, req[q].proc)
                ELSE IF req'[q] # req[q] THEN Quiet(q, req'[q].proc) ELSE calm[q]]
  /\ passed' = [o \in Ops |-> IF hits'[o] = 0 THEN 0
                              ELSE passed[o] + (IF LetThrough(o) THEN 1 ELSE 0)]

HistorySpec == HistoryInit /\ [][HistoryNext]_historyVars /\ ServerFairness

-----------------------------------------------------------------------------
(* Seeds.                                                                  *)

\* A seed that nobody disturbs never fails for what it did itself: its saves
\* break a key, and its reads find nothing, only when another seed or a
\* request has removed rows, or changed reviews or votes, under it.
SeedFailsForAReason == \A a \in Seeders : seed[a].pc = "failed" => disturbed[a]

\* The counters differ from the votes while a seed has saved votes and has yet
\* to refresh, or when, since they were last equal, a seed has stopped before its
\* refresh, or a deletion, a vote or a refresh (of a seed or the nightly one) has
\* written what another commit had made untrue after it was read: nothing else
\* that requests and seeds do to rows leaves a counter wrong.
DriftHasCause == tally # Counts => slipped \/ \E a \in Seeders : Unrefreshed(a)

\* Two processes that boot together on an empty database, and the seeds that
\* they run then, leave the administrator in place: a process serves without
\* one only after the administrator has left.
ServingHasAdmin ==
  (\E p \in Processes : phase[p] = "serving") => Administrator \in accounts \/ adminLeft

-----------------------------------------------------------------------------
(* Requests.                                                               *)

\* A client that is told of an internal error or of an unavailable service has
\* met one of these while its request was in flight: a Redis server down, but
\* that of the cache; its process closing; accounts, items, or the votes that it
\* had read, removed; counters that were wrong; a statement that the database
\* did not complete; a text in it that the validators accept and the database
\* does not; or it has asked for a seed, which may fail. It is never a state that
\* lasts, such as the session of an account that was deleted before; and neither
\* is it the cache's server, nor another request for the same vote.
ErrorsHaveCauses ==
  \A q \in Requests :
    req[q].answer \in {"INTERNAL_SERVER_ERROR", "SERVICE_UNAVAILABLE"} => ~calm[q]

\* All processes together let through no more requests of a client in a window
\* than the operation's limit.
LimitPerWindow == \A o \in Ops : passed[o] <= Limit(o)

-----------------------------------------------------------------------------
(* Stops.                                                                  *)

\* A process that closes on a signal answers every request that it accepted;
\* requests are lost by a crash, by a fatal error, and when the connection of the
\* rate limiter or of the cache could not be closed.
LostOnlyByFailure ==
  [][\A q \in Requests :
       LET p == req[q].proc
       IN InFlight(q) /\ req'[q].answer = "lost" =>
            \/ fatal[p] \/ Crash(p) \/ \E o \in On(p) : CountUnawaited(o)
            \/ \E c \in {"throttlerRedis", "cacheRedisStore"} : conn[p][c] = "failed"]_serverVars

\* No process closes for ever: it ends after its requests have their answers,
\* the seed of one of them included, and after a fatal error also when they
\* never get them. Only a close on a signal may wait, for the server of the
\* queues or of the cache to be back.
ClosingEnds ==
  \A p \in Processes :
    []<>(~Closing(p) \/ (~fatal[p] /\ (~Up("queue") \/ ~Up("cache"))))

=============================================================================
