------------------------------ MODULE MCServer ------------------------------
(***************************************************************************)
(* The instance of Server for TLC. Starts, requests and faults together    *)
(* are too many states: a behaviour stays inside one of the scenarios.     *)
(***************************************************************************)
EXTENDS ServerProps

CONSTANTS p1, q1, u1, s1, s2

NoRows == [accounts |-> {}, items |-> {}, reviews |-> {}, votes |-> {}]
Members == [NoRows EXCEPT !.accounts = People]

\* After a seed, u1 has voted.
Review == [item |-> s2, by |-> s1]
Voted == [accounts |-> People \union {s1, s2}, items |-> {s2}, reviews |-> {Review},
          votes |-> {[review |-> Review, by |-> u1, action |-> "up"]}]

SomeRows == {NoRows, Members, Voted}

SmallLimits == [t \in Tiers |-> IF t = "ULTRA_CRITICAL" THEN 1 ELSE 2]

Budget(starts, requests, nights, faults) ==
  [kind \in Kinds |-> CASE kind = "start" -> starts [] kind = "request" -> requests
                        [] kind = "night" -> nights [] OTHER -> faults]

Boots == Budget(2, 0, 0, 0)
FaultyBoot == Budget(2, 0, 0, 1)
FaultyTwice == Budget(1, 0, 0, 2)
BootAndRequest == Budget(2, 1, 0, 0)
Pair == Budget(1, 2, 0, 0)
Votes == Budget(1, 2, 1, 0)
Outages == Budget(1, 1, 0, 3)
Replicas == Budget(2, 2, 0, 0)

FewEvents == {Boots, FaultyBoot, FaultyTwice, BootAndRequest, Pair, Votes, Outages, Replicas}

\* One seed at a time, and none over the rows of one that broke off.
OneSeed ==
  /\ Cardinality({a \in Seeders : Running(a)}) < 2
  /\ Cardinality(accounts \intersect SeedIds) <= SeedUsers

OnlyAsked(ops) == \A q \in Requests : req[q].op \in ops \union {"none"}

\* A person signs up while the second process of a production boot seeds.
SignedUpDuringSeed ==
  /\ OnlyAsked({"signUp", "deleteVote", "deleteAccount"}) /\ OneSeed /\ Administrator \notin live
  /\ events["start"] = 2 => phase[p1] = "serving"
  /\ events["request"] > 0 => \E a \in Seeders : Running(a)
  /\ events["request"] = 1 => req[q1].op \in {"none", "signUp"}

\* No window ends while a request that it counts is in flight.
OneWindow ==
  \A q \in Requests : req[q].pc \notin {"idle", "throttle"} => hits[req[q].op] > 0

\* Two requests of members about the rows of Voted, and the nightly refresh.
OnVotedRows ==
  /\ ~production
  /\ OnlyAsked({"voteReview", "deleteVote", "deleteAccount", "createReview"})
  /\ \A q \in Requests : req[q].user # Nobody \/ req[q].pc \in {"idle", "throttle", "handle"}
  /\ \A q \in Requests : req[q].answer \notin {"TOO_MANY_REQUESTS", "FORBIDDEN"}

Bounded ==
  \* p1 starts first, and q1 is the first request.
  /\ events["start"] = 0 => (votes # {} <=> most = Votes)
  /\ events["start"] = 1 => phase[p1] # "down" \/ events["fault"] > 0
  /\ events["request"] = 1 => \A q \in Requests \ {q1} : req[q] = NoRequest
  /\ \A v \in votes : v.by \in SeedIds => v.action = "up"
  /\ most = Boots => live = {} /\ Cardinality(accounts \intersect SeedIds) <= SeedUsers + 1
  /\ most \in {FaultyBoot, BootAndRequest, Pair} => OneSeed
  /\ most = Pair => ~production /\ OnlyAsked(Ops \ ({"filterItems", "health"} \union MailOps))
  /\ most \in {Pair, Replicas} =>
       \A q \in Requests : req[q].answer \notin {"BAD_REQUEST", "FORBIDDEN"}
  /\ most \in {Pair, Votes, Outages} => OneWindow
  /\ most = Votes => OnVotedRows
  /\ most = Outages =>
       /\ ~production /\ OnlyAsked(Ops \ {"deleteVote"})
       /\ events["fault"] = 3 => OnlyAsked({"requestSignOutAll", "filterItems", "health"})
  /\ most = Replicas =>
       IF production THEN SignedUpDuringSeed
       ELSE /\ OnlyAsked({"deleteAccount", "requestSignOutAll", "health"})
            /\ events["request"] > 0 => listening = Processes

=============================================================================
