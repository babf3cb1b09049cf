------------------------------ MODULE Sessions ------------------------------
(***************************************************************************)
(* Sessions in Redis: SessionsService, the session steps of AuthService,   *)
(* AuthGuard and SessionsEvents.  A session is spread over three keys, the *)
(* record express-session stores, the relation to its user and an entry of *)
(* the user's index, which concurrent requests, key expiry and sign-outs   *)
(* write one command at a time.                                            *)
(***************************************************************************)
EXTENDS Integers, FiniteSets, Sequences

CONSTANTS
  Users,            \* ids an account can have
  Requests,         \* requests in progress at one time
  Nobody,           \* the value of an absent key
  MaxUserSessions,  \* authConfig.maxUserSessions
  MaxSids,          \* bound: session ids generated in a behaviour
  MaxMishaps        \* bound: failures, crashes and expiries in a behaviour

ASSUME SessionsAssumption ==
  /\ IsFiniteSet(Users) /\ IsFiniteSet(Requests)
  /\ Nobody \notin Users
  /\ MaxUserSessions \in Nat \ {0}      \* Joi.number().integer().positive()
  /\ MaxSids \in Nat /\ MaxMishaps \in Nat

VARIABLES
  account,    \* account[u]: "absent", "exists" or "deleted" in the database
  session,    \* session[s]: user in the record session:<s>, or Nobody
  relation,   \* relation[s]: user in sess_user:<s>, or Nobody
  index,      \* index[u]: the set index:<u>
  issued,     \* ids 1..issued have been generated
  req,        \* req[q]: the request q
  expired,    \* ids whose expired event is on its way to the listener
  cleaning,   \* commands the listener has sent without waiting
  revoked,    \* history: ids that an answered operation has closed
  mishaps     \* failures, crashes and expiries so far

storeVars == <<session, relation, index>>
listenerVars == <<expired, cleaning>>

\* What only Regenerate, End and the listener change.
restVars == <<issued, listenerVars, revoked>>
sessionsVars == <<account, storeVars, restVars, req, mishaps>>

Sids == 1..MaxSids
NoSid == 0      \* an id that express-session generated for this request only

GuardedOps == {"protected", "signOut", "signOutAll"}
LinkOps == {"signOutAllPublic", "deleteAccount"}

\* hold: what express-session does when the response ends; open: ids the
\* answer reports closed; barred: the cookie's id was revoked when q arrived.
Request(op, pc, u, s, barred) ==
  [op |-> op, pc |-> pc, user |-> u, sid |-> s, hold |-> "keep", todo |-> <<>>,
   open |-> {}, barred |-> barred]
NoRequest == Request("none", "idle", Nobody, NoSid, FALSE)

Goto(q, pc) == req' = [req EXCEPT ![q].pc = pc]

\* The request is over and has not changed its session.
Leave(q) == req' = [req EXCEPT ![q] = NoRequest]

-----------------------------------------------------------------------------
(* Redis commands that close sessions.  A process has one connection, so   *)
(* commands it sends together take effect in the order they were sent,     *)
(* between those of other requests.                                        *)

\* Deletes session:<s> or sess_user:<s> for s in sids, removes sids from
\* index:<u>, or deletes index:<u>.
Command(key, sids, u) == [key |-> key, sids |-> sids, user |-> u]

Removes(c, s) == c.key = "index" \/ (c.key = "member" /\ s \in c.sids)

Perform(c) ==
  /\ session' = [s \in Sids |-> IF c.key = "session" /\ s \in c.sids THEN Nobody ELSE session[s]]
  /\ relation' = [s \in Sids |-> IF c.key = "relation" /\ s \in c.sids THEN Nobody ELSE relation[s]]
  /\ index' = [u \in Users |-> {s \in index[u] : ~(u = c.user /\ Removes(c, s))}]

\* Fault: the index entry is left behind.
DestroyButMember(u, s) == <<Command("session", {s}, u), Command("relation", {s}, u)>>

\* The commands of destroy.
Destroy(u, s) ==
  <<Command("session", {s}, u), Command("member", {s}, u), Command("relation", {s}, u)>>

\* The commands of trySessionCleanup.
Purge(u, s) ==
  <<Command("session", {s}, u), Command("relation", {s}, u), Command("member", {s}, u)>>

\* The commands of deleteAll, given the ids SMEMBERS returned.
CloseAll(u, sids) ==
  <<Command("session", sids, u), Command("index", {}, u), Command("relation", sids, u)>>

\* Ids with a trace of u in some key.
OwnedBy(u) == {s \in Sids : session[s] = u \/ relation[s] = u \/ s \in index[u]}

-----------------------------------------------------------------------------
(* A request arrives: express-session loads the record of its cookie, which*)
(* the client received when the record was saved.  Without a record it     *)
(* generates an id.                                                        *)

Stored == {s \in Sids : session[s] # Nobody}

\* createOne gives a new account a new id; signIn finds the e-mail and
\* the password matches.
ArriveAuth(q) ==
  /\ req[q].pc = "idle"
  /\ \E u \in Users, s \in Stored \union {NoSid} :
       \/ /\ account[u] = "absent"
          /\ account' = [account EXCEPT ![u] = "exists"]
          /\ req' = [req EXCEPT ![q] = Request("signUp", "regenerate", u, s, FALSE)]
       \/ /\ account[u] = "exists"
          /\ req' = [req EXCEPT ![q] = Request("signIn", "count", u, s, FALSE)]
          /\ UNCHANGED account
  /\ UNCHANGED <<storeVars, restVars>>

\* A request without a session is turned away before it reads anything else.
ArriveGuarded(q) ==
  /\ req[q].pc = "idle"
  /\ \E op \in GuardedOps, s \in Stored :
          req' = [req EXCEPT ![q] = Request(op, "guard", session[s], s, s \in revoked)]
  /\ UNCHANGED <<account, storeVars, restVars>>

\* A link of an e-mail whose token is verified.  signOutAllPublic needs the
\* account to exist, deleteAccount removes it; deleteAll follows.
ArriveLink(q) ==
  /\ req[q].pc = "idle"
  /\ \E op \in LinkOps, u \in Users :
       /\ account[u] = "exists"
       /\ account' = IF op = "deleteAccount" THEN [account EXCEPT ![u] = "deleted"] ELSE account
       /\ req' = [req EXCEPT ![q] = [Request(op, "members", u, NoSid, FALSE)
                                       EXCEPT !.open = OwnedBy(u)]]
  /\ UNCHANGED <<storeVars, restVars>>

-----------------------------------------------------------------------------
(* signIn and signUp.                                                      *)

\* Fault: one session more than the maximum.
FullOffByOne(u) == Cardinality(index[u]) > MaxUserSessions

Full(u) == Cardinality(index[u]) >= MaxUserSessions

Count(q) ==
  /\ req[q].pc = "count"
  /\ IF Full(req[q].user) THEN Leave(q) ELSE Goto(q, "regenerate")
  /\ UNCHANGED <<account, storeVars, restVars>>

\* Fault: a request that comes with a session keeps its id.
NextSidKept(q) == IF req[q].sid = NoSid THEN issued + 1 ELSE req[q].sid

NextSid(q) == issued + 1

\* Store.regenerate deletes the record the request came with and generates an
\* id; create then puts the user in the new session.
Regenerate(q) ==
  /\ req[q].pc = "regenerate"
  /\ issued < MaxSids
  /\ issued' = issued + 1
  /\ Perform(Command("session", {req[q].sid}, req[q].user))
  /\ req' = [req EXCEPT ![q].pc = "bind", ![q].sid = NextSid(q), ![q].hold = "save",
                        ![q].open = {req[q].sid} \ {NoSid}]
  /\ UNCHANGED <<account, listenerVars, revoked>>

\* MULTI: the relation and the index entry in one step.
Bind(q) ==
  /\ req[q].pc = "bind"
  /\ relation' = [relation EXCEPT ![req[q].sid] = req[q].user]
  /\ index' = [index EXCEPT ![req[q].user] = @ \union {req[q].sid}]
  /\ Goto(q, "end")
  /\ UNCHANGED <<account, session, restVars>>

-----------------------------------------------------------------------------
(* AuthGuard.                                                              *)

Cleanup(q) ==
  req' = [req EXCEPT ![q].pc = "run", ![q].op = "cleanup", ![q].hold = "destroy",
                     ![q].open = {req[q].sid}, ![q].todo = Purge(req[q].user, req[q].sid)]

\* A session whose account no longer exists is a zombie.
GuardUser(q) ==
  /\ req[q].pc = "guard"
  /\ IF account[req[q].user] = "exists" THEN Goto(q, "dangling") ELSE Cleanup(q)
  /\ UNCHANGED <<account, storeVars, restVars>>

\* Fault: a session with a record is taken for a complete one.
DanglingNever(u, s) == FALSE

\* isDangling asks for the index entry and for the relation, in two commands
\* sent together.
Dangling(u, s) == s \notin index[u] \/ relation[s] = Nobody

GuardSession(q) ==
  /\ req[q].pc = "dangling"
  /\ IF Dangling(req[q].user, req[q].sid) THEN Cleanup(q) ELSE Goto(q, "admitted")
  /\ UNCHANGED <<account, storeVars, restVars>>

-----------------------------------------------------------------------------
(* The operations.                                                         *)

Protected(q) ==
  /\ req[q].pc = "admitted" /\ req[q].op = "protected"
  /\ Leave(q)
  /\ UNCHANGED <<account, storeVars, restVars>>

SignOut(q) ==
  /\ req[q].pc = "admitted" /\ req[q].op = "signOut"
  /\ req' = [req EXCEPT ![q].pc = "run", ![q].hold = "destroy", ![q].open = {req[q].sid},
                        ![q].todo = Destroy(req[q].user, req[q].sid)]
  /\ UNCHANGED <<account, storeVars, restVars>>

\* signOutAll compares the password of the account before it goes on.
SignOutAll(q) ==
  /\ req[q].pc = "admitted" /\ req[q].op = "signOutAll"
  /\ \/ /\ account[req[q].user] = "exists"
        /\ req' = [req EXCEPT ![q].pc = "members", ![q].open = OwnedBy(req[q].user)]
     \/ Leave(q)
  /\ UNCHANGED <<account, storeVars, restVars>>

\* signOutAll also destroys the session of the request.
Current(q) ==
  IF req[q].op = "signOutAll" THEN <<Command("session", {req[q].sid}, req[q].user)>> ELSE <<>>

HoldAfterAll(q) == IF req[q].op = "signOutAll" THEN "destroy" ELSE "keep"

AfterCommand(q) == IF Len(req[q].todo) = 1 THEN "end" ELSE "run"

\* deleteAll: SMEMBERS, then everything it named at once.
Members(q) ==
  /\ req[q].pc = "members"
  /\ req' = [req EXCEPT ![q].pc = "run", ![q].hold = HoldAfterAll(q),
                        ![q].todo = Current(q) \o CloseAll(req[q].user, index[req[q].user])]
  /\ UNCHANGED <<account, storeVars, restVars>>

Run(q) ==
  /\ req[q].pc = "run"
  /\ Perform(Head(req[q].todo))
  /\ req' = [req EXCEPT ![q].todo = Tail(@), ![q].pc = AfterCommand(q)]
  /\ UNCHANGED <<account, restVars>>

\* express-session saves a new session, deletes a destroyed one (unset:
\* "destroy") and, as resave is off, only touches one that was loaded.
End(q) ==
  /\ req[q].pc = "end"
  /\ session' = IF req[q].hold = "keep" THEN session
                 ELSE [session EXCEPT ![req[q].sid] =
                         IF req[q].hold = "save" THEN req[q].user ELSE Nobody]
  /\ revoked' = revoked \union req[q].open
  /\ Leave(q)
  /\ UNCHANGED <<account, relation, index, issued, listenerVars>>

-----------------------------------------------------------------------------
(* Expiry and SessionsEvents.                                              *)

Mishap == mishaps < MaxMishaps /\ mishaps' = mishaps + 1

\* Redis publishes the event once; one that finds no listener connected stays
\* in expired unhandled.
Expire ==
  /\ Mishap
  /\ \E s \in Sids :
       /\ session[s] # Nobody
       /\ session' = [session EXCEPT ![s] = Nobody]
       /\ expired' = expired \union {s}
  /\ UNCHANGED <<account, relation, index, issued, req, cleaning, revoked>>

\* handleRemovedSession reads the relation and sends two deletes, whose errors
\* it only logs: one that fails stays in cleaning.
HandleExpired ==
  /\ \E s \in expired :
       /\ expired' = expired \ {s}
       /\ cleaning' = IF relation[s] = Nobody THEN cleaning
                      ELSE cleaning \union {Command("relation", {s}, relation[s]),
                                            Command("member", {s}, relation[s])}
  /\ UNCHANGED <<account, storeVars, issued, req, revoked, mishaps>>

Clean ==
  /\ \E c \in cleaning :
       /\ Perform(c)
       /\ cleaning' = cleaning \ {c}
  /\ UNCHANGED <<account, issued, req, expired, revoked, mishaps>>

-----------------------------------------------------------------------------
(* Redis commands that fail, requests that are cut short.                  *)

\* An operation that failed promises nothing; deleteAccount swallows the errors
\* of deleteAll, since the guard turns away the sessions of a deleted account.
StillPromised(q) == IF req[q].op = "deleteAccount" THEN req[q].open ELSE {}

\* The session of a failed bind has its user, and is saved all the same.
BindFails(q) ==
  /\ req[q].pc = "bind"
  /\ req' = [req EXCEPT ![q].pc = "end", ![q].open = {}]
  /\ UNCHANGED <<account, storeVars, restVars>>

\* deleteAll rejects; the destroy beside it has been sent.
MembersFails(q) ==
  /\ req[q].pc = "members"
  /\ req' = [req EXCEPT ![q].open = StillPromised(q), ![q].hold = HoldAfterAll(q),
                        ![q].todo = Current(q),
                        ![q].pc = IF Current(q) = <<>> THEN "end" ELSE "run"]
  /\ UNCHANGED <<account, storeVars, restVars>>

\* runSettledOrThrow waits for the other commands and then throws.
RunFails(q) ==
  /\ req[q].pc = "run"
  /\ req' = [req EXCEPT ![q].todo = Tail(@), ![q].pc = AfterCommand(q),
                        ![q].open = StillPromised(q)]
  /\ UNCHANGED <<account, storeVars, restVars>>

\* express-session reports the error of its store after the answer.
EndFails(q) ==
  /\ req[q].pc = "end" /\ req[q].hold # "keep"
  /\ revoked' = revoked \union req[q].open
  /\ Leave(q)
  /\ UNCHANGED <<account, storeVars, issued, listenerVars>>

\* The process dies, or a command before the first write fails: an error in
\* count, isDangling or regenerate ends the request with nothing to save.
Stop(q) ==
  /\ req[q].pc # "idle"
  /\ Leave(q)
  /\ UNCHANGED <<account, storeVars, restVars>>

-----------------------------------------------------------------------------

SessionsInit ==
  /\ account = [u \in Users |-> "absent"]
  /\ session = [s \in Sids |-> Nobody]
  /\ relation = [s \in Sids |-> Nobody]
  /\ index = [u \in Users |-> {}]
  /\ issued = 0
  /\ req = [q \in Requests |-> NoRequest]
  /\ expired = {}
  /\ cleaning = {}
  /\ revoked = {}
  /\ mishaps = 0

Step(q) ==
  \/ ArriveAuth(q) \/ ArriveGuarded(q) \/ ArriveLink(q)
  \/ Count(q) \/ Regenerate(q) \/ Bind(q)
  \/ GuardUser(q) \/ GuardSession(q)
  \/ Protected(q) \/ SignOut(q) \/ SignOutAll(q)
  \/ Members(q) \/ Run(q) \/ End(q)

Fail(q) == BindFails(q) \/ MembersFails(q) \/ RunFails(q) \/ EndFails(q) \/ Stop(q)

SessionsNext ==
  \/ \E q \in Requests : Step(q) /\ UNCHANGED mishaps
  \/ \E q \in Requests : Fail(q) /\ Mishap
  \/ Expire \/ HandleExpired \/ Clean

SessionsSpec == SessionsInit /\ [][SessionsNext]_sessionsVars

=============================================================================
