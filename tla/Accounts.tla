------------------------------ MODULE Accounts ------------------------------
(***************************************************************************)
(* The life of an account: registration, moderation, the links that are    *)
(* sent by e-mail, and the cached profile.  UsersService.saveOne writes an *)
(* entity that was read earlier, in a SELECT and an INSERT or UPDATE of    *)
(* TypeORM's own, without a lock or a version, so requests that read one   *)
(* account together decide on statuses that others change.                 *)
(***************************************************************************)
EXTENDS Integers

CONSTANTS
  Users,       \* ids an account can have
  Requests,    \* requests in progress at one time
  Links,       \* tokens that can be signed
  Nobody,      \* the user of a request in no one's name
  Role,        \* Role[u]: "member", "moderator" or "admin"; never changes
  MaxMishaps   \* bound: failures and crashes in a behaviour

ASSUME AccountsAssumption ==
  /\ Role \in [Users -> {"member", "moderator", "admin"}]
  /\ Nobody \notin Users
  /\ "no link" \notin Links
  /\ MaxMishaps \in Nat

VARIABLES
  row,        \* row[u]: status in the row of u, "none" before it, "gone" after it
  cache,      \* cache[u]: the profile under the key of u, or Uncached
  link,       \* link[t]: what the token t is for, or Unsigned
  blacklist,  \* tokens whose id is blacklisted
  req,        \* req[q]: the request q
  answered,   \* history: links whose operation has answered
  mishaps     \* failures and crashes so far

accountVars == <<row, cache, link, blacklist, req, answered, mishaps>>

AccountStatus == {"pending", "active", "suspended"}
Absent == {"none", "gone"}

LinkOps == {"verifyAccount", "deleteAccount", "signOutAllPublic"}
Moderation == {"suspendAccount", "reactivateAccount"}
SaveOps == Moderation \union {"verifyAccount"}

Unsigned == [op |-> "none", user |-> Nobody]

\* raced: the row changed between the read of the profile and its storing, or the
\* deletion of the key failed after a change.
Uncached == [status |-> "none", raced |-> FALSE]

NoLink == "no link"

\* token: the link a request follows; seen: status of the entity it has read;
\* found: status its save has selected; stale (history): the row has changed since
\* it was read; late (history): the link had been answered when it was followed.
Request(op, pc, u) ==
  [op |-> op, pc |-> pc, user |-> u, token |-> NoLink, seen |-> "none",
   found |-> "none", stale |-> FALSE, late |-> FALSE]
NoRequest == Request("none", "idle", Nobody)

Exists(u) == row[u] \in AccountStatus

Begin(q, r) == req[q].pc = "idle" /\ req' = [req EXCEPT ![q] = r]
Goto(q, pc) == req' = [req EXCEPT ![q].pc = pc]
Leave(q) == req' = [req EXCEPT ![q] = NoRequest]

\* The request answers that its operation is done; a link is then used up.
Succeed(q) ==
  /\ Leave(q)
  /\ answered' = answered \union ({req[q].token} \ {NoLink})

\* The row of u becomes s, and q goes on; whoever has read the row is out of date.
SetRow(q, u, s, pc) ==
  /\ row' = [row EXCEPT ![u] = s]
  /\ req' = [p \in Requests |->
               IF p = q THEN [req[p] EXCEPT !.pc = pc]
               ELSE [req[p] EXCEPT !.stale = @ \/ (req[p].user = u /\ row[u] # s)]]

-----------------------------------------------------------------------------
(* Registration, and the links that are asked for.                         *)

\* createOne: the database chooses a new id.
SignUp(u) ==
  /\ row[u] = "none" /\ Role[u] = "member"
  /\ row' = [row EXCEPT ![u] = "pending"]
  /\ UNCHANGED <<cache, link, blacklist, req, answered>>

\* Statuses with which AccountStatusGuard admits a request for a link; the one for
\* signOutAllPublic is open to everyone who knows the e-mail address.
Admits(op) == IF op = "verifyAccount" THEN {"pending", "active"} ELSE AccountStatus

\* Statuses with which the operation then ends without a link.
TurnsAway(op) ==
  CASE op = "verifyAccount" -> {"active"}
    [] op = "signOutAllPublic" -> {"suspended"}
    [] op = "deleteAccount" -> {}

AskLink(q) ==
  /\ \E op \in LinkOps, u \in Users :
       row[u] \in Admits(op) \ TurnsAway(op) /\ Begin(q, Request(op, "issue", u))
  /\ UNCHANGED <<row, cache, link, blacklist, answered>>

\* The token is signed and its e-mail queued.
IssueLink(q) ==
  /\ req[q].pc = "issue"
  /\ \E t \in Links :
       /\ link[t] = Unsigned
       /\ link' = [link EXCEPT ![t] = [op |-> req[q].op, user |-> req[q].user]]
  /\ Leave(q)
  /\ UNCHANGED <<row, cache, blacklist, answered>>

-----------------------------------------------------------------------------
(* Links that are followed.                                                *)

FirstStep(op) == IF op = "deleteAccount" THEN "spend" ELSE "find"

\* verify: the signature and the purpose are right and the id is not blacklisted.
FollowLink(q) ==
  /\ \E t \in Links \ blacklist :
       /\ link[t] # Unsigned
       /\ Begin(q, [Request(link[t].op, FirstStep(link[t].op), link[t].user)
                      EXCEPT !.token = t, !.late = t \in answered])
  /\ UNCHANGED <<row, cache, link, blacklist, answered>>

\* signOutAllPublic asks only whether the account exists.
FindForSignOut(q) ==
  /\ req[q].pc = "find" /\ req[q].op = "signOutAllPublic"
  /\ IF Exists(req[q].user) THEN Goto(q, "spend") ELSE Leave(q)
  /\ UNCHANGED <<row, cache, link, blacklist, answered>>

\* Fault: signOutAllPublic checks the blacklist and never adds to it.
SpendUnlessSignOut(q) ==
  /\ req[q].pc = "spend"
  /\ blacklist' = IF req[q].op = "signOutAllPublic" THEN blacklist
                  ELSE blacklist \union {req[q].token}
  /\ IF req[q].op = "deleteAccount"
     THEN Goto(q, "lookup") /\ UNCHANGED answered
     ELSE Succeed(q)
  /\ UNCHANGED <<row, cache, link>>

\* blacklist: the entry lives at least as long as the token.  deleteAccount spends
\* its link first, verifyAccount last; the sessions closed after signOutAllPublic
\* and deleteAccount are those of module Sessions.
Spend(q) ==
  /\ req[q].pc = "spend"
  /\ blacklist' = blacklist \union {req[q].token}
  /\ IF req[q].op = "deleteAccount"
     THEN Goto(q, "lookup") /\ UNCHANGED answered
     ELSE Succeed(q)
  /\ UNCHANGED <<row, cache, link>>

\* findOneByIdOrThrowTx, then the removal of the row and of what cascades from it.
LookupForRemoval(q) ==
  /\ req[q].pc = "lookup"
  /\ IF Exists(req[q].user)
     THEN req' = [req EXCEPT ![q].pc = "remove", ![q].seen = row[req[q].user]]
     ELSE Leave(q)
  /\ UNCHANGED <<row, cache, link, blacklist, answered>>

Remove(q) ==
  /\ req[q].pc = "remove"
  /\ SetRow(q, req[q].user, "gone", "invalidate")
  /\ UNCHANGED <<cache, link, blacklist, answered>>

-----------------------------------------------------------------------------
(* Status changes: read the entity, decide, saveOne.                       *)

\* AuthGuard, RolesGuard and AccountStatusGuard let an active moderator pass; an
\* administrator has that role too.
Moderate(q) ==
  /\ \E op \in Moderation, c \in Users, u \in Users :
       /\ Role[c] # "member" /\ row[c] = "active"
       /\ Begin(q, Request(op, "find", u))
  /\ UNCHANGED <<row, cache, link, blacklist, answered>>

\* Fault: verifyAccount turns away only accounts that are verified.
EligibleVerifySuspended(op, u) ==
  CASE op = "verifyAccount" -> row[u] \in {"pending", "suspended"}
    [] op = "suspendAccount" -> Role[u] = "member" /\ row[u] \in {"pending", "active"}
    [] op = "reactivateAccount" -> Role[u] = "member" /\ row[u] = "suspended"

\* Fault: moderators and administrators are not protected from moderation.
EligibleAnyRole(op, u) ==
  CASE op = "verifyAccount" -> row[u] = "pending"
    [] op = "suspendAccount" -> row[u] \in {"pending", "active"}
    [] op = "reactivateAccount" -> row[u] = "suspended"

Eligible(op, u) ==
  CASE op = "verifyAccount" -> row[u] = "pending"
    [] op = "suspendAccount" -> Role[u] = "member" /\ row[u] \in {"pending", "active"}
    [] op = "reactivateAccount" -> Role[u] = "member" /\ row[u] = "suspended"

NewStatus(op) == IF op = "suspendAccount" THEN "suspended" ELSE "active"

FindForSave(q) ==
  /\ req[q].pc = "find" /\ req[q].op \in SaveOps
  /\ IF Eligible(req[q].op, req[q].user)
     THEN req' = [req EXCEPT ![q].pc = "select", ![q].seen = row[req[q].user],
                             ![q].stale = FALSE]
     ELSE Leave(q)
  /\ UNCHANGED <<row, cache, link, blacklist, answered>>

\* save first selects the row of the entity, to know what to write.
Select(q) ==
  /\ req[q].pc = "select"
  /\ req' = [req EXCEPT ![q].pc = "write", ![q].found = row[req[q].user]]
  /\ UNCHANGED <<row, cache, link, blacklist, answered>>

\* save: a row that was not found is inserted, with the id of the entity; of one
\* that was found the status is updated if it differs; a row that has gone since
\* takes no update, and one that has come since makes the insert fail.
Write(q) ==
  LET u == req[q].user
      s == NewStatus(req[q].op)
      inserted == req[q].found \in Absent
  IN
  /\ req[q].pc = "write"
  /\ IF inserted /\ Exists(u) THEN Leave(q) /\ UNCHANGED row
     ELSE SetRow(q, u, IF inserted \/ (req[q].found # s /\ Exists(u)) THEN s ELSE row[u],
                 "invalidate")
  /\ UNCHANGED <<cache, link, blacklist, answered>>

\* Fault: a suspension leaves the cached profile alone.
InvalidateUnlessSuspended(q) ==
  /\ req[q].pc = "invalidate"
  /\ cache' = IF req[q].op = "suspendAccount" THEN cache
              ELSE [cache EXCEPT ![req[q].user] = Uncached]
  /\ IF req[q].op = "verifyAccount" THEN Goto(q, "spend") /\ UNCHANGED answered
     ELSE Succeed(q)
  /\ UNCHANGED <<row, link, blacklist>>

\* deleteUserFromCache, at the end of saveOne and of deleteOne.
Invalidate(q) ==
  /\ req[q].pc = "invalidate"
  /\ cache' = [cache EXCEPT ![req[q].user] = Uncached]
  /\ IF req[q].op = "verifyAccount" THEN Goto(q, "spend") /\ UNCHANGED answered
     ELSE Succeed(q)
  /\ UNCHANGED <<row, link, blacklist>>

-----------------------------------------------------------------------------
(* findOneByIdOrThrowCached.  A profile that is cached is returned as it is.*)

MissProfile(q) ==
  /\ \E u \in Users : cache[u] = Uncached /\ Begin(q, Request("findOneById", "load", u))
  /\ UNCHANGED <<row, cache, link, blacklist, answered>>

LoadProfile(q) ==
  /\ req[q].pc = "load"
  /\ IF Exists(req[q].user)
     THEN req' = [req EXCEPT ![q].pc = "fill", ![q].seen = row[req[q].user],
                             ![q].stale = FALSE]
     ELSE Leave(q)
  /\ UNCHANGED <<row, cache, link, blacklist, answered>>

FillProfile(q) ==
  /\ req[q].pc = "fill"
  /\ cache' = [cache EXCEPT ![req[q].user] =
                 [status |-> req[q].seen, raced |-> req[q].stale]]
  /\ Leave(q)
  /\ UNCHANGED <<row, link, blacklist, answered>>

\* The lifetime of a cached profile ends.
Expire(u) ==
  /\ cache[u] # Uncached
  /\ cache' = [cache EXCEPT ![u] = Uncached]
  /\ UNCHANGED <<row, link, blacklist, req, answered>>

-----------------------------------------------------------------------------
(* Failures.                                                               *)

\* The database or Redis refuses, or the process dies: the request ends without
\* its next step.
Fail(q) ==
  /\ req[q].pc # "idle"
  /\ cache' = IF req[q].pc = "invalidate"
              THEN [cache EXCEPT ![req[q].user].raced = @ \/ cache[req[q].user] # Uncached]
              ELSE cache
  /\ Leave(q)
  /\ UNCHANGED <<row, link, blacklist, answered>>

\* verifyAccount logs a failed blacklisting and answers all the same.
SpendFails(q) ==
  /\ req[q].pc = "spend" /\ req[q].op = "verifyAccount"
  /\ Succeed(q)
  /\ UNCHANGED <<row, cache, link, blacklist>>

-----------------------------------------------------------------------------

AccountsInit ==
  /\ row = [u \in Users |-> IF Role[u] = "member" THEN "none" ELSE "active"]
  /\ cache = [u \in Users |-> Uncached]
  /\ link = [t \in Links |-> Unsigned]
  /\ blacklist = {}
  /\ req = [q \in Requests |-> NoRequest]
  /\ answered = {}
  /\ mishaps = 0

Step(q) ==
  \/ AskLink(q) \/ IssueLink(q) \/ FollowLink(q)
  \/ FindForSignOut(q) \/ Spend(q) \/ LookupForRemoval(q) \/ Remove(q)
  \/ Moderate(q) \/ FindForSave(q) \/ Select(q) \/ Write(q) \/ Invalidate(q)
  \/ MissProfile(q) \/ LoadProfile(q) \/ FillProfile(q)

AccountsNext ==
  \/ \E u \in Users : (SignUp(u) \/ Expire(u)) /\ UNCHANGED mishaps
  \/ \E q \in Requests : Step(q) /\ UNCHANGED mishaps
  \/ \E q \in Requests :
       /\ mishaps < MaxMishaps /\ mishaps' = mishaps + 1
       /\ Fail(q) \/ SpendFails(q)

AccountsSpec == AccountsInit /\ [][AccountsNext]_accountVars

=============================================================================
