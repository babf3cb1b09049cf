--------------------------- MODULE AccountsProps ---------------------------
(***************************************************************************)
(* What must hold of accounts while requests that read the same row        *)
(* interleave, and what the documentation says of deletion.                *)
(***************************************************************************)
EXTENDS Accounts

RequestRecord ==
  [op : {"none", "findOneById"} \union LinkOps \union Moderation,
   pc : {"idle", "issue", "find", "spend", "lookup", "remove", "select", "write",
         "invalidate", "load", "fill"},
   user : Users \union {Nobody}, token : Links \union {NoLink},
   seen : AccountStatus \union {"none"}, found : AccountStatus \union Absent,
   stale : BOOLEAN, late : BOOLEAN]

(* Variables have their types; a moderator or an administrator is never    *)
(* suspended or unverified.                                                *)
AccountsTypeOK ==
  /\ row \in [Users -> AccountStatus \union Absent]
  /\ \A u \in Users : Role[u] # "member" => row[u] \in {"active", "gone"}
  /\ cache \in [Users -> [status : AccountStatus \union {"none"}, raced : BOOLEAN]]
  /\ link \in [Links -> [op : LinkOps, user : Users] \union {Unsigned}]
  /\ blacklist \subseteq Links /\ answered \subseteq Links
  /\ mishaps \in 0..MaxMishaps
  /\ req \in [Requests -> RequestRecord]

-----------------------------------------------------------------------------
(* Changes of status.                                                      *)

Writing == {"write", "remove"}

Legal(op, u, old, new) ==
  \/ op = "verifyAccount" /\ old = "pending" /\ new = "active"
  \/ op = "suspendAccount" /\ Role[u] = "member" /\ old # "suspended" /\ new = "suspended"
  \/ op = "reactivateAccount" /\ Role[u] = "member" /\ old = "suspended" /\ new = "active"
  \/ op = "deleteAccount" /\ new = "gone"

(* Whatever requests interleave, a row changes only by a registration or   *)
(* by one request, and that request makes a transition its operation       *)
(* allows unless the row had changed between its read and its write:       *)
(* saveOne never inserts a row again, undoes a suspension or activates an  *)
(* unverified account on its own.                                          *)
ChangesLegal ==
  [][\A u \in Users : row'[u] # row[u] =>
       \/ row[u] = "none" /\ row'[u] = "pending"
       \/ \E q \in Requests :
            /\ req[q].user = u /\ req[q].pc \in Writing /\ req'[q].pc = "invalidate"
            /\ req[q].stale \/ Legal(req[q].op, u, row[u], row'[u])]_accountVars

-----------------------------------------------------------------------------
(* Links.                                                                  *)

(* A link that has done its work does nothing when it is followed again:   *)
(* the later request never reaches a save, a removal or a sign-out, also   *)
(* when verifyAccount answered although blacklisting had failed.           *)
UsedLinkInert ==
  \A q \in Requests : req[q].late =>
    req[q].op = "verifyAccount" /\ req[q].pc = "find"

-----------------------------------------------------------------------------
(* The cached profile.                                                     *)

(* A cached profile shows the status in the database, or the deletion of   *)
(* its key is under way, unless the profile was read before a change and   *)
(* stored after its invalidation, or an invalidation failed.               *)
CacheTruthful ==
  \A u \in Users :
    \/ cache[u] = Uncached
    \/ cache[u].raced
    \/ cache[u].status = row[u]
    \/ \E q \in Requests : req[q].pc = "invalidate" /\ req[q].user = u

-----------------------------------------------------------------------------
(* The inductive invariant behind the three.                               *)

\* Which operation a step belongs to, and which link it follows.
Control(q) ==
  LET r == req[q] IN
  /\ r.pc # "idle" => r.user \in Users
  /\ r.pc = "issue" => r.op \in LinkOps
  /\ r.pc = "find" => r.op \in SaveOps \union {"signOutAllPublic"}
  /\ r.pc \in {"select", "write"} => r.op \in SaveOps
  /\ r.pc = "spend" => r.op \in LinkOps
  /\ r.pc \in {"lookup", "remove"} => r.op = "deleteAccount"
  /\ r.pc = "invalidate" => r.op \in SaveOps \union {"deleteAccount"}
  /\ IF r.op \in LinkOps /\ r.pc \notin {"idle", "issue"}
     THEN r.token \in Links /\ link[r.token] = [op |-> r.op, user |-> r.user]
     ELSE r.token = NoLink

\* What a request has read, while the row is still as it was.
Reads(q) ==
  LET r == req[q] IN
  /\ r.pc \in {"select", "write"} => Legal(r.op, r.user, r.seen, NewStatus(r.op))
  /\ r.pc \in {"select", "write", "fill"} => r.seen \in AccountStatus
  /\ r.pc \in {"select", "write", "fill"} /\ ~r.stale => row[r.user] = r.seen
  /\ r.pc = "write" /\ ~r.stale => r.found = r.seen

Verified(u) == row[u] \notin {"none", "pending"}

\* A link that is used up is blacklisted, or its account is past verification.
Used(t) ==
  /\ link[t] # Unsigned
  /\ IF link[t].op = "verifyAccount" THEN Verified(link[t].user) ELSE t \in blacklist

\* How far the request that follows a link has used it up.
Uses(q) ==
  LET r == req[q] IN
  /\ r.op = "deleteAccount" /\ r.pc \in {"lookup", "remove", "invalidate"} =>
       r.token \in blacklist
  /\ r.pc \in {"select", "write"} => row[r.user] # "none"
  /\ r.pc = "write" => r.found # "none" /\ (r.found # "pending" => Verified(r.user))
  /\ r.op = "verifyAccount" /\ r.pc \in {"invalidate", "spend"} => Verified(r.user)
  /\ r.late => r.op = "verifyAccount" /\ r.pc = "find" /\ r.token \in answered

AccountsInv ==
  /\ AccountsTypeOK
  /\ \A q \in Requests : Control(q)
  /\ \A q \in Requests : Reads(q)
  /\ \A t \in answered : Used(t)
  /\ \A q \in Requests : Uses(q)
  /\ CacheTruthful

-----------------------------------------------------------------------------
(* "This action is irreversible": an account that has been deleted does    *)
(* not come back.                                                          *)
DeletedStaysDeleted ==
  [][\A u \in Users : row[u] = "gone" => row'[u] = "gone"]_accountVars

=============================================================================
