--------------------------- MODULE SessionsProofs ---------------------------
(***************************************************************************)
(* How far requests that run together can exceed the session limit, for    *)
(* any number of users, requests and session ids.                          *)
(***************************************************************************)
EXTENDS SessionsProps, FiniteSetTheorems, TLAPS

-----------------------------------------------------------------------------
(* The inductive invariant.                                                *)

\* A request that has passed the check of the limit, or is exempt from it, and
\* has not yet added its session to the index.
InProgress == {"regenerate", "bind"}
Pending(u) == {q \in Requests : req[q].user = u /\ req[q].pc \in InProgress}

\* A request of signUp or signIn that may still create a session.
Entering == InProgress \union {"count"}

Fields == {"op", "pc", "user", "sid", "hold", "todo", "open", "barred"}

Shape ==
  /\ req = [q \in Requests |-> req[q]]
  /\ account = [u \in Users |-> account[u]]
  /\ index = [u \in Users |-> index[u]]
  /\ \A q \in Requests : DOMAIN req[q] = Fields
  /\ \A q \in Requests : req[q].pc \in Entering => req[q].user \in Users

\* Nobody signs in as a user who has not signed up.
AbsentInactive ==
  \A u \in Users : account[u] = "absent" =>
    /\ index[u] = {}
    /\ \A q \in Requests : req[q].user = u => req[q].pc \notin Entering

Limit == MaxUserSessions + Cardinality(Requests) - 1

LimitInv ==
  /\ Shape
  /\ AbsentInactive
  /\ \A u \in Users : IsFiniteSet(index[u])
  /\ \A u \in Users : Cardinality(index[u]) + Cardinality(Pending(u)) <= Limit

-----------------------------------------------------------------------------
(* Steps that bring no user closer to the limit.                           *)

Tame ==
  /\ Shape'
  /\ \A u \in Users : index'[u] \subseteq index[u]
  /\ \A u \in Users : account'[u] = "absent" => account[u] = "absent"
  /\ \A q \in Requests :
       /\ req'[q].pc \in InProgress =>
            req[q].pc \in InProgress /\ req'[q].user = req[q].user
       /\ req'[q].pc \in Entering =>
            \/ req[q].pc \in Entering /\ req'[q].user = req[q].user
            \/ account[req'[q].user] # "absent"

LEMMA PendingFinite ==
  ASSUME NEW u
  PROVE  /\ IsFiniteSet(Pending(u)) /\ Cardinality(Pending(u)) \in Nat
         /\ Cardinality(Pending(u)) <= Cardinality(Requests)
         /\ Cardinality(Requests) \in Nat
  <1>1. IsFiniteSet(Requests) /\ Pending(u) \in SUBSET Requests
    BY SessionsAssumption DEF Pending
  <1>2. QED
    BY <1>1, FS_Subset, FS_CardinalityType

LEMMA TameInv == ASSUME LimitInv, Tame PROVE LimitInv'
  <1>1. AbsentInactive'
    BY DEF LimitInv, Tame, AbsentInactive
  <1>2. ASSUME NEW u \in Users
        PROVE  /\ IsFiniteSet(index'[u])
               /\ Cardinality(index'[u]) + Cardinality(Pending(u)') <= Limit
    <2>1. IsFiniteSet(index[u]) /\ index'[u] \in SUBSET index[u]
      BY DEF LimitInv, Tame
    <2>2. /\ IsFiniteSet(index'[u]) /\ Cardinality(index'[u]) <= Cardinality(index[u])
          /\ Cardinality(index'[u]) \in Nat /\ Cardinality(index[u]) \in Nat
      BY <2>1, FS_Subset, FS_CardinalityType
    <2>3. Pending(u)' \in SUBSET Pending(u)
      BY DEF Pending, Tame
    <2>4. /\ Cardinality(Pending(u)') <= Cardinality(Pending(u))
          /\ Cardinality(Pending(u)') \in Nat /\ Cardinality(Pending(u)) \in Nat
      BY <2>3, PendingFinite, FS_Subset, FS_CardinalityType
    <2>5. Cardinality(index[u]) + Cardinality(Pending(u)) <= Limit /\ Limit \in Int
      BY PendingFinite, SessionsAssumption DEF LimitInv, Limit
    <2>6. QED
      BY <2>2, <2>4, <2>5
  <1>3. QED
    BY <1>1, <1>2 DEF LimitInv, Tame, Limit

\* A step that gives request q a record outside signUp and signIn.
LEMMA TameStep ==
  ASSUME LimitInv, NEW q \in Requests, NEW r,
         DOMAIN r = Fields, r.pc \notin Entering,
         req' = [req EXCEPT ![q] = r],
         account' = [u \in Users |-> account'[u]], index' = [u \in Users |-> index'[u]],
         \A u \in Users : index'[u] \subseteq index[u],
         \A u \in Users : account'[u] = "absent" => account[u] = "absent"
  PROVE  Tame
  <1>1. req'[q] = r /\ (\A p \in Requests \ {q} : req'[p] = req[p])
        /\ req' = [p \in Requests |-> req'[p]]
    BY DEF LimitInv, Shape
  <1>2. r.pc \notin InProgress
    BY DEF Entering
  <1>3. Shape'
    BY <1>1 DEF LimitInv, Shape
  <1>4. QED
    BY <1>1, <1>2, <1>3 DEF Tame, LimitInv

LEMMA PerformShrinks ==
  ASSUME NEW c, Perform(c)
  PROVE  index' = [u \in Users |-> index'[u]] /\ \A u \in Users : index'[u] \subseteq index[u]
  BY DEF Perform

LEMMA Untouched ==
  ASSUME LimitInv, UNCHANGED <<account, index>>
  PROVE  /\ account' = [u \in Users |-> account'[u]] /\ index' = [u \in Users |-> index'[u]]
         /\ \A u \in Users : index'[u] \subseteq index[u]
         /\ \A u \in Users : account'[u] = "absent" => account[u] = "absent"
  BY DEF LimitInv, Shape

LEMMA LeaveTame ==
  ASSUME LimitInv, NEW q \in Requests, Leave(q), UNCHANGED <<account, index>>
  PROVE  Tame
  <1>1. DOMAIN NoRequest = Fields /\ NoRequest.pc \notin Entering
    BY DEF NoRequest, Request, Fields, Entering, InProgress
  <1>2. QED
    BY <1>1, TameStep, Untouched DEF Leave

\* A step that rewrites some fields of the record of request q.
LEMMA GotoTame ==
  ASSUME LimitInv, NEW q \in Requests, NEW pc, pc \notin Entering, Goto(q, pc),
         UNCHANGED <<account, index>>
  PROVE  Tame
  <1> DEFINE r == [req[q] EXCEPT !.pc = pc]
  <1>1. DOMAIN r = Fields /\ r.pc \notin Entering /\ req' = [req EXCEPT ![q] = r]
    BY DEF LimitInv, Shape, Fields, Goto
  <1> HIDE DEF r
  <1>2. QED
    BY <1>1, TameStep, Untouched

LEMMA ArriveGuardedTame == ASSUME LimitInv, NEW q \in Requests, ArriveGuarded(q) PROVE Tame
  <1>1. PICK op, s : req' = [req EXCEPT ![q] = Request(op, "guard", session[s], s, s \in revoked)]
    BY DEF ArriveGuarded
  <1> DEFINE r == Request(op, "guard", session[s], s, s \in revoked)
  <1>2. DOMAIN r = Fields /\ r.pc \notin Entering
    BY DEF Request, Fields, Entering, InProgress
  <1>3. UNCHANGED <<account, index>>
    BY DEF ArriveGuarded, storeVars
  <1> HIDE DEF r
  <1>4. QED
    BY <1>1, <1>2, <1>3, TameStep, Untouched DEF r

LEMMA ArriveLinkTame == ASSUME LimitInv, NEW q \in Requests, ArriveLink(q) PROVE Tame
  <1>1. PICK op \in LinkOps, u \in Users :
          /\ account' = IF op = "deleteAccount" THEN [account EXCEPT ![u] = "deleted"] ELSE account
          /\ req' = [req EXCEPT ![q] = [Request(op, "members", u, NoSid, FALSE) EXCEPT !.open = OwnedBy(u)]]
    BY Zenon DEF ArriveLink
  <1> DEFINE r == [Request(op, "members", u, NoSid, FALSE) EXCEPT !.open = OwnedBy(u)]
  <1>2. DOMAIN r = Fields /\ r.pc \notin Entering
    BY DEF Request, Fields, Entering, InProgress
  <1>3. UNCHANGED index
    BY DEF ArriveLink, storeVars
  <1>4. /\ account' = [w \in Users |-> account'[w]]
        /\ \A w \in Users : account'[w] = "absent" => account[w] = "absent"
    BY <1>1 DEF LimitInv, Shape
  <1>5. index' = [w \in Users |-> index'[w]] /\ \A w \in Users : index'[w] \subseteq index[w]
    BY <1>3 DEF LimitInv, Shape
  <1>6. req' = [req EXCEPT ![q] = r]
    BY <1>1
  <1> HIDE DEF r
  <1>7. QED
    BY <1>2, <1>4, <1>5, <1>6, TameStep

LEMMA RegenerateTame == ASSUME LimitInv, NEW q \in Requests, Regenerate(q) PROVE Tame
  <1> DEFINE c == Command("session", {req[q].sid}, req[q].user)
  <1>1. /\ req'[q].pc = "bind" /\ req'[q].user = req[q].user /\ DOMAIN req'[q] = Fields
        /\ req' = [p \in Requests |-> req'[p]]
        /\ \A p \in Requests \ {q} : req'[p] = req[p]
    BY DEF LimitInv, Shape, Regenerate, Fields
  <1>2. req[q].pc = "regenerate" /\ Perform(c) /\ account' = account
    BY DEF Regenerate
  <1> HIDE DEF c
  <1>3. index' = [u \in Users |-> index'[u]] /\ \A u \in Users : index'[u] \subseteq index[u]
    BY <1>2, PerformShrinks
  <1>4. req[q].pc \in InProgress /\ req[q].pc \in Entering /\ req[q].user \in Users
    BY <1>2 DEF InProgress, Entering, LimitInv, Shape
  <1>5. Shape'
    BY <1>1, <1>2, <1>3, <1>4 DEF LimitInv, Shape
  <1>6. QED
    BY <1>1, <1>2, <1>3, <1>4, <1>5 DEF Tame, LimitInv

\* A step that rewrites the record of request q and keeps its index in check.
LEMMA RewriteTame ==
  ASSUME LimitInv, NEW q \in Requests, UNCHANGED <<account, index>>,
         req' = [p \in Requests |-> req'[p]],
         \A p \in Requests \ {q} : req'[p] = req[p],
         DOMAIN req'[q] = Fields, req'[q].pc \notin Entering
  PROVE  Tame
  <1>1. req' = [req EXCEPT ![q] = req'[q]]
    BY DEF LimitInv, Shape
  <1>2. QED
    BY <1>1, TameStep, Untouched

LEMMA GuardTame ==
  ASSUME LimitInv, NEW q \in Requests, GuardUser(q) \/ GuardSession(q)
  PROVE  Tame
  <1>1. UNCHANGED <<account, index>>
    BY DEF GuardUser, GuardSession, storeVars
  <1>2. Goto(q, "dangling") \/ Goto(q, "admitted") \/ Cleanup(q)
    BY DEF GuardUser, GuardSession
  <1>3. "dangling" \notin Entering /\ "admitted" \notin Entering /\ "run" \notin Entering
    BY DEF Entering, InProgress
  <1>4. CASE Cleanup(q)
    <2>1. /\ req' = [p \in Requests |-> req'[p]] /\ \A p \in Requests \ {q} : req'[p] = req[p]
          /\ DOMAIN req'[q] = Fields /\ req'[q].pc = "run"
      BY <1>4 DEF Cleanup, LimitInv, Shape, Fields
    <2>2. QED
      BY <1>1, <1>3, <2>1, RewriteTame
  <1>5. QED
    BY <1>1, <1>2, <1>3, <1>4, GotoTame

LEMMA OperationTame ==
  ASSUME LimitInv, NEW q \in Requests, Protected(q) \/ SignOut(q) \/ SignOutAll(q) \/ Members(q)
  PROVE  Tame
  <1>1. UNCHANGED <<account, index>>
    BY DEF Protected, SignOut, SignOutAll, Members, storeVars
  <1>2. "run" \notin Entering /\ "members" \notin Entering
    BY DEF Entering, InProgress
  <1>3. CASE Leave(q)
    BY <1>1, <1>3, LeaveTame
  <1>4. CASE ~Leave(q)
    <2>1. /\ req' = [p \in Requests |-> req'[p]] /\ \A p \in Requests \ {q} : req'[p] = req[p]
          /\ DOMAIN req'[q] = Fields /\ req'[q].pc \in {"run", "members"}
      BY <1>4 DEF Protected, SignOut, SignOutAll, Members, LimitInv, Shape, Fields
    <2>2. QED
      BY <1>1, <1>2, <2>1, RewriteTame
  <1>5. QED
    BY <1>3, <1>4

LEMMA RunTame == ASSUME LimitInv, NEW q \in Requests, Run(q) PROVE Tame
  <1> DEFINE c == Head(req[q].todo)
  <1>1. Perform(c) /\ account' = account
    BY DEF Run
  <1>2. /\ req' = [p \in Requests |-> req'[p]] /\ \A p \in Requests \ {q} : req'[p] = req[p]
        /\ DOMAIN req'[q] = Fields /\ req'[q].pc = AfterCommand(q)
    BY DEF Run, LimitInv, Shape, Fields
  <1>3. AfterCommand(q) \notin Entering
    BY DEF AfterCommand, Entering, InProgress
  <1> HIDE DEF c
  <1>4. index' = [u \in Users |-> index'[u]] /\ \A u \in Users : index'[u] \subseteq index[u]
    BY <1>1, PerformShrinks
  <1>5. req' = [req EXCEPT ![q] = req'[q]]
    BY <1>2 DEF LimitInv, Shape
  <1>6. account' = [u \in Users |-> account'[u]]
    BY <1>1 DEF LimitInv, Shape
  <1>7. QED
    BY <1>1, <1>2, <1>3, <1>4, <1>5, <1>6, TameStep

LEMMA EndTame == ASSUME LimitInv, NEW q \in Requests, End(q) \/ EndFails(q) \/ Stop(q) PROVE Tame
  BY LeaveTame DEF End, EndFails, Stop, storeVars

LEMMA FailTame ==
  ASSUME LimitInv, NEW q \in Requests, BindFails(q) \/ MembersFails(q) \/ RunFails(q)
  PROVE  Tame
  <1>1. UNCHANGED <<account, index>>
    BY DEF BindFails, MembersFails, RunFails, storeVars
  <1>2. /\ req' = [p \in Requests |-> req'[p]] /\ \A p \in Requests \ {q} : req'[p] = req[p]
        /\ DOMAIN req'[q] = Fields /\ req'[q].pc \in {"end", "run"}
    <2>1. CASE BindFails(q)
      BY <2>1 DEF BindFails, LimitInv, Shape, Fields
    <2>2. CASE RunFails(q)
      BY <2>2 DEF RunFails, AfterCommand, LimitInv, Shape, Fields
    <2>3. CASE MembersFails(q)
      <3>1. PICK pc \in {"end", "run"} :
              req' = [req EXCEPT ![q].open = StillPromised(q), ![q].hold = HoldAfterAll(q),
                                 ![q].todo = Current(q), ![q].pc = pc]
        <4>1. (IF Current(q) = <<>> THEN "end" ELSE "run") \in {"end", "run"}
          OBVIOUS
        <4>2. QED
          BY <2>3, <4>1, Zenon DEF MembersFails
      <3>2. QED
        BY <3>1 DEF LimitInv, Shape, Fields
    <2>4. QED
      BY <2>1, <2>2, <2>3
  <1>3. "run" \notin Entering /\ "end" \notin Entering
    BY DEF Entering, InProgress
  <1>4. QED
    BY <1>1, <1>2, <1>3, RewriteTame

\* Expiry and the listener leave the requests alone.
LEMMA ListenerTame == ASSUME LimitInv, Expire \/ HandleExpired \/ Clean PROVE Tame
  <1>1. UNCHANGED <<account, req>>
    BY DEF Expire, HandleExpired, Clean
  <1>2. index' = [u \in Users |-> index'[u]] /\ \A u \in Users : index'[u] \subseteq index[u]
    <2>1. CASE UNCHANGED index
      BY <2>1 DEF LimitInv, Shape
    <2>2. CASE Clean
      <3>1. PICK c \in cleaning : Perform(c)
        BY <2>2 DEF Clean
      <3>2. QED
        BY <3>1, PerformShrinks
    <2>3. QED
      BY <2>1, <2>2 DEF Expire, HandleExpired, storeVars
  <1>3. Shape'
    BY <1>1, <1>2 DEF LimitInv, Shape
  <1>4. QED
    BY <1>1, <1>2, <1>3 DEF Tame

-----------------------------------------------------------------------------
(* Steps that can bring a user closer to the limit.                        *)

\* One more request of one user is in progress.
LEMMA OneMorePending ==
  ASSUME NEW q \in Requests, NEW u \in Users, NEW w \in Users,
         \A p \in Requests \ {q} : req'[p] = req[p],
         req'[q].user = u
  PROVE  /\ w # u => Pending(w)' \subseteq Pending(w)
         /\ Pending(u)' \subseteq Pending(u) \union {q}
  BY DEF Pending

\* Where index[u] has room for another session, any request may go on: those
\* of u that are in progress are at most all requests.
LEMMA EnterInv ==
  ASSUME LimitInv, NEW q \in Requests, NEW u \in Users,
         Shape', AbsentInactive', UNCHANGED index,
         \A p \in Requests \ {q} : req'[p] = req[p],
         req'[q].user = u, Cardinality(index[u]) < MaxUserSessions
  PROVE  LimitInv'
  <1>1. \A w \in Users : IsFiniteSet(index'[w])
    BY DEF LimitInv
  <1>2. ASSUME NEW w \in Users
        PROVE  Cardinality(index'[w]) + Cardinality(Pending(w)') <= Limit
    <2>1. Cardinality(index[w]) \in Nat /\ Cardinality(index[w]) + Cardinality(Pending(w)) <= Limit
      BY FS_CardinalityType DEF LimitInv
    <2>2. Pending(w)' \in SUBSET Requests
      BY DEF Pending
    <2>3. Cardinality(Pending(w)') \in Nat /\ Cardinality(Pending(w)') <= Cardinality(Requests)
          /\ Cardinality(Requests) \in Nat
      BY <2>2, SessionsAssumption, FS_Subset, FS_CardinalityType
    <2>4. CASE w = u
      BY <2>1, <2>3, <2>4, SessionsAssumption DEF Limit
    <2>5. CASE w # u
      <3>1. Pending(w)' \in SUBSET Pending(w)
        BY <2>5, OneMorePending
      <3>2. Cardinality(Pending(w)') <= Cardinality(Pending(w)) /\ Cardinality(Pending(w)) \in Nat
        BY <3>1, PendingFinite, FS_Subset
      <3>3. Limit \in Int
        BY <2>3, SessionsAssumption DEF Limit
      <3>4. QED
        BY <2>1, <2>3, <3>2, <3>3
    <2>6. QED
      BY <2>4, <2>5
  <1>3. QED
    BY <1>1, <1>2 DEF LimitInv, Limit

LEMMA CountInv == ASSUME LimitInv, NEW q \in Requests, Count(q) PROVE LimitInv'
  <1>1. UNCHANGED <<account, index>> /\ req[q].pc = "count"
    BY DEF Count, storeVars
  <1>2. CASE Leave(q)
    BY <1>1, <1>2, LeaveTame, TameInv
  <1>3. CASE Goto(q, "regenerate") /\ ~Full(req[q].user)
    <2>1. req[q].pc \in Entering /\ req[q].user \in Users
      BY <1>1 DEF Entering, LimitInv, Shape
    <2>2. /\ req' = [p \in Requests |-> req'[p]] /\ \A p \in Requests \ {q} : req'[p] = req[p]
          /\ DOMAIN req'[q] = Fields /\ req'[q].pc = "regenerate" /\ req'[q].user = req[q].user
      BY <1>3 DEF Goto, LimitInv, Shape, Fields
    <2>3. Shape' /\ AbsentInactive'
      BY <1>1, <2>1, <2>2 DEF LimitInv, Shape, AbsentInactive
    <2>4. Cardinality(index[req[q].user]) < MaxUserSessions
      <3>1. Cardinality(index[req[q].user]) \in Nat
        BY <2>1, FS_CardinalityType DEF LimitInv
      <3>2. QED
        BY <1>3, <3>1, SessionsAssumption DEF Full
    <2>5. QED
      BY <1>1, <2>1, <2>2, <2>3, <2>4, EnterInv
  <1>4. QED
    BY <1>2, <1>3 DEF Count

LEMMA ArriveAuthInv == ASSUME LimitInv, NEW q \in Requests, ArriveAuth(q) PROVE LimitInv'
  <1>1. PICK u \in Users, s \in Stored \union {NoSid} :
          \/ /\ account[u] = "absent"
             /\ account' = [account EXCEPT ![u] = "exists"]
             /\ req' = [req EXCEPT ![q] = Request("signUp", "regenerate", u, s, FALSE)]
          \/ /\ account[u] = "exists"
             /\ req' = [req EXCEPT ![q] = Request("signIn", "count", u, s, FALSE)]
             /\ UNCHANGED account
    BY Zenon DEF ArriveAuth
  <1>2. UNCHANGED index
    BY DEF ArriveAuth, storeVars
  <1>3. /\ req' = [p \in Requests |-> req'[p]] /\ \A p \in Requests \ {q} : req'[p] = req[p]
        /\ DOMAIN req'[q] = Fields /\ req'[q].user = u
        /\ \/ account[u] = "absent"
           \/ account[u] = "exists" /\ req'[q].pc = "count"
    BY <1>1 DEF LimitInv, Shape, Request, Fields
  <1>4. account' = [w \in Users |-> account'[w]] /\ account'[u] # "absent"
        /\ \A w \in Users : account'[w] = "absent" => account[w] = "absent"
    BY <1>1 DEF LimitInv, Shape
  <1>5. Shape'
    BY <1>2, <1>3, <1>4 DEF LimitInv, Shape
  <1>6. AbsentInactive'
    BY <1>2, <1>3, <1>4 DEF LimitInv, AbsentInactive
  <1>7. CASE account[u] = "absent"
    <2>1. Cardinality(index[u]) < MaxUserSessions
      BY <1>7, FS_EmptySet, SessionsAssumption DEF LimitInv, AbsentInactive
    <2>2. QED
      BY <1>2, <1>3, <1>5, <1>6, <2>1, EnterInv
  <1>8. CASE account[u] = "exists" /\ req'[q].pc = "count"
    <2>1. "count" \notin InProgress
      BY DEF InProgress
    <2>2. Tame
      BY <1>2, <1>3, <1>4, <1>5, <1>8, <2>1 DEF Tame, Entering
    <2>3. QED
      BY <2>2, TameInv
  <1>9. QED
    BY <1>3, <1>7, <1>8

\* The request that was in progress becomes a session of the index.
LEMMA BindInv == ASSUME LimitInv, NEW q \in Requests, Bind(q) PROVE LimitInv'
  <1> DEFINE u == req[q].user
             s == req[q].sid
  <1>1. u \in Users /\ req[q].pc = "bind" /\ q \in Pending(u)
    BY DEF Bind, LimitInv, Shape, Entering, InProgress, Pending
  <1>2. /\ req' = [p \in Requests |-> req'[p]] /\ \A p \in Requests \ {q} : req'[p] = req[p]
        /\ DOMAIN req'[q] = Fields /\ req'[q].pc = "end" /\ req'[q].user = u
    BY DEF Bind, Goto, LimitInv, Shape, Fields
  <1>3. /\ account' = account /\ index' = [w \in Users |-> index'[w]]
        /\ index'[u] = index[u] \union {s} /\ \A w \in Users \ {u} : index'[w] = index[w]
    BY <1>1 DEF Bind, LimitInv, Shape
  <1>4. "end" \notin Entering /\ "end" \notin InProgress /\ "bind" \in Entering
    BY DEF Entering, InProgress
  <1>5. Shape'
    BY <1>2, <1>3, <1>4 DEF LimitInv, Shape
  <1>6. account[u] # "absent"
    BY <1>1, <1>4 DEF LimitInv, AbsentInactive
  <1>7. AbsentInactive'
    BY <1>1, <1>2, <1>3, <1>4, <1>6 DEF LimitInv, AbsentInactive
  <1>8. ASSUME NEW w \in Users
        PROVE  /\ IsFiniteSet(index'[w])
               /\ Cardinality(index'[w]) + Cardinality(Pending(w)') <= Limit
    <2>1. /\ IsFiniteSet(index[w]) /\ Cardinality(index[w]) \in Nat
          /\ Cardinality(index[w]) + Cardinality(Pending(w)) <= Limit /\ Limit \in Int
      BY FS_CardinalityType, PendingFinite, SessionsAssumption DEF LimitInv, Limit
    <2>2. IsFiniteSet(Pending(w)) /\ Cardinality(Pending(w)) \in Nat
      BY PendingFinite
    <2>3. CASE w = u
      <3>1. Pending(w)' = Pending(w) \ {q} /\ q \in Pending(w)
        BY <1>1, <1>2, <1>4, <2>3 DEF Pending
      <3>2. Cardinality(Pending(w)') = Cardinality(Pending(w)) - 1
        <4>1. Cardinality(Pending(w) \ {q}) = Cardinality(Pending(w)) - 1
          BY <2>2, <3>1, FS_RemoveElement
        <4>2. QED
          BY <3>1, <4>1
      <3>3. index'[w] = index[w] \union {s}
        BY <1>3, <2>3
      <3>4. /\ IsFiniteSet(index[w] \union {s})
            /\ Cardinality(index[w] \union {s}) \in {Cardinality(index[w]), Cardinality(index[w]) + 1}
        BY <2>1, FS_AddElement
      <3>5. QED
        BY <2>1, <2>2, <3>2, <3>3, <3>4
    <2>4. CASE w # u
      <3>1. Pending(w)' = Pending(w)
        BY <1>2, <2>4 DEF Pending
      <3>2. QED
        BY <1>3, <2>1, <2>4, <3>1
    <2>5. QED
      BY <2>3, <2>4
  <1>9. QED
    BY <1>5, <1>7, <1>8 DEF LimitInv, Limit

-----------------------------------------------------------------------------
(* The theorem.                                                            *)

LEMMA LimitInit == SessionsInit => LimitInv
  <1> SUFFICES ASSUME SessionsInit PROVE LimitInv
    OBVIOUS
  <1>1. NoRequest.pc \notin Entering /\ DOMAIN NoRequest = Fields /\ NoRequest.pc \notin InProgress
    BY DEF NoRequest, Request, Fields, Entering, InProgress
  <1>2. Shape /\ AbsentInactive
    BY <1>1 DEF SessionsInit, Shape, AbsentInactive
  <1>3. ASSUME NEW u \in Users
        PROVE IsFiniteSet(index[u]) /\ Cardinality(index[u]) + Cardinality(Pending(u)) <= Limit
    <2>1. index[u] = {} /\ Pending(u) = {}
      BY <1>1 DEF SessionsInit, Pending
    <2>2. Cardinality(Requests) \in Nat
      BY SessionsAssumption, FS_CardinalityType
    <2>3. QED
      BY <2>1, <2>2, FS_EmptySet, SessionsAssumption DEF Limit
  <1>4. QED
    BY <1>2, <1>3 DEF LimitInv

LEMMA LimitNext == ASSUME LimitInv, [SessionsNext]_sessionsVars PROVE LimitInv'
  <1>1. CASE UNCHANGED sessionsVars
    BY <1>1 DEF sessionsVars, storeVars, LimitInv, Shape, AbsentInactive, Pending
  <1>2. ASSUME NEW q \in Requests, Step(q) PROVE LimitInv'
    <2>1. CASE ArriveAuth(q) \/ Count(q) \/ Bind(q)
      BY <2>1, ArriveAuthInv, CountInv, BindInv
    <2>2. CASE ArriveGuarded(q) \/ ArriveLink(q) \/ Regenerate(q) \/ GuardUser(q) \/ GuardSession(q)
      BY <2>2, ArriveGuardedTame, ArriveLinkTame, RegenerateTame, GuardTame, TameInv
    <2>3. CASE Protected(q) \/ SignOut(q) \/ SignOutAll(q) \/ Members(q) \/ Run(q) \/ End(q)
      BY <2>3, OperationTame, RunTame, EndTame, TameInv
    <2>4. QED
      BY <1>2, <2>1, <2>2, <2>3 DEF Step
  <1>3. ASSUME NEW q \in Requests, Fail(q) PROVE LimitInv'
    BY <1>3, FailTame, EndTame, TameInv DEF Fail
  <1>4. CASE Expire \/ HandleExpired \/ Clean
    BY <1>4, ListenerTame, TameInv
  <1>5. QED
    BY <1>1, <1>2, <1>3, <1>4 DEF SessionsNext

(* Concurrent sign-ins and sign-ups can bring a user over maxUserSessions  *)
(* by at most the number of requests that run together, less one, whatever *)
(* expires, fails or crashes.                                              *)
THEOREM OvershootTheorem == SessionsSpec => []OvershootBounded
  <1>1. SessionsInit => LimitInv
    BY LimitInit
  <1>2. LimitInv /\ [SessionsNext]_sessionsVars => LimitInv'
    BY LimitNext
  <1>3. LimitInv => OvershootBounded
    <2> SUFFICES ASSUME LimitInv, NEW u \in Users PROVE Cardinality(index[u]) <= Limit
      BY DEF OvershootBounded, Limit
    <2>1. /\ Cardinality(index[u]) \in Nat /\ Cardinality(Pending(u)) \in Nat /\ Limit \in Int
          /\ Cardinality(index[u]) + Cardinality(Pending(u)) <= Limit
      BY FS_CardinalityType, PendingFinite, SessionsAssumption DEF LimitInv, Limit
    <2>2. QED
      BY <2>1
  <1>4. QED
    BY <1>1, <1>2, <1>3, PTL DEF SessionsSpec

=============================================================================
