---------------------------- MODULE ClosingProofs ----------------------------
(***************************************************************************)
(* Why a session that has been closed stays closed, for any number of      *)
(* users, requests and session ids: proofs about Sessions.                 *)
(***************************************************************************)
EXTENDS SessionsProps, SequenceTheorems, TLAPS

-----------------------------------------------------------------------------
(* The inductive invariant.                                                *)

Ops == {"none", "signUp", "signIn", "cleanup"} \union GuardedOps \union LinkOps
Stages == {"idle", "count", "regenerate", "bind", "guard", "dangling", "admitted",
           "members", "run", "end"}
Commands == [key : {"session", "relation", "index", "member"}, sids : SUBSET Sids, user : Users]
RequestRecord ==
  [op : Ops, pc : Stages, user : Users \union {Nobody}, sid : Sids \union {NoSid},
   hold : {"keep", "save", "destroy"}, todo : Seq(Commands), open : SUBSET Sids,
   barred : BOOLEAN]

Unindexed(s) == \A u \in Users : s \notin index[u]
Unnamed(s) == session[s] = Nobody /\ relation[s] = Nobody /\ Unindexed(s)

StoreOK ==
  /\ account \in [Users -> {"absent", "exists", "deleted"}]
  /\ session \in [Sids -> Users \union {Nobody}]
  /\ relation \in [Sids -> Users \union {Nobody}]
  /\ index \in [Users -> SUBSET (1..issued)]
  /\ issued \in 0..MaxSids /\ mishaps \in 0..MaxMishaps
  /\ revoked \subseteq 1..issued
  /\ \A s \in Sids : s > issued => Unnamed(s)
  /\ req \in [Requests -> RequestRecord]
  /\ \A q \in Requests : req[q].sid \in 0..issued

\* q is about to write the keys of session s, which it creates.
Creator(q, s) == req[q].hold = "save" /\ req[q].sid = s
NoCreator(s) == \A q \in Requests : ~Creator(q, s)
Bound(s) == \A q \in Requests : Creator(q, s) => req[q].pc = "end"

\* Some key of s names u, or will.
Named(s, u) ==
  \/ session[s] = u \/ relation[s] = u \/ s \in index[u]
  \/ \E q \in Requests : Creator(q, s) /\ req[q].user = u

OneOwner == \A s \in Sids, u, v \in Users : Named(s, u) /\ Named(s, v) => u = v

\* A session is created by one request, which finds nothing under its id.
CreatorsOK ==
  \A q \in Requests : req[q].hold = "save" =>
    /\ session[req[q].sid] = Nobody
    /\ req[q].pc = "bind" => Unnamed(req[q].sid)
    /\ \A p \in Requests \ {q} : ~Creator(p, req[q].sid)

\* Ways in which AuthGuard turns a session away for ever: it has no record and
\* nobody will save one; it has no entry in an index and nobody will add one;
\* its account is deleted.
Dead(s) == session[s] = Nobody /\ NoCreator(s)
OwnerDeleted(s) == \A u \in Users : Named(s, u) => account[u] = "deleted"
Closed(s) == s \in 1..issued /\ Bound(s) /\ (Dead(s) \/ Unindexed(s) \/ OwnerDeleted(s))

Arriving == {"count", "regenerate", "guard", "dangling", "admitted"}

\* Where in its operation a request can be.
StageOK(q) ==
  LET r == req[q] IN
  /\ r.pc # "idle" => r.user \in Users
  /\ r.hold = "save" => r.pc \in {"bind", "end"} /\ r.sid # NoSid /\ r.op \in {"signUp", "signIn"}
  /\ r.pc = "bind" => r.hold = "save"
  /\ r.pc \in Arriving \union {"idle"} => r.open = {}
  /\ r.pc \in {"count", "regenerate"} => r.op \in {"signUp", "signIn"}
  /\ r.pc \in {"guard", "dangling", "admitted"} => r.op \in GuardedOps
  /\ r.op \in GuardedOps \union {"cleanup"} => r.sid # NoSid
  /\ r.pc = "members" => r.op \in LinkOps \union {"signOutAll"}
  /\ r.pc = "run" <=> r.todo # <<>>
  /\ r.op \in {"signOut", "cleanup"} /\ r.pc \notin Arriving => r.hold = "destroy"

\* The session a request arrived with has been saved by its creator.
Settled(q) == req[q].hold # "save" /\ req[q].sid # NoSid => NoCreator(req[q].sid)

\* Until the operation starts, a session is of the user its record named.
OwnedOnly(q, s) == \A u \in Users : Named(s, u) => u = req[q].user
Presented(q) == req[q].pc \in {"guard", "dangling", "admitted"} => OwnedOnly(q, req[q].sid)

\* What turns away a request that arrived with a closed session.
BarredOK(q) ==
  LET r == req[q]
      dangling == r.sid \notin index[r.user]
  IN r.barred => /\ r.pc = "guard" => account[r.user] = "deleted" \/ dangling
                 /\ r.pc = "dangling" => dangling
                 /\ r.pc # "admitted"

\* A command that q has still to send.
Due(q, key, s) ==
  \E i \in DOMAIN req[q].todo : /\ req[q].todo[i].key = key
                                /\ req[q].todo[i].user = req[q].user
                                /\ key = "index" \/ s \in req[q].todo[i].sids

\* signOut and cleanup: every key is clean, or its command is due.
SigningOut(q, s) ==
  /\ s = req[q].sid /\ OwnedOnly(q, s)
  /\ session[s] = Nobody \/ Due(q, "session", s)
  /\ relation[s] = Nobody \/ Due(q, "relation", s)
  /\ Unindexed(s) \/ Due(q, "member", s)

\* deleteAll: s is out of the index once that is deleted, unless the account is.
Sweeping(q, s) ==
  /\ OwnedOnly(q, s)
  /\ req[q].op = "deleteAccount" => account[req[q].user] = "deleted"
  /\ req[q].op # "deleteAccount" /\ req[q].pc # "members" => Unindexed(s) \/ Due(q, "index", s)

\* What a request has still to do before its answer is right about s.
OpenOK(q) ==
  \A s \in req[q].open :
    /\ s \in 1..issued /\ Bound(s)
    /\ \/ req[q].hold = "save" /\ Dead(s)
       \/ req[q].op \in {"signOut", "cleanup"} /\ SigningOut(q, s)
       \/ req[q].op \in LinkOps \union {"signOutAll"} /\ Sweeping(q, s)

RequestOK(q) == StageOK(q) /\ Settled(q) /\ Presented(q) /\ BarredOK(q) /\ OpenOK(q)

RevokedClosed == \A s \in revoked : Closed(s)

ClosingInv ==
  /\ StoreOK /\ OneOwner /\ CreatorsOK /\ RevokedClosed
  /\ \A q \in Requests : RequestOK(q)

-----------------------------------------------------------------------------
(* What no step undoes for an id that has been issued.                     *)

Steady ==
  /\ issued <= issued'
  /\ \A u \in Users : account[u] = "deleted" => account'[u] = "deleted"
  /\ \A s \in 1..issued :
       /\ \A u \in Users : Named(s, u)' => Named(s, u)
       /\ NoCreator(s) => NoCreator(s)'
       /\ Bound(s) => Bound(s)'
       /\ Dead(s) => session'[s] = Nobody
       /\ Bound(s) /\ relation[s] = Nobody => relation'[s] = Nobody
       /\ Bound(s) => \A u \in Users : s \in index'[u] => s \in index[u]

LEMMA SidRange == ASSUME StoreOK PROVE issued \in Nat /\ 1..issued \subseteq Sids
  BY SessionsAssumption DEF StoreOK, Sids

LEMMA SidRangeNext == ASSUME StoreOK' PROVE issued' \in Nat /\ (1..issued)' \subseteq Sids
  BY SessionsAssumption DEF StoreOK, Sids

LEMMA SteadyClosed ==
  ASSUME StoreOK, StoreOK', Steady, NEW s, Closed(s)
  PROVE  Closed(s)'
  <1>1. s \in 1..issued /\ Bound(s) /\ s \in (1..issued)' /\ Bound(s)'
    BY SidRange, SidRangeNext DEF Closed, Steady
  <1>2. CASE Dead(s)
    BY <1>1, <1>2 DEF Closed, Dead, Steady
  <1>3. CASE Unindexed(s)
    BY <1>1, <1>3 DEF Closed, Unindexed, Steady
  <1>4. CASE OwnerDeleted(s)
    BY <1>1, <1>4 DEF Closed, OwnerDeleted, Steady
  <1>5. QED
    BY <1>2, <1>3, <1>4 DEF Closed

\* A request that takes no step keeps what it relies on.
LEMMA SteadyRequest ==
  ASSUME StoreOK, StoreOK', Steady, NEW q \in Requests, RequestOK(q), req'[q] = req[q]
  PROVE  RequestOK(q)'
  <1>1. issued \in Nat /\ issued' \in Nat /\ 1..issued \subseteq (1..issued)'
    BY SidRange, SidRangeNext DEF Steady
  <1>2. /\ req[q] \in RequestRecord /\ req[q].sid \in 0..issued
        /\ StageOK(q) /\ Settled(q) /\ Presented(q) /\ BarredOK(q) /\ OpenOK(q)
    BY DEF StoreOK, RequestOK
  <1>3. StageOK(q)'
    BY <1>2 DEF StageOK
  <1>4. Settled(q)'
    BY <1>1, <1>2 DEF Settled, Steady, NoSid
  <1>5. Presented(q)'
    <2>1. req[q].pc \in {"guard", "dangling", "admitted"} => req[q].sid \in 1..issued
      BY <1>1, <1>2 DEF StageOK, GuardedOps, NoSid
    <2>2. QED
      BY <1>2, <2>1 DEF Presented, OwnedOnly, Steady
  <1>6. BarredOK(q)'
    <2>1. ASSUME req[q].pc \in {"guard", "dangling"}
          PROVE  /\ account[req[q].user] = "deleted" => account'[req[q].user] = "deleted"
                 /\ req[q].sid \notin index[req[q].user] => req[q].sid \notin index'[req[q].user]
      <3>1. /\ req[q].user \in Users /\ req[q].sid \in 1..issued /\ req[q].sid # NoSid
            /\ req[q].hold # "save"
        BY <1>1, <1>2, <2>1 DEF StageOK, GuardedOps, NoSid
      <3>2. Bound(req[q].sid)
        BY <1>2, <3>1 DEF Settled, NoCreator, Bound
      <3>3. QED
        BY <3>1, <3>2 DEF Steady
    <2>2. QED
      BY <1>2, <2>1 DEF BarredOK
  <1>7. OpenOK(q)'
    <2> SUFFICES ASSUME NEW s \in req[q].open
                 PROVE  /\ s \in (1..issued)' /\ Bound(s)'
                        /\ \/ req[q].hold = "save" /\ Dead(s)'
                           \/ req[q].op \in {"signOut", "cleanup"} /\ SigningOut(q, s)'
                           \/ req[q].op \in LinkOps \union {"signOutAll"} /\ Sweeping(q, s)'
      BY DEF OpenOK
    <2>1. s \in 1..issued /\ Bound(s) /\ Bound(s)' /\ s \in (1..issued)'
      BY <1>1, <1>2 DEF OpenOK, Steady
    <2>2. OwnedOnly(q, s) => OwnedOnly(q, s)'
      BY <2>1 DEF OwnedOnly, Steady
    <2>3. Unindexed(s) => Unindexed(s)'
      BY <2>1 DEF Unindexed, Steady
    <2>4. \A key : Due(q, key, s)' <=> Due(q, key, s)
      BY DEF Due
    <2>5. req[q].pc # "idle" /\ req[q].user \in Users
      BY <1>2 DEF StageOK
    <2>6. CASE req[q].hold = "save" /\ Dead(s)
      BY <2>1, <2>6 DEF Dead, Steady
    <2>7. CASE req[q].op \in {"signOut", "cleanup"} /\ SigningOut(q, s)
      <3>1. Dead(s) \/ session[s] # Nobody
        <4>1. req[q].hold # "save" /\ req[q].sid # NoSid
          BY <1>2, <2>7 DEF StageOK, GuardedOps
        <4>2. QED
          BY <1>2, <2>7, <4>1 DEF SigningOut, Settled, Dead
      <3>2. session[s] = Nobody => session'[s] = Nobody
        BY <2>1, <3>1 DEF Steady
      <3>3. relation[s] = Nobody => relation'[s] = Nobody
        BY <2>1 DEF Steady
      <3>4. QED
        BY <2>1, <2>2, <2>3, <2>4, <2>7, <3>2, <3>3 DEF SigningOut
    <2>8. CASE req[q].op \in LinkOps \union {"signOutAll"} /\ Sweeping(q, s)
      <3>1. account[req[q].user] = "deleted" => account'[req[q].user] = "deleted"
        BY <2>5 DEF Steady
      <3>2. QED
        BY <2>1, <2>2, <2>3, <2>4, <2>8, <3>1 DEF Sweeping
    <2>9. QED
      BY <1>2, <2>6, <2>7, <2>8 DEF OpenOK
  <1>8. QED
    BY <1>3, <1>4, <1>5, <1>6, <1>7 DEF RequestOK

-----------------------------------------------------------------------------
(* Steps that write no key and only delete some: all but those of a        *)
(* request that creates a session.                                         *)

KeysShrink ==
  /\ session' \in [Sids -> Users \union {Nobody}]
  /\ relation' \in [Sids -> Users \union {Nobody}]
  /\ index' \in [Users -> SUBSET (1..issued)]
  /\ \A s \in Sids : session'[s] \in {session[s], Nobody} /\ relation'[s] \in {relation[s], Nobody}
  /\ \A u \in Users : index'[u] \subseteq index[u]

NoNewCreator ==
  \A p \in Requests : req'[p].hold = "save" =>
    /\ req[p].hold = "save" /\ req'[p].sid = req[p].sid /\ req'[p].user = req[p].user
    /\ req[p].pc = "end" => req'[p].pc = "end"

AccountsForward ==
  /\ account' \in [Users -> {"absent", "exists", "deleted"}]
  /\ \A u \in Users : account[u] = "deleted" => account'[u] = "deleted"

Shrinking == KeysShrink /\ NoNewCreator /\ AccountsForward /\ issued' = issued

LEMMA ShrinkSteady ==
  ASSUME StoreOK, Shrinking
  PROVE  Steady
  <1>1. issued <= issued'
    BY SidRange DEF Shrinking
  <1>2. ASSUME NEW s \in 1..issued
        PROVE  /\ \A u \in Users : Named(s, u)' => Named(s, u)
               /\ NoCreator(s) => NoCreator(s)'
               /\ Bound(s) => Bound(s)'
               /\ Dead(s) => session'[s] = Nobody
               /\ Bound(s) /\ relation[s] = Nobody => relation'[s] = Nobody
               /\ Bound(s) => \A u \in Users : s \in index'[u] => s \in index[u]
    <2>1. s \in Sids
      BY SidRange
    <2>2. \A p \in Requests : Creator(p, s)' => Creator(p, s)
      BY DEF Shrinking, NoNewCreator, Creator
    <2>3. ASSUME NEW u \in Users, Named(s, u)' PROVE Named(s, u)
      <3>1. CASE session'[s] = u \/ relation'[s] = u \/ s \in index'[u]
        <4>1. u # Nobody
          BY SessionsAssumption
        <4>2. QED
          BY <2>1, <3>1, <4>1 DEF Named, Shrinking, KeysShrink
      <3>2. CASE \E p \in Requests : Creator(p, s)' /\ req'[p].user = u
        BY <2>2, <3>2 DEF Named, Shrinking, NoNewCreator, Creator
      <3>3. QED
        BY <2>3, <3>1, <3>2 DEF Named
    <2>4. (NoCreator(s) => NoCreator(s)') /\ (Bound(s) => Bound(s)')
      <3>1. NoCreator(s) => NoCreator(s)'
        BY <2>2 DEF NoCreator
      <3>2. ASSUME Bound(s), NEW p \in Requests, Creator(p, s)' PROVE req'[p].pc = "end"
        <4>1. req[p].pc = "end"
          BY <2>2, <3>2 DEF Bound
        <4>2. QED
          BY <3>2, <4>1 DEF Shrinking, NoNewCreator, Creator
      <3>3. QED
        BY <3>1, <3>2 DEF Bound
    <2>5. /\ session[s] = Nobody => session'[s] = Nobody
          /\ relation[s] = Nobody => relation'[s] = Nobody
          /\ \A u \in Users : s \in index'[u] => s \in index[u]
      BY <2>1 DEF Shrinking, KeysShrink
    <2>6. QED
      BY <2>3, <2>4, <2>5 DEF Dead
  <1>3. QED
    BY <1>1, <1>2 DEF Steady, Shrinking, AccountsForward

\* A step of request q that leaves the invariant of its own part intact.
LEMMA StepInv ==
  ASSUME ClosingInv, StoreOK', Steady, OneOwner', CreatorsOK',
         NEW q, RequestOK(q)',
         \A p \in Requests : p = q \/ req'[p] = req[p],
         \A s \in revoked' : s \in revoked \/ Closed(s)
  PROVE  ClosingInv'
  <1>1. RevokedClosed'
    BY SteadyClosed DEF ClosingInv, RevokedClosed
  <1>2. ASSUME NEW p \in Requests PROVE RequestOK(p)'
    BY SteadyRequest DEF ClosingInv
  <1>3. QED
    BY <1>1, <1>2 DEF ClosingInv

\* Keys name one owner, as long as no id is generated.
LEMMA SteadyOwner ==
  ASSUME StoreOK, StoreOK', OneOwner, Steady, issued' = issued
  PROVE  OneOwner'
  <1> SUFFICES ASSUME NEW s \in Sids, NEW u \in Users, NEW v \in Users,
                      Named(s, u)', Named(s, v)'
               PROVE  u = v
    BY DEF OneOwner
  <1>1. s \in 1..issued
    <2>1. issued \in Nat /\ s \in Nat /\ s >= 1
      BY SidRange DEF Sids
    <2>2. ASSUME s > issued' PROVE FALSE
      <3>1. session'[s] = Nobody /\ relation'[s] = Nobody /\ s \notin index'[u]
        BY <2>2 DEF StoreOK, Unnamed, Unindexed
      <3>2. \A p \in Requests : req'[p].sid # s
        BY <2>1, <2>2, SidRangeNext DEF StoreOK
      <3>3. QED
        BY <3>1, <3>2, SessionsAssumption DEF Named, Creator
    <2>3. QED
      BY <2>1, <2>2
  <1>2. QED
    BY <1>1 DEF Steady, OneOwner

LEMMA ShrinkStore ==
  ASSUME StoreOK, Shrinking, req' \in [Requests -> RequestRecord],
         \A p \in Requests : req'[p].sid \in 0..issued,
         mishaps' \in 0..MaxMishaps, revoked' \subseteq 1..issued
  PROVE  StoreOK'
  <1>1. ASSUME NEW s \in Sids, s > issued PROVE Unnamed(s)'
    BY <1>1 DEF StoreOK, Unnamed, Unindexed, Shrinking, KeysShrink
  <1>2. QED
    BY <1>1 DEF StoreOK, Shrinking, KeysShrink, AccountsForward

LEMMA ShrinkCreators ==
  ASSUME StoreOK, CreatorsOK, Shrinking, \A p \in Requests : StageOK(p)
  PROVE  CreatorsOK'
  <1> SUFFICES ASSUME NEW p \in Requests, NEW s, Creator(p, s)'
               PROVE  /\ session'[s] = Nobody
                      /\ req'[p].pc = "bind" => Unnamed(s)'
                      /\ \A o \in Requests \ {p} : ~Creator(o, s)'
    BY DEF CreatorsOK, Creator
  <1>1. Creator(p, s) /\ (req'[p].pc = "bind" => req[p].pc = "bind")
    BY DEF Shrinking, NoNewCreator, StageOK, Creator
  <1>2. s \in Sids
    BY <1>1, SidRange DEF StageOK, StoreOK, NoSid, Creator
  <1>3. /\ session[s] = Nobody /\ (req[p].pc = "bind" => Unnamed(s))
        /\ \A o \in Requests \ {p} : ~Creator(o, s)
    BY <1>1 DEF CreatorsOK, Creator
  <1>4. Unnamed(s) => Unnamed(s)'
    BY <1>2 DEF Unnamed, Unindexed, Shrinking, KeysShrink
  <1>5. session'[s] = Nobody
    BY <1>2, <1>3 DEF Shrinking, KeysShrink
  <1>6. \A o \in Requests : Creator(o, s)' => Creator(o, s)
    BY DEF Creator, Shrinking, NoNewCreator
  <1>7. QED
    BY <1>1, <1>3, <1>4, <1>5, <1>6

LEMMA Shaped ==
  ASSUME ClosingInv, NEW q \in Requests
  PROVE  /\ req[q] \in RequestRecord /\ req[q].sid \in 0..issued /\ issued \in Nat
         /\ StageOK(q) /\ Settled(q) /\ Presented(q) /\ BarredOK(q) /\ OpenOK(q)
  BY SidRange DEF ClosingInv, StoreOK, RequestOK

\* A shrinking step of request q.
LEMMA ShrinkInv ==
  ASSUME ClosingInv, KeysShrink, AccountsForward, issued' = issued,
         NEW q \in Requests, NEW r \in RequestRecord, r.sid \in 0..issued,
         r.hold = "save" => /\ req[q].hold = "save"
                            /\ r.sid = req[q].sid /\ r.user = req[q].user
                            /\ req[q].pc = "end" => r.pc = "end",
         req' = [req EXCEPT ![q] = r],
         mishaps' \in 0..MaxMishaps, revoked' \subseteq 1..issued,
         Steady => RequestOK(q)',
         \A s \in revoked' : s \in revoked \/ Closed(s)
  PROVE  ClosingInv'
  <1>1. req'[q] = r /\ \A p \in Requests : p = q \/ req'[p] = req[p]
    BY DEF ClosingInv, StoreOK
  <1>2. Shrinking
    BY <1>1 DEF Shrinking, NoNewCreator
  <1>3. Steady
    BY <1>2, ShrinkSteady DEF ClosingInv
  <1>4. StoreOK'
    BY <1>1, <1>2, ShrinkStore DEF ClosingInv, StoreOK
  <1>5. CreatorsOK'
    BY <1>2, ShrinkCreators, Shaped DEF ClosingInv
  <1>6. OneOwner'
    BY <1>3, <1>4, SteadyOwner DEF ClosingInv
  <1>7. QED
    BY <1>1, <1>3, <1>4, <1>5, <1>6, StepInv

LEMMA PerformShrinks ==
  ASSUME StoreOK, NEW c, Perform(c)
  PROVE  KeysShrink
  BY DEF StoreOK, Perform, KeysShrink, Removes

LEMMA StillShrinks ==
  ASSUME StoreOK, UNCHANGED storeVars
  PROVE  KeysShrink
  BY DEF StoreOK, storeVars, KeysShrink

LEMMA AccountsStill ==
  ASSUME StoreOK, UNCHANGED account
  PROVE  AccountsForward
  BY DEF StoreOK, AccountsForward

LEMMA NoRequestOK ==
  /\ NoRequest \in RequestRecord /\ NoRequest.sid = 0 /\ NoRequest.hold = "keep"
  /\ NoRequest.pc = "idle" /\ NoRequest.op = "none" /\ NoRequest.todo = <<>>
  /\ NoRequest.open = {} /\ NoRequest.barred = FALSE
  BY DEF NoRequest, Request, RequestRecord, NoSid, Ops, Stages

LEMMA LeaveInv ==
  ASSUME ClosingInv, mishaps' \in 0..MaxMishaps, NEW q \in Requests, Leave(q),
         KeysShrink, AccountsForward, issued' = issued, revoked' \subseteq 1..issued,
         \A s \in revoked' : s \in revoked \/ Closed(s)
  PROVE  ClosingInv'
  <1>1. req'[q] = NoRequest /\ req' = [req EXCEPT ![q] = NoRequest]
    BY DEF Leave, ClosingInv, StoreOK
  <1>2. RequestOK(q)'
    <2>1. StageOK(q)' /\ Settled(q)' /\ Presented(q)' /\ BarredOK(q)'
      BY <1>1, NoRequestOK
         DEF StageOK, Settled, Presented, BarredOK, GuardedOps, LinkOps, NoSid, Arriving
    <2>2. OpenOK(q)'
      BY <1>1, NoRequestOK DEF OpenOK
    <2>3. QED
      BY <2>1, <2>2 DEF RequestOK
  <1>3. NoRequest \in RequestRecord /\ NoRequest.sid \in 0..issued /\ NoRequest.hold # "save"
    BY NoRequestOK, SidRange DEF ClosingInv
  <1>4. QED
    BY <1>1, <1>2, <1>3, ShrinkInv

LEMMA LeaveStill ==
  ASSUME ClosingInv, mishaps' \in 0..MaxMishaps, NEW q \in Requests, Leave(q),
         UNCHANGED <<account, storeVars, restVars>>
  PROVE  ClosingInv'
  <1>1. issued' = issued /\ revoked' = revoked /\ revoked \subseteq 1..issued
    BY DEF restVars, ClosingInv, StoreOK
  <1>2. KeysShrink /\ AccountsForward
    BY StillShrinks, AccountsStill DEF ClosingInv
  <1>3. QED
    BY <1>1, <1>2, LeaveInv

-----------------------------------------------------------------------------
(* The steps of signIn, signUp, of the guard and of the operations.        *)

\* A session with a record is bound and nobody is creating it.
LEMMA StoredSettled ==
  ASSUME ClosingInv, NEW s \in Sids, session[s] # Nobody
  PROVE  s \in 1..issued /\ NoCreator(s) /\ session[s] \in Users
  <1>1. s \in 1..issued /\ session[s] \in Users
    BY SidRange DEF ClosingInv, StoreOK, Unnamed, Sids
  <1>2. NoCreator(s)
    BY DEF ClosingInv, CreatorsOK, NoCreator, Creator
  <1>3. QED
    BY <1>1, <1>2

LEMMA ArriveAuthInv ==
  ASSUME ClosingInv, mishaps' \in 0..MaxMishaps, NEW q \in Requests, ArriveAuth(q)
  PROVE  ClosingInv'
  <1>1. PICK u, s, r :
          /\ u \in Users /\ s \in Stored \union {NoSid}
          /\ r = Request("signUp", "regenerate", u, s, FALSE) \/ r = Request("signIn", "count", u, s, FALSE)
          /\ req' = [req EXCEPT ![q] = r]
          /\ \/ account' = [account EXCEPT ![u] = "exists"] /\ account[u] = "absent"
             \/ account' = account
    BY DEF ArriveAuth
  <1>2. issued' = issued /\ revoked' = revoked /\ revoked \subseteq 1..issued
    BY DEF ArriveAuth, restVars, ClosingInv, StoreOK
  <1>3. KeysShrink
    BY StillShrinks DEF ArriveAuth, ClosingInv
  <1>4. AccountsForward
    BY <1>1 DEF ClosingInv, StoreOK, AccountsForward
  <1>5. s \in 0..issued /\ (s # NoSid => NoCreator(s) /\ s \in 1..issued)
    BY <1>1, StoredSettled, SidRange DEF Stored, NoSid, ClosingInv
  <1>6. /\ r \in RequestRecord /\ r.sid = s /\ r.hold = "keep" /\ r.todo = <<>> /\ r.open = {}
        /\ r.barred = FALSE /\ r.user \in Users /\ r.op \in {"signUp", "signIn"}
        /\ r.pc \in {"regenerate", "count"}
    <2>1. u \in Users /\ s \in Sids \union {NoSid}
      BY <1>1 DEF Stored
    <2>2. CASE r = Request("signUp", "regenerate", u, s, FALSE)
      BY <2>1, <2>2 DEF Request, RequestRecord, Ops, Stages
    <2>3. CASE r = Request("signIn", "count", u, s, FALSE)
      BY <2>1, <2>3 DEF Request, RequestRecord, Ops, Stages
    <2>4. QED
      BY <1>1, <2>2, <2>3
  <1>7. req'[q] = r
    BY <1>1 DEF ClosingInv, StoreOK
  <1>8. ASSUME Steady PROVE RequestOK(q)'
    <2>1. StageOK(q)' /\ Presented(q)' /\ BarredOK(q)' /\ OpenOK(q)'
      BY <1>6, <1>7 DEF StageOK, Presented, BarredOK, OpenOK, GuardedOps, LinkOps, Arriving
    <2>2. Settled(q)'
      BY <1>5, <1>6, <1>7, <1>8 DEF Settled, Steady
    <2>3. QED
      BY <2>1, <2>2 DEF RequestOK
  <1>9. QED
    BY <1>1, <1>2, <1>3, <1>4, <1>5, <1>6, <1>8, ShrinkInv

LEMMA ArriveGuardedInv ==
  ASSUME ClosingInv, mishaps' \in 0..MaxMishaps, NEW q \in Requests, ArriveGuarded(q)
  PROVE  ClosingInv'
  <1>1. PICK op \in GuardedOps, s \in Stored :
          req' = [req EXCEPT ![q] = Request(op, "guard", session[s], s, s \in revoked)]
    BY DEF ArriveGuarded
  <1> DEFINE r == Request(op, "guard", session[s], s, s \in revoked)
  <1>2. issued' = issued /\ revoked' = revoked /\ revoked \subseteq 1..issued
    BY DEF ArriveGuarded, restVars, ClosingInv, StoreOK
  <1>3. KeysShrink /\ AccountsForward
    BY StillShrinks, AccountsStill DEF ArriveGuarded, ClosingInv
  <1>4. /\ s \in 1..issued /\ s \in Sids /\ s # NoSid /\ NoCreator(s)
        /\ session[s] \in Users /\ session[s] # Nobody
    BY StoredSettled, SidRange DEF Stored, NoSid, ClosingInv
  <1>5. /\ r \in RequestRecord /\ r.sid = s /\ r.hold = "keep" /\ r.todo = <<>> /\ r.open = {}
        /\ r.user = session[s] /\ r.op \in GuardedOps /\ r.pc = "guard"
        /\ r.barred = (s \in revoked)
    BY <1>4 DEF Request, RequestRecord, Ops, Stages
  <1>6. req'[q] = r /\ req' = [req EXCEPT ![q] = r]
    BY <1>1 DEF ClosingInv, StoreOK
  <1>7. Named(s, session[s])
    BY DEF Named
  <1>8. s \in revoked => account[session[s]] = "deleted" \/ s \notin index[session[s]]
    BY <1>4, <1>7 DEF ClosingInv, RevokedClosed, Closed, Dead, Unindexed, OwnerDeleted
  <1>9. UNCHANGED <<account, index>> /\ session' = session
    BY DEF ArriveGuarded, storeVars
  <1> HIDE DEF r
  <1>10. ASSUME Steady PROVE RequestOK(q)'
    <2>1. StageOK(q)' /\ OpenOK(q)'
      BY <1>4, <1>5, <1>6 DEF StageOK, OpenOK, GuardedOps, LinkOps, Arriving
    <2>2. Settled(q)'
      BY <1>4, <1>5, <1>6, <1>10 DEF Settled, Steady
    <2>3. Presented(q)'
      BY <1>4, <1>5, <1>6, <1>7, <1>10 DEF Presented, OwnedOnly, Steady, ClosingInv, OneOwner
    <2>4. BarredOK(q)'
      BY <1>5, <1>6, <1>8, <1>9 DEF BarredOK
    <2>5. QED
      BY <2>1, <2>2, <2>3, <2>4 DEF RequestOK
  <1>11. r.sid \in 0..issued /\ r.hold # "save"
    BY <1>4, <1>5
  <1>12. QED
    BY <1>2, <1>3, <1>5, <1>6, <1>10, <1>11, ShrinkInv

\* What deleteAll is to close when it starts is u's alone.
LEMMA SweepStart ==
  ASSUME ClosingInv, Steady, issued' = issued, NEW q \in Requests, NEW u \in Users,
         req'[q].user = u, req'[q].pc = "members", req'[q].open = OwnedBy(u),
         req'[q].op \in LinkOps \union {"signOutAll"},
         req'[q].op = "deleteAccount" => account'[u] = "deleted"
  PROVE  OpenOK(q)'
  <1> SUFFICES ASSUME NEW s \in OwnedBy(u)
               PROVE  s \in (1..issued)' /\ Bound(s)' /\ Sweeping(q, s)'
    BY DEF OpenOK
  <1>1. s \in Sids /\ Named(s, u) /\ ~Unnamed(s)
    BY SessionsAssumption DEF OwnedBy, Named, Unnamed, Unindexed
  <1>2. s \in 1..issued /\ s \in (1..issued)'
    <2>1. ~(s > issued) /\ s \in Nat /\ s >= 1 /\ issued \in Nat
      BY <1>1, SidRange DEF ClosingInv, StoreOK, Sids
    <2>2. QED
      BY <2>1
  <1>3. Bound(s)
    BY <1>1, Shaped DEF Bound, Creator, ClosingInv, CreatorsOK, StageOK
  <1>4. OwnedOnly(q, s)'
    BY <1>1, <1>2 DEF OwnedOnly, Steady, ClosingInv, OneOwner
  <1>5. QED
    BY <1>2, <1>3, <1>4 DEF Steady, Sweeping

LEMMA ArriveLinkInv ==
  ASSUME ClosingInv, mishaps' \in 0..MaxMishaps, NEW q \in Requests, ArriveLink(q)
  PROVE  ClosingInv'
  <1>1. PICK op \in LinkOps, u \in Users :
          /\ account[u] = "exists"
          /\ account' = IF op = "deleteAccount" THEN [account EXCEPT ![u] = "deleted"] ELSE account
          /\ req' = [req EXCEPT ![q] = [Request(op, "members", u, NoSid, FALSE)
                                          EXCEPT !.open = OwnedBy(u)]]
    BY DEF ArriveLink
  <1> DEFINE b == Request(op, "members", u, NoSid, FALSE)
             r == [b EXCEPT !.open = OwnedBy(u)]
  <1>2. issued' = issued /\ revoked' = revoked /\ revoked \subseteq 1..issued
    BY DEF ArriveLink, restVars, ClosingInv, StoreOK
  <1>3. KeysShrink
    BY StillShrinks DEF ArriveLink, ClosingInv
  <1>4. AccountsForward /\ (op = "deleteAccount" => account'[u] = "deleted")
    BY <1>1 DEF AccountsForward, ClosingInv, StoreOK
  <1>5. OwnedBy(u) \subseteq Sids
    BY DEF OwnedBy
  <1>6. /\ r \in RequestRecord /\ r.sid = NoSid /\ r.hold = "keep" /\ r.todo = <<>>
        /\ r.open = OwnedBy(u) /\ r.user = u /\ r.op = op /\ r.pc = "members"
        /\ r.barred = FALSE
    <2>1. op \in Ops /\ OwnedBy(u) \in SUBSET Sids
      BY <1>5 DEF Ops
    <2>2. /\ b \in RequestRecord /\ b.sid = NoSid /\ b.hold = "keep" /\ b.todo = <<>>
          /\ b.user = u /\ b.op = op /\ b.pc = "members" /\ b.barred = FALSE
      BY <2>1 DEF Request, RequestRecord, Stages
    <2> HIDE DEF b
    <2>3. QED
      BY <2>1, <2>2 DEF RequestRecord
  <1>7. req'[q] = r /\ req' = [req EXCEPT ![q] = r]
    BY <1>1 DEF ClosingInv, StoreOK
  <1> HIDE DEF r
  <1>8. ASSUME Steady PROVE RequestOK(q)'
    <2>1. StageOK(q)' /\ Settled(q)' /\ Presented(q)' /\ BarredOK(q)'
      BY <1>6, <1>7
         DEF StageOK, Settled, Presented, BarredOK, GuardedOps, LinkOps, Arriving
    <2>2. OpenOK(q)'
      BY <1>2, <1>4, <1>6, <1>7, <1>8, SweepStart
    <2>3. QED
      BY <2>1, <2>2 DEF RequestOK
  <1>9. r.sid \in 0..issued /\ r.hold # "save"
    BY <1>6, Shaped DEF NoSid
  <1>10. QED
    BY <1>2, <1>3, <1>4, <1>6, <1>7, <1>8, <1>9, ShrinkInv

\* A request that goes on without having changed anything.
LEMMA GotoInv ==
  ASSUME ClosingInv, mishaps' \in 0..MaxMishaps, NEW q \in Requests,
         NEW from, NEW to, req[q].pc = from, Goto(q, to),
         UNCHANGED <<account, storeVars, restVars>>,
         \/ from = "count" /\ to = "regenerate"
         \/ from = "guard" /\ to = "dangling" /\ account[req[q].user] = "exists"
         \/ from = "dangling" /\ to = "admitted" /\ req[q].sid \in index[req[q].user]
  PROVE  ClosingInv'
  <1> DEFINE r == [req[q] EXCEPT !.pc = to]
  <1>1. /\ req[q] \in RequestRecord /\ req[q].sid \in 0..issued /\ issued \in Nat
        /\ StageOK(q) /\ Settled(q) /\ Presented(q) /\ BarredOK(q)
    BY Shaped
  <1>2. issued' = issued /\ revoked' = revoked /\ revoked \subseteq 1..issued
    BY DEF restVars, ClosingInv, StoreOK
  <1>3. KeysShrink /\ AccountsForward
    BY StillShrinks, AccountsStill DEF ClosingInv
  <1>4. /\ r \in RequestRecord /\ r.sid = req[q].sid /\ r.hold = req[q].hold
        /\ r.todo = req[q].todo /\ r.open = req[q].open /\ r.user = req[q].user
        /\ r.op = req[q].op /\ r.pc = to /\ r.barred = req[q].barred
    BY <1>1 DEF RequestRecord, Stages
  <1>5. req'[q] = r /\ req' = [req EXCEPT ![q] = r]
    BY DEF Goto, ClosingInv, StoreOK
  <1> HIDE DEF r
  <1>6. r.hold # "save" /\ r.open = {}
    BY <1>1, <1>4 DEF StageOK, Arriving
  <1>7. ASSUME Steady PROVE RequestOK(q)'
    <2>1. StageOK(q)' /\ OpenOK(q)'
      BY <1>1, <1>4, <1>5, <1>6 DEF StageOK, OpenOK, GuardedOps, LinkOps, Arriving
    <2>2. Settled(q)'
      <3>1. req[q].sid # NoSid => req[q].sid \in 1..issued /\ NoCreator(req[q].sid)
        BY <1>1, <1>4, <1>6 DEF Settled, NoSid
      <3>2. QED
        BY <1>4, <1>5, <1>7, <3>1 DEF Settled, Steady
    <2>3. Presented(q)'
      <3>1. to \in {"dangling", "admitted"} =>
              /\ \A v \in Users : Named(req[q].sid, v) => v = req[q].user
              /\ req[q].sid \in 1..issued
        BY <1>1 DEF Presented, OwnedOnly, StageOK, NoSid
      <3>2. QED
        BY <1>4, <1>5, <1>7, <3>1 DEF Presented, OwnedOnly, Steady
    <2>4. BarredOK(q)'
      BY <1>1, <1>4, <1>5 DEF BarredOK, storeVars
    <2>5. QED
      BY <2>1, <2>2, <2>3, <2>4 DEF RequestOK
  <1>8. QED
    BY <1>1, <1>2, <1>3, <1>4, <1>5, <1>6, <1>7, ShrinkInv

LEMMA CountInv ==
  ASSUME ClosingInv, mishaps' \in 0..MaxMishaps, NEW q \in Requests, Count(q)
  PROVE  ClosingInv'
  <1>1. CASE Leave(q)
    BY <1>1, LeaveStill DEF Count
  <1>2. CASE Goto(q, "regenerate")
    BY <1>2, GotoInv DEF Count
  <1>3. QED
    BY <1>1, <1>2 DEF Count

LEMMA ProtectedInv ==
  ASSUME ClosingInv, mishaps' \in 0..MaxMishaps, NEW q \in Requests, Protected(q)
  PROVE  ClosingInv'
  BY LeaveStill DEF Protected

LEMMA CommandType ==
  ASSUME NEW u \in Users, NEW sids \in SUBSET Sids,
         NEW key \in {"session", "relation", "index", "member"}
  PROVE  /\ Command(key, sids, u) \in Commands
         /\ Command(key, sids, u).key = key /\ Command(key, sids, u).sids = sids
         /\ Command(key, sids, u).user = u
  BY DEF Command, Commands

\* The commands of destroy and of trySessionCleanup are due for every key.
LEMMA AllKeys ==
  ASSUME NEW u \in Users, NEW s \in Sids, NEW todo,
         todo = Destroy(u, s) \/ todo = Purge(u, s)
  PROVE  /\ todo \in Seq(Commands) /\ todo # <<>>
         /\ \A key \in {"session", "relation", "member"} :
              \E i \in DOMAIN todo :
                todo[i].key = key /\ todo[i].user = u /\ s \in todo[i].sids
  <1> DEFINE a == Command("session", {s}, u)
             b == Command("member", {s}, u)
             c == Command("relation", {s}, u)
  <1>1. /\ a \in Commands /\ a.key = "session" /\ a.user = u /\ s \in a.sids
        /\ b \in Commands /\ b.key = "member" /\ b.user = u /\ s \in b.sids
        /\ c \in Commands /\ c.key = "relation" /\ c.user = u /\ s \in c.sids
    BY CommandType
  <1>2. todo = <<a, b, c>> \/ todo = <<a, c, b>>
    BY DEF Destroy, Purge
  <1> HIDE DEF a, b, c
  <1>3. /\ todo \in Seq(Commands) /\ todo # <<>> /\ DOMAIN todo = 1..3
        /\ todo[1] = a
        /\ \/ todo[2] = b /\ todo[3] = c
           \/ todo[2] = c /\ todo[3] = b
    <2>1. CASE todo = <<a, b, c>>
      BY <1>1, <2>1
    <2>2. CASE todo = <<a, c, b>>
      BY <1>1, <2>2
    <2>3. QED
      BY <1>2, <2>1, <2>2
  <1>4. QED
    BY <1>1, <1>3

\* A guarded request turns to closing the session it came with.
LEMMA CloseOneInv ==
  ASSUME ClosingInv, mishaps' \in 0..MaxMishaps, NEW q \in Requests,
         req[q].pc \in {"guard", "dangling", "admitted"},
         NEW r, r \in RequestRecord, r.user = req[q].user, r.sid = req[q].sid,
         r.op \in {"signOut", "cleanup"}, r.pc = "run", r.hold = "destroy",
         r.open = {req[q].sid},
         r.todo \in {Destroy(req[q].user, req[q].sid), Purge(req[q].user, req[q].sid)},
         req' = [req EXCEPT ![q] = r],
         UNCHANGED <<account, storeVars, restVars>>
  PROVE  ClosingInv'
  <1> PICK s : s = req[q].sid
    OBVIOUS
  <1>1. /\ req[q] \in RequestRecord /\ StageOK(q) /\ Settled(q) /\ Presented(q)
        /\ s \in 0..issued /\ issued \in Nat
    BY Shaped
  <1>2. issued' = issued /\ revoked' = revoked /\ revoked \subseteq 1..issued
    BY DEF restVars, ClosingInv, StoreOK
  <1>3. KeysShrink /\ AccountsForward
    BY StillShrinks, AccountsStill DEF ClosingInv
  <1>4. req'[q] = r
    BY DEF ClosingInv, StoreOK
  <1>5. /\ s \in 1..issued /\ s # NoSid /\ s \in Sids /\ req[q].user \in Users
        /\ req[q].hold # "save" /\ NoCreator(s) /\ OwnedOnly(q, s)
    <2>1. req[q].user \in Users /\ req[q].hold # "save" /\ s # NoSid /\ OwnedOnly(q, s)
      BY <1>1 DEF StageOK, Presented
    <2>2. s \in 1..issued
      BY <1>1, <2>1 DEF NoSid
    <2>3. QED
      BY <1>1, <2>1, <2>2, SidRange DEF Settled, ClosingInv
  <1>6. ASSUME Steady PROVE RequestOK(q)'
    <2>1. r.todo # <<>> /\ \A key \in {"session", "relation", "member"} : Due(q, key, s)'
      <3>1. /\ r.todo # <<>>
            /\ \A key \in {"session", "relation", "member"} :
                 \E i \in DOMAIN r.todo :
                   r.todo[i].key = key /\ r.todo[i].user = r.user /\ s \in r.todo[i].sids
        <4>1. PICK u \in Users : u = r.user
          BY <1>5
        <4>2. r.todo = Destroy(u, s) \/ r.todo = Purge(u, s)
          BY <4>1
        <4>3. s \in Sids
          BY <1>5
        <4>4. /\ r.todo # <<>>
              /\ \A key \in {"session", "relation", "member"} :
                   \E i \in DOMAIN r.todo :
                     r.todo[i].key = key /\ r.todo[i].user = u /\ s \in r.todo[i].sids
          BY <4>2, <4>3, AllKeys
        <4>5. QED
          BY <4>1, <4>4
      <3>2. QED
        BY <1>4, <3>1 DEF Due
    <2>2. StageOK(q)' /\ Presented(q)' /\ BarredOK(q)'
      BY <1>4, <1>5, <2>1
         DEF StageOK, Presented, BarredOK, GuardedOps, LinkOps, Arriving
    <2>3. Settled(q)' /\ NoCreator(s)'
      BY <1>4, <1>5, <1>6 DEF Settled, Steady
    <2>4. OwnedOnly(q, s)'
      BY <1>4, <1>5, <1>6 DEF OwnedOnly, Steady
    <2>5. Bound(s)' /\ s \in (1..issued)'
      BY <1>2, <1>5, <2>3 DEF Bound, NoCreator
    <2>6. SigningOut(q, s)'
      BY <1>4, <2>1, <2>4 DEF SigningOut
    <2>7. OpenOK(q)'
      BY <1>4, <2>5, <2>6 DEF OpenOK
    <2>8. QED
      BY <2>2, <2>3, <2>7 DEF RequestOK
  <1>7. r.sid \in 0..issued
    BY <1>1
  <1>8. QED
    BY <1>2, <1>3, <1>6, <1>7, ShrinkInv

LEMMA CleanupInv ==
  ASSUME ClosingInv, mishaps' \in 0..MaxMishaps, NEW q \in Requests,
         req[q].pc \in {"guard", "dangling"}, Cleanup(q),
         UNCHANGED <<account, storeVars, restVars>>
  PROVE  ClosingInv'
  <1> DEFINE r == [req[q] EXCEPT !.pc = "run", !.op = "cleanup", !.hold = "destroy",
                                 !.open = {req[q].sid}, !.todo = Purge(req[q].user, req[q].sid)]
  <1>1. /\ req[q] \in RequestRecord /\ req[q].user \in Users /\ req[q].sid \in Sids
    BY Shaped, SidRange DEF StageOK, NoSid, ClosingInv
  <1>2. Purge(req[q].user, req[q].sid) \in Seq(Commands)
    BY <1>1, AllKeys
  <1>3. /\ r \in RequestRecord /\ r.sid = req[q].sid /\ r.hold = "destroy" /\ r.user = req[q].user
        /\ r.op = "cleanup" /\ r.pc = "run" /\ r.open = {req[q].sid}
        /\ r.todo = Purge(req[q].user, req[q].sid)
    BY <1>1, <1>2 DEF RequestRecord, Ops, Stages
  <1>4. req' = [req EXCEPT ![q] = r]
    BY DEF Cleanup, ClosingInv, StoreOK
  <1> HIDE DEF r
  <1>5. QED
    BY <1>3, <1>4, CloseOneInv

LEMMA SignOutInv ==
  ASSUME ClosingInv, mishaps' \in 0..MaxMishaps, NEW q \in Requests, SignOut(q)
  PROVE  ClosingInv'
  <1> DEFINE r == [req[q] EXCEPT !.pc = "run", !.hold = "destroy", !.open = {req[q].sid},
                                 !.todo = Destroy(req[q].user, req[q].sid)]
  <1>1. /\ req[q] \in RequestRecord /\ req[q].user \in Users /\ req[q].sid \in Sids
        /\ req[q].pc = "admitted" /\ req[q].op = "signOut"
    BY Shaped, SidRange DEF StageOK, NoSid, ClosingInv, SignOut
  <1>2. Destroy(req[q].user, req[q].sid) \in Seq(Commands)
    BY <1>1, AllKeys
  <1>3. /\ r \in RequestRecord /\ r.sid = req[q].sid /\ r.hold = "destroy" /\ r.user = req[q].user
        /\ r.op = "signOut" /\ r.pc = "run" /\ r.open = {req[q].sid}
        /\ r.todo = Destroy(req[q].user, req[q].sid)
    BY <1>1, <1>2 DEF RequestRecord, Ops, Stages
  <1>4. req' = [req EXCEPT ![q] = r]
    BY DEF SignOut, ClosingInv, StoreOK
  <1>5. UNCHANGED <<account, storeVars, restVars>>
    BY DEF SignOut
  <1> HIDE DEF r
  <1>6. QED
    BY <1>1, <1>3, <1>4, <1>5, CloseOneInv

LEMMA GuardUserInv ==
  ASSUME ClosingInv, mishaps' \in 0..MaxMishaps, NEW q \in Requests, GuardUser(q)
  PROVE  ClosingInv'
  <1>1. CASE account[req[q].user] = "exists"
    BY <1>1, GotoInv DEF GuardUser
  <1>2. CASE account[req[q].user] # "exists"
    BY <1>2, CleanupInv DEF GuardUser
  <1>3. QED
    BY <1>1, <1>2

LEMMA GuardSessionInv ==
  ASSUME ClosingInv, mishaps' \in 0..MaxMishaps, NEW q \in Requests, GuardSession(q)
  PROVE  ClosingInv'
  <1>1. CASE Dangling(req[q].user, req[q].sid)
    BY <1>1, CleanupInv DEF GuardSession
  <1>2. CASE ~Dangling(req[q].user, req[q].sid)
    BY <1>2, GotoInv DEF GuardSession, Dangling
  <1>3. QED
    BY <1>1, <1>2

LEMMA SignOutAllInv ==
  ASSUME ClosingInv, mishaps' \in 0..MaxMishaps, NEW q \in Requests, SignOutAll(q)
  PROVE  ClosingInv'
  <1> DEFINE u == req[q].user
             r == [req[q] EXCEPT !.pc = "members", !.open = OwnedBy(u)]
  <1>1. /\ req[q] \in RequestRecord /\ req[q].sid \in 0..issued /\ issued \in Nat
        /\ StageOK(q) /\ Settled(q) /\ u \in Users
        /\ req[q].pc = "admitted" /\ req[q].op = "signOutAll"
    BY Shaped DEF StageOK, SignOutAll
  <1>2. CASE Leave(q)
    BY <1>2, LeaveStill DEF SignOutAll
  <1>3. CASE req' = [req EXCEPT ![q].pc = "members", ![q].open = OwnedBy(u)]
    <2>1. issued' = issued /\ revoked' = revoked /\ revoked \subseteq 1..issued
      BY DEF SignOutAll, restVars, ClosingInv, StoreOK
    <2>2. KeysShrink /\ AccountsForward
      BY StillShrinks, AccountsStill DEF SignOutAll, ClosingInv
    <2>3. OwnedBy(u) \subseteq Sids
      BY DEF OwnedBy
    <2>4. /\ r \in RequestRecord /\ r.sid = req[q].sid /\ r.hold = req[q].hold
          /\ r.todo = req[q].todo /\ r.open = OwnedBy(u) /\ r.user = u
          /\ r.op = "signOutAll" /\ r.pc = "members" /\ r.barred = req[q].barred
      BY <1>1, <2>3 DEF RequestRecord, Stages
    <2>5. req' = [req EXCEPT ![q] = r] /\ req'[q] = r
      BY <1>3 DEF ClosingInv, StoreOK
    <2> HIDE DEF r, u
    <2>6. req[q].hold # "save" /\ req[q].sid # NoSid /\ req[q].todo = <<>>
      BY <1>1 DEF StageOK, GuardedOps
    <2>7. req[q].sid \in 1..issued /\ NoCreator(req[q].sid)
      BY <1>1, <2>6 DEF Settled, NoSid
    <2>8. ASSUME Steady PROVE RequestOK(q)'
      <3>1. StageOK(q)' /\ Presented(q)' /\ BarredOK(q)'
        BY <1>1, <2>4, <2>5, <2>6
           DEF StageOK, Presented, BarredOK, GuardedOps, LinkOps, Arriving
      <3>2. Settled(q)'
        BY <2>4, <2>5, <2>7, <2>8 DEF Settled, Steady
      <3>3. OpenOK(q)'
        BY <1>1, <2>1, <2>4, <2>5, <2>8, SweepStart
      <3>4. QED
        BY <3>1, <3>2, <3>3 DEF RequestOK
    <2>9. QED
      BY <1>1, <2>1, <2>2, <2>4, <2>5, <2>6, <2>8, ShrinkInv
  <1>4. QED
    BY <1>2, <1>3 DEF SignOutAll

-----------------------------------------------------------------------------
(* The commands that close sessions.                                       *)

\* A request that was not creating a session, and goes on closing some.
LEMMA Onward ==
  ASSUME ClosingInv, Steady, NEW q \in Requests, req[q].hold # "save",
         req'[q].hold # "save", req'[q].sid = req[q].sid,
         req'[q].pc \in {"members", "run", "end"}
  PROVE  Settled(q)' /\ Presented(q)' /\ BarredOK(q)'
  <1>1. req[q].sid # NoSid => req[q].sid \in 1..issued /\ NoCreator(req[q].sid)
    BY Shaped DEF Settled, NoSid
  <1>2. Settled(q)'
    BY <1>1 DEF Settled, Steady
  <1>3. QED
    BY <1>2 DEF Presented, BarredOK

\* The commands of deleteAll delete the index.
Sweep(q) == Current(q) \o CloseAll(req[q].user, index[req[q].user])

LEMMA SweepCommands ==
  ASSUME NEW q \in Requests, req[q].user \in Users, index[req[q].user] \subseteq Sids,
         req[q].op = "signOutAll" => req[q].sid \in Sids
  PROVE  /\ Sweep(q) \in Seq(Commands) /\ Sweep(q) # <<>>
         /\ \E i \in DOMAIN Sweep(q) : Sweep(q)[i].key = "index" /\ Sweep(q)[i].user = req[q].user
  <1> DEFINE u == req[q].user
             a == Command("session", index[u], u)
             b == Command("index", {}, u)
             c == Command("relation", index[u], u)
             d == Command("session", {req[q].sid}, u)
  <1>1. a \in Commands /\ c \in Commands /\ b \in Commands /\ b.key = "index" /\ b.user = u
    BY CommandType
  <1>2. CloseAll(u, index[u]) = <<a, b, c>>
    BY DEF CloseAll
  <1>3. CASE req[q].op = "signOutAll"
    <2>1. d \in Commands /\ Current(q) = <<d>>
      BY <1>3, CommandType DEF Current
    <2> HIDE DEF a, b, c, d
    <2>2. Sweep(q) \in Seq(Commands) /\ Sweep(q) # <<>> /\ 3 \in DOMAIN Sweep(q) /\ Sweep(q)[3] = b
      BY <1>1, <1>2, <2>1 DEF Sweep
    <2>3. QED
      BY <1>1, <2>2
  <1>4. CASE req[q].op # "signOutAll"
    <2>1. Current(q) = <<>>
      BY <1>4 DEF Current
    <2> HIDE DEF a, b, c
    <2>2. Sweep(q) \in Seq(Commands) /\ Sweep(q) # <<>> /\ 2 \in DOMAIN Sweep(q) /\ Sweep(q)[2] = b
      BY <1>1, <1>2, <2>1 DEF Sweep
    <2>3. QED
      BY <1>1, <2>2
  <1>5. QED
    BY <1>3, <1>4

LEMMA MembersInv ==
  ASSUME ClosingInv, mishaps' \in 0..MaxMishaps, NEW q \in Requests, Members(q)
  PROVE  ClosingInv'
  <1> DEFINE r == [req[q] EXCEPT !.pc = "run", !.hold = HoldAfterAll(q), !.todo = Sweep(q)]
  <1>1. /\ req[q] \in RequestRecord /\ req[q].sid \in 0..issued /\ issued \in Nat
        /\ StageOK(q) /\ OpenOK(q) /\ req[q].pc = "members" /\ req[q].user \in Users
        /\ req[q].op \in LinkOps \union {"signOutAll"} /\ req[q].hold # "save"
    BY Shaped DEF StageOK, Members
  <1>2. issued' = issued /\ revoked' = revoked /\ revoked \subseteq 1..issued
    BY DEF Members, restVars, ClosingInv, StoreOK
  <1>3. KeysShrink /\ AccountsForward
    BY StillShrinks, AccountsStill DEF Members, ClosingInv
  <1>4. /\ Sweep(q) \in Seq(Commands) /\ Sweep(q) # <<>>
        /\ \E i \in DOMAIN Sweep(q) : Sweep(q)[i].key = "index" /\ Sweep(q)[i].user = req[q].user
    <2>1. index[req[q].user] \subseteq Sids
      BY <1>1, SidRange DEF ClosingInv, StoreOK
    <2>2. req[q].op = "signOutAll" => req[q].sid \in Sids
      BY <1>1, SidRange DEF StageOK, GuardedOps, NoSid, ClosingInv
    <2>3. QED
      BY <1>1, <2>1, <2>2, SweepCommands
  <1>5. /\ r \in RequestRecord /\ r.sid = req[q].sid /\ r.hold \in {"keep", "destroy"}
        /\ r.todo = Sweep(q) /\ r.open = req[q].open /\ r.user = req[q].user
        /\ r.op = req[q].op /\ r.pc = "run"
    BY <1>1, <1>4 DEF RequestRecord, Stages, HoldAfterAll
  <1>6. req' = [req EXCEPT ![q] = r] /\ req'[q] = r
    BY DEF Members, Sweep, ClosingInv, StoreOK
  <1> HIDE DEF r
  <1>7. ASSUME Steady PROVE RequestOK(q)'
    <2>1. Settled(q)' /\ Presented(q)' /\ BarredOK(q)'
      BY <1>1, <1>5, <1>6, <1>7, Onward
    <2>2. StageOK(q)'
      BY <1>1, <1>4, <1>5, <1>6 DEF StageOK, GuardedOps, LinkOps, Arriving
    <2>3. OpenOK(q)'
      <3> SUFFICES ASSUME NEW s \in req[q].open
                   PROVE  s \in (1..issued)' /\ Bound(s)' /\ Sweeping(q, s)'
        BY <1>1, <1>5, <1>6 DEF OpenOK
      <3>1. s \in 1..issued /\ Bound(s) /\ Sweeping(q, s)
        BY <1>1 DEF OpenOK, LinkOps, StageOK
      <3>2. OwnedOnly(q, s)'
        BY <1>5, <1>6, <1>7, <3>1 DEF Sweeping, OwnedOnly, Steady
      <3>3. Due(q, "index", s)'
        BY <1>4, <1>5, <1>6 DEF Due
      <3>4. r.op = "deleteAccount" => account'[r.user] = "deleted"
        BY <1>1, <1>5, <1>7, <3>1 DEF Sweeping, Steady
      <3>5. QED
        BY <1>2, <1>6, <1>7, <3>1, <3>2, <3>3, <3>4 DEF Sweeping, Steady
    <2>4. QED
      BY <2>1, <2>2, <2>3 DEF RequestOK
  <1>8. r.sid \in 0..issued /\ r.hold # "save"
    BY <1>1, <1>5
  <1>9. QED
    BY <1>2, <1>3, <1>5, <1>6, <1>7, <1>8, ShrinkInv

\* The request after the first of its commands.
Advanced(q) == [req[q] EXCEPT !.todo = Tail(@), !.pc = AfterCommand(q)]

LEMMA AdvancedFields ==
  ASSUME ClosingInv, NEW q \in Requests, req[q].pc = "run"
  PROVE  /\ Advanced(q) \in RequestRecord
         /\ Advanced(q).op = req[q].op /\ Advanced(q).user = req[q].user
         /\ Advanced(q).sid = req[q].sid /\ Advanced(q).hold = req[q].hold
         /\ Advanced(q).open = req[q].open /\ Advanced(q).todo = Tail(req[q].todo)
         /\ Advanced(q).pc \in {"run", "end"}
         /\ Advanced(q).pc = "run" <=> Tail(req[q].todo) # <<>>
  <1>1. /\ req[q] \in RequestRecord /\ req[q].todo \in Seq(Commands) /\ req[q].todo # <<>>
    BY Shaped DEF StageOK, RequestRecord
  <1>2. /\ Tail(req[q].todo) \in Seq(Commands) /\ AfterCommand(q) \in {"run", "end"}
        /\ AfterCommand(q) = "run" <=> Tail(req[q].todo) # <<>>
    <2>1. PICK todo \in Seq(Commands) : todo = req[q].todo
      BY <1>1
    <2>2. Len(todo) \in Nat /\ Len(todo) # 0
      BY <1>1, <2>1
    <2>3. Tail(todo) \in Seq(Commands) /\ Len(Tail(todo)) = Len(todo) - 1
      BY <1>1, <2>1, <2>2
    <2>4. Tail(todo) # <<>> <=> Len(todo) # 1
      BY <2>2, <2>3
    <2>5. QED
      BY <2>1, <2>3, <2>4 DEF AfterCommand
  <1>3. Advanced(q) = [req[q] EXCEPT !.todo = Tail(req[q].todo), !.pc = AfterCommand(q)]
    BY DEF Advanced
  <1>4. PICK todo, pc : todo = Tail(req[q].todo) /\ pc = AfterCommand(q)
    OBVIOUS
  <1>5. todo \in Seq(Commands) /\ pc \in {"run", "end"} /\ pc \in Stages
    BY <1>2, <1>4 DEF Stages
  <1>6. Advanced(q) = [req[q] EXCEPT !.todo = todo, !.pc = pc]
    BY <1>3, <1>4
  <1>7. /\ Advanced(q) \in RequestRecord
        /\ Advanced(q).op = req[q].op /\ Advanced(q).user = req[q].user
        /\ Advanced(q).sid = req[q].sid /\ Advanced(q).hold = req[q].hold
        /\ Advanced(q).open = req[q].open /\ Advanced(q).todo = todo /\ Advanced(q).pc = pc
    BY <1>1, <1>5, <1>6 DEF RequestRecord
  <1>8. QED
    BY <1>2, <1>4, <1>5, <1>7

\* A command that is due is sent next, or stays due.
LEMMA DueNext ==
  ASSUME ClosingInv, NEW q \in Requests, req[q].pc = "run",
         req'[q].todo = Tail(req[q].todo), req'[q].user = req[q].user,
         NEW key, NEW s, Due(q, key, s)
  PROVE  \/ /\ Head(req[q].todo).key = key /\ Head(req[q].todo).user = req[q].user
            /\ key = "index" \/ s \in Head(req[q].todo).sids
         \/ Due(q, key, s)'
  <1> DEFINE todo == req[q].todo
  <1>1. todo \in Seq(Commands) /\ todo # <<>>
    BY Shaped DEF StageOK, RequestRecord
  <1>2. PICK i \in DOMAIN todo : /\ todo[i].key = key /\ todo[i].user = req[q].user
                                 /\ key = "index" \/ s \in todo[i].sids
    BY DEF Due
  <1>3. CASE i = 1
    BY <1>1, <1>2, <1>3
  <1>4. CASE i # 1
    <2>1. i - 1 \in DOMAIN Tail(todo) /\ Tail(todo)[i - 1] = todo[i]
      BY <1>1, <1>2, <1>4
    <2>2. QED
      BY <1>2, <2>1 DEF Due
  <1>5. QED
    BY <1>3, <1>4

LEMMA RunInv ==
  ASSUME ClosingInv, mishaps' \in 0..MaxMishaps, NEW q \in Requests, Run(q)
  PROVE  ClosingInv'
  <1> DEFINE r == Advanced(q)
             c == Head(req[q].todo)
  <1>1. /\ req[q] \in RequestRecord /\ req[q].sid \in 0..issued /\ req[q].open \in SUBSET Sids
        /\ StageOK(q) /\ Settled(q) /\ OpenOK(q) /\ req[q].pc = "run"
        /\ req[q].user \in Users /\ req[q].hold # "save"
    BY Shaped DEF StageOK, RequestRecord, Run
  <1>2. issued' = issued /\ revoked' = revoked /\ revoked \subseteq 1..issued
    BY DEF Run, restVars, ClosingInv, StoreOK
  <1>3. Perform(c) /\ KeysShrink /\ AccountsForward
    BY PerformShrinks, AccountsStill DEF Run, ClosingInv
  <1>4. /\ r \in RequestRecord /\ r.op = req[q].op /\ r.user = req[q].user
        /\ r.sid = req[q].sid /\ r.hold = req[q].hold /\ r.open = req[q].open
        /\ r.todo = Tail(req[q].todo) /\ r.pc \in {"run", "end"}
        /\ r.pc = "run" <=> r.todo # <<>>
    BY <1>1, AdvancedFields
  <1>5. req' = [req EXCEPT ![q] = r] /\ req'[q] = r
    BY DEF Run, Advanced, ClosingInv, StoreOK
  <1> HIDE DEF r, c
  <1>6. ASSUME Steady PROVE RequestOK(q)'
    <2>1. Settled(q)' /\ Presented(q)' /\ BarredOK(q)'
      BY <1>1, <1>4, <1>5, <1>6, Onward
    <2>2. StageOK(q)'
      BY <1>1, <1>4, <1>5 DEF StageOK, GuardedOps, LinkOps, Arriving
    <2>3. OpenOK(q)'
      <3> SUFFICES ASSUME NEW s \in req[q].open
                   PROVE  /\ s \in (1..issued)' /\ Bound(s)'
                          /\ \/ req[q].op \in {"signOut", "cleanup"} /\ SigningOut(q, s)'
                             \/ req[q].op \in LinkOps \union {"signOutAll"} /\ Sweeping(q, s)'
        BY <1>4, <1>5 DEF OpenOK
      <3>1. s \in 1..issued /\ Bound(s) /\ s \in (1..issued)' /\ Bound(s)' /\ s \in Sids
        BY <1>1, <1>2, <1>6, SidRange DEF OpenOK, Steady, ClosingInv
      <3>2. \A key : Due(q, key, s) =>
              \/ /\ c.key = key /\ c.user = req[q].user
                 /\ key = "index" \/ s \in c.sids
              \/ Due(q, key, s)'
        BY <1>1, <1>4, <1>5, DueNext DEF c
      <3>3. OwnedOnly(q, s) => /\ OwnedOnly(q, s)'
                               /\ \A u \in Users : s \in index[u] => u = req[q].user
        BY <1>4, <1>5, <1>6, <3>1 DEF OwnedOnly, Steady, Named
      <3>4. /\ session[s] = Nobody => session'[s] = Nobody
            /\ relation[s] = Nobody => relation'[s] = Nobody
            /\ Unindexed(s) => Unindexed(s)'
        BY <1>3, <3>1 DEF KeysShrink, Unindexed
      <3>5. /\ c.key = "session" /\ s \in c.sids => session'[s] = Nobody
            /\ c.key = "relation" /\ s \in c.sids => relation'[s] = Nobody
        BY <1>3, <3>1 DEF Perform
      <3>6. OwnedOnly(q, s) /\ c.user = req[q].user /\ Removes(c, s) => Unindexed(s)'
        BY <1>3, <3>3 DEF Perform, Unindexed
      <3>7. CASE req[q].op \in {"signOut", "cleanup"} /\ SigningOut(q, s)
        <4>1. session'[s] = Nobody \/ Due(q, "session", s)'
          BY <3>2, <3>4, <3>5, <3>7 DEF SigningOut
        <4>2. relation'[s] = Nobody \/ Due(q, "relation", s)'
          BY <3>2, <3>4, <3>5, <3>7 DEF SigningOut
        <4>3. Unindexed(s)' \/ Due(q, "member", s)'
          BY <3>2, <3>4, <3>6, <3>7 DEF SigningOut, Removes
        <4>4. QED
          BY <1>4, <1>5, <3>1, <3>3, <3>7, <4>1, <4>2, <4>3 DEF SigningOut
      <3>8. CASE req[q].op \in LinkOps \union {"signOutAll"} /\ Sweeping(q, s)
        <4>1. req[q].op # "deleteAccount" => Unindexed(s)' \/ Due(q, "index", s)'
          BY <1>1, <3>2, <3>4, <3>6, <3>8 DEF Sweeping, Removes
        <4>2. req[q].op = "deleteAccount" => account'[req[q].user] = "deleted"
          BY <1>1, <1>6, <3>8 DEF Sweeping, Steady
        <4>3. QED
          BY <1>4, <1>5, <3>1, <3>3, <3>8, <4>1, <4>2 DEF Sweeping
      <3>9. QED
        BY <1>1, <3>1, <3>7, <3>8 DEF OpenOK
    <2>4. QED
      BY <2>1, <2>2, <2>3 DEF RequestOK
  <1>7. r.sid \in 0..issued /\ r.hold # "save"
    BY <1>1, <1>4
  <1>8. QED
    BY <1>2, <1>3, <1>4, <1>5, <1>6, <1>7, ShrinkInv

-----------------------------------------------------------------------------
(* Steps that end a request, failures and expiry.                          *)

\* What a request answers that it has closed is closed.
LEMMA EndClosed ==
  ASSUME ClosingInv, NEW q \in Requests, req[q].pc = "end", NEW s \in req[q].open
  PROVE  Closed(s)
  <1>1. StageOK(q) /\ Settled(q) /\ OpenOK(q) /\ req[q].user \in Users
    BY Shaped DEF StageOK
  <1>2. \A key : ~Due(q, key, s)
    BY <1>1 DEF StageOK, Due
  <1>3. s \in 1..issued /\ Bound(s)
    BY <1>1 DEF OpenOK
  <1>4. CASE req[q].hold = "save" /\ Dead(s)
    BY <1>3, <1>4 DEF Closed
  <1>5. CASE req[q].op \in {"signOut", "cleanup"} /\ SigningOut(q, s)
    <2>1. session[s] = Nobody /\ s = req[q].sid
      BY <1>2, <1>5 DEF SigningOut
    <2>2. req[q].hold # "save" /\ s # NoSid
      BY <1>1, <1>3, <1>5, Shaped DEF StageOK, Arriving, NoSid
    <2>3. QED
      BY <1>1, <1>3, <2>1, <2>2 DEF Settled, Closed, Dead
  <1>6. CASE req[q].op \in LinkOps \union {"signOutAll"} /\ Sweeping(q, s)
    BY <1>1, <1>2, <1>3, <1>6 DEF Sweeping, OwnedOnly, OwnerDeleted, Closed
  <1>7. QED
    BY <1>1, <1>4, <1>5, <1>6 DEF OpenOK

LEMMA EndRevokes ==
  ASSUME ClosingInv, NEW q \in Requests, req[q].pc = "end",
         revoked' = revoked \union req[q].open
  PROVE  revoked' \subseteq 1..issued /\ \A s \in revoked' : s \in revoked \/ Closed(s)
  BY EndClosed DEF Closed, ClosingInv, StoreOK

\* The record of a session is saved by the request that created it.
LEMMA SaveInv ==
  ASSUME ClosingInv, mishaps' \in 0..MaxMishaps, NEW q \in Requests, End(q),
         req[q].hold = "save"
  PROVE  ClosingInv'
  <1> PICK s : s = req[q].sid
    OBVIOUS
  <1>1. /\ req[q] \in RequestRecord /\ s \in 0..issued /\ issued \in Nat
        /\ StageOK(q) /\ req[q].pc = "end" /\ req[q].user \in Users /\ s # NoSid
    BY Shaped DEF StageOK, End
  <1>2. s \in 1..issued /\ s \in Sids
    BY <1>1, SidRange DEF NoSid, ClosingInv
  <1>3. /\ session' = [session EXCEPT ![s] = req[q].user]
        /\ UNCHANGED <<account, relation, index, issued>>
        /\ revoked' = revoked \union req[q].open
    BY DEF End
  <1>4. /\ req' = [req EXCEPT ![q] = NoRequest] /\ req'[q] = NoRequest
        /\ \A p \in Requests : p = q \/ req'[p] = req[p]
    BY DEF End, Leave, ClosingInv, StoreOK
  <1>5. \A o : \A p \in Requests : Creator(p, o)' => Creator(p, o) /\ p # q
    BY <1>4, NoRequestOK DEF Creator
  <1>6. Creator(q, s) /\ session[s] = Nobody /\ \A p \in Requests \ {q} : ~Creator(p, s)
    BY DEF ClosingInv, CreatorsOK, Creator
  <1>7. Steady
    <2> SUFFICES ASSUME NEW o \in 1..issued
                 PROVE  /\ \A u \in Users : Named(o, u)' => Named(o, u)
                        /\ NoCreator(o) => NoCreator(o)'
                        /\ Bound(o) => Bound(o)'
                        /\ Dead(o) => session'[o] = Nobody
                        /\ Bound(o) /\ relation[o] = Nobody => relation'[o] = Nobody
                        /\ Bound(o) => \A u \in Users : o \in index'[u] => o \in index[u]
      BY <1>1, <1>3 DEF Steady
    <2>1. o \in Sids /\ session' = [session EXCEPT ![s] = req[q].user]
          /\ session \in [Sids -> Users \union {Nobody}]
      BY <1>3, SidRange DEF ClosingInv, StoreOK
    <2>2. ASSUME NEW u \in Users, Named(o, u)' PROVE Named(o, u)
      <3>1. CASE session'[o] = u
        <4>1. CASE o = s
          BY <1>1, <1>2, <1>6, <2>1, <3>1, <4>1 DEF Named
        <4>2. CASE o # s
          BY <2>1, <3>1, <4>2 DEF Named
        <4>3. QED
          BY <4>1, <4>2
      <3>2. CASE relation'[o] = u \/ o \in index'[u]
        BY <1>3, <3>2 DEF Named
      <3>3. CASE \E p \in Requests : Creator(p, o)' /\ req'[p].user = u
        BY <1>4, <1>5, <3>3 DEF Named
      <3>4. QED
        BY <2>2, <3>1, <3>2, <3>3 DEF Named
    <2>3. NoCreator(o) => NoCreator(o)'
      BY <1>5 DEF NoCreator
    <2>4. Bound(o) => Bound(o)'
      BY <1>4, <1>5 DEF Bound
    <2>5. Dead(o) => session'[o] = Nobody
      BY <1>6, <2>1 DEF Dead, NoCreator
    <2>6. QED
      BY <1>3, <2>2, <2>3, <2>4, <2>5
  <1>8. StoreOK'
    <2>1. session' \in [Sids -> Users \union {Nobody}]
      BY <1>1, <1>3 DEF ClosingInv, StoreOK
    <2>2. ASSUME NEW o \in Sids, o > issued PROVE Unnamed(o)'
      <3>1. o # s
        BY <1>1, <2>2
      <3>2. QED
        BY <1>3, <2>2, <3>1 DEF ClosingInv, StoreOK, Unnamed, Unindexed
    <2>3. revoked' \subseteq 1..issued
      BY <1>1, <1>3, EndRevokes
    <2>4. req' \in [Requests -> RequestRecord] /\ \A p \in Requests : req'[p].sid \in 0..issued
      BY <1>1, <1>4, NoRequestOK DEF ClosingInv, StoreOK
    <2>5. QED
      BY <1>3, <2>1, <2>2, <2>3, <2>4 DEF ClosingInv, StoreOK
  <1>9. OneOwner'
    BY <1>3, <1>7, <1>8, SteadyOwner DEF ClosingInv
  <1>10. CreatorsOK'
    <2> SUFFICES ASSUME NEW p \in Requests, NEW o, Creator(p, o)'
                 PROVE  /\ session'[o] = Nobody
                        /\ req'[p].pc = "bind" => Unnamed(o)'
                        /\ \A n \in Requests \ {p} : ~Creator(n, o)'
      BY DEF CreatorsOK, Creator
    <2>1. Creator(p, o) /\ p # q /\ req'[p] = req[p] /\ o # s
      BY <1>4, <1>5, <1>6
    <2>2. /\ session[o] = Nobody /\ (req[p].pc = "bind" => Unnamed(o))
          /\ \A n \in Requests \ {p} : ~Creator(n, o)
      BY <2>1 DEF ClosingInv, CreatorsOK, Creator
    <2>3. session'[o] = session[o]
      BY <1>3, <2>1 DEF ClosingInv, StoreOK
    <2>4. Unnamed(o) => Unnamed(o)'
      BY <1>3, <2>3 DEF Unnamed, Unindexed
    <2>5. QED
      BY <1>5, <2>1, <2>2, <2>3, <2>4
  <1>11. RequestOK(q)'
    <2>1. StageOK(q)' /\ Settled(q)' /\ Presented(q)' /\ BarredOK(q)' /\ OpenOK(q)'
      BY <1>4, NoRequestOK
         DEF StageOK, Settled, Presented, BarredOK, OpenOK, GuardedOps, LinkOps, NoSid, Arriving
    <2>2. QED
      BY <2>1 DEF RequestOK
  <1>12. \A o \in revoked' : o \in revoked \/ Closed(o)
    BY <1>1, <1>3, EndRevokes
  <1>13. QED
    BY <1>4, <1>7, <1>8, <1>9, <1>10, <1>11, <1>12, StepInv

LEMMA EndInv ==
  ASSUME ClosingInv, mishaps' \in 0..MaxMishaps, NEW q \in Requests, End(q)
  PROVE  ClosingInv'
  <1>1. CASE req[q].hold = "save"
    BY <1>1, SaveInv
  <1>2. CASE req[q].hold # "save"
    <2>1. req[q].pc = "end" /\ Leave(q) /\ issued' = issued /\ revoked' = revoked \union req[q].open
      BY DEF End
    <2>2. KeysShrink
      <3>1. session' = session \/ session' = [session EXCEPT ![req[q].sid] = Nobody]
        BY <1>2 DEF End
      <3>2. UNCHANGED <<relation, index>>
        BY DEF End
      <3>3. /\ session' \in [Sids -> Users \union {Nobody}]
            /\ \A s \in Sids : session'[s] \in {session[s], Nobody}
        BY <3>1 DEF ClosingInv, StoreOK
      <3>4. QED
        BY <3>2, <3>3 DEF KeysShrink, ClosingInv, StoreOK
    <2>3. AccountsForward
      BY AccountsStill DEF End, ClosingInv
    <2>4. revoked' \subseteq 1..issued /\ \A s \in revoked' : s \in revoked \/ Closed(s)
      BY <2>1, EndRevokes
    <2>5. QED
      BY <2>1, <2>2, <2>3, <2>4, LeaveInv
  <1>3. QED
    BY <1>1, <1>2

LEMMA EndFailsInv ==
  ASSUME ClosingInv, mishaps' \in 0..MaxMishaps, NEW q \in Requests, EndFails(q)
  PROVE  ClosingInv'
  <1>1. /\ req[q].pc = "end" /\ Leave(q) /\ issued' = issued
        /\ revoked' = revoked \union req[q].open
    BY DEF EndFails
  <1>2. KeysShrink /\ AccountsForward
    BY StillShrinks, AccountsStill DEF EndFails, ClosingInv
  <1>3. revoked' \subseteq 1..issued /\ \A s \in revoked' : s \in revoked \/ Closed(s)
    BY <1>1, EndRevokes
  <1>4. QED
    BY <1>1, <1>2, <1>3, LeaveInv

LEMMA StopInv ==
  ASSUME ClosingInv, mishaps' \in 0..MaxMishaps, NEW q \in Requests, Stop(q)
  PROVE  ClosingInv'
  BY LeaveStill DEF Stop

\* Once the account is deleted, deleteAccount keeps its promise whatever fails.
LEMMA PromiseKept ==
  ASSUME ClosingInv, Steady, issued' = issued, NEW q \in Requests,
         req[q].pc \in {"members", "run"}, req'[q].open = StillPromised(q),
         req'[q].op = req[q].op, req'[q].user = req[q].user
  PROVE  OpenOK(q)'
  <1>1. StageOK(q) /\ OpenOK(q) /\ req[q].user \in Users /\ req[q].hold # "save"
    BY Shaped DEF StageOK
  <1>2. CASE req[q].op # "deleteAccount"
    BY <1>2 DEF StillPromised, OpenOK
  <1>3. CASE req[q].op = "deleteAccount"
    <2> SUFFICES ASSUME NEW s \in req[q].open
                 PROVE  s \in (1..issued)' /\ Bound(s)' /\ Sweeping(q, s)'
      BY <1>3 DEF StillPromised, OpenOK, LinkOps
    <2>1. s \in 1..issued /\ Bound(s) /\ Sweeping(q, s)
      BY <1>1, <1>3 DEF OpenOK
    <2>2. OwnedOnly(q, s)'
      BY <2>1 DEF Sweeping, OwnedOnly, Steady
    <2>3. account'[req'[q].user] = "deleted"
      BY <1>1, <1>3, <2>1 DEF Sweeping, Steady
    <2>4. QED
      BY <1>3, <2>1, <2>2, <2>3 DEF Sweeping, Steady
  <1>4. QED
    BY <1>2, <1>3

LEMMA RunFailsInv ==
  ASSUME ClosingInv, mishaps' \in 0..MaxMishaps, NEW q \in Requests, RunFails(q)
  PROVE  ClosingInv'
  <1> DEFINE r == [Advanced(q) EXCEPT !.open = StillPromised(q)]
  <1>1. /\ req[q] \in RequestRecord /\ req[q].sid \in 0..issued
        /\ StageOK(q) /\ req[q].pc = "run" /\ req[q].hold # "save"
    BY Shaped DEF StageOK, RunFails
  <1>2. issued' = issued /\ revoked' = revoked /\ revoked \subseteq 1..issued
    BY DEF RunFails, restVars, ClosingInv, StoreOK
  <1>3. KeysShrink /\ AccountsForward
    BY StillShrinks, AccountsStill DEF RunFails, ClosingInv
  <1>4. StillPromised(q) \in SUBSET Sids
    BY <1>1 DEF StillPromised, RequestRecord
  <1> PICK open, b : open = StillPromised(q) /\ b = Advanced(q)
    OBVIOUS
  <1>5. /\ b \in RequestRecord /\ b.op = req[q].op /\ b.user = req[q].user
        /\ b.sid = req[q].sid /\ b.hold = req[q].hold
        /\ b.todo = Tail(req[q].todo) /\ b.pc \in {"run", "end"}
        /\ b.pc = "run" <=> b.todo # <<>>
    BY <1>1, AdvancedFields
  <1>6. /\ r \in RequestRecord /\ r.op = b.op /\ r.user = b.user /\ r.sid = b.sid
        /\ r.hold = b.hold /\ r.todo = b.todo /\ r.pc = b.pc /\ r.open = open
    BY <1>4, <1>5 DEF RequestRecord
  <1>7. req' = [req EXCEPT ![q] = r] /\ req'[q] = r
    BY DEF RunFails, Advanced, ClosingInv, StoreOK
  <1> HIDE DEF r
  <1>8. ASSUME Steady PROVE RequestOK(q)'
    <2>1. Settled(q)' /\ Presented(q)' /\ BarredOK(q)'
      BY <1>1, <1>5, <1>6, <1>7, <1>8, Onward
    <2>2. StageOK(q)'
      BY <1>1, <1>5, <1>6, <1>7 DEF StageOK, GuardedOps, LinkOps, Arriving
    <2>3. OpenOK(q)'
      BY <1>1, <1>2, <1>5, <1>6, <1>7, <1>8, PromiseKept
    <2>4. QED
      BY <2>1, <2>2, <2>3 DEF RequestOK
  <1>9. r.sid \in 0..issued /\ r.hold # "save"
    BY <1>1, <1>5, <1>6
  <1>10. QED
    BY <1>2, <1>3, <1>6, <1>7, <1>8, <1>9, ShrinkInv

LEMMA MembersFailsInv ==
  ASSUME ClosingInv, mishaps' \in 0..MaxMishaps, NEW q \in Requests, MembersFails(q)
  PROVE  ClosingInv'
  <1> DEFINE pc == IF Current(q) = <<>> THEN "end" ELSE "run"
             r == [req[q] EXCEPT !.open = StillPromised(q), !.hold = HoldAfterAll(q),
                                 !.todo = Current(q), !.pc = pc]
  <1>1. /\ req[q] \in RequestRecord /\ req[q].sid \in 0..issued /\ req[q].user \in Users
        /\ StageOK(q) /\ req[q].pc = "members" /\ req[q].hold # "save"
        /\ req[q].op \in LinkOps \union {"signOutAll"}
    BY Shaped DEF StageOK, MembersFails
  <1>2. issued' = issued /\ revoked' = revoked /\ revoked \subseteq 1..issued
    BY DEF MembersFails, restVars, ClosingInv, StoreOK
  <1>3. KeysShrink /\ AccountsForward
    BY StillShrinks, AccountsStill DEF MembersFails, ClosingInv
  <1>4. /\ StillPromised(q) \in SUBSET Sids /\ HoldAfterAll(q) \in {"keep", "destroy"}
        /\ pc \in {"run", "end"} /\ (pc = "run" <=> Current(q) # <<>>)
    BY <1>1 DEF StillPromised, HoldAfterAll, RequestRecord
  <1>5. Current(q) \in Seq(Commands)
    <2>1. CASE req[q].op = "signOutAll"
      <3>1. req[q].sid \in Sids
        BY <1>1, <2>1, SidRange DEF StageOK, GuardedOps, NoSid, ClosingInv
      <3>2. Command("session", {req[q].sid}, req[q].user) \in Commands
        BY <1>1, <3>1, CommandType
      <3>3. QED
        BY <2>1, <3>2 DEF Current
    <2>2. QED
      BY <2>1 DEF Current
  <1> HIDE DEF pc
  <1>6. /\ r \in RequestRecord /\ r.op = req[q].op /\ r.user = req[q].user
        /\ r.sid = req[q].sid /\ r.hold \in {"keep", "destroy"} /\ r.todo = Current(q)
        /\ r.pc = pc /\ r.open = StillPromised(q)
    BY <1>1, <1>4, <1>5 DEF RequestRecord, Stages
  <1>7. req' = [req EXCEPT ![q] = r] /\ req'[q] = r
    BY DEF MembersFails, pc, ClosingInv, StoreOK
  <1> HIDE DEF r
  <1>8. ASSUME Steady PROVE RequestOK(q)'
    <2>1. Settled(q)' /\ Presented(q)' /\ BarredOK(q)'
      BY <1>1, <1>4, <1>6, <1>7, <1>8, Onward
    <2>2. StageOK(q)'
      BY <1>1, <1>4, <1>6, <1>7 DEF StageOK, GuardedOps, LinkOps, Arriving
    <2>3. OpenOK(q)'
      BY <1>1, <1>2, <1>6, <1>7, <1>8, PromiseKept
    <2>4. QED
      BY <2>1, <2>2, <2>3 DEF RequestOK
  <1>9. r.sid \in 0..issued /\ r.hold # "save"
    BY <1>1, <1>6
  <1>10. QED
    BY <1>2, <1>3, <1>6, <1>7, <1>8, <1>9, ShrinkInv

LEMMA BindFailsInv ==
  ASSUME ClosingInv, mishaps' \in 0..MaxMishaps, NEW q \in Requests, BindFails(q)
  PROVE  ClosingInv'
  <1> DEFINE r == [req[q] EXCEPT !.pc = "end", !.open = {}]
  <1>1. /\ req[q] \in RequestRecord /\ req[q].sid \in 0..issued
        /\ StageOK(q) /\ req[q].pc = "bind" /\ req[q].hold = "save"
    BY Shaped DEF StageOK, BindFails
  <1>2. issued' = issued /\ revoked' = revoked /\ revoked \subseteq 1..issued
    BY DEF BindFails, restVars, ClosingInv, StoreOK
  <1>3. KeysShrink /\ AccountsForward
    BY StillShrinks, AccountsStill DEF BindFails, ClosingInv
  <1>4. /\ r \in RequestRecord /\ r.op = req[q].op /\ r.user = req[q].user
        /\ r.sid = req[q].sid /\ r.hold = "save" /\ r.todo = req[q].todo
        /\ r.pc = "end" /\ r.open = {}
    BY <1>1 DEF RequestRecord, Stages
  <1>5. req' = [req EXCEPT ![q] = r] /\ req'[q] = r
    BY DEF BindFails, ClosingInv, StoreOK
  <1> HIDE DEF r
  <1>6. RequestOK(q)'
    <2>1. StageOK(q)'
      BY <1>1, <1>4, <1>5 DEF StageOK, GuardedOps, LinkOps, Arriving
    <2>2. Settled(q)' /\ Presented(q)' /\ BarredOK(q)' /\ OpenOK(q)'
      BY <1>4, <1>5 DEF Settled, Presented, BarredOK, OpenOK
    <2>3. QED
      BY <2>1, <2>2 DEF RequestOK
  <1>7. QED
    BY <1>1, <1>2, <1>3, <1>4, <1>5, <1>6, ShrinkInv

-----------------------------------------------------------------------------
(* Steps that create a session.                                            *)

LEMMA RegenerateInv ==
  ASSUME ClosingInv, mishaps' \in 0..MaxMishaps, NEW q \in Requests, Regenerate(q)
  PROVE  ClosingInv'
  <1> PICK s, old : s = issued + 1 /\ old = req[q].sid
    OBVIOUS
  <1> DEFINE r == [req[q] EXCEPT !.pc = "bind", !.sid = s, !.hold = "save",
                                 !.open = {old} \ {NoSid}]
  <1>1. /\ req[q] \in RequestRecord /\ old \in 0..issued /\ issued \in Nat
        /\ StageOK(q) /\ Settled(q) /\ req[q].user \in Users
        /\ req[q].pc = "regenerate" /\ req[q].hold # "save"
        /\ req[q].op \in {"signUp", "signIn"} /\ req[q].todo = <<>>
    BY Shaped DEF StageOK, Regenerate
  <1>2. /\ s \in Sids /\ s \notin 1..issued /\ s \in Nat /\ issued' = s
        /\ UNCHANGED <<account, revoked>> /\ 1..issued \subseteq Sids
    BY <1>1, SessionsAssumption, SidRange DEF Regenerate, Sids, ClosingInv
  <1>3. old # NoSid => old \in 1..issued /\ NoCreator(old)
    BY <1>1 DEF Settled, NoSid
  <1>4. /\ r \in RequestRecord /\ r.op = req[q].op /\ r.user = req[q].user /\ r.sid = s
        /\ r.hold = "save" /\ r.todo = <<>> /\ r.open = {old} \ {NoSid} /\ r.pc = "bind"
    <2>1. {old} \ {NoSid} \in SUBSET Sids
      BY <1>2, <1>3
    <2>2. QED
      BY <1>1, <1>2, <2>1 DEF RequestRecord, Stages
  <1>5. req' = [req EXCEPT ![q] = r] /\ req'[q] = r /\ \A p \in Requests : p = q \/ req'[p] = req[p]
    <2>1. req' = [req EXCEPT ![q] = r]
      BY DEF Regenerate, NextSid, ClosingInv, StoreOK
    <2>2. QED
      BY <2>1 DEF ClosingInv, StoreOK
  <1> HIDE DEF r
  <1>6. /\ KeysShrink
        /\ session' = [o \in Sids |-> IF o = old THEN Nobody ELSE session[o]]
    <2>1. Perform(Command("session", {old}, req[q].user))
      BY DEF Regenerate
    <2>2. session' = [o \in Sids |-> IF o = old THEN Nobody ELSE session[o]]
      BY <2>1 DEF Perform, Command
    <2>3. QED
      BY <2>1, <2>2, PerformShrinks DEF ClosingInv
  <1>7. \A o \in 1..issued, p \in Requests : Creator(p, o)' => Creator(p, o) /\ p # q
    BY <1>2, <1>4, <1>5 DEF Creator
  <1>8. Steady
    <2> SUFFICES ASSUME NEW o \in 1..issued
                 PROVE  /\ \A u \in Users : Named(o, u)' => Named(o, u)
                        /\ NoCreator(o) => NoCreator(o)'
                        /\ Bound(o) => Bound(o)'
                        /\ Dead(o) => session'[o] = Nobody
                        /\ Bound(o) /\ relation[o] = Nobody => relation'[o] = Nobody
                        /\ Bound(o) => \A u \in Users : o \in index'[u] => o \in index[u]
      BY <1>1, <1>2 DEF Steady
    <2>1. o \in Sids
      BY <1>2
    <2>2. ASSUME NEW u \in Users, Named(o, u)' PROVE Named(o, u)
      <3>1. CASE session'[o] = u \/ relation'[o] = u \/ o \in index'[u]
        BY <1>6, <2>1, <3>1, SessionsAssumption DEF Named, KeysShrink
      <3>2. CASE \E p \in Requests : Creator(p, o)' /\ req'[p].user = u
        BY <1>5, <1>7, <3>2 DEF Named
      <3>3. QED
        BY <2>2, <3>1, <3>2 DEF Named
    <2>3. NoCreator(o) => NoCreator(o)'
      BY <1>7 DEF NoCreator
    <2>4. Bound(o) => Bound(o)'
      BY <1>5, <1>7 DEF Bound
    <2>5. /\ session[o] = Nobody => session'[o] = Nobody
          /\ relation[o] = Nobody => relation'[o] = Nobody
          /\ \A u \in Users : o \in index'[u] => o \in index[u]
      BY <1>6, <2>1 DEF KeysShrink
    <2>6. QED
      BY <2>2, <2>3, <2>4, <2>5 DEF Dead
  <1>9. Unnamed(s)' /\ \A p \in Requests \ {q} : ~Creator(p, s)'
    <2>1. Unnamed(s) /\ (\A u \in Users : index[u] \subseteq 1..issued)
      BY <1>1, <1>2 DEF ClosingInv, StoreOK
    <2>2. Unnamed(s)'
      BY <1>2, <1>6, <2>1 DEF Unnamed, Unindexed, KeysShrink
    <2>3. \A p \in Requests \ {q} : ~Creator(p, s)'
      BY <1>1, <1>2, <1>5 DEF Creator, ClosingInv, StoreOK
    <2>4. QED
      BY <2>2, <2>3
  <1>10. StoreOK'
    <2>1. index' \in [Users -> SUBSET (1..s)]
      BY <1>1, <1>2, <1>6 DEF KeysShrink
    <2>2. ASSUME NEW o \in Sids, o > s PROVE Unnamed(o)'
      <3>1. o > issued
        BY <1>1, <1>2, <2>2 DEF Sids
      <3>2. QED
        BY <1>6, <3>1 DEF Unnamed, Unindexed, KeysShrink, ClosingInv, StoreOK
    <2>3. /\ s \in 0..MaxSids /\ revoked' \subseteq 1..s
      BY <1>1, <1>2, SessionsAssumption DEF Sids, ClosingInv, StoreOK
    <2>4. req' \in [Requests -> RequestRecord] /\ \A p \in Requests : req'[p].sid \in 0..s
      BY <1>1, <1>2, <1>4, <1>5 DEF ClosingInv, StoreOK
    <2>5. QED
      BY <1>2, <1>6, <2>1, <2>2, <2>3, <2>4 DEF KeysShrink, ClosingInv, StoreOK
  <1>11. OneOwner'
    <2> SUFFICES ASSUME NEW o \in Sids, NEW u \in Users, NEW v \in Users,
                        Named(o, u)', Named(o, v)'
                 PROVE  u = v
      BY DEF OneOwner
    <2>1. CASE o \in 1..issued
      BY <1>8, <2>1 DEF Steady, ClosingInv, OneOwner
    <2>2. CASE o = s
      BY <1>9, <2>2, SessionsAssumption DEF Named, Unnamed, Unindexed
    <2>3. CASE o > s
      <3>1. Unnamed(o)'
        BY <1>2, <1>10, <2>3 DEF StoreOK
      <3>2. \A p \in Requests : ~Creator(p, o)'
        BY <1>2, <1>10, <2>3 DEF StoreOK, Creator
      <3>3. QED
        BY <3>1, <3>2, SessionsAssumption DEF Named, Unnamed, Unindexed
    <2>4. QED
      BY <1>1, <1>2, <2>1, <2>2, <2>3 DEF Sids
  <1>12. CreatorsOK'
    <2> SUFFICES ASSUME NEW p \in Requests, NEW o, Creator(p, o)'
                 PROVE  /\ session'[o] = Nobody
                        /\ req'[p].pc = "bind" => Unnamed(o)'
                        /\ \A n \in Requests \ {p} : ~Creator(n, o)'
      BY DEF CreatorsOK, Creator
    <2>1. CASE p = q
      BY <1>4, <1>5, <1>9, <2>1 DEF Creator, Unnamed
    <2>2. CASE p # q
      <3>1. Creator(p, o) /\ req'[p] = req[p] /\ o \in 1..issued
        BY <1>5, <2>2, Shaped DEF Creator, StageOK, NoSid
      <3>2. /\ session[o] = Nobody /\ (req[p].pc = "bind" => Unnamed(o))
            /\ \A n \in Requests \ {p} : ~Creator(n, o)
        BY <3>1 DEF ClosingInv, CreatorsOK, Creator
      <3>3. session'[o] = Nobody /\ (Unnamed(o) => Unnamed(o)')
        BY <1>2, <1>6, <3>1, <3>2 DEF KeysShrink, Unnamed, Unindexed
      <3>4. QED
        BY <1>7, <3>1, <3>2, <3>3
    <2>3. QED
      BY <2>1, <2>2
  <1>13. RequestOK(q)'
    <2>1. StageOK(q)'
      BY <1>1, <1>2, <1>4, <1>5 DEF StageOK, GuardedOps, LinkOps, Arriving, NoSid
    <2>2. Settled(q)' /\ Presented(q)' /\ BarredOK(q)'
      BY <1>4, <1>5 DEF Settled, Presented, BarredOK
    <2>3. OpenOK(q)'
      <3> SUFFICES ASSUME old # NoSid PROVE old \in (1..issued)' /\ Bound(old)' /\ Dead(old)'
        BY <1>4, <1>5 DEF OpenOK
      <3>1. NoCreator(old)' /\ old \in Sids /\ old \in 1..s
        BY <1>1, <1>2, <1>3, <1>8 DEF Steady
      <3>2. QED
        BY <1>2, <1>6, <3>1 DEF NoCreator, Bound, Dead
    <2>4. QED
      BY <2>1, <2>2, <2>3 DEF RequestOK
  <1>14. QED
    BY <1>2, <1>5, <1>8, <1>10, <1>11, <1>12, <1>13, StepInv

LEMMA BindInv ==
  ASSUME ClosingInv, mishaps' \in 0..MaxMishaps, NEW q \in Requests, Bind(q)
  PROVE  ClosingInv'
  <1> PICK s : s = req[q].sid
    OBVIOUS
  <1> DEFINE r == [req[q] EXCEPT !.pc = "end"]
  <1>1. /\ req[q] \in RequestRecord /\ s \in 0..issued /\ issued \in Nat
        /\ StageOK(q) /\ OpenOK(q) /\ req[q].user \in Users /\ s # NoSid
        /\ req[q].pc = "bind" /\ req[q].hold = "save" /\ req[q].op \in {"signUp", "signIn"}
    BY Shaped DEF StageOK, Bind
  <1>2. s \in 1..issued /\ s \in Sids
    BY <1>1, SidRange DEF NoSid, ClosingInv
  <1>3. /\ relation' = [relation EXCEPT ![s] = req[q].user]
        /\ index' = [index EXCEPT ![req[q].user] = @ \union {s}]
        /\ UNCHANGED <<account, session, issued, revoked>>
    BY DEF Bind, restVars
  <1>4. /\ r \in RequestRecord /\ r.op = req[q].op /\ r.user = req[q].user /\ r.sid = s
        /\ r.hold = "save" /\ r.todo = req[q].todo /\ r.open = req[q].open /\ r.pc = "end"
    BY <1>1 DEF RequestRecord, Stages
  <1>5. req' = [req EXCEPT ![q] = r] /\ req'[q] = r /\ \A p \in Requests : p = q \/ req'[p] = req[p]
    <2>1. req' = [req EXCEPT ![q] = r]
      BY DEF Bind, Goto, ClosingInv, StoreOK
    <2>2. QED
      BY <2>1 DEF ClosingInv, StoreOK
  <1> HIDE DEF r
  <1>6. /\ \A o : \A p \in Requests : Creator(p, o)' <=> Creator(p, o)
        /\ \A p \in Requests : req'[p].user = req[p].user
        /\ \A p \in Requests : req'[p].pc = "bind" => req[p].pc = "bind" /\ p # q
    BY <1>1, <1>4, <1>5 DEF Creator
  <1>7. Creator(q, s) /\ Unnamed(s) /\ \A p \in Requests \ {q} : ~Creator(p, s)
    BY <1>1 DEF ClosingInv, CreatorsOK, Creator
  <1>8. \A o \in Sids : o # s => /\ relation'[o] = relation[o]
                                 /\ \A u \in Users : o \in index'[u] <=> o \in index[u]
    BY <1>1, <1>3 DEF ClosingInv, StoreOK
  <1>9. \A u \in Users : relation'[s] = u \/ s \in index'[u] => u = req[q].user
    BY <1>1, <1>2, <1>3, <1>7 DEF ClosingInv, StoreOK, Unnamed, Unindexed
  <1>10. Steady
    <2> SUFFICES ASSUME NEW o \in 1..issued
                 PROVE  /\ \A u \in Users : Named(o, u)' => Named(o, u)
                        /\ NoCreator(o) => NoCreator(o)'
                        /\ Bound(o) => Bound(o)'
                        /\ Dead(o) => session'[o] = Nobody
                        /\ Bound(o) /\ relation[o] = Nobody => relation'[o] = Nobody
                        /\ Bound(o) => \A u \in Users : o \in index'[u] => o \in index[u]
      BY <1>1, <1>3 DEF Steady
    <2>1. o \in Sids
      BY SidRange DEF ClosingInv
    <2>2. ASSUME NEW u \in Users, Named(o, u)' PROVE Named(o, u)
      <3>1. CASE session'[o] = u
        BY <1>3, <3>1 DEF Named
      <3>2. CASE relation'[o] = u \/ o \in index'[u]
        <4>1. CASE o = s
          BY <1>7, <1>9, <3>2, <4>1 DEF Named
        <4>2. CASE o # s
          BY <1>8, <2>1, <3>2, <4>2 DEF Named
        <4>3. QED
          BY <4>1, <4>2
      <3>3. CASE \E p \in Requests : Creator(p, o)' /\ req'[p].user = u
        BY <1>6, <3>3 DEF Named
      <3>4. QED
        BY <2>2, <3>1, <3>2, <3>3 DEF Named
    <2>3. (NoCreator(o) => NoCreator(o)') /\ (Bound(o) => Bound(o)')
      BY <1>4, <1>5, <1>6 DEF NoCreator, Bound
    <2>4. Bound(o) => o # s
      BY <1>1, <1>7 DEF Bound
    <2>5. QED
      BY <1>3, <1>8, <2>1, <2>2, <2>3, <2>4 DEF Dead
  <1>11. StoreOK'
    <2>1. relation' \in [Sids -> Users \union {Nobody}] /\ index' \in [Users -> SUBSET (1..issued)]
      BY <1>1, <1>2, <1>3 DEF ClosingInv, StoreOK
    <2>2. ASSUME NEW o \in Sids, o > issued PROVE Unnamed(o)'
      <3>1. o # s
        BY <1>1, <2>2
      <3>2. QED
        BY <1>3, <1>8, <2>2, <3>1 DEF ClosingInv, StoreOK, Unnamed, Unindexed
    <2>3. req' \in [Requests -> RequestRecord] /\ \A p \in Requests : req'[p].sid \in 0..issued
      BY <1>1, <1>4, <1>5 DEF ClosingInv, StoreOK
    <2>4. QED
      BY <1>3, <2>1, <2>2, <2>3 DEF ClosingInv, StoreOK
  <1>12. OneOwner'
    BY <1>3, <1>10, <1>11, SteadyOwner DEF ClosingInv
  <1>13. CreatorsOK'
    <2> SUFFICES ASSUME NEW p \in Requests, NEW o, Creator(p, o)'
                 PROVE  /\ session'[o] = Nobody
                        /\ req'[p].pc = "bind" => Unnamed(o)'
                        /\ \A n \in Requests \ {p} : ~Creator(n, o)'
      BY DEF CreatorsOK, Creator
    <2>1. Creator(p, o)
      BY <1>6
    <2>2. /\ session[o] = Nobody /\ (req[p].pc = "bind" => Unnamed(o))
          /\ \A n \in Requests \ {p} : ~Creator(n, o)
      BY <2>1 DEF ClosingInv, CreatorsOK, Creator
    <2>3. ASSUME req'[p].pc = "bind" PROVE Unnamed(o)'
      <3>1. p # q /\ o # s /\ Unnamed(o) /\ o \in Sids
        BY <1>6, <1>7, <2>1, <2>2, <2>3, Shaped, SidRange DEF Creator, StageOK, NoSid, ClosingInv
      <3>2. QED
        BY <1>3, <1>8, <3>1 DEF Unnamed, Unindexed
    <2>4. QED
      BY <1>3, <1>6, <2>2, <2>3
  <1>14. RequestOK(q)'
    <2>1. StageOK(q)'
      BY <1>1, <1>4, <1>5 DEF StageOK, GuardedOps, LinkOps, Arriving
    <2>2. Settled(q)' /\ Presented(q)' /\ BarredOK(q)'
      BY <1>4, <1>5 DEF Settled, Presented, BarredOK
    <2>3. OpenOK(q)'
      <3> SUFFICES ASSUME NEW o \in req[q].open
                   PROVE  o \in (1..issued)' /\ Bound(o)' /\ Dead(o)'
        BY <1>4, <1>5 DEF OpenOK
      <3>1. o \in 1..issued /\ Bound(o) /\ Dead(o)
        BY <1>1 DEF OpenOK, LinkOps
      <3>2. QED
        BY <1>3, <1>10, <3>1 DEF Steady, Dead
    <2>4. QED
      BY <2>1, <2>2, <2>3 DEF RequestOK
  <1>15. QED
    BY <1>3, <1>5, <1>10, <1>11, <1>12, <1>13, <1>14, StepInv

-----------------------------------------------------------------------------
(* Expiry and the listener, and the invariant.                             *)

LEMMA ListenerInv ==
  ASSUME ClosingInv, KeysShrink, UNCHANGED <<account, issued, req, revoked>>,
         mishaps' \in 0..MaxMishaps
  PROVE  ClosingInv'
  <1>1. Shrinking
    BY AccountsStill DEF Shrinking, NoNewCreator, ClosingInv
  <1>2. Steady
    BY <1>1, ShrinkSteady DEF ClosingInv
  <1>3. StoreOK'
    BY <1>1, ShrinkStore DEF ClosingInv, StoreOK
  <1>4. CreatorsOK'
    BY <1>1, ShrinkCreators, Shaped DEF ClosingInv
  <1>5. OneOwner'
    BY <1>2, <1>3, SteadyOwner DEF ClosingInv
  <1>6. RevokedClosed'
    BY <1>2, <1>3, SteadyClosed DEF ClosingInv, RevokedClosed
  <1>7. ASSUME NEW q \in Requests PROVE RequestOK(q)'
    BY <1>2, <1>3, SteadyRequest DEF ClosingInv
  <1>8. QED
    BY <1>3, <1>4, <1>5, <1>6, <1>7 DEF ClosingInv

LEMMA ExpireInv == ASSUME ClosingInv, mishaps' \in 0..MaxMishaps, Expire PROVE ClosingInv'
  <1>1. PICK s \in Sids : session' = [session EXCEPT ![s] = Nobody]
    BY DEF Expire
  <1>2. KeysShrink
    <2>1. UNCHANGED <<relation, index>>
      BY DEF Expire
    <2>2. QED
      BY <1>1, <2>1 DEF KeysShrink, ClosingInv, StoreOK
  <1>3. UNCHANGED <<account, issued, req, revoked>>
    BY DEF Expire
  <1>4. QED
    BY <1>2, <1>3, ListenerInv

LEMMA HandleExpiredInv ==
  ASSUME ClosingInv, mishaps' \in 0..MaxMishaps, HandleExpired
  PROVE  ClosingInv'
  BY StillShrinks, ListenerInv DEF HandleExpired, ClosingInv

LEMMA CleanInv == ASSUME ClosingInv, mishaps' \in 0..MaxMishaps, Clean PROVE ClosingInv'
  <1>1. PICK c : Perform(c)
    BY DEF Clean
  <1>2. KeysShrink
    BY <1>1, PerformShrinks DEF ClosingInv
  <1>3. UNCHANGED <<account, issued, req, revoked>>
    BY DEF Clean
  <1>4. QED
    BY <1>2, <1>3, ListenerInv

LEMMA ClosingInit == ASSUME SessionsInit PROVE ClosingInv
  <1>1. \A q \in Requests : req[q] = NoRequest
    BY DEF SessionsInit
  <1>2. StoreOK
    <2>1. 0 \in 0..MaxSids /\ 0 \in 0..MaxMishaps
      BY SessionsAssumption
    <2>2. \A s \in Sids : Unnamed(s)
      BY DEF SessionsInit, Unnamed, Unindexed
    <2>3. req \in [Requests -> RequestRecord] /\ \A q \in Requests : req[q].sid \in 0..issued
      BY NoRequestOK DEF SessionsInit
    <2>4. QED
      BY <2>1, <2>2, <2>3 DEF StoreOK, SessionsInit
  <1>3. \A q \in Requests : \A s : ~Creator(q, s)
    BY <1>1, NoRequestOK DEF Creator
  <1>4. OneOwner
    <2>1. \A s \in Sids, u \in Users : ~Named(s, u)
      BY <1>3, SessionsAssumption DEF Named, SessionsInit
    <2>2. QED
      BY <2>1 DEF OneOwner
  <1>5. CreatorsOK /\ RevokedClosed
    BY <1>1, NoRequestOK DEF CreatorsOK, RevokedClosed, SessionsInit
  <1>6. ASSUME NEW q \in Requests PROVE RequestOK(q)
    <2>1. StageOK(q) /\ Settled(q) /\ Presented(q) /\ BarredOK(q) /\ OpenOK(q)
      BY <1>1, NoRequestOK
         DEF StageOK, Settled, Presented, BarredOK, OpenOK, GuardedOps, LinkOps, NoSid, Arriving
    <2>2. QED
      BY <2>1 DEF RequestOK
  <1>7. QED
    BY <1>2, <1>4, <1>5, <1>6 DEF ClosingInv

LEMMA ClosingStep == ASSUME ClosingInv, [SessionsNext]_sessionsVars PROVE ClosingInv'
  <1>1. mishaps \in 0..MaxMishaps
    BY DEF ClosingInv, StoreOK
  <1>2. Mishap => mishaps' \in 0..MaxMishaps
    BY <1>1, SessionsAssumption DEF Mishap
  <1>3. ASSUME NEW q \in Requests, Step(q), UNCHANGED mishaps PROVE ClosingInv'
    <2>1. mishaps' \in 0..MaxMishaps
      BY <1>1, <1>3
    <2>2. CASE ArriveAuth(q)
      BY <2>1, <2>2, ArriveAuthInv
    <2>3. CASE ArriveGuarded(q)
      BY <2>1, <2>3, ArriveGuardedInv
    <2>4. CASE ArriveLink(q)
      BY <2>1, <2>4, ArriveLinkInv
    <2>5. CASE Count(q)
      BY <2>1, <2>5, CountInv
    <2>6. CASE Regenerate(q)
      BY <2>1, <2>6, RegenerateInv
    <2>7. CASE Bind(q)
      BY <2>1, <2>7, BindInv
    <2>8. CASE GuardUser(q)
      BY <2>1, <2>8, GuardUserInv
    <2>9. CASE GuardSession(q)
      BY <2>1, <2>9, GuardSessionInv
    <2>10. CASE Protected(q)
      BY <2>1, <2>10, ProtectedInv
    <2>11. CASE SignOut(q)
      BY <2>1, <2>11, SignOutInv
    <2>12. CASE SignOutAll(q)
      BY <2>1, <2>12, SignOutAllInv
    <2>13. CASE Members(q)
      BY <2>1, <2>13, MembersInv
    <2>14. CASE Run(q)
      BY <2>1, <2>14, RunInv
    <2>15. CASE End(q)
      BY <2>1, <2>15, EndInv
    <2>16. QED
      BY <1>3, <2>2, <2>3, <2>4, <2>5, <2>6, <2>7, <2>8, <2>9, <2>10, <2>11, <2>12, <2>13,
         <2>14, <2>15 DEF Step
  <1>4. ASSUME NEW q \in Requests, Fail(q), Mishap PROVE ClosingInv'
    <2>1. mishaps' \in 0..MaxMishaps
      BY <1>2, <1>4
    <2>2. CASE BindFails(q)
      BY <2>1, <2>2, BindFailsInv
    <2>3. CASE MembersFails(q)
      BY <2>1, <2>3, MembersFailsInv
    <2>4. CASE RunFails(q)
      BY <2>1, <2>4, RunFailsInv
    <2>5. CASE EndFails(q)
      BY <2>1, <2>5, EndFailsInv
    <2>6. CASE Stop(q)
      BY <2>1, <2>6, StopInv
    <2>7. QED
      BY <1>4, <2>2, <2>3, <2>4, <2>5, <2>6 DEF Fail
  <1>5. CASE Expire
    BY <1>2, <1>5, ExpireInv DEF Expire
  <1>6. CASE HandleExpired
    BY <1>1, <1>6, HandleExpiredInv DEF HandleExpired
  <1>7. CASE Clean
    BY <1>1, <1>7, CleanInv DEF Clean
  <1>8. CASE UNCHANGED sessionsVars
    <2>1. UNCHANGED <<account, storeVars, issued, req, revoked, mishaps>>
      BY <1>8 DEF sessionsVars, restVars
    <2>2. KeysShrink
      BY <2>1, StillShrinks DEF ClosingInv
    <2>3. QED
      BY <1>1, <2>1, <2>2, ListenerInv
  <1>9. QED
    BY <1>3, <1>4, <1>5, <1>6, <1>7, <1>8 DEF SessionsNext

THEOREM ClosingInvariance == SessionsSpec => []ClosingInv
  <1>1. QED
    BY ClosingInit, ClosingStep, PTL DEF SessionsSpec

-----------------------------------------------------------------------------

(* Keys hold what their types say and name only ids that were generated,   *)
(* and every session is created by one request under an id of its own.     *)
THEOREM SessionsTyped == SessionsSpec => []SessionsTypeOK
  <1>1. ClosingInv => SessionsTypeOK
    <2> SUFFICES ASSUME ClosingInv PROVE SessionsTypeOK
      OBVIOUS
    <2>1. \A s \in Sids : s > issued => session[s] = Nobody /\ relation[s] = Nobody
      BY DEF ClosingInv, StoreOK, Unnamed
    <2>2. \A q \in Requests : req[q].user \in Users \union {Nobody} /\ req[q].sid \in 0..issued
      BY DEF ClosingInv, StoreOK, RequestRecord
    <2>3. ASSUME NEW q \in Creating
          PROVE  /\ session[req[q].sid] = Nobody
                 /\ req[q].pc = "bind" => OwnedBy(req[q].user) \intersect {req[q].sid} = {}
                 /\ \A p \in Creating : p # q => req[p].sid # req[q].sid
      <3>1. /\ q \in Requests /\ req[q].hold = "save" /\ req[q].user \in Users
            /\ req[q].sid \in Sids
        BY Shaped, SidRange DEF Creating, StageOK, NoSid, ClosingInv
      <3>2. /\ session[req[q].sid] = Nobody
            /\ req[q].pc = "bind" => Unnamed(req[q].sid)
            /\ \A p \in Requests \ {q} : ~Creator(p, req[q].sid)
        BY <3>1 DEF ClosingInv, CreatorsOK
      <3>3. Unnamed(req[q].sid) => req[q].sid \notin OwnedBy(req[q].user)
        BY <3>1, SessionsAssumption DEF Unnamed, Unindexed, OwnedBy
      <3>4. QED
        BY <3>2, <3>3 DEF Creating, Creator
    <2>4. QED
      BY <2>1, <2>2, <2>3 DEF SessionsTypeOK, ClosingInv, StoreOK
  <1>2. QED
    BY <1>1, ClosingInvariance, PTL

(* After an operation has answered that it closed a session, AuthGuard     *)
(* admits no request that arrives with it, whatever sign-ins, sign-outs,   *)
(* expiries, failed commands and dying processes interleave.               *)
THEOREM ClosedForGood == SessionsSpec => []ClosedStaysClosed
  <1>1. ClosingInv => ClosedStaysClosed
    BY DEF ClosingInv, RequestOK, BarredOK, ClosedStaysClosed
  <1>2. QED
    BY <1>1, ClosingInvariance, PTL

(* A signOut that answers true, or a cleanup whose commands succeeded,     *)
(* leaves nothing of its session in any key, whatever other requests and   *)
(* the expiry listener did to the keys meanwhile.                          *)
THEOREM SignOutCleans == SessionsSpec => SignedOutIsCleaned
  <1> DEFINE Answer == \A q \in Requests, s \in Sids :
               (/\ End(q) /\ req[q].sid = s
                /\ req[q].op \in {"signOut", "cleanup"} /\ req[q].open = {s})
                 => FullyCleaned(s)'
  <1>1. ClosingInv => Answer
    <2> SUFFICES ASSUME ClosingInv, NEW q \in Requests, NEW s \in Sids,
                        End(q), req[q].sid = s, req[q].op \in {"signOut", "cleanup"},
                        req[q].open = {s}
                 PROVE  FullyCleaned(s)'
      OBVIOUS
    <2>1. StageOK(q) /\ OpenOK(q) /\ req[q].pc = "end"
      BY Shaped DEF End
    <2>2. req[q].hold = "destroy" /\ \A key : ~Due(q, key, s)
      BY <2>1 DEF StageOK, Arriving, Due
    <2>3. SigningOut(q, s)
      BY <2>1, <2>2 DEF OpenOK, LinkOps
    <2>4. relation[s] = Nobody /\ Unindexed(s)
      BY <2>2, <2>3 DEF SigningOut
    <2>5. UNCHANGED <<relation, index>> /\ session' = [session EXCEPT ![s] = Nobody]
      BY <2>2 DEF End
    <2>6. session'[s] = Nobody
      BY <2>5 DEF ClosingInv, StoreOK
    <2>7. QED
      BY <2>4, <2>5, <2>6 DEF FullyCleaned, Unindexed
  <1>2. ClosingInv /\ [SessionsNext]_sessionsVars => [Answer]_sessionsVars
    BY <1>1
  <1> HIDE DEF Answer
  <1>3. SessionsSpec => [][Answer]_sessionsVars
    BY <1>2, ClosingInvariance, PTL DEF SessionsSpec
  <1>4. QED
    BY <1>3 DEF SignedOutIsCleaned, Answer

=============================================================================
