---------------------------- MODULE VotingProofs ----------------------------
(***************************************************************************)
(* Proofs about Voting for any finite set of users, any reviews and        *)
(* sessions, and any hash function of the advisory lock.                   *)
(***************************************************************************)
EXTENDS VotingProps, FiniteSetTheorems, TLAPS

-----------------------------------------------------------------------------
(* Statements that succeed and statements that are refused.                *)

Decremented(b) ==
  /\ tx[b].pc = "decrement"
  /\ ReviewRowFree(b)
  /\ UpdateCounter(b, tx[b].prev, -1, AfterDecrement(b))
  /\ UNCHANGED <<dbVars, voteLock>>

Inserted(b) ==
  /\ tx[b].pc = "insert"
  /\ ~VoteRowBusy(b)
  /\ InsertAllowed(b)
  /\ tx' = [tx EXCEPT ![b].pc = "increment", ![b].row = tx[b].action]
  /\ UNCHANGED <<dbVars, lockVars>>

ConstraintViolated(b) ==
  \/ tx[b].pc = "decrement" /\ CounterExhausted(b, tx[b].prev)
  \/ tx[b].pc = "insert" /\ ~InsertAllowed(b)

Refuse(b) ==
  /\ ConstraintViolated(b)
  /\ Answer(b, "constraint")
  /\ UNCHANGED dbVars

\* Every statement either succeeds or is refused.
LEMMA StepSplits ==
  ASSUME NEW b \in Backends, Step(b)
  PROVE  \/ Exists(b) \/ TryLock(b) \/ Find(b) \/ Delete(b) \/ Decremented(b)
         \/ Inserted(b) \/ Increment(b) \/ Commit(b) \/ Refuse(b)
  <1>1. CASE Decrement(b)
    BY <1>1 DEF Decrement, Decremented, Refuse, ConstraintViolated
  <1>2. CASE Insert(b)
    BY <1>2 DEF Insert, Inserted, Refuse, ConstraintViolated
  <1>3. QED
    BY <1>1, <1>2 DEF Step

-----------------------------------------------------------------------------
(* Counting the votes in a column.                                         *)

\* A count is a natural number: Users is finite.
LEMMA CountIsNat ==
  ASSUME NEW f, NEW a
  PROVE  Count(f, a) \in Nat
  <1>1. IsFiniteSet({u \in Users : f[u] = a})
    BY VotingAssumption, FS_Subset
  <1>2. QED
    BY <1>1, FS_CardinalityType DEF Count

\* A vote that is there is counted.
LEMMA CountPositive ==
  ASSUME NEW f, NEW u \in Users
  PROVE  Count(f, f[u]) >= 1
  <1> DEFINE S == {w \in Users : f[w] = f[u]}
  <1>1. IsFiniteSet(S)
    BY VotingAssumption, FS_Subset
  <1>2. S # {}
    OBVIOUS
  <1>3. Cardinality(S) \in Nat /\ Cardinality(S) # 0
    BY <1>1, <1>2, FS_CardinalityType, FS_EmptySet
  <1>4. QED
    BY <1>3 DEF Count

\* Changing one vote moves the count of its old and of its new action by one.
LEMMA CountUpdate ==
  ASSUME NEW f \in [Users -> VoteAction \union {NoVote}], NEW u \in Users,
         NEW x \in VoteAction \union {NoVote}, NEW a
  PROVE  Count([f EXCEPT ![u] = x], a) =
           Count(f, a) + ((IF x = a THEN 1 ELSE 0) - (IF f[u] = a THEN 1 ELSE 0))
  <1> DEFINE g == [f EXCEPT ![u] = x]
             S == {w \in Users : f[w] = a}
             R == {w \in Users : g[w] = a}
  <1>1. IsFiniteSet(S) /\ Cardinality(S) \in Nat
    BY VotingAssumption, FS_Subset, FS_CardinalityType
  <1>2. CASE x = a /\ f[u] = a
    <2>1. R = S
      BY <1>2
    <2>2. QED
      BY <2>1, <1>1, <1>2 DEF Count
  <1>3. CASE x = a /\ f[u] # a
    <2>1. R = S \cup {u} /\ u \notin S
      BY <1>3
    <2>2. Cardinality(R) = Cardinality(S) + 1
      BY <2>1, <1>1, FS_AddElement
    <2>3. QED
      BY <2>2, <1>1, <1>3 DEF Count
  <1>4. CASE x # a /\ f[u] = a
    <2>1. R = S \ {u} /\ u \in S
      BY <1>4
    <2>2. Cardinality(R) = Cardinality(S) - 1
      BY <2>1, <1>1, FS_RemoveElement
    <2>3. QED
      BY <2>2, <1>1, <1>4 DEF Count
  <1>5. CASE x # a /\ f[u] # a
    <2>1. R = S
      BY <1>5
    <2>2. QED
      BY <2>1, <1>1, <1>5 DEF Count
  <1>6. QED
    BY <1>2, <1>3, <1>4, <1>5

-----------------------------------------------------------------------------
(* What a step of session b leaves alone.                                  *)

\* A session c keeps what it knows and holds while another session steps, if
\* that step takes no lock of c, no review, and not the vote c is locked on.
LEMMA OtherSession ==
  ASSUME NEW c \in Backends, SessionOK(c), tx'[c] = tx[c], reviews' = reviews,
         tx[c].pc \in Locked => voteLock'[Key(c)] = voteLock[Key(c)],
         tx[c].pc \in Locked =>
           vote'[tx[c].review][tx[c].user] = vote[tx[c].review][tx[c].user],
         tx[c].delta # NoDelta => rowLock'[tx[c].review] = rowLock[tx[c].review]
  PROVE  SessionOK(c)'
  <1>1. Key(c)' = Key(c)
    BY DEF Key
  <1>2. Progress(c)'
    BY DEF SessionOK, Progress
  <1>3. QED
    BY <1>1, <1>2 DEF SessionOK, HoldsLock, Locked

\* A session with pending counter changes is executing a request, on a review.
LEMMA DeltaMeansBusy ==
  ASSUME TypeOK, NEW c \in Backends, SessionOK(c), tx[c].delta # NoDelta
  PROVE  tx[c].review \in Reviews /\ tx[c].pc \in Locked
  <1>1. tx[c].pc \in {"idle"} \union Busy
    BY DEF TypeOK, TxRecord
  <1>2. tx[c].pc \notin {"idle", "exists", "lock"}
    BY DEF SessionOK, Progress
  <1>3. QED
    BY <1>1, <1>2 DEF TypeOK, Busy

\* The advisory lock key of a request.
LEMMA KeyType ==
  ASSUME TypeOK, NEW c \in Backends, tx[c].pc \in Busy
  PROVE  Key(c) \in LockKeys
  BY VotingAssumption DEF TypeOK, Key

\* Ending a request frees the locks of b and nobody else's.
LEMMA ReleaseKeeps ==
  ASSUME NEW b, NEW D, NEW lock \in [D -> Backends \union {Nobody}]
  PROVE  /\ Release(b, lock) \in [D -> Backends \union {Nobody}]
         /\ \A k \in D : lock[k] # b => Release(b, lock)[k] = lock[k]
  BY DEF Release

\* The record of a session that has ended its request, and of one that starts.
LEMMA IdleType ==
  ASSUME NEW reply \in {"none", "true", "false", "notFound", "constraint", "aborted"}
  PROVE  Idle(reply) \in TxRecord
  BY DEF Idle, TxRecord, VoteAction, NoVote, Untouched, NoDelta

\* A request that ends without a commit keeps the invariant: Exists, TryLock,
\* Refuse and Abort when they answer.
LEMMA AnswerInv ==
  ASSUME IInv, NEW b \in Backends, Answer(b, "true") \/ Answer(b, "false")
           \/ Answer(b, "notFound") \/ Answer(b, "constraint") \/ Answer(b, "aborted"),
         UNCHANGED dbVars
  PROVE  IInv'
  <1> PICK reply \in {"none", "true", "false", "notFound", "constraint", "aborted"} :
        Answer(b, reply)
    OBVIOUS
  <1>1. tx' = [tx EXCEPT ![b] = Idle(reply)]
    BY DEF Answer
  <1>2. TypeOK'
    <2>1. tx' \in [Backends -> TxRecord]
      BY <1>1, IdleType DEF IInv, TypeOK
    <2>2. voteLock' \in [LockKeys -> Backends \union {Nobody}]
      BY ReleaseKeeps DEF IInv, TypeOK, Answer
    <2>3. rowLock' \in [Reviews -> Backends \union {Nobody}]
      BY ReleaseKeeps DEF IInv, TypeOK, Answer
    <2>4. \A c \in Backends : tx'[c].pc \in Busy => tx'[c].user \in Users /\ tx'[c].review \in Reviews
      BY <1>1 DEF IInv, TypeOK, Idle, Busy, Locked
    <2>5. QED
      BY <2>1, <2>2, <2>3, <2>4 DEF IInv, TypeOK, dbVars
  <1>3. SessionInv'
    <2> SUFFICES ASSUME NEW c \in Backends PROVE SessionOK(c)'
      BY DEF SessionInv
    <2>1. CASE c = b
      BY <2>1, <1>1 DEF IInv, TypeOK, SessionOK, Progress, Idle, Locked, NoDelta
    <2>2. CASE c # b
      <3>1. tx'[c] = tx[c] /\ SessionOK(c)
        BY <2>2, <1>1 DEF IInv, TypeOK, SessionInv
      <3>2. tx[c].pc \in Locked => voteLock'[Key(c)] = voteLock[Key(c)]
        BY <2>2, <3>1, VotingAssumption
           DEF IInv, TypeOK, SessionOK, HoldsLock, Key, Answer, Release, Busy
      <3>3. tx[c].delta # NoDelta => rowLock'[tx[c].review] = rowLock[tx[c].review]
        <4>1. ASSUME tx[c].delta # NoDelta
              PROVE  rowLock'[tx[c].review] = rowLock[tx[c].review]
          <5>1. tx[c].review \in Reviews /\ rowLock[tx[c].review] = c
            BY <4>1, <3>1, DeltaMeansBusy DEF IInv, SessionOK
          <5>2. QED
            BY <5>1, <2>2, ReleaseKeeps DEF IInv, TypeOK, Answer
        <4>2. QED
          BY <4>1
      <3>4. QED
        BY <3>1, <3>2, <3>3, OtherSession DEF dbVars
    <2>3. QED
      BY <2>1, <2>2
  <1>4. CountersConsistent'
    BY DEF IInv, CountersConsistent, dbVars, Count
  <1>5. QED
    BY <1>2, <1>3, <1>4 DEF IInv

-----------------------------------------------------------------------------
(* The invariant is preserved by every statement.                          *)

LEMMA BeginInv == ASSUME IInv, NEW b \in Backends, Begin(b) PROVE IInv'
  <1> PICK kind \in {"voteReview", "deleteVote"}, u \in Users, r \in Reviews,
           a \in VoteAction \union {NoVote} :
        /\ tx' = [tx EXCEPT ![b] = Request(kind, u, r, a)]
        /\ kind = "voteReview" => a \in VoteAction
    BY DEF Begin, IInv, TypeOK
  <1>1. UNCHANGED <<dbVars, lockVars>>
    BY DEF Begin
  <1>2. TypeOK'
    <2>1. Request(kind, u, r, a) \in TxRecord
      BY DEF Request, TxRecord, VoteAction, NoVote, Untouched, NoDelta, Busy
    <2>2. QED
      BY <1>1, <2>1 DEF IInv, TypeOK, dbVars, lockVars, Request
  <1>3. SessionInv'
    <2> SUFFICES ASSUME NEW c \in Backends PROVE SessionOK(c)'
      BY DEF SessionInv
    <2>1. CASE c = b
      <3> DEFINE t == Request(kind, u, r, a)
      <3>1. tx'[c] = t
        BY <2>1 DEF IInv, TypeOK
      <3>2. /\ t.pc = "exists" /\ t.row = Untouched /\ t.delta = NoDelta
            /\ t.kind = kind /\ t.action = a
        BY DEF Request
      <3>3. Progress(c)'
        BY <3>1, <3>2 DEF Progress
      <3>4. QED
        BY <3>1, <3>2, <3>3 DEF SessionOK, Locked
    <2>2. CASE c # b
      BY <2>2, <1>1, OtherSession DEF IInv, TypeOK, SessionInv, dbVars, lockVars
    <2>3. QED
      BY <2>1, <2>2
  <1>4. CountersConsistent'
    BY <1>1 DEF IInv, CountersConsistent, dbVars, Count
  <1>5. QED
    BY <1>2, <1>3, <1>4 DEF IInv

\* A statement that only moves b on keeps the invariant if it leaves b as the
\* next statement supposes and takes no lock that is not free or b's own.
LEMMA StatementInv ==
  ASSUME IInv, NEW b \in Backends, tx[b].pc \in Busy, UNCHANGED dbVars,
         NEW t \in TxRecord, tx' = [tx EXCEPT ![b] = t],
         t.pc \in Busy, t.user = tx[b].user, t.review = tx[b].review,
         \/ voteLock' = voteLock
         \/ voteLock[Key(b)] = Nobody /\ voteLock' = [voteLock EXCEPT ![Key(b)] = b],
         \/ rowLock' = rowLock
         \/ ReviewRowFree(b) /\ rowLock' = [rowLock EXCEPT ![tx[b].review] = b],
         SessionOK(b)'
  PROVE  IInv'
  <1>1. TypeOK'
    <2>1. voteLock' \in [LockKeys -> Backends \union {Nobody}]
      BY DEF IInv, TypeOK
    <2>2. rowLock' \in [Reviews -> Backends \union {Nobody}]
      BY DEF IInv, TypeOK
    <2>3. tx' \in [Backends -> TxRecord]
      BY DEF IInv, TypeOK
    <2>4. \A c \in Backends : tx'[c].pc \in Busy => tx'[c].user \in Users /\ tx'[c].review \in Reviews
      BY DEF IInv, TypeOK
    <2>5. QED
      BY <2>1, <2>2, <2>3, <2>4 DEF IInv, TypeOK, dbVars
  <1>2. SessionInv'
    <2> SUFFICES ASSUME NEW c \in Backends, c # b PROVE SessionOK(c)'
      BY DEF SessionInv
    <2>1. tx'[c] = tx[c] /\ SessionOK(c) /\ c # Nobody
      BY VotingAssumption DEF IInv, TypeOK, SessionInv
    <2>2. ASSUME tx[c].pc \in Locked PROVE voteLock'[Key(c)] = voteLock[Key(c)]
      <3>1. voteLock[Key(c)] = c
        BY <2>1, <2>2 DEF SessionOK, HoldsLock
      <3>2. Key(c) \in LockKeys
        BY <2>2, KeyType DEF IInv, Busy
      <3>3. QED
        BY <2>1, <3>1, <3>2 DEF IInv, TypeOK
    <2>3. ASSUME tx[c].delta # NoDelta PROVE rowLock'[tx[c].review] = rowLock[tx[c].review]
      <3>1. rowLock[tx[c].review] = c /\ tx[c].review \in Reviews
        BY <2>1, <2>3, DeltaMeansBusy DEF SessionOK, IInv
      <3>2. QED
        BY <2>1, <3>1 DEF IInv, TypeOK, ReviewRowFree
    <2>4. QED
      BY <2>1, <2>2, <2>3, OtherSession DEF dbVars
  <1>3. CountersConsistent'
    BY DEF IInv, CountersConsistent, dbVars, Count
  <1>4. QED
    BY <1>1, <1>2, <1>3 DEF IInv

LEMMA ExistsInv == ASSUME IInv, NEW b \in Backends, Exists(b) PROVE IInv'
  <1>1. CASE tx[b].review \notin reviews
    BY <1>1, AnswerInv DEF Exists
  <1>2. CASE tx[b].review \in reviews
    <2> DEFINE t == [tx[b] EXCEPT !.pc = "lock"]
    <2>1. tx' = [tx EXCEPT ![b] = t] /\ UNCHANGED <<dbVars, lockVars>> /\ tx[b].pc = "exists"
      BY <1>2 DEF Exists, Goto
    <2>2. t \in TxRecord /\ tx[b] \in TxRecord
      <3>1. tx[b] \in TxRecord
        BY DEF IInv, TypeOK
      <3>2. QED
        BY <3>1 DEF TxRecord, Busy
    <2>3. SessionOK(b)'
      <3>1. tx'[b] = t /\ SessionOK(b)
        BY <2>1 DEF IInv, TypeOK, SessionInv
      <3>2. /\ t.pc = "lock" /\ t.row = Untouched /\ t.delta = NoDelta
            /\ t.kind = "voteReview" => t.action \in VoteAction
        BY <3>1, <2>1, <2>2 DEF SessionOK, Progress, TxRecord
      <3>3. Progress(b)'
        BY <3>1, <3>2 DEF Progress
      <3>4. t.review \in reviews'
        BY <1>2, <2>1, <2>2 DEF TxRecord, dbVars
      <3>5. QED
        BY <3>1, <3>2, <3>3, <3>4 DEF SessionOK, Locked
    <2>4. QED
      BY <2>1, <2>2, <2>3, StatementInv DEF TxRecord, Busy, lockVars
  <1>3. QED
    BY <1>1, <1>2

LEMMA TryLockInv == ASSUME IInv, NEW b \in Backends, TryLock(b) PROVE IInv'
  <1>1. CASE voteLock[Key(b)] # Nobody
    BY <1>1, AnswerInv DEF TryLock
  <1>2. CASE voteLock[Key(b)] = Nobody
    <2> DEFINE t == [tx[b] EXCEPT !.pc = "find"]
    <2>1. /\ tx' = [tx EXCEPT ![b] = t] /\ tx[b].pc = "lock"
          /\ voteLock' = [voteLock EXCEPT ![Key(b)] = b]
          /\ UNCHANGED <<dbVars, rowLock>>
      BY <1>2 DEF TryLock, Goto
    <2>2. t \in TxRecord /\ tx[b] \in TxRecord
      <3>1. "find" \in Busy
        BY DEF Busy, Locked
      <3>2. tx[b] \in TxRecord
        BY DEF IInv, TypeOK
      <3>3. QED
        BY <3>1, <3>2 DEF TxRecord
    <2>3. HoldsLock(b)'
      <3>1. Key(b)' = Key(b)
        BY <2>1, <2>2 DEF IInv, TypeOK, TxRecord, Key
      <3>2. Key(b) \in LockKeys
        BY <2>1, KeyType DEF IInv, Busy
      <3>3. QED
        BY <2>1, <3>1, <3>2 DEF IInv, TypeOK, HoldsLock
    <2>4. SessionOK(b)'
      <3>1. tx'[b] = t /\ SessionOK(b)
        BY <2>1 DEF IInv, TypeOK, SessionInv
      <3>2. Progress(b)' /\ t.delta = NoDelta
        BY <3>1, <2>1, <2>2 DEF SessionOK, Progress, TxRecord
      <3>3. t.review \in reviews'
        BY <3>1, <2>1, <2>2 DEF TxRecord, SessionOK, dbVars
      <3>4. QED
        BY <2>3, <3>1, <3>2, <3>3, <2>2 DEF SessionOK, TxRecord, Locked
    <2>5. QED
      BY <1>2, <2>1, <2>2, <2>4, StatementInv DEF TxRecord, Busy, Locked
  <1>3. QED
    BY <1>1, <1>2

LEMMA FindInv == ASSUME IInv, NEW b \in Backends, Find(b) PROVE IInv'
  <1> DEFINE previous == vote[tx[b].review][tx[b].user]
             t == [tx[b] EXCEPT !.pc = AfterFind(b, previous), !.prev = previous]
  <1>1. tx[b] \in TxRecord /\ tx[b].user \in Users /\ tx[b].review \in Reviews /\ SessionOK(b)
    BY DEF Find, IInv, TypeOK, Busy, Locked, SessionInv
  <1>2. previous \in VoteAction \union {NoVote}
    BY <1>1 DEF IInv, TypeOK
  <1>3. AfterFind(b, previous) \in {"commit", "insert", "delete"}
    BY DEF AfterFind
  <1>4. t \in TxRecord /\ t.pc \in Busy
    BY <1>1, <1>2, <1>3 DEF TxRecord, Busy, Locked
  <1>5. tx' = [tx EXCEPT ![b] = t] /\ tx'[b] = t /\ UNCHANGED <<dbVars, lockVars>>
    BY DEF Find, IInv, TypeOK
  <1>6. /\ tx[b].pc = "find" /\ tx[b].row = Untouched /\ tx[b].delta = NoDelta
        /\ tx[b].kind = "voteReview" => tx[b].action \in VoteAction
    BY <1>1 DEF Find, SessionOK, Progress
  <1>7. Progress(b)'
    <2>1. /\ t.pc = AfterFind(b, previous) /\ t.prev = previous /\ t.row = Untouched
          /\ t.delta = NoDelta /\ t.kind = tx[b].kind /\ t.action = tx[b].action
      BY <1>1, <1>6 DEF TxRecord
    <2>2. CASE previous = tx[b].action
      <3>1. t.pc = "commit"
        BY <2>1, <2>2 DEF AfterFind
      <3>2. QED
        BY <2>1, <3>1, <1>5, <1>6 DEF Progress
    <2>3. CASE previous # tx[b].action /\ previous = NoVote
      <3>1. t.pc = "insert" /\ t.action \in VoteAction /\ t.prev = NoVote
        BY <1>1, <2>1, <2>3 DEF AfterFind, TxRecord
      <3>2. t.delta = OwedDelta(NoVote, NoVote)
        BY <2>1 DEF OwedDelta, NoDelta, NoVote, VoteAction
      <3>3. QED
        BY <2>1, <2>3, <3>1, <3>2, <1>5, <1>6 DEF Progress
    <2>4. CASE previous # tx[b].action /\ previous # NoVote
      <3>1. t.pc = "delete" /\ t.prev \in VoteAction
        BY <1>2, <2>1, <2>4 DEF AfterFind
      <3>2. QED
        BY <2>1, <2>4, <3>1, <1>5, <1>6 DEF Progress
    <2>5. QED
      BY <2>2, <2>3, <2>4
  <1>8. SessionOK(b)'
    <2>1. HoldsLock(b)' /\ t.review \in reviews'
      BY <1>1, <1>5, <1>6 DEF SessionOK, HoldsLock, Key, TxRecord, Locked, lockVars, dbVars
    <2>2. t.prev = vote'[t.review][t.user] /\ t.delta = NoDelta
      BY <1>1, <1>5, <1>6 DEF TxRecord, dbVars
    <2>3. QED
      BY <1>5, <1>7, <2>1, <2>2 DEF SessionOK
  <1>9. QED
    BY <1>1, <1>4, <1>5, <1>6, <1>8, StatementInv DEF TxRecord, Busy, Locked, lockVars

LEMMA DeleteInv == ASSUME IInv, NEW b \in Backends, Delete(b) PROVE IInv'
  <1> DEFINE t == [tx[b] EXCEPT !.pc = "decrement", !.row = NoVote]
  <1>1. tx[b] \in TxRecord /\ SessionOK(b) /\ tx[b].pc = "delete"
    BY DEF Delete, IInv, TypeOK, SessionInv
  <1>2. /\ tx[b].prev = vote[tx[b].review][tx[b].user] /\ tx[b].prev \in VoteAction
        /\ tx[b].delta = NoDelta /\ tx[b].prev # tx[b].action
        /\ tx[b].kind = "voteReview" => tx[b].action \in VoteAction
    BY <1>1 DEF SessionOK, Progress, Locked
  <1>3. tx' = [tx EXCEPT ![b] = t] /\ tx'[b] = t /\ UNCHANGED <<dbVars, lockVars>>
    BY <1>2 DEF Delete, IInv, TypeOK
  <1>4. t \in TxRecord /\ t.pc \in Busy
    BY <1>1 DEF TxRecord, Busy, Locked
  <1>5. SessionOK(b)'
    <2>1. HoldsLock(b)' /\ t.review \in reviews'
      BY <1>1, <1>3 DEF SessionOK, HoldsLock, Key, TxRecord, Locked, lockVars, dbVars
    <2>2. t.prev = vote'[t.review][t.user] /\ t.delta = NoDelta
      BY <1>1, <1>2, <1>3 DEF TxRecord, dbVars
    <2>3. Progress(b)'
      <3>1. t.pc = "decrement" /\ t.row = NoVote /\ t.prev \in VoteAction
            /\ t.prev # t.action /\ t.kind = tx[b].kind /\ t.action = tx[b].action
        BY <1>1, <1>2 DEF TxRecord
      <3>2. QED
        BY <3>1, <2>2, <1>2, <1>3 DEF Progress
    <2>4. QED
      BY <1>3, <2>1, <2>2, <2>3 DEF SessionOK
  <1>6. QED
    BY <1>1, <1>3, <1>4, <1>5, StatementInv DEF TxRecord, Busy, Locked, lockVars

LEMMA InsertInv == ASSUME IInv, NEW b \in Backends, Inserted(b) PROVE IInv'
  <1> DEFINE t == [tx[b] EXCEPT !.pc = "increment", !.row = tx[b].action]
  <1>1. tx[b] \in TxRecord /\ SessionOK(b) /\ tx[b].pc = "insert"
    BY DEF Inserted, IInv, TypeOK, SessionInv
  <1>2. /\ tx[b].action \in VoteAction /\ tx[b].prev # tx[b].action
        /\ tx[b].delta = OwedDelta(tx[b].prev, NoVote)
    BY <1>1 DEF SessionOK, Progress
  <1>3. tx' = [tx EXCEPT ![b] = t] /\ tx'[b] = t /\ UNCHANGED <<dbVars, lockVars>>
    BY DEF Inserted, IInv, TypeOK
  <1>4. t \in TxRecord /\ t.pc \in Busy
    BY <1>1, <1>2 DEF TxRecord, Busy, Locked
  <1>5. SessionOK(b)'
    <2>1. HoldsLock(b)' /\ t.review \in reviews'
      BY <1>1, <1>3 DEF SessionOK, HoldsLock, Key, TxRecord, Locked, lockVars, dbVars
    <2>2. t.prev = vote'[t.review][t.user]
      BY <1>1, <1>3 DEF SessionOK, Locked, TxRecord, dbVars
    <2>3. t.delta # NoDelta => rowLock'[t.review] = b
      BY <1>1, <1>3 DEF SessionOK, TxRecord, lockVars
    <2>4. Progress(b)'
      <3>1. /\ t.pc = "increment" /\ t.row = t.action /\ t.action \in VoteAction
            /\ t.prev # t.action /\ t.delta = OwedDelta(t.prev, NoVote)
        BY <1>1, <1>2 DEF TxRecord
      <3>2. QED
        BY <3>1, <1>3 DEF Progress
    <2>5. QED
      BY <1>3, <2>1, <2>2, <2>3, <2>4 DEF SessionOK
  <1>6. QED
    BY <1>1, <1>3, <1>4, <1>5, StatementInv DEF TxRecord, Busy, Locked, lockVars

\* UPDATE review on a review that exists.
LEMMA UpdateCounterFacts ==
  ASSUME TypeOK, NEW b \in Backends, tx[b].pc \in Busy, tx[b].review \in reviews,
         NEW a \in VoteAction, NEW n \in Int, NEW pc \in Busy, UpdateCounter(b, a, n, pc)
  PROVE  LET t == [tx[b] EXCEPT !.pc = pc, !.delta = [tx[b].delta EXCEPT ![a] = @ + n]]
         IN /\ tx' = [tx EXCEPT ![b] = t] /\ tx'[b] = t /\ t \in TxRecord
            /\ rowLock' = [rowLock EXCEPT ![tx[b].review] = b]
            /\ rowLock'[tx[b].review] = b
  <1> DEFINE t == [tx[b] EXCEPT !.pc = pc, !.delta = [tx[b].delta EXCEPT ![a] = @ + n]]
  <1>1. tx[b] \in TxRecord
    BY DEF TypeOK
  <1>2. tx' = [tx EXCEPT ![b] = t] /\ rowLock' = [rowLock EXCEPT ![tx[b].review] = b]
    BY <1>1 DEF UpdateCounter, TxRecord
  <1>3. t \in TxRecord
    <2>1. [tx[b].delta EXCEPT ![a] = @ + n] \in [VoteAction -> Int]
      BY <1>1 DEF TxRecord
    <2>2. QED
      BY <1>1, <2>1 DEF TxRecord
  <1>4. QED
    BY <1>2, <1>3 DEF TypeOK

LEMMA DecrementInv == ASSUME IInv, NEW b \in Backends, Decremented(b) PROVE IInv'
  <1> DEFINE pc == AfterDecrement(b)
             t == [tx[b] EXCEPT !.pc = pc,
                                !.delta = [tx[b].delta EXCEPT ![tx[b].prev] = @ + (-1)]]
  <1>1. tx[b] \in TxRecord /\ SessionOK(b) /\ tx[b].pc = "decrement" /\ pc \in Busy
    BY DEF Decremented, AfterDecrement, IInv, TypeOK, SessionInv, Busy, Locked
  <1>2. /\ tx[b].prev \in VoteAction /\ tx[b].prev # tx[b].action /\ tx[b].row = NoVote
        /\ tx[b].delta = NoDelta /\ tx[b].review \in reviews
        /\ tx[b].kind = "voteReview" => tx[b].action \in VoteAction
    BY <1>1 DEF SessionOK, Progress, Locked
  <1>3. /\ tx' = [tx EXCEPT ![b] = t] /\ tx'[b] = t /\ t \in TxRecord
        /\ rowLock' = [rowLock EXCEPT ![tx[b].review] = b]
        /\ rowLock'[tx[b].review] = b
    <2>1. UpdateCounter(b, tx[b].prev, -1, pc) /\ TypeOK /\ -1 \in Int /\ tx[b].pc \in Busy
      BY <1>1 DEF Decremented, IInv, Busy, Locked
    <2> HIDE DEF pc
    <2>2. QED
      BY <1>1, <1>2, <2>1, UpdateCounterFacts
  <1>4. ReviewRowFree(b) /\ UNCHANGED <<dbVars, voteLock>>
    BY DEF Decremented
  <1>5. t.delta = OwedDelta(tx[b].prev, NoVote)
    <2>1. t.delta = [NoDelta EXCEPT ![tx[b].prev] = @ + (-1)]
      BY <1>1, <1>2 DEF TxRecord
    <2>2. QED
      BY <1>2, <2>1 DEF OwedDelta, NoDelta, NoVote, VoteAction
  <1>6. SessionOK(b)'
    <2>1. /\ t.pc = pc /\ t.kind = tx[b].kind /\ t.user = tx[b].user /\ t.review = tx[b].review
          /\ t.action = tx[b].action /\ t.prev = tx[b].prev /\ t.row = NoVote
      BY <1>1, <1>2 DEF TxRecord
    <2>2. HoldsLock(b)' /\ t.review \in reviews'
      BY <1>1, <1>2, <1>3, <1>4, <2>1 DEF SessionOK, HoldsLock, Key, Locked, dbVars
    <2>3. t.prev = vote'[t.review][t.user] /\ rowLock'[t.review] = b
      BY <1>1, <1>3, <1>4, <2>1 DEF SessionOK, Locked, dbVars
    <2>4. Progress(b)'
      <3>1. t.prev # NoVote /\ NoVote # Untouched
        BY <1>2, <2>1 DEF VoteAction, NoVote, Untouched
      <3>2. CASE tx[b].kind = "voteReview"
        <4>1. t.pc = "insert" /\ t.action \in VoteAction /\ t.prev # t.action
          BY <1>2, <2>1, <3>2 DEF AfterDecrement
        <4>2. t.delta = OwedDelta(t.prev, NoVote)
          BY <1>5, <2>1
        <4>3. tx'[b] = t /\ t.row = NoVote /\ t.prev # NoVote
          BY <1>3, <2>1, <3>1
        <4> HIDE DEF t
        <4>4. QED
          BY <4>1, <4>2, <4>3 DEF Progress
      <3>3. CASE tx[b].kind # "voteReview"
        <4>1. t.pc = "commit" /\ t.kind # "voteReview"
          BY <2>1, <3>3 DEF AfterDecrement
        <4>2. t.delta = OwedDelta(t.prev, t.row) /\ t.row # Untouched
          BY <1>5, <2>1, <3>1
        <4>3. tx'[b] = t
          BY <1>3
        <4> HIDE DEF t
        <4>4. QED
          BY <4>1, <4>2, <4>3 DEF Progress
      <3>4. QED
        BY <3>2, <3>3
    <2>5. QED
      BY <1>3, <2>2, <2>3, <2>4 DEF SessionOK
  <1>7. QED
    BY <1>1, <1>3, <1>4, <1>6, StatementInv DEF TxRecord, Busy, Locked

LEMMA IncrementInv == ASSUME IInv, NEW b \in Backends, Increment(b) PROVE IInv'
  <1> DEFINE t == [tx[b] EXCEPT !.pc = "commit",
                                !.delta = [tx[b].delta EXCEPT ![tx[b].action] = @ + 1]]
  <1>1. /\ tx[b] \in TxRecord /\ SessionOK(b) /\ tx[b].pc = "increment"
        /\ "increment" \in Busy /\ "commit" \in Busy
    BY DEF Increment, IInv, TypeOK, SessionInv, Busy, Locked
  <1>2. /\ tx[b].action \in VoteAction /\ tx[b].prev # tx[b].action /\ tx[b].row = tx[b].action
        /\ tx[b].delta = OwedDelta(tx[b].prev, NoVote) /\ tx[b].review \in reviews
    BY <1>1 DEF SessionOK, Progress, Locked
  <1>3. /\ tx' = [tx EXCEPT ![b] = t] /\ tx'[b] = t /\ t \in TxRecord
        /\ rowLock' = [rowLock EXCEPT ![tx[b].review] = b]
        /\ rowLock'[tx[b].review] = b
    <2>1. UpdateCounter(b, tx[b].action, 1, "commit") /\ TypeOK /\ 1 \in Int /\ tx[b].pc \in Busy
      BY <1>1 DEF Increment, IInv
    <2>2. QED
      BY <1>1, <1>2, <2>1, UpdateCounterFacts
  <1>4. ReviewRowFree(b) /\ UNCHANGED <<dbVars, voteLock>>
    BY DEF Increment
  <1>5. t.delta = OwedDelta(tx[b].prev, tx[b].action)
    <2>1. t.delta = [OwedDelta(tx[b].prev, NoVote) EXCEPT ![tx[b].action] = @ + 1]
      BY <1>1, <1>2 DEF TxRecord
    <2>2. QED
      BY <1>2, <2>1 DEF OwedDelta, NoVote, VoteAction
  <1>6. SessionOK(b)'
    <2>1. /\ t.pc = "commit" /\ t.kind = tx[b].kind /\ t.user = tx[b].user /\ t.review = tx[b].review
          /\ t.action = tx[b].action /\ t.prev = tx[b].prev /\ t.row = tx[b].action
      BY <1>1, <1>2 DEF TxRecord
    <2>2. HoldsLock(b)' /\ t.review \in reviews'
      BY <1>1, <1>2, <1>3, <1>4, <2>1 DEF SessionOK, HoldsLock, Key, Locked, dbVars
    <2>3. t.prev = vote'[t.review][t.user] /\ rowLock'[t.review] = b
      BY <1>1, <1>3, <1>4, <2>1 DEF SessionOK, Locked, dbVars
    <2>4. Progress(b)'
      <3>1. t.row # Untouched
        BY <1>2, <2>1 DEF VoteAction, Untouched
      <3>2. QED
        BY <1>2, <1>3, <1>5, <2>1, <3>1 DEF Progress
    <2>5. QED
      BY <1>3, <2>2, <2>3, <2>4 DEF SessionOK
  <1>7. QED
    BY <1>1, <1>3, <1>4, <1>6, StatementInv DEF TxRecord

\* The vote b's transaction has replaced, and by how much it has moved the
\* counters of its review, when it commits.
LEMMA CommitFacts ==
  ASSUME IInv, NEW b \in Backends, tx[b].pc = "commit"
  PROVE  LET r == tx[b].review
             u == tx[b].user
             x == IF tx[b].row = Untouched THEN vote[r][u] ELSE tx[b].row
         IN /\ r \in Reviews /\ u \in Users /\ x \in VoteAction \union {NoVote}
            /\ \A a \in VoteAction : tx[b].delta[a] =
                 (IF x = a THEN 1 ELSE 0) - (IF vote[r][u] = a THEN 1 ELSE 0)
            /\ Commit(b) => vote' = [vote EXCEPT ![r][u] = x]
  <1> DEFINE r == tx[b].review
             u == tx[b].user
             x == IF tx[b].row = Untouched THEN vote[r][u] ELSE tx[b].row
  <1>1. /\ r \in Reviews /\ u \in Users /\ tx[b] \in TxRecord /\ SessionOK(b)
        /\ vote \in [Reviews -> [Users -> VoteAction \union {NoVote}]]
    BY DEF IInv, TypeOK, Busy, Locked, SessionInv
  <1>2. tx[b].prev = vote[r][u]
    BY <1>1 DEF SessionOK, Locked
  <1>3. x \in VoteAction \union {NoVote}
    BY <1>1 DEF TxRecord
  <1>4. ASSUME NEW a \in VoteAction
        PROVE  tx[b].delta[a] = (IF x = a THEN 1 ELSE 0) - (IF vote[r][u] = a THEN 1 ELSE 0)
    <2>1. CASE tx[b].row = Untouched /\ tx[b].delta = NoDelta
      BY <2>1 DEF NoDelta
    <2>2. CASE tx[b].row # Untouched /\ tx[b].delta = OwedDelta(tx[b].prev, tx[b].row)
      BY <2>2, <1>2 DEF OwedDelta
    <2>3. QED
      BY <1>1, <2>1, <2>2 DEF SessionOK, Progress
  <1>5. ASSUME Commit(b) PROVE vote' = [vote EXCEPT ![r][u] = x]
    <2>1. CASE tx[b].row = Untouched
      <3>1. vote' = vote
        BY <1>5, <2>1 DEF Commit
      <3>2. QED
        BY <3>1, <2>1, <1>1
    <2>2. CASE tx[b].row # Untouched
      BY <1>5, <2>2 DEF Commit
    <2>3. QED
      BY <2>1, <2>2
  <1>6. QED
    BY <1>1, <1>3, <1>4, <1>5

\* Committing keeps every counter equal to its votes.
LEMMA CommitConsistent ==
  ASSUME IInv, NEW b \in Backends, Commit(b)
  PROVE  /\ CountersConsistent'
         /\ tally' \in [Reviews -> [VoteAction -> Nat]]
  <1> DEFINE r == tx[b].review
             u == tx[b].user
             x == IF tx[b].row = Untouched THEN vote[r][u] ELSE tx[b].row
  <1>1. /\ r \in Reviews /\ u \in Users /\ x \in VoteAction \union {NoVote}
        /\ \A a \in VoteAction : tx[b].delta[a] =
             (IF x = a THEN 1 ELSE 0) - (IF vote[r][u] = a THEN 1 ELSE 0)
        /\ vote' = [vote EXCEPT ![r][u] = x]
    BY CommitFacts DEF Commit
  <1>2. /\ vote \in [Reviews -> [Users -> VoteAction \union {NoVote}]]
        /\ tally \in [Reviews -> [VoteAction -> Nat]]
        /\ tally' = [tally EXCEPT ![r] = [a \in VoteAction |-> @[a] + tx[b].delta[a]]]
    BY DEF IInv, TypeOK, Commit
  <1> HIDE DEF r, u, x
  <1>3. ASSUME NEW q \in Reviews, NEW a \in VoteAction
        PROVE  tally'[q][a] = Count(vote'[q], a)
    <2>1. tally[q][a] = Count(vote[q], a)
      BY DEF IInv, CountersConsistent
    <2>2. CASE q # r
      BY <1>1, <1>2, <2>1, <2>2
    <2>3. CASE q = r
      <3>1. vote[r] \in [Users -> VoteAction \union {NoVote}]
        BY <1>1, <1>2
      <3>2. vote'[r] = [vote[r] EXCEPT ![u] = x]
        BY <1>1, <1>2
      <3>3. Count([vote[r] EXCEPT ![u] = x], a) = Count(vote[r], a)
              + ((IF x = a THEN 1 ELSE 0) - (IF vote[r][u] = a THEN 1 ELSE 0))
        BY <1>1, <3>1, CountUpdate
      <3>4. tally'[r][a] = tally[r][a] + tx[b].delta[a]
        BY <1>1, <1>2
      <3>5. tx[b].delta[a] = (IF x = a THEN 1 ELSE 0) - (IF vote[r][u] = a THEN 1 ELSE 0)
        BY <1>1
      <3>6. QED
        BY <2>1, <2>3, <3>2, <3>3, <3>4, <3>5
    <2>4. QED
      BY <2>2, <2>3
  <1>4. DOMAIN tally' = Reviews /\ \A q \in Reviews : DOMAIN tally'[q] = VoteAction
    BY <1>1, <1>2
  <1>5. tally' \in [Reviews -> [VoteAction -> Nat]]
    <2>1. \A q \in Reviews, a \in VoteAction : tally'[q][a] \in Nat
      BY <1>3, CountIsNat
    <2>2. \A q \in Reviews : tally'[q] = [a \in VoteAction |-> tally'[q][a]]
      BY <1>1, <1>2
    <2>3. tally' = [q \in Reviews |-> tally'[q]]
      BY <1>2
    <2>4. \A q \in Reviews : tally'[q] \in [VoteAction -> Nat]
      BY <2>1, <2>2
    <2>5. QED
      BY <2>3, <2>4
  <1>6. CountersConsistent'
    BY <1>3 DEF CountersConsistent, Count
  <1>7. QED
    BY <1>5, <1>6

\* Another session keeps its vote row while b commits: had both a vote of the
\* same user and review in hand they would hold the same advisory lock.
LEMMA CommitOther ==
  ASSUME IInv, NEW b \in Backends, Commit(b), NEW c \in Backends, c # b
  PROVE  SessionOK(c)'
  <1>1. SessionOK(b) /\ SessionOK(c) /\ tx'[c] = tx[c] /\ reviews' = reviews /\ tx[b].pc = "commit"
    BY DEF Commit, Answer, IInv, TypeOK, SessionInv
  <1>2. ASSUME tx[c].pc \in Locked PROVE voteLock'[Key(c)] = voteLock[Key(c)]
    <2>1. voteLock[Key(c)] = c /\ Key(c) \in LockKeys
      BY <1>1, <1>2, KeyType DEF SessionOK, HoldsLock, IInv, Busy
    <2>2. QED
      BY <2>1, ReleaseKeeps DEF Commit, Answer, IInv, TypeOK
  <1>3. ASSUME tx[c].pc \in Locked
        PROVE  vote'[tx[c].review][tx[c].user] = vote[tx[c].review][tx[c].user]
    <2> DEFINE r == tx[b].review
               u == tx[b].user
    <2>1. tx[c].review # r \/ tx[c].user # u
      BY <1>1, <1>3 DEF SessionOK, HoldsLock, Key, Locked
    <2>2. PICK x : vote' = [vote EXCEPT ![r][u] = x]
      BY <1>1, CommitFacts
    <2>3. tx[c].review \in Reviews /\ tx[c].user \in Users
      BY <1>3 DEF IInv, TypeOK, Busy
    <2>4. QED
      BY <2>1, <2>2, <2>3 DEF IInv, TypeOK
  <1>4. ASSUME tx[c].delta # NoDelta PROVE rowLock'[tx[c].review] = rowLock[tx[c].review]
    <2>1. tx[c].review \in Reviews /\ rowLock[tx[c].review] = c
      BY <1>1, <1>4, DeltaMeansBusy DEF IInv, SessionOK
    <2>2. QED
      BY <2>1, ReleaseKeeps DEF Commit, Answer, IInv, TypeOK
  <1>5. QED
    BY <1>1, <1>2, <1>3, <1>4, OtherSession

LEMMA CommitInv == ASSUME IInv, NEW b \in Backends, Commit(b) PROVE IInv'
  <1>1. CommitReply(b) \in {"true", "false"}
    BY DEF CommitReply
  <1> DEFINE t == Idle(CommitReply(b))
  <1>2. t \in TxRecord /\ t.pc = "idle"
    BY <1>1, IdleType DEF Idle
  <1>3. tx' = [tx EXCEPT ![b] = t] /\ tx'[b] = t /\ UNCHANGED <<accounts, reviews>>
    BY DEF Commit, Answer, IInv, TypeOK
  <1>4. TypeOK'
    <2>1. vote' \in [Reviews -> [Users -> VoteAction \union {NoVote}]]
      <3> DEFINE r == tx[b].review
                 u == tx[b].user
                 x == IF tx[b].row = Untouched THEN vote[r][u] ELSE tx[b].row
      <3>1. /\ r \in Reviews /\ u \in Users /\ x \in VoteAction \union {NoVote}
            /\ vote' = [vote EXCEPT ![r][u] = x]
        BY CommitFacts DEF Commit
      <3> HIDE DEF r, u, x
      <3>2. QED
        BY <3>1 DEF IInv, TypeOK
    <2>2. tally' \in [Reviews -> [VoteAction -> Nat]]
      BY CommitConsistent
    <2>3. /\ voteLock' \in [LockKeys -> Backends \union {Nobody}]
          /\ rowLock' \in [Reviews -> Backends \union {Nobody}]
      BY ReleaseKeeps DEF Commit, Answer, IInv, TypeOK
    <2>4. tx' \in [Backends -> TxRecord]
      BY <1>2, <1>3 DEF IInv, TypeOK
    <2>5. \A c \in Backends : tx'[c].pc \in Busy => tx'[c].user \in Users /\ tx'[c].review \in Reviews
      BY <1>2, <1>3 DEF IInv, TypeOK, Busy, Locked
    <2>6. QED
      BY <1>3, <2>1, <2>2, <2>3, <2>4, <2>5 DEF IInv, TypeOK
  <1>5. SessionInv'
    <2> SUFFICES ASSUME NEW c \in Backends PROVE SessionOK(c)'
      BY DEF SessionInv
    <2>1. CASE c = b
      <3>1. t.row = Untouched /\ t.delta = NoDelta /\ t.kind = "none"
        BY DEF Idle
      <3>2. Progress(b)'
        BY <1>2, <1>3, <3>1 DEF Progress
      <3>3. QED
        BY <1>2, <1>3, <2>1, <3>1, <3>2 DEF SessionOK, Locked
    <2>2. CASE c # b
      BY <2>2, CommitOther
    <2>3. QED
      BY <2>1, <2>2
  <1>6. QED
    BY <1>4, <1>5, CommitConsistent DEF IInv

-----------------------------------------------------------------------------
(* The theorems.                                                           *)

LEMMA InitInv == ASSUME VotingInit PROVE IInv
  <1>1. TypeOK
    <2>1. Idle("none") \in TxRecord
      BY IdleType
    <2>2. QED
      BY <2>1 DEF VotingInit, TypeOK, Idle, Busy, Locked
  <1>2. SessionInv
    <2> SUFFICES ASSUME NEW b \in Backends PROVE SessionOK(b)
      BY DEF SessionInv
    <2>1. tx[b] = Idle("none")
      BY DEF VotingInit
    <2>2. Progress(b)
      BY <2>1 DEF Progress, Idle
    <2>3. QED
      BY <2>1, <2>2 DEF SessionOK, Idle, Locked
  <1>3. CountersConsistent
    <2> SUFFICES ASSUME NEW r \in Reviews, NEW a \in VoteAction PROVE tally[r][a] = Count(vote[r], a)
      BY DEF CountersConsistent
    <2>1. {u \in Users : vote[r][u] = a} = {}
      BY DEF VotingInit, VoteAction, NoVote
    <2>2. Count(vote[r], a) = 0
      BY <2>1, FS_EmptySet DEF Count
    <2>3. QED
      BY <2>2 DEF VotingInit
  <1>4. QED
    BY <1>1, <1>2, <1>3 DEF IInv

LEMMA NextInv == ASSUME IInv, [VotingNext]_votingVars PROVE IInv'
  <1>1. CASE UNCHANGED votingVars
    <2>1. UNCHANGED <<accounts, reviews, vote, tally, tx, voteLock, rowLock>>
      BY <1>1 DEF votingVars, dbVars, lockVars
    <2>2. TypeOK' /\ CountersConsistent'
      BY <2>1 DEF IInv, TypeOK, CountersConsistent, Count
    <2>3. SessionInv'
      BY <2>1 DEF IInv, SessionInv, SessionOK, HoldsLock, Key, Progress
    <2>4. QED
      BY <2>2, <2>3 DEF IInv
  <1>2. ASSUME NEW b \in Backends, Begin(b) \/ Step(b) \/ Abort(b) PROVE IInv'
    <2>1. CASE Begin(b) \/ Exists(b) \/ TryLock(b) \/ Find(b) \/ Delete(b)
      BY <2>1, BeginInv, ExistsInv, TryLockInv, FindInv, DeleteInv
    <2>2. CASE Decremented(b) \/ Inserted(b) \/ Increment(b) \/ Commit(b)
      BY <2>2, DecrementInv, InsertInv, IncrementInv, CommitInv
    <2>3. CASE Refuse(b) \/ Abort(b)
      BY <2>3, AnswerInv DEF Refuse, Abort
    <2>4. QED
      BY <1>2, <2>1, <2>2, <2>3, StepSplits
  <1>3. QED
    BY <1>1, <1>2 DEF VotingNext

(* Between any two statements every session of the votes component is      *)
(* consistent with the committed rows, and the counters equal the votes.   *)
THEOREM Invariance == VotingSpec => []IInv
  <1>1. VotingInit => IInv
    BY InitInv
  <1>2. IInv /\ [VotingNext]_votingVars => IInv'
    BY NextInv
  <1>3. QED
    BY <1>1, <1>2, PTL DEF VotingSpec

(* Type correctness, with counters that never become negative.             *)
THEOREM TypeCorrect == VotingSpec => []TypeOK
  <1>1. IInv => TypeOK
    BY DEF IInv
  <1>2. QED
    BY <1>1, Invariance, PTL

(* upvotes and downvotes always equal the votes recorded: voteReview and   *)
(* deleteVote never make them drift, for any number of users, reviews and  *)
(* sessions and any collisions of hashtext().                              *)
THEOREM Consistency == VotingSpec => []CountersConsistent
  <1>1. IInv => CountersConsistent
    BY DEF IInv
  <1>2. QED
    BY <1>1, Invariance, PTL

(* The transaction-scoped lock does what VotesService relies on: between   *)
(* two statements a session past pg_try_advisory_xact_lock still holds it, *)
(* the vote it read is the committed one, and what it has written is what  *)
(* its next statement supposes, however the other sessions interleave.     *)
THEOREM SessionsSound == VotingSpec => []SessionInv
  <1>1. IInv => SessionInv
    BY DEF IInv
  <1>2. QED
    BY <1>1, Invariance, PTL

-----------------------------------------------------------------------------
(* No statement is refused.                                                *)

LEMMA NothingViolated ==
  ASSUME IInv, accounts = Users, NEW b \in Backends
  PROVE  ~ConstraintViolated(b)
  <1>1. SessionOK(b) /\ TypeOK
    BY DEF IInv, SessionInv
  <1>2. CASE tx[b].pc = "decrement"
    <2> DEFINE r == tx[b].review
               u == tx[b].user
    <2>1. /\ r \in Reviews /\ u \in Users /\ tx[b].prev = vote[r][u]
          /\ tx[b].prev \in VoteAction /\ tx[b].delta = NoDelta
      BY <1>1, <1>2 DEF SessionOK, Progress, TypeOK, Busy, Locked
    <2>2. tally[r][tx[b].prev] = Count(vote[r], vote[r][u])
      BY <2>1 DEF IInv, CountersConsistent
    <2>3. Count(vote[r], vote[r][u]) >= 1 /\ Count(vote[r], vote[r][u]) \in Nat
      BY <2>1, CountPositive, CountIsNat
    <2>4. SeenTally(b, tx[b].prev) >= 1
      BY <2>1, <2>2, <2>3 DEF SeenTally, NoDelta
    <2>5. SeenTally(b, tx[b].prev) \in Int
      BY <2>1, <2>2, <2>3 DEF SeenTally, NoDelta
    <2>6. QED
      BY <1>2, <2>4, <2>5 DEF ConstraintViolated, CounterExhausted
  <1>3. CASE tx[b].pc = "insert"
    <2>1. /\ tx[b].user \in accounts /\ tx[b].review \in reviews
          /\ tx[b].prev = vote[tx[b].review][tx[b].user]
          /\ tx[b].prev # NoVote => tx[b].row = NoVote
      BY <1>1, <1>3 DEF SessionOK, Progress, TypeOK, Busy, Locked
    <2>2. InsertAllowed(b)
      BY <2>1 DEF InsertAllowed
    <2>3. QED
      BY <1>3, <2>2 DEF ConstraintViolated
  <1>4. QED
    BY <1>2, <1>3 DEF ConstraintViolated

\* No statement of the votes component changes table account.
LEMMA AccountsFixed == VotingSpec => [](accounts = Users)
  <1>1. VotingInit => accounts = Users
    BY DEF VotingInit
  <1>2. accounts = Users /\ [VotingNext]_votingVars => (accounts = Users)'
    BY StepSplits DEF VotingNext, votingVars, dbVars, Begin, Exists, TryLock, Find, Delete,
       Decremented, Inserted, Increment, Commit, Refuse, Abort
  <1>3. QED
    BY <1>1, <1>2, PTL DEF VotingSpec

\* A step answers "constraint" only through Refuse.
LEMMA OnlyRefuse ==
  ASSUME TypeOK, [VotingNext]_votingVars, NeverRefused, \A b \in Backends : ~Refuse(b)
  PROVE  NeverRefused'
  <1> SUFFICES ASSUME NEW b \in Backends, Begin(b) \/ Step(b) \/ Abort(b),
                      NEW c \in Backends
               PROVE  tx'[c].reply # "constraint"
    BY DEF VotingNext, votingVars, NeverRefused
  <1>1. tx \in [Backends -> TxRecord] /\ tx[c].reply # "constraint" /\ tx[b].reply # "constraint"
    BY DEF TypeOK, NeverRefused
  <1>2. CASE Begin(b)
    BY <1>1, <1>2 DEF Begin, Request
  <1>3. CASE Exists(b) \/ TryLock(b)
    <2>1. PICK reply \in {"true", "false", "notFound"}, pc \in Busy :
            Answer(b, reply) \/ Goto(b, pc)
      BY <1>3 DEF Exists, TryLock, Busy, Locked
    <2>2. CASE Answer(b, reply)
      BY <1>1, <2>1, <2>2 DEF Answer, Idle
    <2>3. CASE Goto(b, pc)
      BY <1>1, <2>3 DEF Goto, TxRecord
    <2>4. QED
      BY <2>1, <2>2, <2>3
  <1>4. CASE Find(b)
    BY <1>1, <1>4 DEF Find, TxRecord
  <1>5. CASE Delete(b)
    BY <1>1, <1>5 DEF Delete, TxRecord
  <1>6. CASE Inserted(b)
    BY <1>1, <1>6 DEF Inserted, TxRecord
  <1>7. CASE Decremented(b) \/ Increment(b)
    <2>1. PICK a \in VoteAction \union {NoVote}, n \in Int, pc \in Busy : UpdateCounter(b, a, n, pc)
      <3>1. CASE Decremented(b)
        <4>1. UpdateCounter(b, tx[b].prev, -1, "insert") \/ UpdateCounter(b, tx[b].prev, -1, "commit")
          BY <3>1 DEF Decremented, AfterDecrement
        <4>2. -1 \in Int /\ "insert" \in Busy /\ "commit" \in Busy
          BY DEF Busy, Locked
        <4>3. tx[b].prev \in VoteAction \union {NoVote}
          BY <1>1 DEF TxRecord
        <4>4. QED
          BY <4>1, <4>2, <4>3
      <3>2. CASE Increment(b)
        BY <1>1, <3>2 DEF Increment, TxRecord, Busy, Locked
      <3>3. QED
        BY <1>7, <3>1, <3>2
    <2>2. CASE tx[b].review \in reviews
      BY <1>1, <2>1, <2>2 DEF UpdateCounter, TxRecord
    <2>3. CASE tx[b].review \notin reviews
      BY <1>1, <2>1, <2>3 DEF UpdateCounter, Goto, TxRecord
    <2>4. QED
      BY <2>2, <2>3
  <1>8. CASE Commit(b)
    <2>1. Answer(b, "true") \/ Answer(b, "false")
      BY <1>8 DEF Commit, CommitReply
    <2>2. QED
      BY <1>1, <2>1 DEF Answer, Idle
  <1>9. CASE Abort(b)
    BY <1>1, <1>9 DEF Abort, Answer, Idle
  <1>10. ~Refuse(b)
    OBVIOUS
  <1>11. QED
    BY <1>2, <1>3, <1>4, <1>5, <1>6, <1>7, <1>8, <1>9, <1>10, StepSplits

(* voteReview and deleteVote never run into the unique key of vote, a      *)
(* foreign key, or a CHECK constraint of review.                           *)
THEOREM NoRefusal == VotingSpec => []NeverRefused
  <1>1. VotingInit => NeverRefused
    BY DEF VotingInit, NeverRefused, Idle
  <1>2. IInv /\ accounts = Users /\ NeverRefused /\ [VotingNext]_votingVars => NeverRefused'
    <2> SUFFICES ASSUME IInv, accounts = Users, NeverRefused, [VotingNext]_votingVars
                 PROVE  NeverRefused'
      OBVIOUS
    <2>1. \A b \in Backends : ~Refuse(b)
      BY NothingViolated DEF Refuse
    <2>2. QED
      BY <2>1, OnlyRefuse DEF IInv
  <1>3. QED
    BY <1>1, <1>2, Invariance, AccountsFixed, PTL DEF VotingSpec

-----------------------------------------------------------------------------
(* Replies.                                                                *)

\* A session that holds an advisory lock is past pg_try_advisory_xact_lock.
HoldersLocked == \A k \in LockKeys, b \in Backends : voteLock[k] = b => tx[b].pc \in Locked

\* What the row of b's transaction is when it commits: the one asked for.
RowAsked(b) ==
  /\ tx[b].kind # "voteReview" => tx[b].action = NoVote
  /\ tx[b].pc = "decrement" => tx[b].row = NoVote
  /\ tx[b].pc = "commit" => IF tx[b].row = Untouched THEN tx[b].prev = tx[b].action
                            ELSE tx[b].row = tx[b].action

RepliesInv == HoldersLocked /\ \A b \in Backends : RowAsked(b)

\* The other sessions are as before a step of b.
LEMMA OthersAsked ==
  ASSUME RepliesInv, NEW b \in Backends, \A c \in Backends \ {b} : tx'[c] = tx[c],
         \A k \in LockKeys, c \in Backends \ {b} : voteLock'[k] = c => voteLock[k] = c,
         \A k \in LockKeys : voteLock'[k] = b => tx'[b].pc \in Locked,
         RowAsked(b)'
  PROVE  RepliesInv'
  <1>1. HoldersLocked'
    BY DEF RepliesInv, HoldersLocked
  <1>2. ASSUME NEW c \in Backends PROVE RowAsked(c)'
    BY DEF RepliesInv, RowAsked
  <1>3. QED
    BY <1>1, <1>2 DEF RepliesInv

\* A request that is over holds nothing.
LEMMA AnswerAsked ==
  ASSUME TypeOK, RepliesInv, NEW b \in Backends, NEW reply, Answer(b, reply)
  PROVE  RepliesInv'
  <1>1. tx' = [tx EXCEPT ![b] = Idle(reply)] /\ tx'[b] = Idle(reply)
    BY DEF Answer, TypeOK
  <1>2. RowAsked(b)'
    BY <1>1 DEF RowAsked, Idle
  <1>3. \A k \in LockKeys : voteLock'[k] = IF voteLock[k] = b THEN Nobody ELSE voteLock[k]
    BY DEF Answer, Release, TypeOK
  <1>4. \A c \in Backends : c # Nobody
    BY VotingAssumption
  <1>5. QED
    BY <1>1, <1>2, <1>3, <1>4, OthersAsked DEF TypeOK

\* A statement that leaves the locks alone.
LEMMA MovedAsked ==
  ASSUME TypeOK, RepliesInv, NEW b \in Backends, NEW t, tx' = [tx EXCEPT ![b] = t],
         voteLock' = voteLock, tx[b].pc \in Locked => t.pc \in Locked, RowAsked(b)'
  PROVE  RepliesInv'
  <1>1. tx'[b] = t /\ \A c \in Backends \ {b} : tx'[c] = tx[c]
    BY DEF TypeOK
  <1>2. \A k \in LockKeys : voteLock'[k] = b => tx'[b].pc \in Locked
    BY <1>1 DEF RepliesInv, HoldersLocked
  <1>3. QED
    BY <1>1, <1>2, OthersAsked

LEMMA RepliesStep ==
  ASSUME IInv, RepliesInv, NEW b \in Backends, Begin(b) \/ Step(b) \/ Abort(b)
  PROVE  RepliesInv'
  <1>1. TypeOK /\ tx[b] \in TxRecord /\ RowAsked(b) /\ SessionOK(b)
    BY DEF IInv, TypeOK, SessionInv, RepliesInv
  <1>2. CASE Begin(b)
    <2>1. PICK u \in accounts, r \in Reviews, a \in VoteAction :
            \/ tx' = [tx EXCEPT ![b] = Request("voteReview", u, r, a)]
            \/ tx' = [tx EXCEPT ![b] = Request("deleteVote", u, r, NoVote)]
      BY <1>2 DEF Begin, VoteAction
    <2>2. PICK t \in {Request("voteReview", u, r, a), Request("deleteVote", u, r, NoVote)} :
            tx' = [tx EXCEPT ![b] = t] /\ tx'[b] = t
      BY <1>1, <2>1 DEF TypeOK
    <2>3. tx[b].pc \notin Locked /\ voteLock' = voteLock
      BY <1>2 DEF Begin, Locked, lockVars
    <2>4. RowAsked(b)'
      BY <2>2 DEF RowAsked, Request
    <2>5. QED
      BY <1>1, <2>2, <2>3, <2>4, MovedAsked
  <1>3. CASE Exists(b) \/ TryLock(b)
    <2>1. CASE \E reply : Answer(b, reply)
      BY <1>1, <2>1, AnswerAsked
    <2>2. CASE Goto(b, "lock") /\ Exists(b)
      <3>1. tx' = [tx EXCEPT ![b] = [tx[b] EXCEPT !.pc = "lock"]]
        BY <2>2 DEF Goto
      <3>2. tx[b].pc \notin Locked /\ voteLock' = voteLock
        <4>1. Exists(b) /\ ~(\E reply : Answer(b, reply)) => UNCHANGED lockVars
          BY DEF Exists
        <4>2. CASE \E reply : Answer(b, reply)
          BY <4>2, <2>2, <1>1 DEF Answer, Goto, Idle, TypeOK
        <4>3. QED
          BY <4>1, <4>2, <2>2 DEF Exists, Locked, lockVars
      <3>3. RowAsked(b)'
        BY <1>1, <3>1 DEF RowAsked, TypeOK, TxRecord
      <3>4. QED
        BY <1>1, <3>1, <3>2, <3>3, MovedAsked
    <2>3. CASE Goto(b, "find") /\ voteLock' = [voteLock EXCEPT ![Key(b)] = b]
      <3>1. tx' = [tx EXCEPT ![b] = [tx[b] EXCEPT !.pc = "find"]]
        BY <2>3 DEF Goto
      <3>2. RowAsked(b)' /\ tx'[b].pc \in Locked
        BY <1>1, <3>1 DEF RowAsked, TypeOK, TxRecord, Locked
      <3>3. \A k \in LockKeys, c \in Backends \ {b} : voteLock'[k] = c => voteLock[k] = c
        BY <1>1, <2>3 DEF TypeOK
      <3>4. QED
        BY <1>1, <3>1, <3>2, <3>3, OthersAsked DEF TypeOK
    <2>4. QED
      BY <1>3, <2>1, <2>2, <2>3 DEF Exists, TryLock
  <1>4. CASE Find(b)
    <2> DEFINE previous == vote[tx[b].review][tx[b].user]
               t == [tx[b] EXCEPT !.pc = AfterFind(b, previous), !.prev = previous]
    <2>1. tx' = [tx EXCEPT ![b] = t] /\ voteLock' = voteLock /\ tx[b].row = Untouched
      BY <1>1, <1>4 DEF Find, lockVars, SessionOK, Progress
    <2>2. t.pc \in Locked /\ (t.pc = "commit" => previous = tx[b].action) /\ t.pc # "decrement"
      BY <1>1 DEF AfterFind, Locked, TxRecord
    <2>3. RowAsked(b)'
      <3>1. /\ tx'[b] = t /\ t.kind = tx[b].kind /\ t.action = tx[b].action
            /\ t.prev = previous /\ t.row = Untouched
        BY <1>1, <2>1 DEF TypeOK, TxRecord
      <3>2. QED
        BY <1>1, <2>2, <3>1 DEF RowAsked
    <2>4. QED
      BY <1>1, <2>1, <2>2, <2>3, MovedAsked
  <1>5. CASE Delete(b)
    <2>1. tx[b].prev = vote[tx[b].review][tx[b].user]
      BY <1>1, <1>5 DEF Delete, SessionOK, Locked
    <2>2. tx' = [tx EXCEPT ![b] = [tx[b] EXCEPT !.pc = "decrement", !.row = NoVote]]
      BY <1>5, <2>1 DEF Delete
    <2>3. voteLock' = voteLock
      BY <1>5 DEF Delete, lockVars
    <2>4. RowAsked(b)' /\ "decrement" \in Locked
      BY <1>1, <2>2 DEF RowAsked, TypeOK, TxRecord, Locked
    <2>5. QED
      BY <1>1, <2>2, <2>3, <2>4, MovedAsked DEF TxRecord
  <1>6. CASE Inserted(b)
    <2>1. /\ tx' = [tx EXCEPT ![b] = [tx[b] EXCEPT !.pc = "increment", !.row = tx[b].action]]
          /\ voteLock' = voteLock
      BY <1>6 DEF Inserted, lockVars
    <2>2. RowAsked(b)' /\ "increment" \in Locked
      BY <1>1, <2>1 DEF RowAsked, TypeOK, TxRecord, Locked
    <2>3. QED
      BY <1>1, <2>1, <2>2, MovedAsked DEF TxRecord
  <1>7. CASE Decremented(b)
    <2> DEFINE pc == AfterDecrement(b)
               t == [tx[b] EXCEPT !.pc = pc,
                                  !.delta = [tx[b].delta EXCEPT ![tx[b].prev] = @ + (-1)]]
    <2>1. /\ tx[b].pc = "decrement" /\ tx[b].prev \in VoteAction /\ tx[b].review \in reviews
      BY <1>1, <1>7 DEF Decremented, SessionOK, Progress, Locked, VoteAction
    <2>2. tx[b].row = NoVote /\ voteLock' = voteLock
      BY <1>1, <1>7 DEF Decremented, SessionOK, Progress
    <2>3. pc \in {"insert", "commit"} /\ (pc = "commit" => tx[b].kind # "voteReview")
      BY DEF AfterDecrement
    <2>4. /\ tx' = [tx EXCEPT ![b] = t] /\ tx'[b] = t /\ t \in TxRecord
          /\ rowLock' = [rowLock EXCEPT ![tx[b].review] = b]
          /\ rowLock'[tx[b].review] = b
      <3>1. /\ UpdateCounter(b, tx[b].prev, -1, pc) /\ TypeOK
            /\ -1 \in Int /\ tx[b].pc \in Busy /\ pc \in Busy
        BY <1>1, <1>7, <2>1, <2>3 DEF Decremented, Busy, Locked
      <3> HIDE DEF pc
      <3>2. QED
        BY <1>1, <2>1, <3>1, UpdateCounterFacts
    <2>5. RowAsked(b)'
      <3>1. /\ t.kind = tx[b].kind /\ t.action = tx[b].action /\ t.prev = tx[b].prev
            /\ t.row = NoVote /\ t.pc = pc
        BY <1>1, <2>2 DEF TxRecord
      <3>2. tx[b].kind # "voteReview" => tx[b].action = NoVote
        BY <1>1 DEF RowAsked
      <3>3. NoVote # Untouched
        BY DEF NoVote, Untouched
      <3> HIDE DEF t, pc
      <3>4. QED
        BY <1>1, <2>3, <2>4, <3>1, <3>2, <3>3 DEF RowAsked
    <2>6. t.pc \in Locked
      BY <1>1, <2>3 DEF Locked, TxRecord
    <2>7. QED
      BY <1>1, <2>2, <2>4, <2>5, <2>6, MovedAsked
  <1>8. CASE Increment(b)
    <2> DEFINE t == [tx[b] EXCEPT !.pc = "commit",
                                  !.delta = [tx[b].delta EXCEPT ![tx[b].action] = @ + 1]]
    <2>1. /\ tx[b].pc = "increment" /\ tx[b].action \in VoteAction /\ tx[b].review \in reviews
          /\ tx[b].row = tx[b].action /\ voteLock' = voteLock
      BY <1>1, <1>8 DEF Increment, SessionOK, Progress, Locked
    <2>2. /\ tx' = [tx EXCEPT ![b] = t] /\ tx'[b] = t /\ t \in TxRecord
          /\ rowLock' = [rowLock EXCEPT ![tx[b].review] = b]
          /\ rowLock'[tx[b].review] = b
      <3>1. UpdateCounter(b, tx[b].action, 1, "commit") /\ TypeOK /\ 1 \in Int
            /\ tx[b].pc \in Busy /\ "commit" \in Busy
        BY <1>1, <1>8, <2>1 DEF Increment, Busy, Locked
      <3>2. QED
        BY <1>1, <2>1, <3>1, UpdateCounterFacts
    <2>3. RowAsked(b)'
      BY <1>1, <2>1, <2>2 DEF RowAsked, TxRecord, VoteAction, Untouched
    <2>4. QED
      BY <1>1, <2>1, <2>2, <2>3, MovedAsked DEF Locked, TxRecord
  <1>9. CASE Commit(b) \/ Refuse(b) \/ Abort(b)
    BY <1>1, <1>9, AnswerAsked DEF Commit, Refuse, Abort
  <1>10. QED
    BY <1>2, <1>3, <1>4, <1>5, <1>6, <1>7, <1>8, <1>9, StepSplits

LEMMA RepliesInvariance == VotingSpec => []RepliesInv
  <1>1. VotingInit => RepliesInv
    BY VotingAssumption DEF VotingInit, RepliesInv, HoldersLocked, RowAsked, Idle
  <1>2. IInv /\ RepliesInv /\ [VotingNext]_votingVars => RepliesInv'
    <2> SUFFICES ASSUME IInv, RepliesInv, [VotingNext]_votingVars
                 PROVE  RepliesInv'
      OBVIOUS
    <2>1. CASE UNCHANGED votingVars
      BY <2>1 DEF votingVars, lockVars, RepliesInv, HoldersLocked, RowAsked
    <2>2. QED
      BY <2>1, RepliesStep DEF VotingNext
  <1>3. QED
    BY <1>1, <1>2, Invariance, PTL DEF VotingSpec

\* A step of a session changes no record but its own.
LEMMA OwnRecord ==
  ASSUME TypeOK, NEW b \in Backends, Begin(b) \/ Step(b) \/ Abort(b)
  PROVE  tx' = [tx EXCEPT ![b] = tx'[b]]
  <1>1. ASSUME NEW t, tx' = [tx EXCEPT ![b] = t] PROVE tx' = [tx EXCEPT ![b] = tx'[b]]
    BY <1>1 DEF TypeOK
  <1>2. CASE \E reply : Answer(b, reply)
    BY <1>1, <1>2 DEF Answer
  <1>3. CASE \E pc : Goto(b, pc)
    <2>1. PICK pc : tx' = [tx EXCEPT ![b] = [tx[b] EXCEPT !.pc = pc]]
      BY <1>3 DEF Goto
    <2>2. QED
      BY <1>1, <2>1
  <1>4. CASE \E a, n, pc : UpdateCounter(b, a, n, pc)
    <2>1. PICK a, n, pc : UpdateCounter(b, a, n, pc)
      BY <1>4
    <2>2. CASE tx[b].review \in reviews
      <3>1. tx' = [tx EXCEPT ![b] = [tx[b] EXCEPT !.pc = pc, !.delta[a] = @ + n]]
        BY <2>1, <2>2 DEF UpdateCounter
      <3>2. QED
        BY <1>1, <3>1
    <2>3. QED
      BY <1>3, <2>1, <2>2 DEF UpdateCounter
  <1>5. CASE Begin(b)
    BY <1>1, <1>5 DEF Begin
  <1>6. CASE Find(b) \/ Delete(b) \/ Inserted(b)
    <2>1. PICK t : tx' = [tx EXCEPT ![b] = t]
      BY <1>6 DEF Find, Delete, Inserted
    <2>2. QED
      BY <1>1, <2>1
  <1>7. QED
    BY <1>2, <1>3, <1>4, <1>5, <1>6, StepSplits
       DEF Exists, TryLock, Decremented, Increment, Commit, Refuse, Abort

\* A request ends with an answer at the lock, or at the end of the transaction.
LEMMA WhoReplies ==
  ASSUME IInv, RepliesInv, [VotingNext]_votingVars, NEW b \in Backends,
         NEW kind \in {"voteReview", "deleteVote"}, NEW reply \in {"true", "false"},
         Replies(b, kind, reply)
  PROVE  \/ Commit(b) /\ reply = CommitReply(b)
         \/ /\ tx[b].pc = "lock" /\ voteLock[Key(b)] \notin {Nobody, b}
            /\ reply = IF kind = "voteReview" THEN "true" ELSE "false"
  <1>1. tx[b].kind = kind /\ tx[b].pc # "idle" /\ tx'[b].pc = "idle" /\ tx'[b].reply = reply
    BY DEF Replies
  <1>2. TypeOK /\ tx[b] \in TxRecord
    BY DEF IInv, TypeOK
  <1>3. PICK c \in Backends : Begin(c) \/ Step(c) \/ Abort(c)
    BY <1>1 DEF VotingNext, votingVars
  <1>4. c = b
    <2> SUFFICES ASSUME c # b PROVE FALSE
      OBVIOUS
    <2>1. tx'[b] = tx[b]
      BY <1>2, <1>3, OwnRecord DEF TypeOK
    <2>2. QED
      BY <1>1, <2>1
  <1>5. tx' = [tx EXCEPT ![b] = tx'[b]] /\ \A x : Answer(b, x) => tx'[b].reply = x
    <2>1. ASSUME NEW x, Answer(b, x) PROVE tx'[b].reply = x
      BY <1>2, <2>1 DEF Answer, Idle, TypeOK
    <2>2. tx' = [tx EXCEPT ![b] = tx'[b]]
      BY <1>2, <1>3, <1>4, OwnRecord DEF TypeOK
    <2>3. QED
      BY <2>1, <2>2
  <1>6. CASE Commit(b)
    BY <1>1, <1>5, <1>6 DEF Commit
  <1>7. CASE TryLock(b)
    <2>1. tx[b].pc = "lock" /\ Key(b) \in LockKeys
      BY <1>2, <1>7, KeyType DEF TryLock, Busy
    <2>2. voteLock[Key(b)] # b
      BY <2>1 DEF RepliesInv, HoldersLocked, Locked
    <2>3. ~Goto(b, "find")
      BY <1>1, <1>2 DEF Goto, TypeOK, TxRecord
    <2>4. QED
      BY <1>1, <1>5, <1>7, <2>1, <2>2, <2>3 DEF TryLock
  <1>8. CASE Exists(b) \/ Refuse(b) \/ Abort(b)
    <2>1. ~Goto(b, "lock")
      BY <1>1, <1>2 DEF Goto, TypeOK, TxRecord
    <2>2. QED
      BY <1>1, <1>5, <1>8, <2>1 DEF Exists, Refuse, Abort
  <1>9. CASE Begin(b) \/ Find(b) \/ Delete(b) \/ Decremented(b) \/ Inserted(b) \/ Increment(b)
    BY <1>1, <1>2, <1>9 DEF TypeOK, TxRecord, Begin, Request, Find, AfterFind, Delete, Decremented,
       AfterDecrement, Inserted, Increment, UpdateCounter, Goto
  <1>10. QED
    BY <1>3, <1>4, <1>6, <1>7, <1>8, <1>9, StepSplits

\* At the commit the vote read is the one on record, and the one asked for is
\* written, or was there.
LEMMA CommitAsked ==
  ASSUME IInv, RepliesInv, NEW b \in Backends, Commit(b)
  PROVE  LET r == tx[b].review
             u == tx[b].user
         IN /\ r \in reviews /\ tx[b].prev = vote[r][u] /\ vote'[r][u] = tx[b].action
            /\ tx[b].kind # "voteReview" => tx[b].action = NoVote
  <1> DEFINE r == tx[b].review
             u == tx[b].user
             x == IF tx[b].row = Untouched THEN vote[r][u] ELSE tx[b].row
  <1>1. tx[b].pc = "commit" /\ SessionOK(b) /\ RowAsked(b)
    BY DEF Commit, IInv, SessionInv, RepliesInv
  <1>2. r \in reviews /\ tx[b].prev = vote[r][u]
    BY <1>1 DEF SessionOK, Locked
  <1>3. x = tx[b].action
    BY <1>1, <1>2 DEF RowAsked
  <1>4. r \in Reviews /\ u \in Users /\ vote' = [vote EXCEPT ![r][u] = x]
    BY <1>1, CommitFacts
  <1>5. vote'[r][u] = x
    <2>1. vote \in [Reviews -> [Users -> VoteAction \union {NoVote}]]
      BY DEF IInv, TypeOK
    <2> HIDE DEF r, u, x
    <2>2. QED
      BY <1>4, <2>1
  <1>6. QED
    BY <1>1, <1>2, <1>3, <1>5 DEF RowAsked

\* Whatever the other sessions do, no answer says more than the rows show.
LEMMA RepliesTruthful == VotingSpec => DeleteReplyTruthful /\ VoteReplyTruthful
  <1>1. ASSUME IInv, RepliesInv, [VotingNext]_votingVars, NEW b \in Backends
        PROVE  LET r == tx[b].review
                   u == tx[b].user
               IN /\ Replies(b, "deleteVote", "true") =>
                       r \in reviews /\ vote[r][u] # NoVote /\ vote'[r][u] = NoVote
                  /\ Replies(b, "deleteVote", "false") =>
                       vote[r][u] = NoVote \/ voteLock[Key(b)] \notin {Nobody, b}
                  /\ Replies(b, "voteReview", "true") =>
                       \/ vote'[r][u] = tx[b].action
                       \/ voteLock[Key(b)] \notin {Nobody, b}
    <2>1. CASE Replies(b, "deleteVote", "true")
      <3>1. tx[b].kind = "deleteVote"
        BY <2>1 DEF Replies
      <3>2. Commit(b) /\ CommitReply(b) = "true"
        BY <1>1, <2>1, WhoReplies
      <3>3. QED
        BY <1>1, <2>1, <3>1, <3>2, CommitAsked DEF CommitReply, Replies
    <2>2. CASE Replies(b, "deleteVote", "false")
      <3>1. \/ Commit(b) /\ CommitReply(b) = "false"
            \/ voteLock[Key(b)] \notin {Nobody, b}
        BY <1>1, <2>2, WhoReplies
      <3>2. QED
        BY <1>1, <2>2, <3>1, CommitAsked DEF CommitReply, Replies
    <2>3. CASE Replies(b, "voteReview", "true")
      <3>1. Commit(b) \/ voteLock[Key(b)] \notin {Nobody, b}
        BY <1>1, <2>3, WhoReplies
      <3>2. QED
        BY <1>1, <2>3, <3>1, CommitAsked DEF Replies
    <2>4. QED
      BY <2>1, <2>2, <2>3 DEF Replies
  <1>2. IInv /\ RepliesInv /\ [VotingNext]_votingVars =>
          /\ \A b \in Backends :
               LET r == tx[b].review
                   u == tx[b].user
               IN /\ Replies(b, "deleteVote", "true") =>
                       r \in reviews /\ vote[r][u] # NoVote /\ vote'[r][u] = NoVote
                  /\ Replies(b, "deleteVote", "false") =>
                       vote[r][u] = NoVote \/ voteLock[Key(b)] \notin {Nobody, b}
          /\ \A b \in Backends : Replies(b, "voteReview", "true") =>
               \/ vote'[tx[b].review][tx[b].user] = tx[b].action
               \/ voteLock[Key(b)] \notin {Nobody, b}
    BY <1>1
  <1>3. QED
    BY <1>2, Invariance, RepliesInvariance, PTL
       DEF VotingSpec, DeleteReplyTruthful, VoteReplyTruthful

(* deleteVote answers true only in the step that removes the vote, and     *)
(* false only when there was none or its lock key was busy, whatever the   *)
(* other sessions do.                                                      *)
THEOREM DeleteAnswersTruthful == VotingSpec => DeleteReplyTruthful
  BY RepliesTruthful

(* voteReview answers true only when the vote asked for is then on record, *)
(* or its lock key was busy.                                               *)
THEOREM VoteAnswersTruthful == VotingSpec => VoteReplyTruthful
  BY RepliesTruthful

-----------------------------------------------------------------------------
(* Refinement of the abstract ledger.                                      *)

\* A commit is one atomic change of one vote and its review's counters, or it
\* changes nothing.
LEMMA CommitRecords ==
  ASSUME IInv, NEW b \in Backends, Commit(b)
  PROVE  Ledger!LedgerNext \/ UNCHANGED <<vote, tally>>
  <1> DEFINE r == tx[b].review
             u == tx[b].user
             x == IF tx[b].row = Untouched THEN vote[r][u] ELSE tx[b].row
  <1>1. /\ r \in Reviews /\ u \in Users /\ x \in VoteAction \union {NoVote}
        /\ \A a \in VoteAction : tx[b].delta[a] =
             (IF x = a THEN 1 ELSE 0) - (IF vote[r][u] = a THEN 1 ELSE 0)
        /\ vote' = [vote EXCEPT ![r][u] = x]
    BY CommitFacts DEF Commit
  <1>2. /\ vote \in [Reviews -> [Users -> VoteAction \union {NoVote}]]
        /\ tally \in [Reviews -> [VoteAction -> Nat]]
        /\ tally' = [tally EXCEPT ![r] = [a \in VoteAction |-> @[a] + tx[b].delta[a]]]
    BY DEF IInv, TypeOK, Commit
  <1> HIDE DEF r, u, x
  <1>3. CASE x = vote[r][u]
    <2>1. vote' = vote
      BY <1>1, <1>2, <1>3
    <2>2. \A a \in VoteAction : tx[b].delta[a] = 0
      BY <1>1, <1>3
    <2>3. [a \in VoteAction |-> tally[r][a] + tx[b].delta[a]] = tally[r]
      BY <1>1, <1>2, <2>2
    <2>4. tally' = tally
      BY <1>1, <1>2, <2>3
    <2>5. QED
      BY <2>1, <2>4
  <1>4. CASE x # vote[r][u]
    <2>1. \A a \in VoteAction : tally'[r][a] = Count(vote'[r], a)
      BY <1>1, CommitConsistent DEF CountersConsistent, Count
    <2>2. [a \in VoteAction |-> tally[r][a] + tx[b].delta[a]]
            = [a \in VoteAction |-> Count(vote'[r], a)]
      BY <1>1, <1>2, <2>1
    <2>3. tally' = [tally EXCEPT ![r] = [a \in VoteAction |-> Count(vote'[r], a)]]
      BY <1>2, <2>2
    <2>4. Ledger!Record(r, u, x)
      <3>1. [a \in VoteAction |-> Count(vote'[r], a)]
              = [a \in Ledger!VoteAction |-> Ledger!Count(vote'[r], a)]
        <4>1. ASSUME NEW f, NEW a PROVE Ledger!Count(f, a) = Count(f, a)
          BY DEF Ledger!Count, Count, Ledger!Cardinality, Cardinality
        <4>2. Ledger!VoteAction = VoteAction
          BY DEF Ledger!VoteAction, VoteAction
        <4>3. QED
          BY <4>1, <4>2
      <3>2. tally' = [tally EXCEPT ![r] = [a \in Ledger!VoteAction |-> Ledger!Count(vote'[r], a)]]
        BY <2>3, <3>1
      <3>3. QED
        BY <1>1, <1>4, <3>2 DEF Ledger!Record
    <2>5. QED
      BY <1>1, <2>4
         DEF Ledger!LedgerNext, Ledger!VoteAction, Ledger!NoVote, VoteAction, NoVote
  <1>5. QED
    BY <1>3, <1>4

(* The votes component implements its abstract specification: every commit *)
(* is one atomic change of one user's vote together with the counters of   *)
(* its review, and no other step is visible.                               *)
THEOREM ImplementsLedger == VotingSpec => LedgerSpec
  <1>1. VotingInit => Ledger!LedgerInit
    BY DEF VotingInit, Ledger!LedgerInit, Ledger!NoVote, Ledger!VoteAction, NoVote, VoteAction
  <1>2. IInv /\ [VotingNext]_votingVars => [Ledger!LedgerNext]_(Ledger!ledgerVars)
    <2> SUFFICES ASSUME IInv, [VotingNext]_votingVars
                 PROVE  Ledger!LedgerNext \/ UNCHANGED <<vote, tally>>
      BY DEF Ledger!ledgerVars
    <2>1. CASE UNCHANGED votingVars
      BY <2>1 DEF votingVars, dbVars
    <2>2. ASSUME NEW b \in Backends, Begin(b) \/ Step(b) \/ Abort(b)
          PROVE  Ledger!LedgerNext \/ UNCHANGED <<vote, tally>>
      <3>1. CASE Commit(b)
        BY <3>1, CommitRecords
      <3>2. CASE ~Commit(b)
        BY <2>2, <3>2, StepSplits DEF dbVars, Begin, Exists, TryLock, Find, Delete, Decremented,
             Inserted, Increment, Refuse, Abort
      <3>3. QED
        BY <3>1, <3>2
    <2>3. QED
      BY <2>1, <2>2 DEF VotingNext
  <1>3. QED
    BY <1>1, <1>2, Invariance, PTL DEF VotingSpec, LedgerSpec, Ledger!LedgerSpec

=============================================================================
