--------------------------- MODULE DeletionProofs ---------------------------
(***************************************************************************)
(* Proofs about AccountDeletion: a removed account leaves nothing behind,  *)
(* an undisturbed refresh repairs every counter, and only a deletion that  *)
(* overlaps something makes counters drift; for any number of users,       *)
(* reviews, owners and sessions.                                           *)
(***************************************************************************)
EXTENDS DeletionProps, VotingProofs

-----------------------------------------------------------------------------
(* The inductive invariant.                                                *)

Deltas == [Reviews -> [VoteAction -> Int]]
DelRecord ==
  [pc : {"idle", "find", "votes", "revoke", "cascade", "commit"}, user : Users \union {Nobody},
   up : SUBSET Reviews, down : SUBSET Reviews, delta : Deltas,
   reply : {"none", "notFound", "constraint", "deleted", "aborted"}]
CronRecord ==
  [pc : {"idle", "update"}, todo : SUBSET Reviews, actual : [Reviews -> [VoteAction -> Nat]],
   delta : Deltas, fresh : BOOLEAN]

Shapes ==
  /\ accounts \subseteq Users /\ reviews \subseteq Reviews
  /\ vote \in [Reviews -> [Users -> VoteAction \union {NoVote}]]
  /\ tally \in [Reviews -> [VoteAction -> Nat]]
  /\ tx \in [Backends -> TxRecord]
  /\ voteLock \in [LockKeys -> Backends \union {Nobody}]
  /\ rowLock \in [Reviews -> Backends \union Deleters \union {Cron, Nobody}]
  /\ del \in [Deleters -> DelRecord]
  /\ accountLock \in [Users -> Deleters \union {Nobody}]
  /\ cron \in CronRecord

\* A vote session: whose row it changes counters of it holds, and the change
\* leaves no counter negative; a vote it has inserted has its account and review.
VoterOK(b) ==
  LET t == tx[b] IN
  /\ t.pc = "idle" => t.row = Untouched /\ t.delta = NoDelta /\ t.kind = "none"
  /\ t.pc \in Busy => t.user \in Users /\ t.review \in Reviews
  /\ t.kind = "voteReview" => t.action \in VoteAction
  /\ t.pc \in {"delete", "decrement"} => t.prev \in VoteAction
  /\ t.pc \in {"insert", "increment"} => t.action \in VoteAction
  /\ t.delta # NoDelta =>
       /\ t.review \in reviews /\ rowLock[t.review] = b
       /\ \A a \in VoteAction : tally[t.review][a] + t.delta[a] >= 0
  /\ t.row \in VoteAction => t.review \in reviews /\ t.user \in accounts

\* A deletion: the rows whose counters it changes it holds; from the statement
\* that removes the account on it holds the account, then all its reviews.
DeleterOK(d) ==
  LET e == del[d] IN
  /\ e.pc = "idle" => e.delta = NoDeltas
  /\ e.pc # "idle" => e.user \in Users
  /\ \A r \in Reviews : e.delta[r] # NoDelta =>
       /\ r \in reviews /\ rowLock[r] = d
       /\ \A a \in VoteAction : tally[r][a] + e.delta[r][a] >= 0
  /\ e.pc \in {"cascade", "commit"} /\ e.user \in accounts =>
       /\ accountLock[e.user] = d
       /\ \A b \in Backends : ~SharesAccount(b, e.user)
  /\ e.pc = "commit" /\ e.user \in accounts =>
       \A r \in OwnedBy(e.user) : /\ rowLock[r] = d
                                  /\ \A b \in Backends : ~WritesVoteOn(b, r)

CronOK ==
  /\ cron.pc = "idle" => cron = NoRefresh
  /\ \A r \in Reviews : cron.delta[r] # NoDelta =>
       /\ r \in reviews /\ rowLock[r] = Cron
       /\ \A a \in VoteAction : tally[r][a] + cron.delta[r][a] >= 0

\* While nothing has committed since the snapshot of a refresh, it has set the
\* counters it has reached to the number of votes.
FreshOK ==
  cron.pc = "update" /\ cron.fresh =>
    /\ cron.actual = ActualCounts /\ cron.todo \subseteq reviews
    /\ \A r \in Reviews : IF r \in cron.todo THEN cron.delta[r] = NoDelta
                          ELSE \A a \in VoteAction :
                                 tally[r][a] + cron.delta[r][a] = cron.actual[r][a]

Removed == \A r \in Reviews \ reviews : tally[r] = NoDelta

\* The holder of a row is in the middle of something.
HoldersActive ==
  \A r \in Reviews :
    /\ rowLock[r] \in Deleters => del[rowLock[r]].pc # "idle"
    /\ rowLock[r] = Cron => cron.delta[r] # NoDelta

DeletionInv ==
  /\ Shapes
  /\ \A b \in Backends : VoterOK(b)
  /\ \A d \in Deleters : DeleterOK(d)
  /\ CronOK /\ FreshOK /\ Removed /\ HoldersActive /\ NoOrphans

-----------------------------------------------------------------------------
(* With no overlap since the last repair: the counters are right, and a    *)
(* deletion, which is then alone, has revoked what it has reached.         *)

Reached(d, r, a) ==
  \/ del[d].pc \in {"cascade", "commit"}
  \/ del[d].pc = "revoke" /\ r \notin IF a = "up" THEN del[d].up ELSE del[d].down

Revoked(d) ==
  /\ del[d].pc = "revoke" =>
       /\ \A r \in del[d].up : vote[r][del[d].user] = "up"
       /\ \A r \in del[d].down : vote[r][del[d].user] = "down"
  /\ del[d].pc # "idle" =>
       \A r \in Reviews, a \in VoteAction :
         del[d].delta[r][a] =
           IF vote[r][del[d].user] = a /\ Reached(d, r, a) THEN -1 ELSE 0

HistoryInv ==
  /\ IsFiniteSet(Active)
  /\ ~overlapped =>
       /\ ~Overlap
       /\ CountersInStep /\ SessionInv
       /\ cron.todo = {} /\ cron.delta = NoDeltas
       /\ \A d \in Deleters : Revoked(d)

-----------------------------------------------------------------------------
(* What a party keeps while another one steps.                             *)

LEMMA VoterKeeps ==
  ASSUME NEW c \in Backends, VoterOK(c), tx'[c] = tx[c],
         tx[c].delta # NoDelta =>
           /\ tx[c].review \in reviews' /\ rowLock'[tx[c].review] = c
           /\ tally'[tx[c].review] = tally[tx[c].review],
         tx[c].row \in VoteAction => tx[c].review \in reviews' /\ tx[c].user \in accounts'
  PROVE  VoterOK(c)'
  BY DEF VoterOK

LEMMA DeleterKeeps ==
  ASSUME NEW d \in Deleters, DeleterOK(d), del'[d] = del[d],
         \A r \in Reviews : del[d].delta[r] # NoDelta =>
           r \in reviews' /\ rowLock'[r] = d /\ tally'[r] = tally[r],
         del[d].pc \in {"cascade", "commit"} /\ del[d].user \in accounts' =>
           /\ del[d].user \in accounts /\ accountLock'[del[d].user] = d
           /\ \A b \in Backends : ~(tx'[b].row \in VoteAction /\ tx'[b].user = del[d].user),
         del[d].pc = "commit" /\ del[d].user \in accounts' =>
           \A r \in reviews' : del[d].user \in Owners[r] =>
             /\ rowLock'[r] = d
             /\ \A b \in Backends : ~(tx'[b].row # Untouched /\ tx'[b].review = r)
  PROVE  DeleterOK(d)'
  <1>1. \A r \in Reviews : del'[d].delta[r] # NoDelta =>
          /\ r \in reviews' /\ rowLock'[r] = d
          /\ \A a \in VoteAction : tally'[r][a] + del'[d].delta[r][a] >= 0
    BY DEF DeleterOK
  <1>2. del'[d].pc \in {"cascade", "commit"} /\ del'[d].user \in accounts' =>
          /\ accountLock'[del'[d].user] = d
          /\ \A b \in Backends : ~(tx'[b].row \in VoteAction /\ tx'[b].user = del'[d].user)
    OBVIOUS
  <1>3. del'[d].pc = "commit" /\ del'[d].user \in accounts' =>
          \A r \in {s \in reviews' : del'[d].user \in Owners[s]} :
            /\ rowLock'[r] = d
            /\ \A b \in Backends : ~(tx'[b].row # Untouched /\ tx'[b].review = r)
    OBVIOUS
  <1>4. (del'[d].pc = "idle" => del'[d].delta = NoDeltas) /\ (del'[d].pc # "idle" => del'[d].user \in Users)
    BY DEF DeleterOK
  <1>5. QED
    BY <1>1, <1>2, <1>3, <1>4 DEF DeleterOK, SharesAccount, WritesVoteOn, OwnedBy

LEMMA CronKeeps ==
  ASSUME CronOK, cron'.delta = cron.delta, cron'.pc = "idle" => cron' = NoRefresh,
         \A r \in Reviews : cron.delta[r] # NoDelta =>
           r \in reviews' /\ rowLock'[r] = Cron /\ tally'[r] = tally[r]
  PROVE  CronOK'
  BY DEF CronOK, NoRefresh, NoDeltas, NoDelta

-----------------------------------------------------------------------------
(* Voting statements.                                                      *)

\* Session b moves to the record t without committing: it may take the row of a
\* review that is free or give back one it holds.
LEMMA VoterMoves ==
  ASSUME DeletionInv, NEW b \in Backends, NEW t \in TxRecord, tx' = [tx EXCEPT ![b] = t],
         UNCHANGED <<dbVars, del, accountLock, cron>>,
         voteLock' \in [LockKeys -> Backends \union {Nobody}],
         rowLock' \in [Reviews -> Backends \union Deleters \union {Cron, Nobody}],
         \A r \in Reviews : \/ rowLock'[r] = rowLock[r]
                            \/ rowLock[r] \in {b, Nobody} /\ rowLock'[r] \in {b, Nobody},
         VoterOK(b)',
         \/ t.row = Untouched
         \/ /\ t.user = tx[b].user /\ t.review = tx[b].review
            /\ \/ t.row = tx[b].row
               \/ t.row \in VoteAction /\ tx[b].pc = "insert" /\ ~WaitsForRemoval(b)
               \/ t.row = NoVote /\ tx[b].pc = "delete" /\ ~WaitsForRemoval(b)
  PROVE  DeletionInv'
  <1>0. /\ Shapes /\ b # Nobody /\ b # Cron /\ b \notin Deleters
        /\ accounts' = accounts /\ reviews' = reviews /\ vote' = vote /\ tally' = tally
        /\ del' = del /\ accountLock' = accountLock /\ cron' = cron
    BY VotingAssumption, DeletionAssumption DEF DeletionInv, dbVars
  <1>1. Shapes'
    BY <1>0 DEF Shapes
  <1>2. ASSUME NEW c \in Backends PROVE VoterOK(c)'
    <2>1. CASE c = b
      BY <2>1
    <2>2. CASE c # b
      <3>1. tx'[c] = tx[c] /\ VoterOK(c) /\ tx[c].review \in Reviews \union {Nobody} /\ c # Nobody
        BY <2>2, <1>0, VotingAssumption DEF Shapes, DeletionInv, TxRecord
      <3>2. tx[c].delta # NoDelta => tx[c].review \in reviews /\ rowLock[tx[c].review] = c
        BY <3>1 DEF VoterOK
      <3>3. tx[c].delta # NoDelta => rowLock'[tx[c].review] = c
        BY <2>2, <3>1, <3>2, <1>0 DEF Shapes
      <3>4. tx[c].row \in VoteAction => tx[c].review \in reviews /\ tx[c].user \in accounts
        BY <3>1 DEF VoterOK
      <3>5. QED
        BY <3>1, <3>2, <3>3, <3>4, <1>0, VoterKeeps
    <2>3. QED
      BY <2>1, <2>2
  <1>3. ASSUME NEW d \in Deleters PROVE DeleterOK(d)'
    <2>1. DeleterOK(d) /\ d # Nobody /\ d # b
      BY <1>0, DeletionAssumption DEF DeletionInv
    <2>2. \A r \in Reviews : rowLock[r] = d => rowLock'[r] = d
      BY <2>1
    <2>3. \A r \in Reviews : del[d].delta[r] # NoDelta => r \in reviews /\ rowLock[r] = d
      BY <2>1 DEF DeleterOK
    <2>4. ASSUME del[d].pc \in {"cascade", "commit"}, del[d].user \in accounts
          PROVE  /\ accountLock[del[d].user] = d
                 /\ \A c \in Backends : ~(tx'[c].row \in VoteAction /\ tx'[c].user = del[d].user)
      <3>1. accountLock[del[d].user] = d /\ \A c \in Backends : ~SharesAccount(c, del[d].user)
        BY <2>1, <2>4 DEF DeleterOK
      <3>2. ASSUME NEW c \in Backends PROVE ~(tx'[c].row \in VoteAction /\ tx'[c].user = del[d].user)
        <4>1. CASE c # b
          BY <4>1, <3>1, <1>0 DEF SharesAccount, Shapes
        <4>2. CASE c = b
          <5>1. tx'[c] = t
            BY <4>2, <1>0 DEF Shapes
          <5>2. CASE t.row = tx[b].row /\ t.user = tx[b].user
            BY <5>1, <5>2, <3>1, <4>2 DEF SharesAccount
          <5>3. CASE t.row \notin VoteAction
            BY <5>1, <5>3
          <5>4. CASE ~WaitsForRemoval(b) /\ tx[b].pc = "insert" /\ t.user = tx[b].user
            <6>1. accountLock[t.user] = Nobody
              BY <5>4 DEF WaitsForRemoval
            <6>2. QED
              BY <6>1, <5>1, <3>1, <2>1
          <5>5. QED
            BY <5>2, <5>3, <5>4 DEF NoVote, Untouched, VoteAction
        <4>3. QED
          BY <4>1, <4>2
      <3>3. QED
        BY <3>1, <3>2
    <2>5. ASSUME del[d].pc = "commit", del[d].user \in accounts, NEW r \in reviews, del[d].user \in Owners[r]
          PROVE  /\ rowLock[r] = d
                 /\ \A c \in Backends : ~(tx'[c].row # Untouched /\ tx'[c].review = r)
      <3>1. rowLock[r] = d /\ \A c \in Backends : ~WritesVoteOn(c, r)
        BY <2>1, <2>5 DEF DeleterOK, OwnedBy
      <3>2. ASSUME NEW c \in Backends PROVE ~(tx'[c].row # Untouched /\ tx'[c].review = r)
        <4>1. CASE c # b
          BY <4>1, <3>1, <1>0 DEF WritesVoteOn, Shapes
        <4>2. CASE c = b
          <5>1. tx'[c] = t
            BY <4>2, <1>0 DEF Shapes
          <5>2. CASE t.row = tx[b].row /\ t.review = tx[b].review
            BY <5>1, <5>2, <3>1, <4>2 DEF WritesVoteOn
          <5>3. CASE t.row = Untouched
            BY <5>1, <5>3
          <5>4. CASE ~WaitsForRemoval(b) /\ tx[b].pc \in {"insert", "delete"} /\ t.review = tx[b].review
            <6>1. ~Cascading(d, t.review)
              BY <5>4 DEF WaitsForRemoval
            <6>2. QED
              BY <6>1, <5>1, <2>5 DEF Cascading
          <5>5. QED
            BY <5>2, <5>3, <5>4
        <4>3. QED
          BY <4>1, <4>2
      <3>3. QED
        BY <3>1, <3>2
    <2>6. \A r \in reviews : r \in Reviews
      BY <1>0 DEF Shapes
    <2>7. QED
      BY <1>0, <2>1, <2>2, <2>3, <2>4, <2>5, <2>6, DeleterKeeps
  <1>4. CronOK'
    <2>1. CronOK /\ Cron # Nobody
      BY DeletionAssumption DEF DeletionInv
    <2>2. \A r \in Reviews : cron.delta[r] # NoDelta => r \in reviews /\ rowLock[r] = Cron
      BY <2>1 DEF CronOK
    <2>3. QED
      BY <1>0, <2>1, <2>2, CronKeeps DEF CronOK
  <1>5. FreshOK' /\ Removed' /\ NoOrphans'
    BY <1>0 DEF DeletionInv, FreshOK, Removed, NoOrphans, ActualCounts, Count
  <1>6. HoldersActive'
    BY <1>0, VotingAssumption, DeletionAssumption DEF DeletionInv, HoldersActive
  <1>7. QED
    BY <1>1, <1>2, <1>3, <1>4, <1>5, <1>6 DEF DeletionInv

\* A session whose request ends without a commit, and one that gets a request.
LEMMA VoterEnds ==
  ASSUME DeletionInv, NEW b \in Backends,
         NEW reply \in {"none", "true", "false", "notFound", "constraint", "aborted"},
         Answer(b, reply), UNCHANGED <<dbVars, del, accountLock, cron>>
  PROVE  DeletionInv'
  <1> DEFINE t == Idle(reply)
  <1>1. /\ t \in TxRecord /\ t.row = Untouched /\ t.delta = NoDelta
        /\ t.pc = "idle" /\ t.kind = "none"
    BY IdleType DEF Idle
  <1>2. tx' = [tx EXCEPT ![b] = t] /\ tx'[b] = t
    BY DEF Answer, DeletionInv, Shapes
  <1> HIDE DEF t
  <1>3. voteLock' \in [LockKeys -> Backends \union {Nobody}]
    BY DEF Answer, Release, DeletionInv, Shapes
  <1>4. /\ rowLock' \in [Reviews -> Backends \union Deleters \union {Cron, Nobody}]
        /\ \A r \in Reviews : \/ rowLock'[r] = rowLock[r]
                              \/ rowLock[r] \in {b, Nobody} /\ rowLock'[r] \in {b, Nobody}
    BY DEF Answer, Release, DeletionInv, Shapes
  <1>5. VoterOK(b)'
    BY <1>1, <1>2 DEF VoterOK, Busy, Locked, Untouched, VoteAction
  <1>6. QED
    BY <1>1, <1>2, <1>3, <1>4, <1>5, VoterMoves

LEMMA BeginKeeps ==
  ASSUME DeletionInv, NEW b \in Backends, Begin(b), UNCHANGED <<del, accountLock, cron>>
  PROVE  DeletionInv'
  <1> PICK kind \in {"voteReview", "deleteVote"}, u \in Users, r \in Reviews,
           a \in VoteAction \union {NoVote} :
        /\ tx' = [tx EXCEPT ![b] = Request(kind, u, r, a)]
        /\ kind = "voteReview" => a \in VoteAction
    BY DEF Begin, DeletionInv, Shapes
  <1> DEFINE t == Request(kind, u, r, a)
  <1>1. /\ t \in TxRecord /\ t.row = Untouched /\ t.delta = NoDelta /\ t.pc = "exists"
        /\ t.user = u /\ t.review = r /\ t.kind = kind /\ t.action = a
    BY DEF Request, TxRecord, VoteAction, NoVote, Untouched, NoDelta, Busy
  <1>2. tx' = [tx EXCEPT ![b] = t] /\ tx'[b] = t /\ UNCHANGED <<dbVars, lockVars>>
    BY DEF Begin, DeletionInv, Shapes
  <1> HIDE DEF t
  <1>3. VoterOK(b)'
    BY <1>1, <1>2 DEF VoterOK, Untouched, VoteAction
  <1>4. QED
    BY <1>1, <1>2, <1>3, VoterMoves DEF lockVars, DeletionInv, Shapes

\* A statement that takes no row: Exists, TryLock, Find, Delete and Insert.
LEMMA StatementKeeps ==
  ASSUME DeletionInv, NEW b \in Backends, NEW t \in TxRecord, tx' = [tx EXCEPT ![b] = t],
         UNCHANGED <<dbVars, rowLock, del, accountLock, cron>>,
         voteLock' \in [LockKeys -> Backends \union {Nobody}],
         t.pc \in Busy, tx[b].pc \in Busy, t.user = tx[b].user, t.review = tx[b].review,
         t.delta = tx[b].delta, t.kind = tx[b].kind, t.action = tx[b].action,
         t.pc \in {"delete", "decrement"} => t.prev \in VoteAction,
         t.pc \in {"insert", "increment"} => t.action \in VoteAction,
         \/ t.row = tx[b].row \/ t.row = Untouched
         \/ t.row = NoVote /\ tx[b].pc = "delete" /\ ~WaitsForRemoval(b)
         \/ /\ t.row \in VoteAction /\ tx[b].pc = "insert" /\ ~WaitsForRemoval(b)
            /\ t.review \in reviews /\ t.user \in accounts
  PROVE  DeletionInv'
  <1>1. VoterOK(b) /\ tx'[b] = t /\ t.pc # "idle"
    BY DEF DeletionInv, Shapes, Busy, Locked
  <1>2. VoterOK(b)'
    <2>1. t.user \in Users /\ t.review \in Reviews
      BY <1>1 DEF VoterOK
    <2>2. t.delta # NoDelta =>
            /\ t.review \in reviews /\ rowLock[t.review] = b
            /\ \A a \in VoteAction : tally[t.review][a] + t.delta[a] >= 0
      BY <1>1 DEF VoterOK
    <2>3. t.row \in VoteAction => t.review \in reviews /\ t.user \in accounts
      BY <1>1 DEF VoterOK, Untouched, NoVote, VoteAction
    <2>4. QED
      BY <1>1, <2>1, <2>2, <2>3 DEF VoterOK, dbVars
  <1>3. rowLock' \in [Reviews -> Backends \union Deleters \union {Cron, Nobody}]
    BY DEF DeletionInv, Shapes
  <1>4. QED
    BY <1>2, <1>3, VoterMoves

LEMMA ExistsKeeps ==
  ASSUME DeletionInv, NEW b \in Backends, Exists(b), UNCHANGED <<del, accountLock, cron>>
  PROVE  DeletionInv'
  <1>1. CASE tx[b].review \notin reviews
    BY <1>1, VoterEnds DEF Exists
  <1>2. CASE tx[b].review \in reviews
    <2> DEFINE t == [tx[b] EXCEPT !.pc = "lock"]
    <2>1. /\ tx' = [tx EXCEPT ![b] = t] /\ tx[b].pc = "exists" /\ tx[b] \in TxRecord
          /\ UNCHANGED <<dbVars, lockVars>>
      BY <1>2 DEF Exists, Goto, DeletionInv, Shapes
    <2>2. /\ t \in TxRecord /\ t.pc = "lock" /\ t.user = tx[b].user /\ t.review = tx[b].review
          /\ t.delta = tx[b].delta /\ t.row = tx[b].row /\ t.kind = tx[b].kind
            /\ t.action = tx[b].action
      BY <2>1 DEF TxRecord, Busy
    <2> HIDE DEF t
    <2>3. QED
      BY <2>1, <2>2, StatementKeeps DEF Busy, lockVars, DeletionInv, Shapes
  <1>3. QED
    BY <1>1, <1>2

LEMMA TryLockKeeps ==
  ASSUME DeletionInv, NEW b \in Backends, TryLock(b), UNCHANGED <<del, accountLock, cron>>
  PROVE  DeletionInv'
  <1>1. CASE voteLock[Key(b)] # Nobody
    BY <1>1, VoterEnds DEF TryLock
  <1>2. CASE voteLock[Key(b)] = Nobody
    <2> DEFINE t == [tx[b] EXCEPT !.pc = "find"]
    <2>1. /\ tx' = [tx EXCEPT ![b] = t] /\ tx[b].pc = "lock" /\ tx[b] \in TxRecord
          /\ voteLock' = [voteLock EXCEPT ![Key(b)] = b] /\ UNCHANGED <<dbVars, rowLock>>
      BY <1>2 DEF TryLock, Goto, DeletionInv, Shapes
    <2>2. /\ t \in TxRecord /\ t.pc = "find" /\ t.user = tx[b].user /\ t.review = tx[b].review
          /\ t.delta = tx[b].delta /\ t.row = tx[b].row /\ t.kind = tx[b].kind
            /\ t.action = tx[b].action
      BY <2>1 DEF TxRecord, Busy, Locked
    <2>3. voteLock' \in [LockKeys -> Backends \union {Nobody}]
      BY <2>1 DEF DeletionInv, Shapes
    <2> HIDE DEF t
    <2>4. QED
      BY <2>1, <2>2, <2>3, StatementKeeps DEF Busy, Locked
  <1>3. QED
    BY <1>1, <1>2

LEMMA FindKeeps ==
  ASSUME DeletionInv, NEW b \in Backends, Find(b), UNCHANGED <<del, accountLock, cron>>
  PROVE  DeletionInv'
  <1> PICK previous : previous = vote[tx[b].review][tx[b].user]
    OBVIOUS
  <1> PICK pc : pc = AfterFind(b, previous)
    OBVIOUS
  <1> DEFINE t == [tx[b] EXCEPT !.pc = pc, !.prev = previous]
  <1>1. /\ tx' = [tx EXCEPT ![b] = t] /\ tx[b].pc = "find" /\ tx[b] \in TxRecord
        /\ VoterOK(b) /\ UNCHANGED <<dbVars, lockVars>>
    BY DEF Find, DeletionInv, Shapes
  <1>2. previous \in VoteAction \union {NoVote}
    BY <1>1 DEF VoterOK, Busy, Locked, DeletionInv, Shapes
  <1>3. pc \in {"commit", "insert", "delete"}
    BY DEF AfterFind
  <1>4. /\ t \in TxRecord /\ t.pc = pc /\ t.user = tx[b].user /\ t.review = tx[b].review
        /\ t.delta = tx[b].delta /\ t.row = tx[b].row /\ t.action = tx[b].action
        /\ t.kind = tx[b].kind /\ t.prev = previous
    BY <1>1, <1>2, <1>3 DEF TxRecord, Busy, Locked
  <1>5. /\ pc = "insert" => tx[b].action \in VoteAction
        /\ pc = "delete" => previous \in VoteAction
    BY <1>1, <1>2, <1>3 DEF AfterFind, TxRecord
  <1> HIDE DEF t
  <1>6. QED
    BY <1>1, <1>3, <1>4, <1>5, StatementKeeps DEF Busy, Locked, lockVars, DeletionInv, Shapes

LEMMA DeleteKeeps ==
  ASSUME DeletionInv, NEW b \in Backends, Delete(b), ~WaitsForRemoval(b),
         UNCHANGED <<del, accountLock, cron>>
  PROVE  DeletionInv'
  <1> PICK row : row = IF vote[tx[b].review][tx[b].user] = tx[b].prev THEN NoVote ELSE Untouched
    OBVIOUS
  <1> DEFINE t == [tx[b] EXCEPT !.pc = "decrement", !.row = row]
  <1>1. /\ tx' = [tx EXCEPT ![b] = t] /\ tx[b].pc = "delete" /\ tx[b] \in TxRecord
        /\ VoterOK(b) /\ UNCHANGED <<dbVars, lockVars>>
    BY DEF Delete, DeletionInv, Shapes
  <1>2. row \in {NoVote, Untouched}
    OBVIOUS
  <1>3. /\ t \in TxRecord /\ t.pc = "decrement" /\ t.user = tx[b].user /\ t.review = tx[b].review
        /\ t.delta = tx[b].delta /\ t.row = row /\ t.prev = tx[b].prev
        /\ t.kind = tx[b].kind /\ t.action = tx[b].action
    BY <1>1, <1>2 DEF TxRecord, Busy, Locked
  <1>4. t.prev \in VoteAction
    BY <1>1, <1>3 DEF VoterOK
  <1> HIDE DEF t
  <1>5. QED
    BY <1>1, <1>2, <1>3, <1>4, StatementKeeps DEF Busy, Locked, lockVars, DeletionInv, Shapes

LEMMA InsertKeeps ==
  ASSUME DeletionInv, NEW b \in Backends, Inserted(b), ~WaitsForRemoval(b),
         UNCHANGED <<del, accountLock, cron>>
  PROVE  DeletionInv'
  <1> DEFINE t == [tx[b] EXCEPT !.pc = "increment", !.row = tx[b].action]
  <1>1. /\ tx' = [tx EXCEPT ![b] = t] /\ tx[b].pc = "insert" /\ tx[b] \in TxRecord
        /\ VoterOK(b) /\ UNCHANGED <<dbVars, lockVars>>
        /\ tx[b].review \in reviews /\ tx[b].user \in accounts
    BY DEF Inserted, InsertAllowed, DeletionInv, Shapes
  <1>2. tx[b].action \in VoteAction
    BY <1>1 DEF VoterOK
  <1>3. /\ t \in TxRecord /\ t.pc = "increment" /\ t.user = tx[b].user /\ t.review = tx[b].review
        /\ t.delta = tx[b].delta /\ t.row = tx[b].action
        /\ t.kind = tx[b].kind /\ t.action = tx[b].action
    BY <1>1, <1>2 DEF TxRecord, Busy, Locked
  <1> HIDE DEF t
  <1>4. QED
    BY <1>1, <1>2, <1>3, StatementKeeps DEF Busy, Locked, lockVars, DeletionInv, Shapes

\* A statement that changes a counter: the row was free, and it is b's now.
LEMMA CounterKeeps ==
  ASSUME DeletionInv, NEW b \in Backends, tx[b].pc \in Busy, ReviewRowFree(b),
         NEW a \in VoteAction, NEW n \in Int, NEW pc \in {"insert", "commit"},
         UpdateCounter(b, a, n, pc),
         tx[b].review \in reviews => SeenTally(b, a) + n >= 0,
         pc = "insert" => tx[b].action \in VoteAction,
         UNCHANGED <<dbVars, voteLock, del, accountLock, cron>>
  PROVE  DeletionInv'
  <1>0. tx[b] \in TxRecord /\ VoterOK(b) /\ pc \in Busy /\ voteLock' = voteLock
    BY DEF DeletionInv, Shapes, Busy, Locked
  <1>1. CASE tx[b].review \notin reviews
    <2> DEFINE t == [tx[b] EXCEPT !.pc = pc]
    <2>1. tx' = [tx EXCEPT ![b] = t] /\ UNCHANGED rowLock
      BY <1>1 DEF UpdateCounter, Goto
    <2>2. /\ t \in TxRecord /\ t.pc = pc /\ t.user = tx[b].user /\ t.review = tx[b].review
          /\ t.delta = tx[b].delta /\ t.row = tx[b].row /\ t.kind = tx[b].kind
          /\ t.action = tx[b].action
      BY <1>0 DEF TxRecord
    <2> HIDE DEF t
    <2>3. QED
      BY <1>0, <2>1, <2>2, StatementKeeps DEF DeletionInv, Shapes
  <1>2. CASE tx[b].review \in reviews
    <2> PICK delta : delta = [tx[b].delta EXCEPT ![a] = @ + n]
      OBVIOUS
    <2> DEFINE t == [tx[b] EXCEPT !.pc = pc, !.delta = delta]
    <2>1. tx' = [tx EXCEPT ![b] = t] /\ rowLock' = [rowLock EXCEPT ![tx[b].review] = b]
      BY <1>0, <1>2 DEF UpdateCounter, TxRecord
    <2>2. /\ delta \in [VoteAction -> Int]
          /\ delta[a] = tx[b].delta[a] + n
          /\ \A x \in VoteAction \ {a} : delta[x] = tx[b].delta[x]
      BY <1>0 DEF TxRecord
    <2>3. /\ t \in TxRecord /\ t.pc = pc /\ t.user = tx[b].user /\ t.review = tx[b].review
          /\ t.delta = delta /\ t.row = tx[b].row /\ t.kind = tx[b].kind
          /\ t.action = tx[b].action
      BY <1>0, <2>2 DEF TxRecord
    <2> HIDE DEF t
    <2>4. tx'[b] = t /\ tx[b].review \in Reviews
      BY <2>1, <1>2 DEF DeletionInv, Shapes
    <2>5. \A x \in VoteAction : tally[tx[b].review][x] + delta[x] >= 0
      <3>1. ASSUME NEW x \in VoteAction, x # a PROVE tally[tx[b].review][x] + tx[b].delta[x] >= 0
        <4>1. tally[tx[b].review][x] \in Nat
          BY <2>4 DEF DeletionInv, Shapes
        <4>2. QED
          BY <1>0, <4>1 DEF VoterOK, NoDelta
      <3>2. tally[tx[b].review][a] + tx[b].delta[a] + n >= 0
        BY <1>2 DEF SeenTally
      <3>3. tally[tx[b].review][a] \in Nat /\ tx[b].delta[a] \in Int
        BY <1>0, <2>4 DEF DeletionInv, Shapes, TxRecord
      <3>4. QED
        BY <2>2, <3>1, <3>2, <3>3
    <2>6. VoterOK(b)'
      <3>1. rowLock'[tx[b].review] = b
        BY <2>1, <2>4 DEF DeletionInv, Shapes
      <3>2. t.row \in VoteAction => t.review \in reviews /\ t.user \in accounts
        BY <1>0, <2>3 DEF VoterOK
      <3>3. t.user \in Users /\ t.review \in Reviews
        BY <1>0, <2>3 DEF VoterOK
      <3>4. /\ t.pc \in {"insert", "increment"} => t.action \in VoteAction
            /\ t.kind = "voteReview" => t.action \in VoteAction
            /\ t.pc # "idle" /\ t.pc \notin {"delete", "decrement"}
        BY <1>0, <2>3 DEF VoterOK
      <3>5. QED
        BY <1>2, <2>3, <2>4, <2>5, <3>1, <3>2, <3>3, <3>4 DEF VoterOK, dbVars
    <2>7. rowLock' \in [Reviews -> Backends \union Deleters \union {Cron, Nobody}]
      BY <2>1 DEF DeletionInv, Shapes
    <2>8. \A r \in Reviews : \/ rowLock'[r] = rowLock[r]
                             \/ rowLock[r] \in {b, Nobody} /\ rowLock'[r] \in {b, Nobody}
      BY <2>1, <2>4 DEF DeletionInv, Shapes, ReviewRowFree
    <2>9. voteLock' \in [LockKeys -> Backends \union {Nobody}]
      BY <1>0 DEF DeletionInv, Shapes
    <2>10. QED
      BY <2>1, <2>3, <2>6, <2>7, <2>8, <2>9, VoterMoves
  <1>3. QED
    BY <1>1, <1>2

LEMMA DecrementKeeps ==
  ASSUME DeletionInv, NEW b \in Backends, Decrement(b), UNCHANGED <<del, accountLock, cron>>
  PROVE  DeletionInv'
  <1>1. CASE CounterExhausted(b, tx[b].prev)
    BY <1>1, VoterEnds DEF Decrement
  <1>2. CASE ~CounterExhausted(b, tx[b].prev)
    <2>1. tx[b] \in TxRecord /\ VoterOK(b) /\ tx[b].pc = "decrement"
      BY DEF Decrement, DeletionInv, Shapes
    <2> PICK a : a = tx[b].prev
      OBVIOUS
    <2> PICK pc : pc = AfterDecrement(b)
      OBVIOUS
    <2>2. a \in VoteAction
      BY <2>1 DEF VoterOK
    <2>3. pc \in {"insert", "commit"} /\ (pc = "insert" => tx[b].action \in VoteAction)
      BY <2>1 DEF AfterDecrement, VoterOK
    <2>4. tx[b].review \in reviews => SeenTally(b, a) + (-1) >= 0
      <3>1. tx[b].review \in reviews =>
              tally[tx[b].review][a] \in Nat /\ tx[b].delta[a] \in Int
        BY <2>1, <2>2 DEF TxRecord, DeletionInv, Shapes
      <3>2. QED
        BY <1>2, <3>1 DEF CounterExhausted, SeenTally
    <2>5. /\ UpdateCounter(b, a, -1, pc) /\ ReviewRowFree(b)
          /\ UNCHANGED <<dbVars, voteLock, del, accountLock, cron>>
      BY <1>2 DEF Decrement
    <2>6. QED
      BY <2>1, <2>2, <2>3, <2>4, <2>5, CounterKeeps DEF Busy, Locked
  <1>3. QED
    BY <1>1, <1>2

LEMMA IncrementKeeps ==
  ASSUME DeletionInv, NEW b \in Backends, Increment(b), UNCHANGED <<del, accountLock, cron>>
  PROVE  DeletionInv'
  <1>1. tx[b] \in TxRecord /\ VoterOK(b) /\ tx[b].pc = "increment"
    BY DEF Increment, DeletionInv, Shapes
  <1> PICK a : a = tx[b].action
    OBVIOUS
  <1>2. a \in VoteAction
    BY <1>1 DEF VoterOK
  <1>3. tx[b].review \in reviews => SeenTally(b, a) + 1 >= 0
    <2>1. tx[b].review \in reviews =>
            tally[tx[b].review][a] \in Nat /\ tx[b].delta[a] \in Int
      BY <1>1, <1>2 DEF TxRecord, DeletionInv, Shapes
    <2>2. tx[b].review \in reviews => tally[tx[b].review][a] + tx[b].delta[a] >= 0
      BY <1>1, <1>2, <2>1 DEF VoterOK, NoDelta
    <2>3. QED
      BY <2>1, <2>2 DEF SeenTally
  <1>4. /\ UpdateCounter(b, a, 1, "commit") /\ ReviewRowFree(b)
        /\ UNCHANGED <<dbVars, voteLock, del, accountLock, cron>>
    BY DEF Increment
  <1>5. QED
    BY <1>1, <1>2, <1>3, <1>4, CounterKeeps DEF Busy, Locked

\* The changes of one party commit: the rows of the others stay as they were.
LEMMA CommitKeeps ==
  ASSUME DeletionInv, NEW b \in Backends, Commit(b),
         cron' = [cron EXCEPT !.fresh = IF dbVars' = dbVars THEN cron.fresh ELSE cron.pc = "idle"],
         UNCHANGED <<del, accountLock>>
  PROVE  DeletionInv'
  <1> PICK r : r = tx[b].review
    OBVIOUS
  <1> PICK u : u = tx[b].user
    OBVIOUS
  <1> PICK t : t = tx[b]
    OBVIOUS
  <1>0. /\ t \in TxRecord /\ VoterOK(b) /\ Shapes /\ u \in Users /\ r \in Reviews
        /\ b # Nobody /\ b # Cron /\ b \notin Deleters /\ t.pc = "commit"
    BY VotingAssumption, DeletionAssumption DEF DeletionInv, Shapes, Commit, VoterOK, Busy, Locked
  <1>1. /\ vote' = IF t.row = Untouched THEN vote ELSE [vote EXCEPT ![r][u] = t.row]
        /\ tally' = [tally EXCEPT ![r] = [a \in VoteAction |-> @[a] + t.delta[a]]]
        /\ accounts' = accounts /\ reviews' = reviews
    BY DEF Commit
  <1> PICK reply \in {"true", "false"} : Answer(b, reply)
    BY DEF Commit, CommitReply
  <1>2. /\ tx' = [tx EXCEPT ![b] = Idle(reply)] /\ Idle(reply) \in TxRecord
        /\ rowLock' = Release(b, rowLock) /\ voteLock' = Release(b, voteLock)
    BY IdleType DEF Answer
  <1>3. /\ tx'[b].pc = "idle" /\ tx'[b].row = Untouched /\ tx'[b].delta = NoDelta
        /\ tx'[b].kind = "none" /\ \A c \in Backends \ {b} : tx'[c] = tx[c]
    BY <1>0, <1>2 DEF Idle, Shapes
  <1>4. /\ \A s \in Reviews : rowLock[s] # b => rowLock'[s] = rowLock[s] /\ tally'[s] = tally[s]
        /\ \A s \in Reviews \ reviews : tally'[s] = tally[s]
    <2>1. t.delta # NoDelta => r \in reviews /\ rowLock[r] = b
      BY <1>0 DEF VoterOK
    <2>2. t.delta = NoDelta => tally' = tally
      BY <1>0, <1>1 DEF NoDelta, Shapes
    <2>3. \A s \in Reviews \ {r} : tally'[s] = tally[s]
      BY <1>0, <1>1 DEF Shapes
    <2>4. \A s \in Reviews : rowLock[s] # b => rowLock'[s] = rowLock[s]
      BY <1>0, <1>2 DEF Release, Shapes
    <2>5. QED
      BY <2>1, <2>2, <2>3, <2>4
  <1>5. tally' \in [Reviews -> [VoteAction -> Nat]]
    <2> PICK row : row = [a \in VoteAction |-> tally[r][a] + t.delta[a]]
      OBVIOUS
    <2>1. tally' = [tally EXCEPT ![r] = row]
      BY <1>0, <1>1 DEF Shapes
    <2>2. ASSUME NEW a \in VoteAction PROVE tally[r][a] + t.delta[a] \in Nat
      <3>1. tally[r][a] \in Nat /\ t.delta[a] \in Int
        BY <1>0 DEF Shapes, TxRecord
      <3>2. tally[r][a] + t.delta[a] >= 0
        BY <1>0, <3>1 DEF VoterOK, NoDelta
      <3>3. QED
        BY <3>1, <3>2
    <2>3. row \in [VoteAction -> Nat]
      BY <2>2
    <2>4. QED
      BY <2>1, <2>3, <1>0 DEF Shapes
  <1>6. vote' \in [Reviews -> [Users -> VoteAction \union {NoVote}]]
    <2>1. t.row # Untouched => t.row \in VoteAction \union {NoVote}
      BY <1>0 DEF TxRecord
    <2>2. QED
      BY <2>1, <1>0, <1>1 DEF Shapes
  <1>7. Shapes'
    <2>1. tx' \in [Backends -> TxRecord]
      BY <1>0, <1>2 DEF Shapes
    <2>2. /\ voteLock' \in [LockKeys -> Backends \union {Nobody}]
          /\ rowLock' \in [Reviews -> Backends \union Deleters \union {Cron, Nobody}]
      BY <1>0, <1>2 DEF Shapes, Release
    <2>3. cron' \in CronRecord
      BY <1>0 DEF Shapes, CronRecord
    <2>4. QED
      BY <1>0, <1>1, <1>5, <1>6, <2>1, <2>2, <2>3 DEF Shapes
  <1>8. ASSUME NEW c \in Backends PROVE VoterOK(c)'
    <2>1. CASE c = b
      BY <2>1, <1>3 DEF VoterOK, Busy, Locked, Untouched, VoteAction
    <2>2. CASE c # b
      <3>1. tx'[c] = tx[c] /\ VoterOK(c)
        BY <2>2, <1>3 DEF DeletionInv
      <3>2. tx[c].delta # NoDelta =>
              tx[c].review \in Reviews /\ tx[c].review \in reviews /\ rowLock[tx[c].review] = c
        BY <3>1, <1>0 DEF VoterOK, Shapes
      <3>3. tx[c].row \in VoteAction => tx[c].review \in reviews /\ tx[c].user \in accounts
        BY <3>1 DEF VoterOK
      <3>4. QED
        BY <2>2, <3>1, <3>2, <3>3, <1>1, <1>4, VoterKeeps
    <2>3. QED
      BY <2>1, <2>2
  <1>9. ASSUME NEW d \in Deleters PROVE DeleterOK(d)'
    <2>1. DeleterOK(d) /\ d # b /\ del'[d] = del[d] /\ accountLock' = accountLock
      BY <1>0 DEF DeletionInv
    <2>2. \A s \in Reviews : del[d].delta[s] # NoDelta => s \in reviews /\ rowLock[s] = d
      BY <2>1 DEF DeleterOK
    <2>3. ASSUME del[d].pc \in {"cascade", "commit"}, del[d].user \in accounts
          PROVE  /\ accountLock[del[d].user] = d
                 /\ \A c \in Backends : ~(tx'[c].row \in VoteAction /\ tx'[c].user = del[d].user)
      <3>1. accountLock[del[d].user] = d /\ \A c \in Backends : ~SharesAccount(c, del[d].user)
        BY <2>1, <2>3 DEF DeleterOK
      <3>2. QED
        BY <3>1, <1>3 DEF SharesAccount, Untouched, VoteAction
    <2>4. ASSUME del[d].pc = "commit", del[d].user \in accounts, NEW s \in reviews, del[d].user \in Owners[s]
          PROVE  /\ rowLock[s] = d
                 /\ \A c \in Backends : ~(tx'[c].row # Untouched /\ tx'[c].review = s)
      <3>1. rowLock[s] = d /\ \A c \in Backends : ~WritesVoteOn(c, s)
        BY <2>1, <2>4 DEF DeleterOK, OwnedBy
      <3>2. QED
        BY <3>1, <1>3 DEF WritesVoteOn
    <2>5. \A s \in reviews : s \in Reviews
      BY <1>0 DEF Shapes
    <2>6. \A s \in Reviews : del[d].delta[s] # NoDelta =>
            s \in reviews' /\ rowLock'[s] = d /\ tally'[s] = tally[s]
      BY <1>1, <1>4, <2>1, <2>2
    <2>7. del[d].pc = "commit" /\ del[d].user \in accounts' =>
            \A s \in reviews' : del[d].user \in Owners[s] =>
              /\ rowLock'[s] = d
              /\ \A c \in Backends : ~(tx'[c].row # Untouched /\ tx'[c].review = s)
      BY <1>1, <1>4, <2>1, <2>4, <2>5
    <2>8. QED
      BY <1>1, <2>1, <2>3, <2>6, <2>7, DeleterKeeps
  <1>10. CronOK'
    <2>1. CronOK /\ cron \in CronRecord
      BY <1>0 DEF DeletionInv, Shapes
    <2>2. \A s \in Reviews : cron.delta[s] # NoDelta => s \in reviews /\ rowLock[s] = Cron
      BY <2>1 DEF CronOK
    <2>3. cron'.delta = cron.delta /\ cron'.pc = cron.pc
      BY <2>1 DEF CronRecord
    <2>4. cron.pc = "idle" => cron' = NoRefresh
      <3>1. cron.pc = "idle" => cron.fresh = TRUE /\ cron = NoRefresh
        BY <2>1 DEF CronOK, NoRefresh
      <3>2. QED
        BY <3>1, <2>1 DEF CronRecord
    <2>5. QED
      BY <1>0, <1>1, <1>4, <2>1, <2>2, <2>3, <2>4, CronKeeps
  <1>11. FreshOK'
    <2>1. cron \in CronRecord
      BY <1>0 DEF Shapes
    <2>2. CASE dbVars' = dbVars
      <3>1. cron'.pc = cron.pc /\ cron'.fresh = cron.fresh /\ cron'.actual = cron.actual
            /\ cron'.todo = cron.todo /\ cron'.delta = cron.delta
        BY <2>1, <2>2 DEF CronRecord
      <3>2. QED
        BY <2>2, <3>1 DEF DeletionInv, FreshOK, ActualCounts, Count, dbVars
    <2>3. CASE dbVars' # dbVars
      <3>1. cron'.pc = cron.pc /\ cron'.fresh = (cron.pc = "idle")
        BY <2>1, <2>3 DEF CronRecord
      <3>2. QED
        BY <3>1 DEF FreshOK
    <2>4. QED
      BY <2>2, <2>3
  <1>12. Removed'
    BY <1>1, <1>4 DEF DeletionInv, Removed
  <1>13. HoldersActive'
    <2>1. cron'.delta = cron.delta
      BY <1>0 DEF Shapes, CronRecord
    <2>2. \A s \in Reviews : rowLock'[s] # Nobody => rowLock'[s] = rowLock[s]
      BY <1>0, <1>2 DEF Release, Shapes
    <2>3. Nobody \notin Deleters /\ Nobody # Cron
      BY DeletionAssumption
    <2>4. QED
      BY <2>1, <2>2, <2>3 DEF DeletionInv, HoldersActive
  <1>14. NoOrphans'
    <2>1. t.row \in VoteAction => r \in reviews /\ u \in accounts
      BY <1>0 DEF VoterOK
    <2>2. t.row # Untouched => t.row \in VoteAction \union {NoVote}
      BY <1>0 DEF TxRecord
    <2>3. \A s \in Reviews, w \in Users : vote'[s][w] # vote[s][w] => s = r /\ w = u /\ vote'[s][w] = t.row
      BY <1>0, <1>1 DEF Shapes
    <2>4. ASSUME NEW s \in Reviews, NEW w \in Users, vote'[s][w] # NoVote
          PROVE  s \in reviews /\ w \in accounts
      <3>1. CASE vote'[s][w] = vote[s][w]
        BY <2>4, <3>1 DEF DeletionInv, NoOrphans
      <3>2. CASE vote'[s][w] # vote[s][w]
        <4>1. s = r /\ w = u /\ vote'[s][w] = t.row
          BY <2>3, <3>2
        <4>2. t.row # Untouched
          BY <1>1, <3>2
        <4>3. QED
          BY <2>1, <2>2, <2>4, <4>1, <4>2
      <3>3. QED
        BY <3>1, <3>2
    <2>5. QED
      BY <1>1, <2>4 DEF DeletionInv, NoOrphans
  <1>15. QED
    BY <1>7, <1>8, <1>9, <1>10, <1>11, <1>12, <1>13, <1>14 DEF DeletionInv

\* Every statement of a voting request keeps the invariant.
LEMMA VotingKeeps ==
  ASSUME DeletionInv, NEW b \in Backends, VotingStep(b)
  PROVE  DeletionInv'
  <1>1. CASE dbVars' = dbVars
    <2>1. cron' = cron
      BY <1>1 DEF VotingStep, DeletionInv, Shapes, CronRecord
    <2>2. CASE Abort(b)
      BY <2>1, <2>2, VoterEnds DEF Abort, VotingStep
    <2>3. CASE Insert(b) /\ ~WaitsForRemoval(b)
      <3>1. CASE InsertAllowed(b)
        BY <2>1, <2>3, <3>1, InsertKeeps DEF Insert, Inserted, VotingStep
      <3>2. CASE ~InsertAllowed(b)
        BY <2>1, <2>3, <3>2, VoterEnds DEF Insert, VotingStep
      <3>3. QED
        BY <3>1, <3>2
    <2>4. QED
      BY <2>1, <2>2, <2>3, BeginKeeps, ExistsKeeps, TryLockKeeps, FindKeeps, DeleteKeeps,
         DecrementKeeps, IncrementKeeps, CommitKeeps DEF VotingStep, Step
  <1>2. CASE dbVars' # dbVars
    <2>1. Commit(b)
      BY <1>2 DEF VotingStep, Step, Begin, Abort, Exists, TryLock, Find, Delete, Decrement,
                  Insert, Increment
    <2>2. QED
      BY <2>1, CommitKeeps DEF VotingStep
  <1>3. QED
    BY <1>1, <1>2

-----------------------------------------------------------------------------
(* Statements of a deletion.                                               *)

\* Session d moves to the record e without committing: it may take locks that
\* are free or give back its own.
LEMMA DeleterMoves ==
  ASSUME DeletionInv, NEW d \in Deleters, NEW e \in DelRecord, del' = [del EXCEPT ![d] = e],
         UNCHANGED <<dbVars, tx, voteLock, cron>>,
         rowLock' \in [Reviews -> Backends \union Deleters \union {Cron, Nobody}],
         \A r \in Reviews : \/ rowLock'[r] = rowLock[r]
                            \/ rowLock[r] \in {d, Nobody} /\ rowLock'[r] \in {d, Nobody},
         accountLock' \in [Users -> Deleters \union {Nobody}],
         \A u \in Users : \/ accountLock'[u] = accountLock[u]
                          \/ accountLock[u] \in {d, Nobody} /\ accountLock'[u] \in {d, Nobody},
         e.pc = "idle" => \A r \in Reviews : rowLock'[r] # d,
         DeleterOK(d)'
  PROVE  DeletionInv'
  <1>0. /\ Shapes /\ d # Nobody /\ d # Cron /\ d \notin Backends
        /\ accounts' = accounts /\ reviews' = reviews /\ vote' = vote /\ tally' = tally
        /\ tx' = tx /\ cron' = cron /\ voteLock' = voteLock
    BY DeletionAssumption DEF DeletionInv, dbVars
  <1>1. Shapes'
    BY <1>0 DEF Shapes
  <1>2. ASSUME NEW c \in Backends PROVE VoterOK(c)'
    <2>1. VoterOK(c) /\ c # d /\ c # Nobody
      BY <1>0, VotingAssumption DEF DeletionInv
    <2>2. tx[c].delta # NoDelta =>
            tx[c].review \in Reviews /\ tx[c].review \in reviews /\ rowLock[tx[c].review] = c
      BY <2>1, <1>0 DEF VoterOK, Shapes
    <2>3. tx[c].row \in VoteAction => tx[c].review \in reviews /\ tx[c].user \in accounts
      BY <2>1 DEF VoterOK
    <2>4. QED
      BY <2>1, <2>2, <2>3, <1>0, VoterKeeps
  <1>3. ASSUME NEW f \in Deleters PROVE DeleterOK(f)'
    <2>1. CASE f = d
      BY <2>1
    <2>2. CASE f # d
      <3>1. DeleterOK(f) /\ f # Nobody /\ del'[f] = del[f]
        BY <2>2, <1>0, DeletionAssumption DEF DeletionInv, Shapes
      <3>2. \A r \in Reviews : del[f].delta[r] # NoDelta =>
              r \in reviews' /\ rowLock'[r] = f /\ tally'[r] = tally[r]
        <4>1. \A r \in Reviews : del[f].delta[r] # NoDelta => r \in reviews /\ rowLock[r] = f
          BY <3>1 DEF DeleterOK
        <4>2. QED
          BY <4>1, <3>1, <2>2, <1>0
      <3>3. del[f].pc \in {"cascade", "commit"} /\ del[f].user \in accounts' =>
              /\ del[f].user \in accounts /\ accountLock'[del[f].user] = f
              /\ \A b \in Backends : ~(tx'[b].row \in VoteAction /\ tx'[b].user = del[f].user)
        <4>1. del[f].pc \in {"cascade", "commit"} /\ del[f].user \in accounts =>
                /\ del[f].user \in Users /\ accountLock[del[f].user] = f
                /\ \A b \in Backends : ~SharesAccount(b, del[f].user)
          BY <3>1, <1>0 DEF DeleterOK, Shapes
        <4>2. QED
          BY <4>1, <3>1, <2>2, <1>0 DEF SharesAccount
      <3>4. del[f].pc = "commit" /\ del[f].user \in accounts' =>
              \A r \in reviews' : del[f].user \in Owners[r] =>
                /\ rowLock'[r] = f
                /\ \A b \in Backends : ~(tx'[b].row # Untouched /\ tx'[b].review = r)
        <4>1. del[f].pc = "commit" /\ del[f].user \in accounts =>
                \A r \in reviews : del[f].user \in Owners[r] =>
                  r \in Reviews /\ rowLock[r] = f /\ \A b \in Backends : ~WritesVoteOn(b, r)
          BY <3>1, <1>0 DEF DeleterOK, OwnedBy, Shapes
        <4>2. QED
          BY <4>1, <3>1, <2>2, <1>0 DEF WritesVoteOn
      <3>5. QED
        BY <3>1, <3>2, <3>3, <3>4, DeleterKeeps
    <2>3. QED
      BY <2>1, <2>2
  <1>4. CronOK'
    <2>1. CronOK /\ Cron # Nobody
      BY DeletionAssumption DEF DeletionInv
    <2>2. \A r \in Reviews : cron.delta[r] # NoDelta => r \in reviews /\ rowLock[r] = Cron
      BY <2>1 DEF CronOK
    <2>3. \A r \in Reviews : rowLock[r] = Cron => rowLock'[r] = Cron
      BY <2>1, <1>0
    <2>4. QED
      BY <1>0, <2>1, <2>2, <2>3, CronKeeps DEF CronOK
  <1>5. FreshOK' /\ Removed' /\ NoOrphans'
    BY <1>0 DEF DeletionInv, FreshOK, Removed, NoOrphans, ActualCounts, Count
  <1>6. HoldersActive'
    <2>1. ASSUME NEW r \in Reviews, rowLock'[r] \in Deleters
          PROVE  del'[rowLock'[r]].pc # "idle"
      <3>1. CASE rowLock'[r] = d
        BY <3>1, <1>0 DEF Shapes
      <3>2. CASE rowLock'[r] # d
        <4>1. rowLock'[r] = rowLock[r]
          BY <2>1, <3>2, DeletionAssumption
        <4>2. del[rowLock[r]].pc # "idle"
          BY <2>1, <4>1 DEF DeletionInv, HoldersActive
        <4>3. QED
          BY <2>1, <3>2, <4>1, <4>2, <1>0 DEF Shapes
      <3>3. QED
        BY <3>1, <3>2
    <2>2. \A r \in Reviews : rowLock'[r] = Cron => rowLock[r] = Cron
      BY <1>0, DeletionAssumption
    <2>3. QED
      BY <2>1, <2>2, <1>0 DEF DeletionInv, HoldersActive
  <1>7. QED
    BY <1>1, <1>2, <1>3, <1>4, <1>5, <1>6 DEF DeletionInv

\* The record of a deletion that is over.
LEMMA NoDeletionType ==
  ASSUME NEW reply \in {"none", "notFound", "constraint", "deleted", "aborted"}
  PROVE  /\ [NoDeletion EXCEPT !.reply = reply] \in DelRecord
         /\ [NoDeletion EXCEPT !.reply = reply].pc = "idle"
         /\ [NoDeletion EXCEPT !.reply = reply].user = Nobody
         /\ [NoDeletion EXCEPT !.reply = reply].delta = NoDeltas
  <1>1. NoDeltas \in Deltas
    BY DEF NoDeltas, NoDelta, Deltas
  <1>2. QED
    BY <1>1 DEF NoDeletion, DelRecord

\* What the end of a deletion does to its locks.
LEMMA ReleasedLocks ==
  ASSUME Shapes, NEW d \in Deleters, rowLock' = Release(d, rowLock),
         accountLock' = Release(d, accountLock)
  PROVE  /\ rowLock' \in [Reviews -> Backends \union Deleters \union {Cron, Nobody}]
         /\ accountLock' \in [Users -> Deleters \union {Nobody}]
         /\ \A r \in Reviews : rowLock'[r] = IF rowLock[r] = d THEN Nobody ELSE rowLock[r]
         /\ \A u \in Users : accountLock'[u] = IF accountLock[u] = d THEN Nobody ELSE accountLock[u]
  BY DEF Shapes, Release

\* A session that has ended its deletion.
LEMMA EndedDeleter ==
  ASSUME NEW d \in Deleters, del'[d].pc = "idle", del'[d].delta = NoDeltas
  PROVE  DeleterOK(d)'
  BY DEF DeleterOK, NoDeltas

LEMMA DeleterEnds ==
  ASSUME DeletionInv, NEW d \in Deleters,
         NEW reply \in {"none", "notFound", "constraint", "deleted", "aborted"},
         AnswerDeletion(d, reply), UNCHANGED <<dbVars, cron>>
  PROVE  DeletionInv'
  <1> DEFINE e == [NoDeletion EXCEPT !.reply = reply]
  <1>1. e \in DelRecord /\ e.pc = "idle" /\ e.delta = NoDeltas
    BY NoDeletionType
  <1>2. /\ del' = [del EXCEPT ![d] = e] /\ del'[d] = e /\ Shapes /\ d # Nobody
        /\ rowLock' = Release(d, rowLock) /\ accountLock' = Release(d, accountLock)
        /\ UNCHANGED <<tx, voteLock>>
    BY DeletionAssumption DEF AnswerDeletion, DeletionInv, Shapes
  <1> HIDE DEF e
  <1>3. DeleterOK(d)'
    BY <1>1, <1>2, EndedDeleter
  <1>4. /\ rowLock' \in [Reviews -> Backends \union Deleters \union {Cron, Nobody}]
        /\ accountLock' \in [Users -> Deleters \union {Nobody}]
        /\ \A r \in Reviews : rowLock'[r] = IF rowLock[r] = d THEN Nobody ELSE rowLock[r]
        /\ \A u \in Users : accountLock'[u] = IF accountLock[u] = d THEN Nobody ELSE accountLock[u]
    BY <1>2, ReleasedLocks
  <1>5. /\ \A r \in Reviews : \/ rowLock'[r] = rowLock[r]
                              \/ rowLock[r] \in {d, Nobody} /\ rowLock'[r] \in {d, Nobody}
        /\ \A u \in Users : \/ accountLock'[u] = accountLock[u]
                            \/ accountLock[u] \in {d, Nobody} /\ accountLock'[u] \in {d, Nobody}
        /\ \A r \in Reviews : rowLock'[r] # d
    BY <1>2, <1>4
  <1>6. QED
    BY <1>1, <1>2, <1>3, <1>4, <1>5, DeleterMoves

\* A deletion that only moves on, before it has changed a counter or a lock.
LEMMA DeleterSteps ==
  ASSUME DeletionInv, NEW d \in Deleters, NEW e \in DelRecord, del' = [del EXCEPT ![d] = e],
         UNCHANGED <<dbVars, tx, lockVars, cron, accountLock>>,
         e.pc \in {"find", "votes", "revoke"}, e.user \in Users, e.delta = del[d].delta
  PROVE  DeletionInv'
  <1>1. del'[d] = e /\ Shapes /\ DeleterOK(d)
    BY DEF DeletionInv, Shapes
  <1>2. \A r \in Reviews : e.delta[r] # NoDelta =>
          /\ r \in reviews /\ rowLock[r] = d
          /\ \A a \in VoteAction : tally[r][a] + e.delta[r][a] >= 0
    BY <1>1 DEF DeleterOK
  <1>3. DeleterOK(d)'
    BY <1>1, <1>2 DEF DeleterOK, dbVars, lockVars
  <1>4. QED
    BY <1>1, <1>3, DeleterMoves DEF lockVars, Shapes

LEMMA BeginDeleteKeeps ==
  ASSUME DeletionInv, NEW d \in Deleters, BeginDelete(d)
  PROVE  DeletionInv'
  <1> PICK u \in Users : del' = [del EXCEPT ![d] = [NoDeletion EXCEPT !.pc = "find", !.user = u]]
    BY DEF BeginDelete
  <1> DEFINE e == [NoDeletion EXCEPT !.pc = "find", !.user = u]
  <1>1. NoDeltas \in Deltas
    BY DEF NoDeltas, NoDelta, Deltas
  <1>2. e \in DelRecord /\ e.pc = "find" /\ e.user = u /\ e.delta = NoDeltas
    BY <1>1 DEF NoDeletion, DelRecord
  <1>3. del[d].delta = NoDeltas
    BY DEF BeginDelete, DeletionInv, DeleterOK
  <1>4. del' = [del EXCEPT ![d] = e] /\ UNCHANGED <<dbVars, tx, lockVars, cron, accountLock>>
    BY DEF BeginDelete, votingVars
  <1> HIDE DEF e
  <1>5. QED
    BY <1>2, <1>3, <1>4, DeleterSteps

LEMMA FindUserKeeps ==
  ASSUME DeletionInv, NEW d \in Deleters, FindUser(d)
  PROVE  DeletionInv'
  <1>1. CASE del[d].user \notin accounts
    BY <1>1, DeleterEnds DEF FindUser
  <1>2. CASE del[d].user \in accounts
    <2> DEFINE e == [del[d] EXCEPT !.pc = "votes"]
    <2>1. /\ del' = [del EXCEPT ![d] = e] /\ del[d] \in DelRecord
          /\ UNCHANGED <<dbVars, tx, lockVars, cron, accountLock>>
      BY <1>2 DEF FindUser, DeletionInv, Shapes
    <2>2. e \in DelRecord /\ e.pc = "votes" /\ e.user = del[d].user /\ e.delta = del[d].delta
      BY <2>1 DEF DelRecord
    <2>3. del[d].user \in Users
      BY <1>2 DEF DeletionInv, Shapes
    <2> HIDE DEF e
    <2>4. QED
      BY <2>1, <2>2, <2>3, DeleterSteps
  <1>3. QED
    BY <1>1, <1>2

LEMMA FindVotesKeeps ==
  ASSUME DeletionInv, NEW d \in Deleters, FindVotes(d)
  PROVE  DeletionInv'
  <1> PICK up : up = VotedBy(del[d].user, "up")
    OBVIOUS
  <1> PICK down : down = VotedBy(del[d].user, "down")
    OBVIOUS
  <1> DEFINE e == [del[d] EXCEPT !.pc = "revoke", !.up = up, !.down = down]
  <1>1. /\ del' = [del EXCEPT ![d] = e] /\ del[d] \in DelRecord /\ del[d].pc = "votes"
        /\ UNCHANGED <<dbVars, tx, lockVars, cron, accountLock>>
    BY DEF FindVotes, DeletionInv, Shapes, votingVars
  <1>2. up \subseteq Reviews /\ down \subseteq Reviews
    BY DEF VotedBy
  <1>3. e \in DelRecord /\ e.pc = "revoke" /\ e.user = del[d].user /\ e.delta = del[d].delta
    BY <1>1, <1>2 DEF DelRecord
  <1>4. del[d].user \in Users
    BY <1>1 DEF DeletionInv, DeleterOK
  <1> HIDE DEF e
  <1>5. QED
    BY <1>1, <1>3, <1>4, DeleterSteps

\* The record of a deletion once the running UPDATE is past a row.
LEMMA RowDoneFacts ==
  ASSUME NEW d \in Deleters, del[d] \in DelRecord, NEW r, NEW a
  PROVE  LET e == RowDone(d, r, a)
         IN e \in DelRecord /\ e.pc = del[d].pc /\ e.user = del[d].user /\ e.delta = del[d].delta
  <1>1. CASE a = "up"
    BY <1>1 DEF RowDone, DelRecord
  <1>2. CASE a # "up"
    BY <1>2 DEF RowDone, DelRecord
  <1>3. QED
    BY <1>1, <1>2

\* A row whose counter the deletion changes.
LEMMA RevokeRow ==
  ASSUME DeletionInv, NEW d \in Deleters, del[d].pc = "revoke",
         NEW r \in reviews, NEW a \in VoteAction, rowLock[r] \in {Nobody, d},
         tally[r][a] + del[d].delta[r][a] >= 1,
         del' = [del EXCEPT ![d] = [RowDone(d, r, a) EXCEPT !.delta[r][a] = @ - 1]],
         rowLock' = [rowLock EXCEPT ![r] = d],
         UNCHANGED <<dbVars, tx, voteLock, accountLock, cron>>
  PROVE  DeletionInv'
  <1> PICK e : e = RowDone(d, r, a)
    OBVIOUS
  <1> PICK delta : delta = [e.delta EXCEPT ![r][a] = @ - 1]
    OBVIOUS
  <1> DEFINE f == [e EXCEPT !.delta = delta]
  <1>1. /\ Shapes /\ DeleterOK(d) /\ del[d] \in DelRecord /\ r \in Reviews /\ d # Nobody
        /\ voteLock' = voteLock /\ accountLock' = accountLock
    BY DeletionAssumption DEF DeletionInv, Shapes
  <1>2. e \in DelRecord /\ e.pc = "revoke" /\ e.user = del[d].user /\ e.delta = del[d].delta
    BY <1>1, RowDoneFacts
  <1>3. /\ delta \in Deltas /\ delta[r][a] = del[d].delta[r][a] - 1
        /\ \A x \in VoteAction \ {a} : delta[r][x] = del[d].delta[r][x]
        /\ \A s \in Reviews \ {r} : delta[s] = del[d].delta[s]
    <2>1. del[d].delta \in Deltas
      BY <1>1 DEF DelRecord
    <2>2. QED
      BY <2>1, <1>1, <1>2 DEF Deltas
  <1>4. f \in DelRecord /\ f.pc = "revoke" /\ f.user = del[d].user /\ f.delta = delta
    BY <1>2, <1>3 DEF DelRecord
  <1>5. del' = [del EXCEPT ![d] = f]
    BY <1>2, <1>4 DEF DelRecord
  <1>6. del'[d] = f
    BY <1>1, <1>5 DEF Shapes
  <1> HIDE DEF f
  <1>7. /\ rowLock' \in [Reviews -> Backends \union Deleters \union {Cron, Nobody}]
        /\ rowLock'[r] = d /\ \A s \in Reviews \ {r} : rowLock'[s] = rowLock[s]
    BY <1>1 DEF Shapes
  <1>8. \A x \in VoteAction : tally[r][x] + delta[r][x] >= 0
    <2>1. ASSUME NEW x \in VoteAction, x # a PROVE tally[r][x] + del[d].delta[r][x] >= 0
      <3>1. tally[r][x] \in Nat
        BY <1>1 DEF Shapes
      <3>2. QED
        BY <1>1, <3>1 DEF DeleterOK, NoDelta
    <2>2. tally[r][a] \in Nat /\ del[d].delta[r][a] \in Int
      BY <1>1 DEF Shapes, DelRecord, Deltas
    <2>3. QED
      BY <1>3, <2>1, <2>2
  <1>9. DeleterOK(d)'
    <2>1. ASSUME NEW s \in Reviews, delta[s] # NoDelta
          PROVE  /\ s \in reviews /\ rowLock'[s] = d
                 /\ \A x \in VoteAction : tally[s][x] + delta[s][x] >= 0
      <3>1. CASE s = r
        BY <3>1, <1>7, <1>8
      <3>2. CASE s # r
        <4>1. delta[s] = del[d].delta[s] /\ rowLock'[s] = rowLock[s]
          BY <3>2, <1>3, <1>7
        <4>2. QED
          BY <2>1, <4>1, <1>1 DEF DeleterOK
      <3>3. QED
        BY <3>1, <3>2
    <2>2. f.user \in Users
      BY <1>1, <1>4 DEF DeleterOK
    <2>3. QED
      BY <2>1, <2>2, <1>4, <1>6 DEF DeleterOK, dbVars
  <1>10. accountLock' \in [Users -> Deleters \union {Nobody}]
    BY <1>1 DEF Shapes
  <1>11. QED
    BY <1>1, <1>4, <1>5, <1>7, <1>9, <1>10, DeleterMoves

LEMMA RevokeKeeps ==
  ASSUME DeletionInv, NEW d \in Deleters, Revoke(d)
  PROVE  DeletionInv'
  <1>1. PICK r \in Reviews, a \in VoteAction :
          /\ NextRow(d, r, a)
          /\ rowLock[r] \in {Nobody, d}
          /\ IF r \notin reviews
             THEN /\ del' = [del EXCEPT ![d] = RowDone(d, r, a)]
                  /\ UNCHANGED <<tx, lockVars, accountLock>>
             ELSE IF tally[r][a] + del[d].delta[r][a] < 1
             THEN AnswerDeletion(d, "constraint")
             ELSE /\ del' = [del EXCEPT ![d] = [RowDone(d, r, a) EXCEPT !.delta[r][a] = @ - 1]]
                  /\ rowLock' = [rowLock EXCEPT ![r] = d]
                  /\ UNCHANGED <<tx, voteLock, accountLock>>
    BY DEF Revoke
  <1>2. del[d].pc = "revoke" /\ del[d] \in DelRecord /\ DeleterOK(d) /\ UNCHANGED <<dbVars, cron>>
    BY DEF Revoke, DeletionInv, Shapes
  <1>3. CASE r \notin reviews
    <2> PICK e : e = RowDone(d, r, a)
      OBVIOUS
    <2>1. e \in DelRecord /\ e.pc = "revoke" /\ e.user = del[d].user /\ e.delta = del[d].delta
      BY <1>2, RowDoneFacts
    <2>2. del[d].user \in Users
      BY <1>2 DEF DeleterOK
    <2>3. QED
      BY <1>1, <1>2, <1>3, <2>1, <2>2, DeleterSteps
  <1>4. CASE r \in reviews /\ tally[r][a] + del[d].delta[r][a] < 1
    BY <1>1, <1>2, <1>4, DeleterEnds
  <1>5. CASE r \in reviews /\ ~(tally[r][a] + del[d].delta[r][a] < 1)
    <2>1. tally[r][a] \in Nat /\ del[d].delta[r][a] \in Int
      BY <1>2 DEF DeletionInv, Shapes, DelRecord, Deltas
    <2>2. tally[r][a] + del[d].delta[r][a] >= 1
      BY <1>5, <2>1
    <2>3. QED
      BY <1>1, <1>2, <1>5, <2>2, RevokeRow
  <1>6. QED
    BY <1>3, <1>4, <1>5

LEMMA LockAccountKeeps ==
  ASSUME DeletionInv, NEW d \in Deleters, LockAccount(d)
  PROVE  DeletionInv'
  <1>0. /\ Shapes /\ DeleterOK(d) /\ del[d] \in DelRecord /\ del[d].pc = "revoke" /\ d # Nobody
        /\ UNCHANGED <<dbVars, tx, voteLock, rowLock, cron>>
    BY DeletionAssumption DEF LockAccount, DeletionInv, Shapes, votingVars, lockVars
  <1>1. /\ del[d].user \in Users
        /\ \A r \in Reviews : del[d].delta[r] # NoDelta =>
             /\ r \in reviews /\ rowLock[r] = d
             /\ \A a \in VoteAction : tally[r][a] + del[d].delta[r][a] >= 0
    BY <1>0 DEF DeleterOK
  <1>2. rowLock' \in [Reviews -> Backends \union Deleters \union {Cron, Nobody}]
    BY <1>0 DEF Shapes
  <1>3. CASE del[d].user \in accounts
    <2> DEFINE e == [del[d] EXCEPT !.pc = "cascade"]
    <2>1. /\ del' = [del EXCEPT ![d] = e] /\ del'[d] = e
          /\ accountLock' = [accountLock EXCEPT ![del[d].user] = d]
      BY <1>0, <1>3 DEF LockAccount, Shapes
    <2>2. e \in DelRecord /\ e.pc = "cascade" /\ e.user = del[d].user /\ e.delta = del[d].delta
      BY <1>0 DEF DelRecord
    <2> HIDE DEF e
    <2>3. /\ accountLock' \in [Users -> Deleters \union {Nobody}]
          /\ accountLock'[del[d].user] = d
          /\ \A u \in Users : \/ accountLock'[u] = accountLock[u]
                              \/ accountLock[u] \in {d, Nobody} /\ accountLock'[u] \in {d, Nobody}
      BY <2>1, <1>0, <1>1 DEF LockAccount, Shapes
    <2>4. \A b \in Backends : ~SharesAccount(b, del[d].user)
      BY DEF LockAccount
    <2>5. DeleterOK(d)'
      BY <1>0, <1>1, <2>1, <2>2, <2>3, <2>4 DEF DeleterOK, SharesAccount, dbVars
    <2>6. QED
      BY <1>0, <1>2, <2>1, <2>2, <2>3, <2>5, DeleterMoves
  <1>4. CASE del[d].user \notin accounts
    <2> DEFINE e == [del[d] EXCEPT !.pc = "commit"]
    <2>1. del' = [del EXCEPT ![d] = e] /\ del'[d] = e /\ accountLock' = accountLock
      BY <1>0, <1>4 DEF LockAccount, Shapes
    <2>2. e \in DelRecord /\ e.pc = "commit" /\ e.user = del[d].user /\ e.delta = del[d].delta
      BY <1>0 DEF DelRecord
    <2> HIDE DEF e
    <2>3. DeleterOK(d)'
      BY <1>0, <1>1, <1>4, <2>1, <2>2 DEF DeleterOK, dbVars
    <2>4. accountLock' \in [Users -> Deleters \union {Nobody}]
      BY <1>0, <2>1 DEF Shapes
    <2>5. QED
      BY <1>0, <1>2, <2>1, <2>2, <2>3, <2>4, DeleterMoves
  <1>5. QED
    BY <1>3, <1>4

LEMMA CascadeKeeps ==
  ASSUME DeletionInv, NEW d \in Deleters, Cascade(d)
  PROVE  DeletionInv'
  <1> PICK u : u = del[d].user
    OBVIOUS
  <1> DEFINE e == [del[d] EXCEPT !.pc = "commit"]
  <1>0. /\ Shapes /\ DeleterOK(d) /\ del[d] \in DelRecord /\ del[d].pc = "cascade" /\ d # Nobody
        /\ UNCHANGED <<dbVars, tx, voteLock, accountLock, cron>> /\ accountLock' = accountLock
    BY DeletionAssumption DEF Cascade, DeletionInv, Shapes
  <1>1. /\ \A r \in OwnedBy(u) : rowLock[r] \in {Nobody, d}
        /\ \A b \in Backends : \A r \in OwnedBy(u) : ~WritesVoteOn(b, r)
        /\ rowLock' = [r \in Reviews |-> IF r \in OwnedBy(u) THEN d ELSE rowLock[r]]
    BY DEF Cascade
  <1>2. del' = [del EXCEPT ![d] = e] /\ del'[d] = e
    BY <1>0 DEF Cascade, Shapes
  <1>3. e \in DelRecord /\ e.pc = "commit" /\ e.user = u /\ e.delta = del[d].delta
    BY <1>0 DEF DelRecord
  <1> HIDE DEF e
  <1>4. /\ rowLock' \in [Reviews -> Backends \union Deleters \union {Cron, Nobody}]
        /\ \A r \in Reviews : \/ rowLock'[r] = rowLock[r]
                              \/ rowLock[r] \in {d, Nobody} /\ rowLock'[r] \in {d, Nobody}
    BY <1>0, <1>1 DEF Shapes
  <1>5. u \in Users /\ (u \in accounts => accountLock[u] = d /\ \A b \in Backends : ~SharesAccount(b, u))
    BY <1>0 DEF DeleterOK
  <1>6. \A r \in Reviews : e.delta[r] # NoDelta =>
          /\ r \in reviews /\ rowLock'[r] = d
          /\ \A a \in VoteAction : tally[r][a] + e.delta[r][a] >= 0
    BY <1>0, <1>1, <1>3 DEF DeleterOK
  <1>7. \A r \in OwnedBy(u) : r \in Reviews /\ rowLock'[r] = d
    BY <1>0, <1>1 DEF OwnedBy, Shapes
  <1>8. DeleterOK(d)'
    <2>1. reviews' = reviews /\ accounts' = accounts /\ tally' = tally /\ tx' = tx
      BY <1>0 DEF dbVars
    <2>2. \A r \in reviews' : u \in Owners[r] =>
            /\ rowLock'[r] = d
            /\ \A b \in Backends : ~(tx'[b].row # Untouched /\ tx'[b].review = r)
      BY <1>1, <1>7, <2>1 DEF OwnedBy, WritesVoteOn
    <2>3. QED
      BY <1>0, <1>2, <1>3, <1>5, <1>6, <2>1, <2>2 DEF DeleterOK, OwnedBy, SharesAccount, WritesVoteOn
  <1>9. accountLock' \in [Users -> Deleters \union {Nobody}]
    BY <1>0 DEF Shapes
  <1>10. QED
    BY <1>0, <1>2, <1>3, <1>4, <1>8, <1>9, DeleterMoves

\* The account is removed with all that cascades, and the revoked counters commit.
LEMMA CommitDeleteKeeps ==
  ASSUME DeletionInv, NEW d \in Deleters, CommitDelete(d)
  PROVE  DeletionInv'
  <1> PICK u : u = del[d].user
    OBVIOUS
  <1> PICK delta : delta = del[d].delta
    OBVIOUS
  <1> PICK removed : removed = IF u \in accounts THEN OwnedBy(u) ELSE {}
    OBVIOUS
  <1> DEFINE e == [NoDeletion EXCEPT !.reply = "deleted"]
  <1>0. /\ Shapes /\ DeleterOK(d) /\ del[d] \in DelRecord /\ del[d].pc = "commit" /\ d # Nobody
        /\ d # Cron /\ d \notin Backends /\ u \in Users /\ delta \in Deltas
    <2>1. Shapes /\ DeleterOK(d) /\ del[d] \in DelRecord /\ del[d].pc = "commit"
      BY DEF CommitDelete, DeletionInv, Shapes
    <2>2. d # Nobody /\ d # Cron /\ d \notin Backends
      BY DeletionAssumption
    <2>3. u \in Users /\ delta \in Deltas
      BY <2>1 DEF DeleterOK, DelRecord
    <2>4. QED
      BY <2>1, <2>2, <2>3
  <1>1. /\ accounts' = accounts \ {u} /\ reviews' = reviews \ removed
        /\ vote' = [r \in Reviews |-> [w \in Users |->
                      IF w = u \/ r \in removed THEN NoVote ELSE vote[r][w]]]
        /\ tally' = [r \in Reviews |-> IF r \in removed THEN NoDelta
                                       ELSE [a \in VoteAction |-> tally[r][a] + delta[r][a]]]
    BY DEF CommitDelete, RemoveAccount
  <1>2. e \in DelRecord /\ e.pc = "idle" /\ e.delta = NoDeltas
    BY NoDeletionType
  <1>3. /\ del' = [del EXCEPT ![d] = e] /\ tx' = tx /\ voteLock' = voteLock
        /\ rowLock' = Release(d, rowLock) /\ accountLock' = Release(d, accountLock)
        /\ cron' = [cron EXCEPT !.fresh = (cron.pc = "idle")]
    BY DEF CommitDelete, AnswerDeletion
  <1> HIDE DEF e
  <1>4. /\ rowLock' \in [Reviews -> Backends \union Deleters \union {Cron, Nobody}]
        /\ accountLock' \in [Users -> Deleters \union {Nobody}]
        /\ \A r \in Reviews : rowLock'[r] = IF rowLock[r] = d THEN Nobody ELSE rowLock[r]
        /\ \A w \in Users : accountLock'[w] = IF accountLock[w] = d THEN Nobody ELSE accountLock[w]
    BY <1>0, <1>3, ReleasedLocks
  <1>5. del'[d] = e /\ \A f \in Deleters \ {d} : del'[f] = del[f]
    BY <1>0, <1>3 DEF Shapes
  <1>6. \A r \in Reviews : delta[r] # NoDelta =>
          /\ r \in reviews /\ rowLock[r] = d
          /\ \A a \in VoteAction : tally[r][a] + delta[r][a] >= 0
    BY <1>0 DEF DeleterOK
  <1>7. /\ \A r \in removed : r \in reviews /\ rowLock[r] = d /\ \A b \in Backends : ~WritesVoteOn(b, r)
        /\ u \in accounts => \A b \in Backends : ~SharesAccount(b, u)
    <2>1. CASE u \in accounts
      <3>1. /\ \A r \in OwnedBy(u) : rowLock[r] = d /\ \A b \in Backends : ~WritesVoteOn(b, r)
            /\ \A b \in Backends : ~SharesAccount(b, u)
        BY <2>1, <1>0 DEF DeleterOK
      <3>2. QED
        BY <2>1, <3>1 DEF OwnedBy
    <2>2. CASE u \notin accounts
      BY <2>2
    <2>3. QED
      BY <2>1, <2>2
  <1>8. \A r \in reviews : r \in Reviews /\ (r \notin removed => u \notin Owners[r])
    BY <1>0 DEF Shapes, DeletionInv, NoOrphans, OwnedBy
  <1>9. /\ \A r \in Reviews \ removed : delta[r] = NoDelta => tally'[r] = tally[r]
        /\ \A r \in Reviews : rowLock[r] # d =>
             r \notin removed /\ tally'[r] = tally[r] /\ rowLock'[r] = rowLock[r]
    <2>1. ASSUME NEW r \in Reviews, r \notin removed, delta[r] = NoDelta PROVE tally'[r] = tally[r]
      <3>1. tally'[r] = [a \in VoteAction |-> tally[r][a] + delta[r][a]]
        BY <2>1, <1>1
      <3>2. tally[r] \in [VoteAction -> Nat]
        BY <1>0 DEF Shapes
      <3>3. QED
        BY <2>1, <3>1, <3>2 DEF NoDelta
    <2>2. QED
      BY <2>1, <1>4, <1>6, <1>7
  <1>10. Shapes'
    <2>1. tally' \in [Reviews -> [VoteAction -> Nat]]
      <3> SUFFICES ASSUME NEW r \in Reviews PROVE tally'[r] \in [VoteAction -> Nat]
        BY <1>1
      <3>1. CASE r \in removed
        BY <3>1, <1>1 DEF NoDelta
      <3>2. CASE r \notin removed
        <4>1. ASSUME NEW a \in VoteAction PROVE tally[r][a] + delta[r][a] \in Nat
          <5>1. tally[r][a] \in Nat /\ delta[r][a] \in Int
            BY <1>0 DEF Shapes, Deltas
          <5>2. tally[r][a] + delta[r][a] >= 0
            BY <5>1, <1>6 DEF NoDelta
          <5>3. QED
            BY <5>1, <5>2
        <4>2. QED
          BY <4>1, <3>2, <1>1
      <3>3. QED
        BY <3>1, <3>2
    <2>2. vote' \in [Reviews -> [Users -> VoteAction \union {NoVote}]]
      BY <1>0, <1>1 DEF Shapes
    <2>3. cron' \in CronRecord
      BY <1>0, <1>3 DEF Shapes, CronRecord
    <2>4. del' \in [Deleters -> DelRecord]
      BY <1>0, <1>2, <1>3 DEF Shapes
    <2>5. QED
      BY <1>0, <1>1, <1>3, <1>4, <2>1, <2>2, <2>3, <2>4 DEF Shapes
  <1>11. ASSUME NEW c \in Backends PROVE VoterOK(c)'
    <2>1. VoterOK(c) /\ c # d /\ tx'[c] = tx[c]
      BY <1>0, <1>3 DEF DeletionInv
    <2>2. tx[c].delta # NoDelta =>
            tx[c].review \in Reviews /\ tx[c].review \in reviews /\ rowLock[tx[c].review] = c
      BY <2>1, <1>0 DEF VoterOK, Shapes
    <2>3. ASSUME tx[c].row \in VoteAction PROVE tx[c].review \in reviews' /\ tx[c].user \in accounts'
      <3>1. tx[c].review \in reviews /\ tx[c].user \in accounts
        BY <2>1, <2>3 DEF VoterOK
      <3>2. tx[c].review \notin removed
        BY <2>3, <1>7 DEF WritesVoteOn, Untouched, VoteAction
      <3>3. tx[c].user # u
        BY <2>3, <3>1, <1>7 DEF SharesAccount
      <3>4. QED
        BY <3>1, <3>2, <3>3, <1>1
    <2>4. QED
      BY <2>1, <2>2, <2>3, <1>1, <1>9, VoterKeeps
  <1>12. ASSUME NEW f \in Deleters PROVE DeleterOK(f)'
    <2>1. CASE f = d
      BY <2>1, <1>2, <1>5, EndedDeleter
    <2>2. CASE f # d
      <3>1. DeleterOK(f) /\ del'[f] = del[f]
        BY <2>2, <1>5 DEF DeletionInv
      <3>2. \A r \in Reviews : del[f].delta[r] # NoDelta =>
              r \in reviews' /\ rowLock'[r] = f /\ tally'[r] = tally[r]
        <4>1. \A r \in Reviews : del[f].delta[r] # NoDelta => r \in reviews /\ rowLock[r] = f
          BY <3>1 DEF DeleterOK
        <4>2. QED
          BY <4>1, <2>2, <1>1, <1>9
      <3>3. del[f].pc \in {"cascade", "commit"} /\ del[f].user \in accounts' =>
              /\ del[f].user \in accounts /\ accountLock'[del[f].user] = f
              /\ \A b \in Backends : ~(tx'[b].row \in VoteAction /\ tx'[b].user = del[f].user)
        <4>1. del[f].pc \in {"cascade", "commit"} /\ del[f].user \in accounts =>
                /\ del[f].user \in Users /\ accountLock[del[f].user] = f
                /\ \A b \in Backends : ~SharesAccount(b, del[f].user)
          BY <3>1, <1>0 DEF DeleterOK, Shapes
        <4>2. QED
          BY <4>1, <2>2, <1>1, <1>3, <1>4 DEF SharesAccount
      <3>4. del[f].pc = "commit" /\ del[f].user \in accounts' =>
              \A r \in reviews' : del[f].user \in Owners[r] =>
                /\ rowLock'[r] = f
                /\ \A b \in Backends : ~(tx'[b].row # Untouched /\ tx'[b].review = r)
        <4>1. del[f].pc = "commit" /\ del[f].user \in accounts =>
                \A r \in reviews : del[f].user \in Owners[r] =>
                  r \in Reviews /\ rowLock[r] = f /\ \A b \in Backends : ~WritesVoteOn(b, r)
          BY <3>1, <1>0 DEF DeleterOK, OwnedBy, Shapes
        <4>2. QED
          BY <4>1, <2>2, <1>1, <1>3, <1>4 DEF WritesVoteOn
      <3>5. QED
        BY <3>1, <3>2, <3>3, <3>4, DeleterKeeps
    <2>3. QED
      BY <2>1, <2>2
  <1>13. cron \in CronRecord /\ CronOK /\ cron'.pc = cron.pc /\ cron'.delta = cron.delta
         /\ cron'.fresh = (cron.pc = "idle")
    BY <1>0, <1>3 DEF DeletionInv, Shapes, CronRecord
  <1>14. CronOK'
    <2>1. \A s \in Reviews : cron.delta[s] # NoDelta => s \in reviews /\ rowLock[s] = Cron
      BY <1>13 DEF CronOK
    <2>2. cron.pc = "idle" => cron' = NoRefresh
      <3>1. cron.pc = "idle" => cron.fresh = TRUE /\ cron = NoRefresh
        BY <1>13 DEF CronOK, NoRefresh
      <3>2. QED
        BY <3>1, <1>3, <1>13 DEF CronRecord
    <2>3. \A s \in Reviews : cron.delta[s] # NoDelta =>
            s \in reviews' /\ rowLock'[s] = Cron /\ tally'[s] = tally[s]
      BY <2>1, <1>0, <1>1, <1>9
    <2>4. QED
      BY <1>13, <2>2, <2>3, CronKeeps
  <1>15. FreshOK'
    BY <1>13 DEF FreshOK
  <1>16. Removed'
    <2> SUFFICES ASSUME NEW r \in Reviews, r \notin reviews' PROVE tally'[r] = NoDelta
      BY DEF Removed
    <2>1. CASE r \in removed
      BY <2>1, <1>1
    <2>2. CASE r \notin removed
      <3>1. r \notin reviews /\ tally[r] = NoDelta
        BY <2>2, <1>1 DEF DeletionInv, Removed
      <3>2. QED
        BY <3>1, <2>2, <1>6, <1>9
    <2>3. QED
      BY <2>1, <2>2
  <1>17. HoldersActive'
    <2>1. \A s \in Reviews : rowLock'[s] # Nobody => rowLock'[s] = rowLock[s] /\ rowLock'[s] # d
      BY <1>0, <1>4
    <2>2. Nobody \notin Deleters /\ Nobody # Cron
      BY DeletionAssumption
    <2>3. ASSUME NEW r \in Reviews, rowLock'[r] \in Deleters PROVE del'[rowLock'[r]].pc # "idle"
      <3>1. rowLock'[r] = rowLock[r] /\ rowLock'[r] # d
        BY <2>1, <2>2, <2>3
      <3>2. del[rowLock[r]].pc # "idle"
        BY <2>3, <3>1 DEF DeletionInv, HoldersActive
      <3>3. QED
        BY <2>3, <3>1, <3>2, <1>5
    <2>4. \A r \in Reviews : rowLock'[r] = Cron => cron'.delta[r] # NoDelta
      BY <2>1, <2>2, <1>13 DEF DeletionInv, HoldersActive
    <2>5. QED
      BY <2>3, <2>4 DEF HoldersActive
  <1>18. NoOrphans'
    <2>1. ASSUME NEW r \in Reviews, NEW w \in Users, vote'[r][w] # NoVote
          PROVE  r \in reviews' /\ w \in accounts'
      <3>1. w # u /\ r \notin removed /\ vote[r][w] # NoVote
        BY <2>1, <1>1
      <3>2. QED
        BY <3>1, <1>1 DEF DeletionInv, NoOrphans
    <2>2. \A r \in reviews' : Owners[r] \subseteq accounts'
      BY <1>1, <1>8 DEF DeletionInv, NoOrphans
    <2>3. QED
      BY <2>1, <2>2 DEF NoOrphans
  <1>19. QED
    BY <1>10, <1>11, <1>12, <1>14, <1>15, <1>16, <1>17, <1>18 DEF DeletionInv

\* Every statement of a deletion keeps the invariant.
LEMMA DeleteStepKeeps ==
  ASSUME DeletionInv, NEW d \in Deleters, DeleteStep(d)
  PROVE  DeletionInv'
  <1>1. CASE AbortDelete(d)
    BY <1>1, DeleterEnds DEF AbortDelete
  <1>2. QED
    BY <1>1, BeginDeleteKeeps, FindUserKeeps, FindVotesKeeps, RevokeKeeps, LockAccountKeeps,
       CascadeKeeps, CommitDeleteKeeps DEF DeleteStep

-----------------------------------------------------------------------------
(* Statements of the refresh, the first state, and every step.             *)

\* No vote with an action, none counted.
LEMMA CountZero ==
  ASSUME NEW f, NEW a, \A u \in Users : f[u] # a
  PROVE  Count(f, a) = 0
  <1>1. {u \in Users : f[u] = a} = {}
    OBVIOUS
  <1>2. QED
    BY <1>1, FS_EmptySet DEF Count

\* The counts of a snapshot.
LEMMA ActualType ==
  ASSUME DeletionInv
  PROVE  /\ ActualCounts \in [Reviews -> [VoteAction -> Nat]]
         /\ \A r \in Reviews \ reviews : ActualCounts[r] = NoDelta
  <1>1. ActualCounts \in [Reviews -> [VoteAction -> Nat]]
    BY CountIsNat DEF ActualCounts
  <1>2. ASSUME NEW r \in Reviews \ reviews PROVE ActualCounts[r] = NoDelta
    <2>1. \A u \in Users : vote[r][u] = NoVote
      BY DEF DeletionInv, NoOrphans
    <2>2. \A a \in VoteAction : Count(vote[r], a) = 0
      <3> SUFFICES ASSUME NEW a \in VoteAction PROVE Count(vote[r], a) = 0
        OBVIOUS
      <3>1. \A u \in Users : vote[r][u] # a
        BY <2>1 DEF NoVote, VoteAction
      <3>2. QED
        BY <3>1, CountZero
    <2>3. QED
      BY <2>2 DEF ActualCounts, NoDelta
  <1>3. QED
    BY <1>1, <1>2

\* While the refresh steps, the others keep what they know and hold.
LEMMA CronMoves ==
  ASSUME DeletionInv, UNCHANGED <<accounts, reviews, vote, tx, voteLock, del, accountLock>>,
         tally' \in [Reviews -> [VoteAction -> Nat]],
         rowLock' \in [Reviews -> Backends \union Deleters \union {Cron, Nobody}],
         cron' \in CronRecord, CronOK', FreshOK',
         \A r \in Reviews \ reviews : tally'[r] = tally[r],
         \A r \in Reviews : rowLock[r] \notin {Cron, Nobody} =>
           rowLock'[r] = rowLock[r] /\ tally'[r] = tally[r],
         \A r \in Reviews : rowLock[r] \in {Cron, Nobody} => rowLock'[r] \in {Cron, Nobody},
         \A r \in Reviews : rowLock'[r] = Cron => cron'.delta[r] # NoDelta
  PROVE  DeletionInv'
  <1>0. Shapes /\ Nobody \notin Backends \union Deleters /\ Cron \notin Backends \union Deleters
    BY VotingAssumption, DeletionAssumption DEF DeletionInv
  <1>1. Shapes'
    BY <1>0 DEF Shapes
  <1>2. ASSUME NEW c \in Backends PROVE VoterOK(c)'
    <2>1. VoterOK(c) /\ c \notin {Cron, Nobody}
      BY <1>0 DEF DeletionInv
    <2>2. tx[c].delta # NoDelta =>
            tx[c].review \in Reviews /\ tx[c].review \in reviews /\ rowLock[tx[c].review] = c
      BY <2>1, <1>0 DEF VoterOK, Shapes
    <2>3. tx[c].row \in VoteAction => tx[c].review \in reviews /\ tx[c].user \in accounts
      BY <2>1 DEF VoterOK
    <2>4. QED
      BY <2>1, <2>2, <2>3, VoterKeeps
  <1>3. ASSUME NEW f \in Deleters PROVE DeleterOK(f)'
    <2>1. DeleterOK(f) /\ f \notin {Cron, Nobody}
      BY <1>0 DEF DeletionInv
    <2>2. \A r \in Reviews : del[f].delta[r] # NoDelta =>
            r \in reviews' /\ rowLock'[r] = f /\ tally'[r] = tally[r]
      <3>1. \A r \in Reviews : del[f].delta[r] # NoDelta => r \in reviews /\ rowLock[r] = f
        BY <2>1 DEF DeleterOK
      <3>2. QED
        BY <3>1, <2>1
    <2>3. del[f].pc \in {"cascade", "commit"} /\ del[f].user \in accounts' =>
            /\ del[f].user \in accounts /\ accountLock'[del[f].user] = f
            /\ \A b \in Backends : ~(tx'[b].row \in VoteAction /\ tx'[b].user = del[f].user)
      BY <2>1 DEF DeleterOK, SharesAccount
    <2>4. del[f].pc = "commit" /\ del[f].user \in accounts' =>
            \A r \in reviews' : del[f].user \in Owners[r] =>
              /\ rowLock'[r] = f
              /\ \A b \in Backends : ~(tx'[b].row # Untouched /\ tx'[b].review = r)
      <3>1. del[f].pc = "commit" /\ del[f].user \in accounts =>
              \A r \in reviews : del[f].user \in Owners[r] =>
                r \in Reviews /\ rowLock[r] = f /\ \A b \in Backends : ~WritesVoteOn(b, r)
        BY <2>1, <1>0 DEF DeleterOK, OwnedBy, Shapes
      <3>2. QED
        BY <3>1, <2>1 DEF WritesVoteOn
    <2>5. QED
      BY <2>1, <2>2, <2>3, <2>4, DeleterKeeps
  <1>4. Removed' /\ NoOrphans'
    BY DEF DeletionInv, Removed, NoOrphans
  <1>5. HoldersActive'
    BY <1>0 DEF DeletionInv, HoldersActive
  <1>6. QED
    BY <1>1, <1>2, <1>3, <1>4, <1>5 DEF DeletionInv

LEMMA NoRefreshType == NoRefresh \in CronRecord
  <1>1. NoDeltas \in Deltas /\ NoDeltas \in [Reviews -> [VoteAction -> Nat]]
    BY DEF NoDeltas, NoDelta, Deltas
  <1>2. QED
    BY <1>1 DEF NoRefresh, CronRecord

LEMMA SnapshotKeeps ==
  ASSUME DeletionInv, RefreshSnapshot
  PROVE  DeletionInv'
  <1> PICK actual : actual = ActualCounts
    OBVIOUS
  <1> PICK todo : todo = {r \in reviews : tally[r] # actual[r]}
    OBVIOUS
  <1>0. /\ Shapes /\ cron.pc = "idle" /\ cron = NoRefresh
        /\ UNCHANGED <<accounts, reviews, vote, tally, tx, voteLock, rowLock, del, accountLock>>
    BY DEF RefreshSnapshot, DeletionInv, CronOK, votingVars, dbVars, lockVars
  <1>1. /\ actual \in [Reviews -> [VoteAction -> Nat]]
        /\ \A r \in Reviews \ reviews : actual[r] = NoDelta
    BY ActualType
  <1>2. todo \subseteq reviews /\ todo \subseteq Reviews
    BY <1>0 DEF Shapes
  <1>3. cron' = [NoRefresh EXCEPT !.pc = "update", !.actual = actual, !.todo = todo]
    BY DEF RefreshSnapshot
  <1>4. /\ cron' \in CronRecord /\ cron'.pc = "update" /\ cron'.delta = NoDeltas
        /\ cron'.actual = actual /\ cron'.todo = todo
    BY <1>1, <1>2, <1>3, NoRefreshType DEF CronRecord, NoRefresh
  <1>5. CronOK'
    BY <1>4 DEF CronOK, NoDeltas
  <1>6. FreshOK'
    <2>1. ActualCounts' = ActualCounts
      BY <1>0 DEF ActualCounts, Count
    <2>2. ASSUME NEW r \in Reviews, r \notin todo, NEW a \in VoteAction
          PROVE  tally[r][a] + NoDeltas[r][a] = actual[r][a]
      <3>1. tally[r] = actual[r]
        BY <2>2, <1>1 DEF DeletionInv, Removed
      <3>2. NoDeltas[r][a] = 0 /\ tally[r][a] \in Nat
        BY <1>0 DEF NoDeltas, NoDelta, Shapes
      <3>3. QED
        BY <3>1, <3>2
    <2>3. \A r \in todo : NoDeltas[r] = NoDelta
      BY <1>2 DEF NoDeltas
    <2>4. QED
      BY <1>0, <1>2, <1>4, <2>1, <2>2, <2>3 DEF FreshOK
  <1>7. ~\E r \in Reviews : rowLock[r] = Cron
    BY <1>0 DEF DeletionInv, HoldersActive, NoRefresh, NoDeltas
  <1>8. QED
    BY <1>0, <1>4, <1>5, <1>6, <1>7, CronMoves DEF Shapes

LEMMA RefreshRowKeeps ==
  ASSUME DeletionInv, RefreshRow
  PROVE  DeletionInv'
  <1> PICK r \in cron.todo :
        /\ rowLock[r] \in {Nobody, Cron}
        /\ IF r \in reviews /\ tally[r] # cron.actual[r]
           THEN /\ rowLock' = [rowLock EXCEPT ![r] = Cron]
                /\ cron' = [cron EXCEPT !.todo = @ \ {r},
                              !.delta[r] = [a \in VoteAction |-> cron.actual[r][a] - tally[r][a]]]
           ELSE cron' = [cron EXCEPT !.todo = @ \ {r}] /\ UNCHANGED rowLock
    BY DEF RefreshRow
  <1>0. /\ Shapes /\ CronOK /\ FreshOK /\ cron \in CronRecord /\ cron.pc = "update" /\ r \in Reviews
        /\ UNCHANGED <<accounts, reviews, vote, tally, tx, voteLock, del, accountLock>>
        /\ Cron # Nobody
    BY DeletionAssumption DEF RefreshRow, DeletionInv, Shapes, CronRecord, dbVars
  <1>1. ActualCounts' = ActualCounts
    BY <1>0 DEF ActualCounts, Count
  <1>2. CASE r \in reviews /\ tally[r] # cron.actual[r]
    <2> PICK row : row = [a \in VoteAction |-> cron.actual[r][a] - tally[r][a]]
      OBVIOUS
    <2> PICK delta : delta = [cron.delta EXCEPT ![r] = row]
      OBVIOUS
    <2>1. /\ rowLock' = [rowLock EXCEPT ![r] = Cron]
          /\ cron' = [cron EXCEPT !.todo = @ \ {r}, !.delta = delta]
      BY <1>2
    <2>2. /\ tally[r] \in [VoteAction -> Nat] /\ cron.actual[r] \in [VoteAction -> Nat]
          /\ row \in [VoteAction -> Int]
          /\ \A a \in VoteAction : tally[r][a] + row[a] = cron.actual[r][a]
      BY <1>0 DEF Shapes, CronRecord
    <2>3. row # NoDelta
      <3>1. PICK a \in VoteAction : tally[r][a] # cron.actual[r][a]
        BY <1>2, <2>2
      <3>2. tally[r][a] \in Nat /\ cron.actual[r][a] \in Nat /\ row[a] \in Int
        BY <2>2
      <3>3. row[a] # 0
        BY <2>2, <3>1, <3>2
      <3>4. QED
        BY <3>3 DEF NoDelta
    <2>4. delta \in Deltas /\ delta[r] = row /\ \A s \in Reviews \ {r} : delta[s] = cron.delta[s]
      BY <1>0, <2>2 DEF CronRecord, Deltas
    <2>5. /\ cron' \in CronRecord /\ cron'.pc = "update" /\ cron'.delta = delta
          /\ cron'.todo = cron.todo \ {r} /\ cron'.actual = cron.actual /\ cron'.fresh = cron.fresh
      BY <1>0, <2>1, <2>4 DEF CronRecord
    <2>6. /\ rowLock' \in [Reviews -> Backends \union Deleters \union {Cron, Nobody}]
          /\ rowLock'[r] = Cron /\ \A s \in Reviews \ {r} : rowLock'[s] = rowLock[s]
      BY <1>0, <2>1 DEF Shapes
    <2>7. CronOK'
      <3> SUFFICES ASSUME NEW s \in Reviews, delta[s] # NoDelta
                   PROVE  /\ s \in reviews /\ rowLock'[s] = Cron
                          /\ \A a \in VoteAction : tally[s][a] + delta[s][a] >= 0
        BY <1>0, <2>5 DEF CronOK
      <3>1. CASE s = r
        BY <3>1, <1>2, <2>2, <2>4, <2>6
      <3>2. CASE s # r
        BY <3>2, <1>0, <2>4, <2>6 DEF CronOK
      <3>3. QED
        BY <3>1, <3>2
    <2>8. FreshOK'
      <3> SUFFICES ASSUME cron.fresh
                   PROVE  /\ cron.actual = ActualCounts /\ cron.todo \ {r} \subseteq reviews
                          /\ \A s \in Reviews :
                               IF s \in cron.todo \ {r} THEN delta[s] = NoDelta
                               ELSE \A a \in VoteAction : tally[s][a] + delta[s][a] = cron.actual[s][a]
        BY <1>0, <1>1, <2>5 DEF FreshOK
      <3>1. QED
        BY <1>0, <2>2, <2>4 DEF FreshOK
    <2>9. \A s \in Reviews : rowLock'[s] = Cron => delta[s] # NoDelta
      BY <2>3, <2>4, <2>6 DEF DeletionInv, HoldersActive
    <2>10. QED
      BY <1>0, <2>5, <2>6, <2>7, <2>8, <2>9, CronMoves DEF Shapes
  <1>3. CASE ~(r \in reviews /\ tally[r] # cron.actual[r])
    <2>1. cron' = [cron EXCEPT !.todo = @ \ {r}] /\ rowLock' = rowLock
      BY <1>3
    <2>2. /\ cron' \in CronRecord /\ cron'.pc = "update" /\ cron'.delta = cron.delta
          /\ cron'.todo = cron.todo \ {r} /\ cron'.actual = cron.actual /\ cron'.fresh = cron.fresh
      BY <1>0, <2>1 DEF CronRecord
    <2>3. CronOK'
      BY <1>0, <2>1, <2>2 DEF CronOK
    <2>4. FreshOK'
      <3> SUFFICES ASSUME cron.fresh
                   PROVE  /\ cron.actual = ActualCounts /\ cron.todo \ {r} \subseteq reviews
                          /\ \A s \in Reviews :
                               IF s \in cron.todo \ {r} THEN cron.delta[s] = NoDelta
                               ELSE \A a \in VoteAction :
                                      tally[s][a] + cron.delta[s][a] = cron.actual[s][a]
        BY <1>0, <1>1, <2>2 DEF FreshOK
      <3>1. r \in reviews /\ cron.delta[r] = NoDelta
        BY <1>0 DEF FreshOK
      <3>2. \A a \in VoteAction : tally[r][a] + cron.delta[r][a] = cron.actual[r][a]
        BY <1>0, <1>3, <3>1 DEF NoDelta, Shapes
      <3>3. QED
        BY <1>0, <3>2 DEF FreshOK
    <2>5. \A s \in Reviews : rowLock[s] = Cron => cron.delta[s] # NoDelta
      BY DEF DeletionInv, HoldersActive
    <2>6. QED
      BY <1>0, <2>1, <2>2, <2>3, <2>4, <2>5, CronMoves DEF Shapes
  <1>4. QED
    BY <1>2, <1>3

\* The refresh ends: its rows are free, with or without its counters committed.
LEMMA RefreshEnds ==
  ASSUME DeletionInv, RefreshCommit \/ RefreshAbort
  PROVE  DeletionInv'
  <1>0. /\ Shapes /\ CronOK /\ cron \in CronRecord /\ Cron # Nobody
        /\ UNCHANGED <<accounts, reviews, vote, tx, voteLock, del, accountLock>>
        /\ cron' = NoRefresh /\ rowLock' = Release(Cron, rowLock)
    BY DeletionAssumption DEF DeletionInv, Shapes, RefreshCommit, RefreshAbort, dbVars
  <1>1. \A r \in Reviews : cron.delta[r] # NoDelta =>
          /\ r \in reviews /\ rowLock[r] = Cron
          /\ \A a \in VoteAction : tally[r][a] + cron.delta[r][a] >= 0
    BY <1>0 DEF CronOK
  <1>2. /\ tally' \in [Reviews -> [VoteAction -> Nat]]
        /\ \A r \in Reviews : cron.delta[r] = NoDelta => tally'[r] = tally[r]
    <2>1. CASE RefreshAbort
      BY <2>1, <1>0 DEF RefreshAbort, Shapes, dbVars
    <2>2. CASE RefreshCommit
      <3>1. tally' = [r \in Reviews |-> [a \in VoteAction |-> tally[r][a] + cron.delta[r][a]]]
        BY <2>2 DEF RefreshCommit
      <3>2. ASSUME NEW r \in Reviews, NEW a \in VoteAction PROVE tally[r][a] + cron.delta[r][a] \in Nat
        <4>1. tally[r][a] \in Nat /\ cron.delta[r][a] \in Int
          BY <1>0 DEF Shapes, CronRecord, Deltas
        <4>2. tally[r][a] + cron.delta[r][a] >= 0
          BY <4>1, <1>1 DEF NoDelta
        <4>3. QED
          BY <4>1, <4>2
      <3>3. ASSUME NEW r \in Reviews, cron.delta[r] = NoDelta PROVE tally'[r] = tally[r]
        <4>1. tally[r] \in [VoteAction -> Nat]
          BY <1>0 DEF Shapes
        <4>2. QED
          BY <3>1, <3>3, <4>1 DEF NoDelta
      <3>4. QED
        BY <3>1, <3>2, <3>3
    <2>3. QED
      BY <2>1, <2>2
  <1>3. /\ rowLock' \in [Reviews -> Backends \union Deleters \union {Cron, Nobody}]
        /\ \A r \in Reviews : rowLock'[r] = IF rowLock[r] = Cron THEN Nobody ELSE rowLock[r]
    BY <1>0 DEF Shapes, Release
  <1>4. cron' \in CronRecord /\ CronOK' /\ FreshOK'
    BY <1>0, NoRefreshType DEF CronOK, FreshOK, NoRefresh, NoDeltas
  <1>5. /\ \A r \in Reviews \ reviews : tally'[r] = tally[r]
        /\ \A r \in Reviews : rowLock[r] \notin {Cron, Nobody} =>
             rowLock'[r] = rowLock[r] /\ tally'[r] = tally[r]
        /\ \A r \in Reviews : rowLock[r] \in {Cron, Nobody} => rowLock'[r] \in {Cron, Nobody}
        /\ \A r \in Reviews : rowLock'[r] = Cron => cron'.delta[r] # NoDelta
    BY <1>0, <1>1, <1>2, <1>3
  <1>6. QED
    BY <1>0, <1>2, <1>3, <1>4, <1>5, CronMoves

LEMMA DeletionInitInv == ASSUME DeletionInit PROVE DeletionInv
  <1>1. IInv
    BY InitInv DEF DeletionInit
  <1>2. /\ del = [d \in Deleters |-> NoDeletion] /\ accountLock = [u \in Users |-> Nobody]
        /\ cron = NoRefresh /\ vote = [r \in Reviews |-> [u \in Users |-> NoVote]]
        /\ tally = [r \in Reviews |-> NoDelta] /\ rowLock = [r \in Reviews |-> Nobody]
        /\ tx = [b \in Backends |-> Idle("none")]
        /\ \A r \in reviews : Owners[r] \subseteq accounts
    BY DEF DeletionInit, VotingInit, NoDelta
  <1>3. NoDeletion \in DelRecord /\ NoDeletion.pc = "idle" /\ NoDeletion.delta = NoDeltas
    <2>1. NoDeltas \in Deltas
      BY DEF NoDeltas, NoDelta, Deltas
    <2>2. QED
      BY <2>1 DEF NoDeletion, DelRecord
  <1>4. Shapes
    BY <1>1, <1>2, <1>3, NoRefreshType DEF Shapes, IInv, TypeOK
  <1>5. \A b \in Backends : VoterOK(b)
    BY <1>2 DEF VoterOK, Idle, Busy, Locked, Untouched, VoteAction
  <1>6. \A d \in Deleters : DeleterOK(d)
    <2> SUFFICES ASSUME NEW d \in Deleters PROVE DeleterOK(d)
      OBVIOUS
    <2>1. del[d].pc = "idle" /\ del[d].delta = NoDeltas
      BY <1>2, <1>3
    <2>2. QED
      BY <2>1 DEF DeleterOK, NoDeltas
  <1>7. CronOK /\ FreshOK
    BY <1>2 DEF CronOK, FreshOK, NoRefresh, NoDeltas
  <1>8. Removed /\ NoOrphans
    BY <1>2 DEF Removed, NoOrphans
  <1>9. HoldersActive
    BY <1>2, DeletionAssumption DEF HoldersActive
  <1>10. QED
    BY <1>4, <1>5, <1>6, <1>7, <1>8, <1>9 DEF DeletionInv

LEMMA DeletionNextInv ==
  ASSUME DeletionInv, [DeletionNext]_deletionVars
  PROVE  DeletionInv'
  <1>1. CASE UNCHANGED deletionVars
    BY <1>1 DEF deletionVars, votingVars, dbVars, lockVars, DeletionInv, Shapes, VoterOK, DeleterOK,
                SharesAccount, WritesVoteOn, OwnedBy, CronOK, FreshOK, ActualCounts, Count, Removed,
                HoldersActive, NoOrphans
  <1>2. CASE DeletionNext
    BY <1>2, VotingKeeps, DeleteStepKeeps, SnapshotKeeps, RefreshRowKeeps, RefreshEnds
       DEF DeletionNext, RefreshStep
  <1>3. QED
    BY <1>1, <1>2

(***************************************************************************)
(* Voting requests, account deletions and a refresh, interleaved at any    *)
(* statement and aborted anywhere, keep the invariant: whoever changes the *)
(* counters of a review holds its row, and from the statement that removes *)
(* an account on nobody can vote for it or on its reviews.                 *)
(***************************************************************************)
THEOREM DeletionInvariance == DeletionSpec => []DeletionInv
  <1>1. DeletionInit => DeletionInv
    BY DeletionInitInv
  <1>2. DeletionInv /\ [DeletionNext]_deletionVars => DeletionInv'
    BY DeletionNextInv
  <1>3. QED
    BY <1>1, <1>2, PTL DEF DeletionSpec

(***************************************************************************)
(* The rows, counters, locks and records of a deletion have their types,   *)
(* and no committed counter is negative.                                   *)
(***************************************************************************)
THEOREM DeletionTyped == DeletionSpec => []DeletionTypeOK
  <1>1. DeletionInv => DeletionTypeOK
    BY DEF DeletionInv, Shapes, DelRecord, CronRecord, DeletionTypeOK
  <1>2. QED
    BY <1>1, DeletionInvariance, PTL

(***************************************************************************)
(* No vote survives its account or its review, and no review an account    *)
(* that owns it.                                                           *)
(***************************************************************************)
THEOREM RemovalComplete == DeletionSpec => []NoOrphans
  <1>1. DeletionInv => NoOrphans
    BY DEF DeletionInv
  <1>2. QED
    BY <1>1, DeletionInvariance, PTL

-----------------------------------------------------------------------------
(* What a deletion answers and what a refresh leaves.                      *)

\* A deletion that is over, with what it answered.
LEMMA AnswerFacts ==
  ASSUME Shapes, NEW d \in Deleters, NEW reply, AnswerDeletion(d, reply)
  PROVE  del'[d].pc = "idle" /\ del'[d].reply = reply
  BY DEF AnswerDeletion, Shapes, NoDeletion

LEMMA GoneWhenAnswered ==
  ASSUME DeletionInv, DeletionNext, NEW d \in Deleters,
         del[d].pc # "idle", del'[d].pc = "idle", del'[d].reply \in {"deleted", "notFound"}
  PROVE  del[d].user \notin accounts'
  <1>0. Shapes /\ del[d] \in DelRecord
    BY DEF DeletionInv, Shapes
  <1>1. PICK f \in Deleters : DeleteStep(f)
    BY DEF DeletionNext, VotingStep, RefreshStep, RefreshSnapshot, RefreshRow, RefreshCommit,
           RefreshAbort
  <1>2. \E e : del' = [del EXCEPT ![f] = e]
    <2>1. CASE Revoke(f)
      BY <2>1 DEF Revoke, AnswerDeletion
    <2>2. CASE FindUser(f)
      BY <2>2, <1>0 DEF FindUser, AnswerDeletion, Shapes
    <2>3. QED
      BY <1>1, <2>1, <2>2 DEF DeleteStep, BeginDelete, FindVotes, LockAccount, Cascade, CommitDelete,
                              AbortDelete, AnswerDeletion
  <1>3. f = d
    BY <1>0, <1>2 DEF Shapes
  <1>4. CASE FindUser(d)
    <2>1. del[d].user \notin accounts
      <3>1. del[d].user \in accounts => del'[d].pc = "votes"
        BY <1>0, <1>4 DEF FindUser, Shapes, DelRecord
      <3>2. QED
        BY <3>1
    <2>2. QED
      BY <1>4, <2>1 DEF FindUser, dbVars
  <1>5. CASE CommitDelete(d)
    BY <1>5 DEF CommitDelete, RemoveAccount
  <1>6. CASE AbortDelete(d)
    BY <1>0, <1>6, AnswerFacts DEF AbortDelete
  <1>7. CASE Revoke(d)
    <2>1. PICK r \in Reviews, a \in VoteAction :
            \/ del' = [del EXCEPT ![d] = RowDone(d, r, a)]
            \/ AnswerDeletion(d, "constraint")
            \/ del' = [del EXCEPT ![d] = [RowDone(d, r, a) EXCEPT !.delta[r][a] = @ - 1]]
      BY <1>7 DEF Revoke
    <2>2. RowDone(d, r, a) \in DelRecord /\ RowDone(d, r, a).pc = del[d].pc
      BY <1>0, RowDoneFacts
    <2>3. CASE AnswerDeletion(d, "constraint")
      BY <1>0, <2>3, AnswerFacts
    <2>4. CASE del' = [del EXCEPT ![d] = RowDone(d, r, a)]
      BY <1>0, <2>2, <2>4 DEF Shapes
    <2>5. CASE del' = [del EXCEPT ![d] = [RowDone(d, r, a) EXCEPT !.delta[r][a] = @ - 1]]
      <3>1. [RowDone(d, r, a) EXCEPT !.delta[r][a] = @ - 1].pc = RowDone(d, r, a).pc
        BY <2>2 DEF DelRecord
      <3>2. QED
        BY <1>0, <2>2, <2>5, <3>1 DEF Shapes
    <2>6. QED
      BY <2>1, <2>3, <2>4, <2>5
  <1>8. CASE BeginDelete(d)
    BY <1>8 DEF BeginDelete
  <1>9. CASE FindVotes(d) \/ LockAccount(d) \/ Cascade(d)
    BY <1>0, <1>9 DEF FindVotes, LockAccount, Cascade, Shapes, DelRecord
  <1>10. QED
    BY <1>1, <1>3, <1>4, <1>5, <1>6, <1>7, <1>8, <1>9 DEF DeleteStep

(***************************************************************************)
(* deleteOne answers that an account is deleted, or not found, only when   *)
(* no row of it is left.                                                   *)
(***************************************************************************)
THEOREM AnswerMeansGone == DeletionSpec => DeletedMeansGone
  <1>1. DeletionInv /\ [DeletionNext]_deletionVars =>
          [\A d \in Deleters :
             (del[d].pc # "idle" /\ del'[d].pc = "idle" /\ del'[d].reply \in {"deleted", "notFound"})
               => del[d].user \notin accounts']_deletionVars
    BY GoneWhenAnswered
  <1>2. QED
    BY <1>1, DeletionInvariance, PTL DEF DeletionSpec, DeletedMeansGone

\* The counters an undisturbed refresh commits.
LEMMA RepairedCounters ==
  ASSUME DeletionInv, RefreshCommit, cron.fresh, NEW r \in Reviews, NEW a \in VoteAction
  PROVE  tally'[r][a] = Count(vote'[r], a)
  <1>1. /\ cron.pc = "update" /\ cron.todo = {} /\ vote' = vote
        /\ tally'[r][a] = tally[r][a] + cron.delta[r][a]
    BY DEF RefreshCommit
  <1>2. tally[r][a] + cron.delta[r][a] = cron.actual[r][a] /\ cron.actual = ActualCounts
    BY <1>1 DEF DeletionInv, FreshOK
  <1>3. ActualCounts[r][a] = Count(vote[r], a)
    BY DEF ActualCounts
  <1>4. QED
    BY <1>1, <1>2, <1>3

(***************************************************************************)
(* A refresh during which nothing commits leaves every counter equal to    *)
(* the number of its votes, whatever drift it found.                       *)
(***************************************************************************)
THEOREM RefreshRepairs == DeletionSpec => UndisturbedRefreshRepairs
  <1>1. DeletionInv /\ [DeletionNext]_deletionVars =>
          [(cron.pc = "update" /\ cron.todo = {} /\ cron.fresh /\ RefreshCommit) =>
             \A r \in Reviews, a \in VoteAction : tally'[r][a] = Count(vote'[r], a)]_deletionVars
    BY RepairedCounters
  <1>2. QED
    BY <1>1, DeletionInvariance, PTL DEF DeletionSpec, UndisturbedRefreshRepairs

-----------------------------------------------------------------------------
(* Drift needs an overlap.                                                 *)

\* Two things in progress are more than one.
LEMMA TwoIsMore ==
  ASSUME NEW S, IsFiniteSet(S), NEW x \in S, NEW y \in S, x # y
  PROVE  Cardinality(S) > 1
  <1>1. IsFiniteSet(S \ {x}) /\ Cardinality(S \ {x}) = Cardinality(S) - 1
    BY FS_RemoveElement
  <1>2. Cardinality(S \ {x}) \in Nat /\ Cardinality(S) \in Nat
    BY <1>1, FS_CardinalityType
  <1>3. Cardinality(S \ {x}) # 0
    BY <1>1, FS_EmptySet
  <1>4. QED
    BY <1>1, <1>2, <1>3

\* A session without a request supposes nothing.
LEMMA IdleSession ==
  ASSUME DeletionInv, NEW b \in Backends, tx[b].pc = "idle"
  PROVE  SessionOK(b)
  <1>1. tx[b].row = Untouched /\ tx[b].delta = NoDelta /\ tx[b].kind = "none"
    BY DEF DeletionInv, VoterOK
  <1>2. QED
    BY <1>1 DEF SessionOK, Progress, Locked

\* A deletion without an account supposes nothing.
LEMMA IdleRevoked ==
  ASSUME NEW d \in Deleters, del[d].pc = "idle"
  PROVE  Revoked(d)
  BY DEF Revoked

\* While no account is being deleted and no refresh has found drift, the state
\* is one of Voting alone.
LEMMA VotingAlone ==
  ASSUME DeletionInv, CountersInStep, SessionInv, cron.delta = NoDeltas,
         \A d \in Deleters : del[d].pc = "idle"
  PROVE  IInv
  <1>1. \A r \in Reviews : rowLock[r] \in Backends \union {Nobody}
    BY DEF DeletionInv, Shapes, HoldersActive, NoDeltas
  <1>2. rowLock \in [Reviews -> Backends \union {Nobody}]
    BY <1>1 DEF DeletionInv, Shapes
  <1>3. \A b \in Backends : tx[b].pc \in Busy => tx[b].user \in Users /\ tx[b].review \in Reviews
    BY DEF DeletionInv, VoterOK
  <1>4. TypeOK
    BY <1>2, <1>3 DEF DeletionInv, Shapes, TypeOK
  <1>5. QED
    BY <1>4 DEF IInv, CountersInStep, CountersConsistent

\* What a step adds to what is in progress.
LEMMA ActiveFinite ==
  ASSUME DeletionInv, IsFiniteSet(Active), DeletionNext
  PROVE  IsFiniteSet(Active')
  <1>1. \E x : Active' \subseteq Active \union {x}
    <2>1. CASE \E b \in Backends : VotingStep(b)
      <3>1. PICK b \in Backends : VotingStep(b)
        BY <2>1
      <3>2. \A c \in Backends \ {b} : tx'[c] = tx[c]
        BY <3>1 DEF VotingStep, Begin, Abort, Step, Exists, TryLock, Find, Delete, Decrement, Insert,
                    Increment, Commit, Answer, Goto, UpdateCounter, DeletionInv, Shapes
      <3>3. del' = del
        BY <3>1 DEF VotingStep
      <3>4. QED
        BY <3>2, <3>3 DEF Active
    <2>2. CASE \E d \in Deleters : DeleteStep(d)
      <3>1. PICK d \in Deleters : DeleteStep(d)
        BY <2>2
      <3>2. \A f \in Deleters \ {d} : del'[f] = del[f]
        BY <3>1 DEF DeleteStep, BeginDelete, FindUser, FindVotes, Revoke, LockAccount, Cascade,
                    CommitDelete, AbortDelete, AnswerDeletion, DeletionInv, Shapes
      <3>3. tx' = tx
        BY <3>1 DEF DeleteStep, BeginDelete, FindUser, FindVotes, Revoke, LockAccount, Cascade,
                    CommitDelete, AbortDelete, AnswerDeletion, votingVars
      <3>4. QED
        BY <3>2, <3>3 DEF Active
    <2>3. CASE RefreshStep
      <3>1. tx' = tx /\ del' = del
        BY <2>3 DEF RefreshStep, RefreshSnapshot, RefreshRow, RefreshCommit, RefreshAbort, votingVars
      <3>2. QED
        BY <3>1 DEF Active
    <2>4. QED
      BY <2>1, <2>2, <2>3 DEF DeletionNext
  <1>2. PICK x : Active' \subseteq Active \union {x}
    BY <1>1
  <1>3. IsFiniteSet(Active \union {x})
    BY FS_AddElement
  <1>4. QED
    BY <1>2, <1>3, FS_Subset

\* Beside a vote that steps, without an overlap, no account is being deleted.
LEMMA VotingBesideNone ==
  ASSUME DeletionInv, DeletionInv', IsFiniteSet(Active), IsFiniteSet(Active'),
         ~Overlap, ~Overlap', NEW b \in Backends, VotingStep(b)
  PROVE  \A d \in Deleters : del[d].pc = "idle"
  <1> SUFFICES ASSUME NEW d \in Deleters, del[d].pc # "idle" PROVE FALSE
    OBVIOUS
  <1>1. b # d /\ del' = del
    BY DeletionAssumption DEF VotingStep
  <1>2. CASE tx[b].pc # "idle"
    <2>1. b \in Active /\ d \in Active
      BY <1>2 DEF Active
    <2>2. Cardinality(Active) > 1
      BY <1>1, <2>1, TwoIsMore
    <2>3. QED
      BY <2>2 DEF Overlap
  <1>3. CASE tx[b].pc = "idle"
    <2>1. Begin(b)
      BY <1>3 DEF VotingStep, Abort, Busy, Locked, Step, Exists, TryLock, Find, Delete, Decrement,
                  Insert, Increment, Commit
    <2>2. tx'[b].pc = "exists"
      BY <2>1 DEF Begin, Request, DeletionInv, Shapes
    <2>3. b \in Active' /\ d \in Active'
      BY <1>1, <2>2 DEF Active
    <2>4. Cardinality(Active') > 1
      BY <1>1, <2>3, TwoIsMore
    <2>5. QED
      BY <2>4, <1>1 DEF Overlap
  <1>4. QED
    BY <1>2, <1>3

\* A deletion that steps without an overlap is alone.
LEMMA DeletionAlone ==
  ASSUME DeletionInv, IsFiniteSet(Active), IsFiniteSet(Active'),
         ~Overlap, ~Overlap', NEW d \in Deleters, DeleteStep(d)
  PROVE  /\ tx' = tx /\ \A b \in Backends : tx[b].pc = "idle"
         /\ \A f \in Deleters \ {d} : del[f].pc = "idle" /\ del'[f] = del[f]
  <1>1. \A f \in Deleters \ {d} : del'[f] = del[f]
    BY DEF DeleteStep, BeginDelete, FindUser, FindVotes, Revoke, LockAccount, Cascade,
           CommitDelete, AbortDelete, AnswerDeletion, DeletionInv, Shapes
  <1>2. tx' = tx
    BY DEF DeleteStep, BeginDelete, FindUser, FindVotes, Revoke, LockAccount, Cascade,
           CommitDelete, AbortDelete, AnswerDeletion, votingVars
  <1>3. \A x \in Active : x # d => x \in Active'
    BY <1>1, <1>2 DEF Active
  <1>4. del[d].pc # "idle" \/ del'[d].pc # "idle"
    <2>1. CASE BeginDelete(d)
      BY <2>1 DEF BeginDelete, DeletionInv, Shapes, NoDeletion
    <2>2. CASE ~BeginDelete(d)
      BY <2>2 DEF DeleteStep, FindUser, FindVotes, Revoke, LockAccount, Cascade, CommitDelete, AbortDelete
    <2>3. QED
      BY <2>1, <2>2
  <1>5. ASSUME NEW x \in Active, x # d PROVE FALSE
    <2>1. CASE del[d].pc # "idle"
      <3>1. d \in Active
        BY <2>1 DEF Active
      <3>2. QED
        BY <2>1, <3>1, <1>5, TwoIsMore DEF Overlap
    <2>2. CASE del'[d].pc # "idle"
      <3>1. d \in Active' /\ x \in Active'
        BY <2>2, <1>3, <1>5 DEF Active
      <3>2. Cardinality(Active') > 1
        BY <3>1, <1>5, TwoIsMore
      <3>3. QED
        BY <2>2, <3>2 DEF Overlap
    <2>3. QED
      BY <1>4, <2>1, <2>2
  <1>6. d \notin Backends
    BY DeletionAssumption
  <1>7. QED
    BY <1>1, <1>2, <1>5, <1>6 DEF Active

\* A deletion alone that removes the account takes each vote from its counter.
LEMMA CommitDeleteCounts ==
  ASSUME DeletionInv, NEW d \in Deleters, CommitDelete(d), Revoked(d), CountersInStep
  PROVE  CountersInStep'
  <1> PICK u : u = del[d].user
    OBVIOUS
  <1> PICK delta : delta = del[d].delta
    OBVIOUS
  <1> PICK removed : removed = IF u \in accounts THEN OwnedBy(u) ELSE {}
    OBVIOUS
  <1>0. /\ Shapes /\ del[d].pc = "commit" /\ u \in Users
        /\ vote' = [r \in Reviews |-> [w \in Users |->
                      IF w = u \/ r \in removed THEN NoVote ELSE vote[r][w]]]
        /\ tally' = [r \in Reviews |-> IF r \in removed THEN NoDelta
                                       ELSE [a \in VoteAction |-> tally[r][a] + delta[r][a]]]
    BY DEF CommitDelete, RemoveAccount, DeletionInv, DeleterOK
  <1> SUFFICES ASSUME NEW r \in Reviews, NEW a \in VoteAction
               PROVE  tally'[r][a] = Count(vote'[r], a)
    BY DEF CountersInStep, Count
  <1>1. CASE r \in removed
    <2>1. tally'[r][a] = 0
      BY <1>0, <1>1 DEF NoDelta
    <2>2. \A w \in Users : vote'[r][w] # a
      BY <1>0, <1>1 DEF NoVote, VoteAction
    <2>3. Count(vote'[r], a) = 0
      BY <2>2, CountZero
    <2>4. QED
      BY <2>1, <2>3
  <1>2. CASE r \notin removed
    <2> PICK f \in [Users -> VoteAction \union {NoVote}] : f = vote[r]
      BY <1>0 DEF Shapes
    <2>1. vote'[r] = [f EXCEPT ![u] = NoVote]
      BY <1>0, <1>2
    <2> PICK x \in VoteAction \union {NoVote} : x = NoVote
      OBVIOUS
    <2>2. Count([f EXCEPT ![u] = x], a)
            = Count(f, a) + ((IF x = a THEN 1 ELSE 0) - (IF f[u] = a THEN 1 ELSE 0))
      <3>1. u \in Users
        BY <1>0
      <3>2. QED
        BY <3>1, CountUpdate
    <2>3. NoVote # a
      BY DEF NoVote, VoteAction
    <2>4. delta[r][a] = IF f[u] = a THEN -1 ELSE 0
      BY <1>0 DEF Revoked, Reached
    <2>5. tally'[r][a] = tally[r][a] + delta[r][a] /\ tally[r][a] = Count(f, a)
      BY <1>0, <1>2 DEF CountersInStep
    <2>6. Count(f, a) \in Nat
      BY CountIsNat
    <2>7. QED
      BY <2>1, <2>2, <2>3, <2>4, <2>5, <2>6
  <1>3. QED
    BY <1>1, <1>2

\* Every other statement of a deletion commits nothing and keeps the account of
\* what it has revoked.
LEMMA RevokedKept ==
  ASSUME DeletionInv, NEW d \in Deleters, DeleteStep(d), ~CommitDelete(d), Revoked(d)
  PROVE  UNCHANGED dbVars /\ Revoked(d)'
  <1>0. Shapes /\ del[d] \in DelRecord /\ DeleterOK(d)
    BY DEF DeletionInv, Shapes
  <1>1. UNCHANGED dbVars
    BY DEF DeleteStep, BeginDelete, FindUser, FindVotes, Revoke, LockAccount, Cascade, AbortDelete,
           votingVars
  <1>2. vote' = vote
    BY <1>1 DEF dbVars
  <1> SUFFICES Revoked(d)'
    BY <1>1
  <1>3. CASE del'[d].pc = "idle"
    BY <1>3 DEF Revoked
  <1>4. CASE BeginDelete(d)
    <2>1. PICK u \in Users : del' = [del EXCEPT ![d] = [NoDeletion EXCEPT !.pc = "find", !.user = u]]
      BY <1>4 DEF BeginDelete
    <2>2. del'[d].pc = "find" /\ del'[d].delta = NoDeltas
      BY <2>1, <1>0 DEF Shapes, NoDeletion
    <2>3. QED
      BY <2>2 DEF Revoked, Reached, NoDeltas, NoDelta
  <1>5. CASE FindUser(d) /\ del'[d].pc # "idle"
    <2>1. del'[d] = [del[d] EXCEPT !.pc = "votes"]
      BY <1>5, <1>0, NoDeletionType DEF FindUser, AnswerDeletion, Shapes
    <2>2. /\ del'[d].pc = "votes" /\ del'[d].user = del[d].user /\ del'[d].delta = del[d].delta
          /\ del[d].pc = "find"
      BY <2>1, <1>0, <1>5 DEF DelRecord, FindUser
    <2>3. QED
      BY <2>2, <1>2 DEF Revoked, Reached
  <1>6. CASE FindVotes(d)
    <2>1. /\ del'[d].pc = "revoke" /\ del'[d].user = del[d].user /\ del'[d].delta = del[d].delta
          /\ del'[d].up = VotedBy(del[d].user, "up") /\ del'[d].down = VotedBy(del[d].user, "down")
          /\ del[d].pc = "votes"
      BY <1>0, <1>6 DEF FindVotes, Shapes, DelRecord
    <2>2. \A r \in Reviews, a \in VoteAction : del[d].delta[r][a] = 0
      BY <2>1 DEF Revoked, Reached
    <2>3. \A r \in Reviews, a \in VoteAction : vote[r][del[d].user] = a => ~Reached(d, r, a)'
      BY <2>1 DEF VotedBy, Reached, VoteAction
    <2>4. QED
      BY <2>1, <2>2, <2>3, <1>2 DEF Revoked, VotedBy
  <1>7. CASE Revoke(d) /\ del'[d].pc # "idle"
    <2>1. PICK r \in Reviews, a \in VoteAction :
            /\ NextRow(d, r, a) /\ del[d].pc = "revoke"
            /\ IF r \notin reviews
               THEN /\ del' = [del EXCEPT ![d] = RowDone(d, r, a)]
                    /\ UNCHANGED <<tx, lockVars, accountLock>>
               ELSE IF tally[r][a] + del[d].delta[r][a] < 1
               THEN AnswerDeletion(d, "constraint")
               ELSE /\ del' = [del EXCEPT ![d] = [RowDone(d, r, a) EXCEPT !.delta[r][a] = @ - 1]]
                    /\ rowLock' = [rowLock EXCEPT ![r] = d]
                    /\ UNCHANGED <<tx, voteLock, accountLock>>
      BY <1>7 DEF Revoke
    <2>2. /\ \A s \in del[d].up : vote[s][del[d].user] = "up"
          /\ \A s \in del[d].down : vote[s][del[d].user] = "down"
      BY <2>1 DEF Revoked
    <2>3. vote[r][del[d].user] = a /\ r \in reviews /\ del[d].user \in Users
      <3>1. vote[r][del[d].user] = a
        BY <2>1, <2>2 DEF NextRow
      <3>2. del[d].user \in Users
        BY <1>0, <2>1 DEF DeleterOK
      <3>3. QED
        BY <3>1, <3>2 DEF DeletionInv, NoOrphans, NoVote, VoteAction
    <2> PICK e : e = RowDone(d, r, a)
      OBVIOUS
    <2>4. /\ e \in DelRecord /\ e.pc = "revoke" /\ e.user = del[d].user /\ e.delta = del[d].delta
          /\ e.up = (IF a = "up" THEN del[d].up \ {r} ELSE del[d].up)
          /\ e.down = (IF a = "up" THEN del[d].down ELSE del[d].down \ {r})
      <3>1. e \in DelRecord /\ e.pc = "revoke" /\ e.user = del[d].user /\ e.delta = del[d].delta
        BY <1>0, <2>1, RowDoneFacts
      <3>2. /\ e.up = (IF a = "up" THEN del[d].up \ {r} ELSE del[d].up)
            /\ e.down = (IF a = "up" THEN del[d].down ELSE del[d].down \ {r})
        BY <1>0 DEF RowDone, DelRecord
      <3>3. QED
        BY <3>1, <3>2
    <2> PICK f : f = [e EXCEPT !.delta[r][a] = @ - 1]
      OBVIOUS
    <2>5. del'[d] = f
      <3>1. ~AnswerDeletion(d, "constraint")
        BY <1>0, <1>7, AnswerFacts
      <3>2. QED
        BY <2>1, <2>3, <3>1, <1>0 DEF Shapes
    <2>6. /\ f.pc = "revoke" /\ f.user = del[d].user /\ f.up = e.up /\ f.down = e.down
          /\ f.delta[r][a] = del[d].delta[r][a] - 1
          /\ \A s \in Reviews, x \in VoteAction :
               ~(s = r /\ x = a) => f.delta[s][x] = del[d].delta[s][x]
      <3>1. f.pc = "revoke" /\ f.user = del[d].user /\ f.up = e.up /\ f.down = e.down
        BY <2>4 DEF DelRecord
      <3>2. e.delta \in Deltas
        BY <2>4 DEF DelRecord
      <3>3. f.delta = [e.delta EXCEPT ![r][a] = @ - 1]
        BY <2>4 DEF DelRecord
      <3>4. QED
        BY <2>4, <3>1, <3>2, <3>3 DEF Deltas
    <2>7. /\ ~Reached(d, r, a)
          /\ \A s \in Reviews, x \in VoteAction : Reached(d, s, x)' <=> Reached(d, s, x) \/ (s = r /\ x = a)
      <3>1. r \in IF a = "up" THEN del[d].up ELSE del[d].down
        BY <2>1 DEF NextRow
      <3>2. ~Reached(d, r, a)
        BY <3>1, <2>1 DEF Reached
      <3>3. ASSUME NEW s \in Reviews, NEW x \in VoteAction
            PROVE  (s \notin IF x = "up" THEN e.up ELSE e.down) <=>
                     (s \notin IF x = "up" THEN del[d].up ELSE del[d].down) \/ (s = r /\ x = a)
        BY <2>4, <3>1 DEF VoteAction
      <3>4. QED
        BY <3>2, <3>3, <2>1, <2>5, <2>6 DEF Reached
    <2>8. \A s \in Reviews, x \in VoteAction :
            f.delta[s][x] = IF vote[s][del[d].user] = x /\ Reached(d, s, x)' THEN -1 ELSE 0
      <3> SUFFICES ASSUME NEW s \in Reviews, NEW x \in VoteAction
                   PROVE  f.delta[s][x] = IF vote[s][del[d].user] = x /\ Reached(d, s, x)'
                                          THEN -1 ELSE 0
        OBVIOUS
      <3>1. del[d].delta[s][x] = IF vote[s][del[d].user] = x /\ Reached(d, s, x) THEN -1 ELSE 0
        BY <2>1 DEF Revoked
      <3>2. CASE s = r /\ x = a
        BY <3>1, <3>2, <2>3, <2>6, <2>7
      <3>3. CASE ~(s = r /\ x = a)
        BY <3>1, <3>3, <2>6, <2>7
      <3>4. QED
        BY <3>2, <3>3
    <2>9. /\ \A s \in f.up : vote[s][del[d].user] = "up"
          /\ \A s \in f.down : vote[s][del[d].user] = "down"
      BY <2>2, <2>4, <2>6
    <2>10. QED
      BY <1>2, <2>5, <2>6, <2>8, <2>9 DEF Revoked
  <1>8. CASE LockAccount(d)
    <2>1. /\ del'[d].pc \in {"cascade", "commit"} /\ del'[d].user = del[d].user
          /\ del'[d].delta = del[d].delta
          /\ del[d].pc = "revoke" /\ del[d].up = {} /\ del[d].down = {}
      BY <1>0, <1>8 DEF LockAccount, Shapes, DelRecord
    <2>2. QED
      BY <2>1, <1>2 DEF Revoked, Reached
  <1>9. CASE Cascade(d)
    <2>1. /\ del'[d].pc = "commit" /\ del'[d].user = del[d].user /\ del'[d].delta = del[d].delta
          /\ del[d].pc = "cascade"
      BY <1>0, <1>9 DEF Cascade, Shapes, DelRecord
    <2>2. QED
      BY <2>1, <1>2 DEF Revoked, Reached
  <1>10. CASE AbortDelete(d)
    <2>1. del'[d].pc = "idle"
      BY <1>0, <1>10, AnswerFacts DEF AbortDelete
    <2>2. QED
      BY <2>1, <1>3, <1>1
  <1>11. QED
    BY <1>1, <1>3, <1>4, <1>5, <1>6, <1>7, <1>8, <1>9, <1>10 DEF DeleteStep

\* A step that overlaps nothing keeps the counters right.
LEMMA AloneKeeps ==
  ASSUME DeletionInv, DeletionInv', IsFiniteSet(Active), IsFiniteSet(Active'), DeletionNext,
         ~Overlap, ~Overlap', CountersInStep, SessionInv, cron.todo = {}, cron.delta = NoDeltas,
         \A d \in Deleters : Revoked(d)
  PROVE  /\ CountersInStep' /\ SessionInv' /\ cron'.todo = {} /\ cron'.delta = NoDeltas
         /\ \A d \in Deleters : Revoked(d)'
  <1>1. CASE \E b \in Backends : VotingStep(b)
    <2>1. PICK b \in Backends : VotingStep(b)
      BY <1>1
    <2>2. \A d \in Deleters : del[d].pc = "idle"
      BY <2>1, VotingBesideNone
    <2>3. IInv
      BY <2>2, VotingAlone
    <2>4. VotingNext
      BY <2>1 DEF VotingStep, VotingNext
    <2>5. IInv'
      BY <2>3, <2>4, NextInv
    <2>6. cron'.todo = {} /\ cron'.delta = NoDeltas /\ del' = del
      BY <2>1 DEF VotingStep, DeletionInv, Shapes, CronRecord
    <2>7. \A d \in Deleters : Revoked(d)'
      BY <2>2, <2>6 DEF Revoked
    <2>8. QED
      BY <2>5, <2>6, <2>7 DEF IInv, CountersConsistent, CountersInStep
  <1>2. CASE \E d \in Deleters : DeleteStep(d)
    <2>1. PICK d \in Deleters : DeleteStep(d)
      BY <1>2
    <2>2. /\ tx' = tx /\ \A b \in Backends : tx[b].pc = "idle"
          /\ \A f \in Deleters \ {d} : del[f].pc = "idle" /\ del'[f] = del[f]
      BY <2>1, DeletionAlone
    <2>3. ASSUME NEW b \in Backends PROVE SessionOK(b)'
      <3>1. tx'[b].row = Untouched /\ tx'[b].delta = NoDelta /\ tx'[b].kind = "none"
            /\ tx'[b].pc = "idle"
        BY <2>2 DEF DeletionInv, VoterOK
      <3>2. QED
        BY <3>1 DEF SessionOK, Progress, Locked
    <2>4. \A f \in Deleters \ {d} : Revoked(f)'
      BY <2>2 DEF Revoked
    <2>5. CASE CommitDelete(d)
      <3>1. CountersInStep'
        BY <2>5, CommitDeleteCounts
      <3>2. del'[d].pc = "idle"
        BY <2>5, AnswerFacts DEF CommitDelete, DeletionInv
      <3>3. Revoked(d)'
        BY <3>2 DEF Revoked
      <3>4. cron'.todo = {} /\ cron'.delta = NoDeltas
        BY <2>5 DEF CommitDelete, DeletionInv, Shapes, CronRecord
      <3>5. QED
        BY <2>3, <2>4, <3>1, <3>3, <3>4 DEF SessionInv
    <2>6. CASE ~CommitDelete(d)
      <3>1. UNCHANGED dbVars /\ Revoked(d)'
        BY <2>1, <2>6, RevokedKept
      <3>2. cron' = cron
        BY <2>1, <2>6 DEF DeleteStep, BeginDelete, FindUser, FindVotes, Revoke, LockAccount, Cascade,
                          AbortDelete
      <3>3. CountersInStep'
        BY <3>1 DEF dbVars, CountersInStep, Count
      <3>4. QED
        BY <2>3, <2>4, <3>1, <3>2, <3>3 DEF SessionInv
    <2>7. QED
      BY <2>5, <2>6
  <1>3. CASE RefreshStep
    <2>1. UNCHANGED <<accounts, reviews, vote, tx, voteLock, del>>
      BY <1>3 DEF RefreshStep, RefreshSnapshot, RefreshRow, RefreshCommit, RefreshAbort, votingVars,
                  dbVars, lockVars
    <2>2. ASSUME NEW b \in Backends PROVE SessionOK(b)'
      <3>1. SessionOK(b) /\ (tx'[b].delta # NoDelta => rowLock'[tx'[b].review] = b)
        BY DEF SessionInv, DeletionInv, VoterOK
      <3>2. QED
        BY <2>1, <3>1 DEF SessionOK, Progress, HoldsLock, Key
    <2>3. \A d \in Deleters : Revoked(d)'
      BY <2>1 DEF Revoked, Reached
    <2>4. tally' = tally
      <3>1. CASE RefreshCommit
        <4>1. tally' = [r \in Reviews |-> [a \in VoteAction |-> tally[r][a] + 0]]
          BY <3>1 DEF RefreshCommit, NoDeltas, NoDelta
        <4>2. tally \in [Reviews -> [VoteAction -> Nat]]
          BY DEF DeletionInv, Shapes
        <4>3. \A r \in Reviews, a \in VoteAction : tally[r][a] + 0 = tally[r][a]
          BY <4>2
        <4>4. QED
          BY <4>1, <4>2, <4>3
      <3>2. CASE ~RefreshCommit
        BY <1>3, <3>2 DEF RefreshStep, RefreshSnapshot, RefreshRow, RefreshAbort, votingVars, dbVars
      <3>3. QED
        BY <3>1, <3>2
    <2>5. CountersInStep'
      BY <2>1, <2>4 DEF CountersInStep, Count
    <2>6. cron'.todo = {} /\ cron'.delta = NoDeltas
      <3>1. CASE RefreshSnapshot
        <4>1. ASSUME NEW r \in reviews PROVE tally[r] = ActualCounts[r]
          <5>1. tally[r] \in [VoteAction -> Nat] /\ ActualCounts[r] \in [VoteAction -> Nat]
                /\ r \in Reviews
            BY ActualType DEF DeletionInv, Shapes
          <5>2. \A a \in VoteAction : tally[r][a] = ActualCounts[r][a]
            BY <5>1 DEF CountersInStep, ActualCounts
          <5>3. QED
            BY <5>1, <5>2
        <4>2. {r \in reviews : tally[r] # ActualCounts[r]} = {}
          BY <4>1
        <4>3. QED
          BY <3>1, <4>2 DEF RefreshSnapshot, NoRefresh
      <3>2. CASE RefreshRow
        BY <3>2 DEF RefreshRow
      <3>3. CASE RefreshCommit \/ RefreshAbort
        BY <3>3 DEF RefreshCommit, RefreshAbort, NoRefresh
      <3>4. QED
        BY <1>3, <3>1, <3>2, <3>3 DEF RefreshStep
    <2>7. QED
      BY <2>2, <2>3, <2>5, <2>6 DEF SessionInv
  <1>4. QED
    BY <1>1, <1>2, <1>3 DEF DeletionNext

\* A repair with nothing else in progress makes the counters right again.
LEMMA RepairKeeps ==
  ASSUME DeletionInv, Repair
  PROVE  /\ ~Overlap' /\ CountersInStep' /\ SessionInv'
         /\ cron'.todo = {} /\ cron'.delta = NoDeltas
         /\ \A d \in Deleters : Revoked(d)'
  <1>1. /\ RefreshCommit /\ cron.fresh /\ tx' = tx /\ del' = del /\ cron' = NoRefresh
        /\ \A b \in Backends : tx[b].pc = "idle"
        /\ \A d \in Deleters : del[d].pc = "idle"
    BY DEF Repair, RefreshCommit, Active
  <1>2. CountersInStep'
    <2>1. \A r \in Reviews, a \in VoteAction : tally'[r][a] = Count(vote'[r], a)
      BY <1>1, RepairedCounters
    <2>2. QED
      BY <2>1 DEF CountersInStep, Count
  <1>3. ASSUME NEW b \in Backends PROVE SessionOK(b)'
    <2>1. tx'[b].row = Untouched /\ tx'[b].delta = NoDelta /\ tx'[b].kind = "none"
          /\ tx'[b].pc = "idle"
      BY <1>1 DEF DeletionInv, VoterOK
    <2>2. QED
      BY <2>1 DEF SessionOK, Progress, Locked
  <1>4. \A d \in Deleters : Revoked(d)'
    BY <1>1 DEF Revoked
  <1>5. ~Overlap'
    BY <1>1 DEF Overlap
  <1>6. QED
    BY <1>1, <1>2, <1>3, <1>4, <1>5 DEF SessionInv, NoRefresh

LEMMA HistoryInitInv == ASSUME HistoryInit PROVE HistoryInv
  <1>1. DeletionInit /\ overlapped = FALSE /\ DeletionInv /\ IInv
    BY DeletionInitInv, InitInv DEF HistoryInit, DeletionInit
  <1>2. /\ \A b \in Backends : tx[b].pc = "idle"
        /\ \A d \in Deleters : del[d].pc = "idle"
        /\ cron = NoRefresh
    BY <1>1 DEF DeletionInit, VotingInit, Idle, NoDeletion
  <1>3. Active = {}
    BY <1>2 DEF Active
  <1>4. IsFiniteSet(Active)
    BY <1>3, FS_EmptySet
  <1>5. ~Overlap /\ \A d \in Deleters : Revoked(d)
    BY <1>2 DEF Overlap, Revoked
  <1>6. CountersInStep /\ SessionInv
    BY <1>1 DEF IInv, CountersConsistent, CountersInStep
  <1>7. QED
    BY <1>2, <1>4, <1>5, <1>6 DEF HistoryInv, NoRefresh

LEMMA HistoryNextInv ==
  ASSUME DeletionInv, DeletionInv', HistoryInv, [HistoryNext]_historyVars
  PROVE  HistoryInv'
  <1>1. CASE UNCHANGED historyVars
    <2>1. Active' = Active /\ (Overlap' <=> Overlap)
      BY <1>1 DEF historyVars, deletionVars, votingVars, Active, Overlap
    <2>2. (CountersInStep' <=> CountersInStep) /\ cron' = cron /\ overlapped' = overlapped
      BY <1>1 DEF historyVars, deletionVars, votingVars, dbVars, CountersInStep, Count
    <2>3. SessionInv' <=> SessionInv
      BY <1>1 DEF historyVars, deletionVars, votingVars, dbVars, lockVars, SessionInv, SessionOK,
                  HoldsLock, Key, Progress
    <2>4. \A d \in Deleters : Revoked(d)' <=> Revoked(d)
      BY <1>1 DEF historyVars, deletionVars, votingVars, dbVars, Revoked, Reached
    <2>5. QED
      BY <2>1, <2>2, <2>3, <2>4 DEF HistoryInv
  <1>2. CASE HistoryNext
    <2>1. DeletionNext /\ IsFiniteSet(Active')
      BY <1>2, ActiveFinite DEF HistoryNext, HistoryInv
    <2>2. CASE overlapped'
      BY <2>1, <2>2 DEF HistoryInv
    <2>3. CASE ~overlapped' /\ ~overlapped
      <3>1. ~Overlap'
        BY <1>2, <2>3 DEF HistoryNext
      <3>2. /\ CountersInStep' /\ SessionInv' /\ cron'.todo = {} /\ cron'.delta = NoDeltas
            /\ \A d \in Deleters : Revoked(d)'
        BY <2>1, <2>3, <3>1, AloneKeeps DEF HistoryInv
      <3>3. QED
        BY <2>1, <3>1, <3>2 DEF HistoryInv
    <2>4. CASE ~overlapped' /\ overlapped
      <3>1. Repair
        BY <1>2, <2>4 DEF HistoryNext
      <3>2. QED
        BY <2>1, <3>1, RepairKeeps DEF HistoryInv
    <2>5. QED
      BY <2>2, <2>3, <2>4
  <1>3. QED
    BY <1>1, <1>2

(***************************************************************************)
(* Unless a deletion has been beside a vote or another deletion since the  *)
(* last repair, the counters are right, every voting session holds what    *)
(* its statement supposes, and a deletion has revoked what it has reached. *)
(***************************************************************************)
THEOREM HistoryInvariance == HistorySpec => [](DeletionInv /\ HistoryInv)
  <1>1. HistoryInit => DeletionInv /\ HistoryInv
    BY DeletionInitInv, HistoryInitInv DEF HistoryInit
  <1>2. DeletionInv /\ HistoryInv /\ [HistoryNext]_historyVars => DeletionInv' /\ HistoryInv'
    <2> SUFFICES ASSUME DeletionInv, HistoryInv, [HistoryNext]_historyVars
                 PROVE  DeletionInv' /\ HistoryInv'
      OBVIOUS
    <2>1. [DeletionNext]_deletionVars
      BY DEF HistoryNext, historyVars
    <2>2. DeletionInv'
      BY <2>1, DeletionNextInv
    <2>3. QED
      BY <2>2, HistoryNextInv
  <1>3. QED
    BY <1>1, <1>2, PTL DEF HistorySpec

(***************************************************************************)
(* The counters differ from the votes only after a deletion that           *)
(* overlapped a vote or another deletion, and until the next undisturbed   *)
(* refresh: votes alone and one deletion alone leave them equal.           *)
(***************************************************************************)
THEOREM OnlyOverlapDrifts == HistorySpec => []DriftOnlyAfterOverlap
  <1>1. DeletionInv /\ HistoryInv => DriftOnlyAfterOverlap
    BY DEF HistoryInv, DriftOnlyAfterOverlap
  <1>2. QED
    BY <1>1, HistoryInvariance, PTL

=============================================================================
