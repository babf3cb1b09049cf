---------------------------- MODULE VotingProps ----------------------------
(***************************************************************************)
(* What must hold of the votes component: the type invariant, the          *)
(* inductive invariant behind the counters, and the properties of replies. *)
(***************************************************************************)
EXTENDS Voting

TxRecord ==
  [pc : {"idle"} \union Busy, kind : {"none", "voteReview", "deleteVote"},
   user : Users \union {Nobody}, review : Reviews \union {Nobody},
   action : VoteAction \union {NoVote}, prev : VoteAction \union {NoVote},
   row : VoteAction \union {NoVote, Untouched}, delta : [VoteAction -> Int],
   reply : {"none", "true", "false", "notFound", "constraint", "aborted"}]

(* Every variable has its type: rows, counters, transaction records and    *)
(* lock holders of VotesService and of the tables it writes.               *)
TypeOK ==
  /\ accounts \subseteq Users
  /\ reviews \subseteq Reviews
  /\ vote \in [Reviews -> [Users -> VoteAction \union {NoVote}]]
  /\ tally \in [Reviews -> [VoteAction -> Nat]]
  /\ tx \in [Backends -> TxRecord]
  /\ voteLock \in [LockKeys -> Backends \union {Nobody}]
  /\ rowLock \in [Reviews -> Backends \union {Nobody}]
  /\ \A b \in Backends : tx[b].pc \in Busy =>
       tx[b].user \in Users /\ tx[b].review \in Reviews

(* The counters of a review always equal the votes recorded on it: no      *)
(* interleaving of voteReview and deleteVote, abort or lock collision      *)
(* makes upvotes or downvotes drift.                                       *)
CountersConsistent ==
  \A r \in Reviews, a \in VoteAction : tally[r][a] = Count(vote[r], a)

(* No voteReview or deleteVote is ever refused by the database: the        *)
(* advisory lock keeps them from the unique key of vote and from the       *)
(* CHECK constraints of review.                                            *)
NeverRefused == \A b \in Backends : tx[b].reply # "constraint"

-----------------------------------------------------------------------------
(* The inductive invariant.                                                *)

HoldsLock(b) == voteLock[Key(b)] = b

\* The counter changes that replacing the row old by the row new calls for.
OwedDelta(old, new) ==
  [a \in VoteAction |-> (IF new = a THEN 1 ELSE 0) - (IF old = a THEN 1 ELSE 0)]

\* What b's transaction knows and has written when it reaches a statement.
Progress(b) ==
  LET t == tx[b] IN
  /\ t.pc \in {"idle", "exists", "lock", "find", "delete"} =>
       t.row = Untouched /\ t.delta = NoDelta
  /\ t.kind = "voteReview" => t.action \in VoteAction
  /\ t.pc \in {"delete", "decrement"} => t.prev \in VoteAction /\ t.prev # t.action
  /\ t.pc = "decrement" => t.row = NoVote /\ t.delta = NoDelta
  /\ t.pc \in {"insert", "increment"} =>
       t.action \in VoteAction /\ t.prev # t.action /\ t.delta = OwedDelta(t.prev, NoVote)
  /\ t.pc = "insert" => t.row = IF t.prev = NoVote THEN Untouched ELSE NoVote
  /\ t.pc = "increment" => t.row = t.action
  /\ t.pc = "commit" =>
       \/ t.row = Untouched /\ t.delta = NoDelta
       \/ t.row # Untouched /\ t.delta = OwedDelta(t.prev, t.row)

\* A session past the lock still holds it, has seen the committed row of its
\* vote, and has written exactly the row and the counter changes its statement
\* supposes; a session with pending counter changes holds the review's row.
SessionOK(b) ==
  /\ tx[b].pc \in Locked => HoldsLock(b)
  /\ tx[b].pc \in Locked \union {"lock"} => tx[b].review \in reviews
  /\ tx[b].pc \in Locked \ {"find"} => tx[b].prev = vote[tx[b].review][tx[b].user]
  /\ tx[b].delta # NoDelta => rowLock[tx[b].review] = b
  /\ Progress(b)

(* Every session between its statements knows and has written what the     *)
(* code supposes there: the lock of VotesService keeps other sessions from *)
(* invalidating it.                                                        *)
SessionInv == \A b \in Backends : SessionOK(b)

IInv == TypeOK /\ SessionInv /\ CountersConsistent

-----------------------------------------------------------------------------
(* Replies.                                                                *)

Replies(b, kind, reply) ==
  /\ tx[b].kind = kind
  /\ tx[b].pc # "idle"
  /\ tx'[b].pc = "idle"
  /\ tx'[b].reply = reply

(* deleteVote answers true in the step that removes the vote. It answers   *)
(* false when the vote was absent, as deleteVote.docs.ts says, and, beyond *)
(* what that says, when another session was using its lock key: see        *)
(* RepliesAsDocumented.                                                    *)
DeleteReplyTruthful ==
  [][\A b \in Backends :
       LET r == tx[b].review
           u == tx[b].user
       IN /\ Replies(b, "deleteVote", "true") =>
               r \in reviews /\ vote[r][u] # NoVote /\ vote'[r][u] = NoVote
          /\ Replies(b, "deleteVote", "false") =>
               vote[r][u] = NoVote \/ voteLock[Key(b)] \notin {Nobody, b}]_votingVars

(* voteReview answers true only if the caller's vote is recorded with the  *)
(* requested action, or another session was using its lock key.            *)
VoteReplyTruthful ==
  [][\A b \in Backends : Replies(b, "voteReview", "true") =>
       \/ vote'[tx[b].review][tx[b].user] = tx[b].action
       \/ voteLock[Key(b)] \notin {Nobody, b}]_votingVars

(* "Boolean true indicating the vote was successfully recorded", and "true *)
(* if a vote was removed, false if no vote existed": voteReview answers    *)
(* true only if the requested vote is on record, and deleteVote answers    *)
(* false only if there is none.                                            *)
RepliesAsDocumented ==
  [][\A b \in Backends :
       LET now == vote'[tx[b].review][tx[b].user]
       IN /\ Replies(b, "voteReview", "true") => now = tx[b].action
          /\ Replies(b, "deleteVote", "false") => now = NoVote]_votingVars

(* Each committed step is one atomic change of one vote and of the two     *)
(* counters of its review.                                                 *)
Ledger == INSTANCE VoteLedger
            WITH Users <- Users, Reviews <- Reviews, vote <- vote, tally <- tally
LedgerSpec == Ledger!LedgerSpec

(* Every request is answered: no session waits for ever for the row of a   *)
(* review or for the vote row of another session.                          *)
EveryRequestAnswered ==
  \A b \in Backends : tx[b].pc \in Busy ~> tx[b].pc = "idle"

=============================================================================
