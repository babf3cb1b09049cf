--------------------------- MODULE DeletionProps ---------------------------
(***************************************************************************)
(* What holds, and what does not, when accounts are deleted while votes    *)
(* are cast and the counters are refreshed.                                *)
(***************************************************************************)
EXTENDS AccountDeletion

(* Variables of the deletion and of the refresh have their types, and no   *)
(* committed counter is negative (the CHECK constraints of review).        *)
DeletionTypeOK ==
  /\ accounts \subseteq Users /\ reviews \subseteq Reviews
  /\ vote \in [Reviews -> [Users -> VoteAction \union {NoVote}]]
  /\ tally \in [Reviews -> [VoteAction -> Nat]]
  /\ \A d \in Deleters :
       /\ del[d].pc \in {"idle", "find", "votes", "revoke", "cascade", "commit"}
       /\ del[d].up \subseteq Reviews /\ del[d].down \subseteq Reviews
       /\ del[d].reply \in {"none", "notFound", "constraint", "deleted", "aborted"}
  /\ accountLock \in [Users -> Deleters \union {Nobody}]
  /\ rowLock \in [Reviews -> Backends \union Deleters \union {Cron, Nobody}]
  /\ cron.todo \subseteq Reviews

(* No vote of a deleted account or on a deleted review survives, and no    *)
(* review survives an account that owns it: the removal of an account is   *)
(* complete whatever voting transactions are in flight.                    *)
NoOrphans ==
  /\ \A r \in Reviews, u \in Users : vote[r][u] # NoVote => r \in reviews /\ u \in accounts
  /\ \A r \in reviews : Owners[r] \subseteq accounts

(* deleteOne answers its caller only when the account is gone, also when   *)
(* another deletion of the same account wins the race.                     *)
DeletedMeansGone ==
  [][\A d \in Deleters :
       (del[d].pc # "idle" /\ del'[d].pc = "idle" /\ del'[d].reply \in {"deleted", "notFound"})
         => del[d].user \notin accounts']_deletionVars

(* A refresh that no vote and no deletion overlaps repairs every counter,  *)
(* and it is the only step that may: it leaves no drift behind.            *)
UndisturbedRefreshRepairs ==
  [][(cron.pc = "update" /\ cron.todo = {} /\ cron.fresh /\ RefreshCommit) =>
       \A r \in Reviews, a \in VoteAction : tally'[r][a] = Count(vote'[r], a)]_deletionVars

(* "The votes made by the user are decremented in all voted reviews", and  *)
(* the lock on a vote "prevents double-deletion or inconsistent counters": *)
(* the counters of every review equal its recorded votes.                  *)
CountersInStep ==
  \A r \in Reviews, a \in VoteAction : tally[r][a] = Count(vote[r], a)

-----------------------------------------------------------------------------
(* History: whether, since the counters were last repaired with nothing    *)
(* else in progress, a deletion has been beside a vote or another deletion.*)

VARIABLE overlapped

historyVars == <<deletionVars, overlapped>>

Active == {b \in Backends : tx[b].pc # "idle"} \union {d \in Deleters : del[d].pc # "idle"}

Overlap == (\E d \in Deleters : del[d].pc # "idle") /\ Cardinality(Active) > 1

Repair == RefreshCommit /\ cron.fresh /\ Active = {}

HistoryNext ==
  /\ DeletionNext
  /\ overlapped' = (Overlap' \/ (overlapped /\ ~Repair))

HistoryInit == DeletionInit /\ overlapped = FALSE

HistorySpec == HistoryInit /\ [][HistoryNext]_historyVars

(* The counters differ from the votes only after a deletion that overlapped*)
(* a vote or another deletion, and only until a refresh with nothing beside*)
(* it: votes alone, however they overlap, and one deletion alone leave     *)
(* every counter equal to its votes.                                       *)
DriftOnlyAfterOverlap == overlapped \/ CountersInStep

=============================================================================
