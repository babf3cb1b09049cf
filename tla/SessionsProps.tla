--------------------------- MODULE SessionsProps ---------------------------
(***************************************************************************)
(* What must hold of the sessions, whatever requests, expiry, failures and *)
(* crashes interleave, and what the documentation says of them.            *)
(***************************************************************************)
EXTENDS Sessions

Creating == {q \in Requests : req[q].hold = "save"}

(* Every key holds what its type says, keys name only ids that were        *)
(* generated, and a session is created under an id of its own: no key      *)
(* names it before create binds it, no record exists before the request    *)
(* ends, and no two requests create the same session.                      *)
SessionsTypeOK ==
  /\ account \in [Users -> {"absent", "exists", "deleted"}]
  /\ session \in [Sids -> Users \union {Nobody}]
  /\ relation \in [Sids -> Users \union {Nobody}]
  /\ index \in [Users -> SUBSET (1..issued)]
  /\ issued \in 0..MaxSids /\ mishaps \in 0..MaxMishaps
  /\ revoked \subseteq 1..issued
  /\ \A s \in Sids : s > issued => session[s] = Nobody /\ relation[s] = Nobody
  /\ \A q \in Requests : req[q].user \in Users \union {Nobody} /\ req[q].sid \in 0..issued
  /\ \A q \in Creating :
       /\ session[req[q].sid] = Nobody
       /\ req[q].pc = "bind" => OwnedBy(req[q].user) \intersect {req[q].sid} = {}
       /\ \A p \in Creating : p # q => req[p].sid # req[q].sid

(* Once signOut, a sign-out of all sessions, the deletion of the account,  *)
(* a session rotation or a cleanup has answered, no later request with one *)
(* of the sessions it closed passes AuthGuard: not when the session's      *)
(* record is saved afterwards by the request that created it, nor when     *)
(* sign-outs overlap, commands fail or a process dies.                     *)
ClosedStaysClosed ==
  \A q \in Requests : req[q].pc = "admitted" => ~req[q].barred

(* The check of the session limit and the creation of the session are two  *)
(* steps, yet requests can exceed the limit by no more than run together.  *)
OvershootBounded ==
  \A u \in Users :
    Cardinality(index[u]) <= MaxUserSessions + Cardinality(Requests) - 1

FullyCleaned(s) ==
  session[s] = Nobody /\ relation[s] = Nobody /\ \A u \in Users : s \notin index[u]

(* signOut that answers true, and a cleanup whose commands succeeded,      *)
(* leave nothing of the session in any key.                                *)
SignedOutIsCleaned ==
  [][\A q \in Requests, s \in Sids :
       (/\ End(q) /\ req[q].sid = s
        /\ req[q].op \in {"signOut", "cleanup"} /\ req[q].open = {s})
         => FullyCleaned(s)']_sessionsVars

-----------------------------------------------------------------------------
(* "Maximum concurrent sessions reached": a sign-in is refused for that    *)
(* reason only if the user has that many sessions, the ones that other     *)
(* requests are creating included.                                         *)
InCreation(u) == {req[p].sid : p \in {p \in Creating : req[p].user = u}}

RefusedOnlyWhenFull ==
  [][\A q \in Requests :
       (req[q].pc = "count" /\ req'[q].pc = "idle" /\ mishaps' = mishaps) =>
         LET open == {s \in Sids : session[s] = req[q].user} \union InCreation(req[q].user)
         IN Cardinality(open) >= MaxUserSessions]_sessionsVars

=============================================================================
