---------------------------- MODULE MailPromise ----------------------------
(***************************************************************************)
(* What the e-mail component promises for an e-mail it has accepted: it    *)
(* is handed to the provider, possibly more than once, or it is dropped,   *)
(* and one of the two happens eventually.  A dropped e-mail stays dropped  *)
(* and an e-mail that has been sent is never counted as dropped.           *)
(***************************************************************************)

CONSTANT Mails     \* e-mails that may be asked for

VARIABLE fate      \* fate[m]: what has become of the e-mail m

Fates == {"none", "accepted", "sent", "dropped"}

MailInit == fate = [m \in Mails |-> "none"]

Becomes(m, from, to) == fate[m] = from /\ fate' = [fate EXCEPT ![m] = to]

Accept(m) == Becomes(m, "none", "accepted")
Deliver(m) == Becomes(m, "accepted", "sent")
GiveUp(m) == Becomes(m, "accepted", "dropped")

MailNext == \E m \in Mails : Accept(m) \/ Deliver(m) \/ GiveUp(m)

MailSpec == MailInit /\ [][MailNext]_fate

\* An accepted e-mail does not stay in the queue for ever.
MailFairSpec == MailSpec /\ \A m \in Mails : WF_fate(Deliver(m) \/ GiveUp(m))

=============================================================================
