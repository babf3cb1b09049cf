----------------------------- MODULE EmailProps -----------------------------
(***************************************************************************)
(* What the e-mail queue owes to the requests that use it, when commands   *)
(* are sent twice, sends fail, workers lose their locks and processes die. *)
(***************************************************************************)
EXTENDS EmailQueue

Jobs == [state : Queued \union Removed \union {"none"}, tries : 0..Attempts,
         stalls : 0..(MaxStalled + 1), owner : Workers \union {Nobody}]

WorkerStates == [pc : {"free", "down", "sending", "sent", "failed"},
                 mail : Mails \union {Nobody}, copy : Copies \union {Nobody}]

(* The variables have their types: in particular no job fails or stalls    *)
(* more often than it is put back, plus once.                              *)
EmailTypeOK ==
  /\ request \in [Mails -> {"idle", "adding", "added", "true", "error", "conflict", "ifExists"}]
  /\ job \in [Mails -> [Copies -> Jobs]]
  /\ worker \in [Workers -> WorkerStates]
  /\ handed \in [Mails -> [Copies -> Nat]]
  /\ faults \in Nat

(* A job is handed to the provider at most Attempts + MaxStalled times,    *)
(* although a worker that lost its lock goes on sending beside the worker  *)
(* that took the job over, and a send that succeeded can be reported as    *)
(* failed.                                                                 *)
CopiesBounded ==
  \A m \in Mails, k \in Copies : handed[m][k] <= Attempts + MaxStalled

(* A job is removed as completed only when the provider has taken the      *)
(* e-mail, and given up only after retryAttempts failures or more lost     *)
(* locks than BullMQ allows.                                               *)
OutcomeJustified ==
  \A m \in Mails, k \in Copies :
    /\ job[m][k].state = "completed" => handed[m][k] >= 1
    /\ job[m][k].state = "dropped" => \/ job[m][k].tries = Attempts
                                      \/ job[m][k].stalls > MaxStalled

(* The mutation answers true only when a job for the e-mail has been in    *)
(* the queue, whatever was lost and sent again on the way.                 *)
TrueMeansQueued ==
  \A m \in Mails : request[m] = "true" => \E k \in Copies : job[m][k].state # "none"

-----------------------------------------------------------------------------
(* The inductive invariant.                                                *)

Sending(m, k) ==
  {w \in Workers : worker[w].pc = "sending" /\ worker[w].mail = m /\ worker[w].copy = k}

\* Times a job has been taken by a worker.
Takes(j) == j.tries + j.stalls + (IF j.state \in {"active", "completed"} THEN 1 ELSE 0)

JobOK(j) ==
  /\ j.state = "none" => j = NoJob
  /\ j.state \in Queued \union {"completed"} => j.tries < Attempts /\ j.stalls <= MaxStalled
  /\ j.state = "dropped" => \/ j.tries = Attempts /\ j.stalls <= MaxStalled
                            \/ j.tries < Attempts /\ j.stalls = MaxStalled + 1

JobsOK == \A m \in Mails, k \in Copies : JobOK(job[m][k])

\* A send that is still in progress has been taken and not yet counted.
HandedOK ==
  \A m \in Mails, k \in Copies :
    handed[m][k] + Cardinality(Sending(m, k)) <= Takes(job[m][k])

Unasked == {"idle", "conflict", "ifExists"}

RequestsOK ==
  \A m \in Mails :
    /\ request[m] \in Unasked => \A k \in Copies : job[m][k].state = "none"
    /\ request[m] \in {"added", "true"} => \E k \in Copies : job[m][k].state # "none"

Busy(w) == worker[w].pc \in {"sending", "sent", "failed"}

WorkersOK ==
  \A w \in Workers : Busy(w) =>
    /\ worker[w].mail \in Mails /\ worker[w].copy \in Copies
    /\ job[worker[w].mail][worker[w].copy].state # "none"
    /\ worker[w].pc = "sent" => handed[worker[w].mail][worker[w].copy] >= 1

CompletedOK ==
  \A m \in Mails, k \in Copies : job[m][k].state = "completed" => handed[m][k] >= 1

EmailInv ==
  EmailTypeOK /\ JobsOK /\ HandedOK /\ RequestsOK /\ WorkersOK /\ CompletedOK

-----------------------------------------------------------------------------
(* The abstract fate of an e-mail.                                         *)

WasSent(m) == \E k \in Copies : handed[m][k] > 0

Some(m, states) == \E k \in Copies : job[m][k].state \in states

Asking(m) == request[m] \in {"adding", "added"}

BeingSent(m) == \E w \in Workers : worker[w].pc = "sending" /\ worker[w].mail = m

\* Something of the e-mail can still come to the provider: a job that is
\* queued, a worker at it, or a request that may add one more.
Pending(m) == Some(m, Queued) \/ BeingSent(m) \/ (Asking(m) /\ Some(m, Removed))

Fate(m) ==
  IF WasSent(m) THEN "sent"
  ELSE IF Pending(m) THEN "accepted"
  ELSE IF Some(m, Removed) THEN "dropped" ELSE "none"

Mail == INSTANCE MailPromise WITH fate <- [m \in Mails |-> Fate(m)]

(* An e-mail that is queued is handed to the provider or given up, and one *)
(* of the two happens in the end: jobs are neither lost nor tried for ever *)
(* when workers die, locks expire and commands are sent twice.             *)
MailKept == Mail!MailFairSpec

=============================================================================
