----------------------------- MODULE EmailQueue -----------------------------
(***************************************************************************)
(* E-mails that carry a link: EmailsService.sendEmail adds a job to a      *)
(* BullMQ queue in Redis and answers when Redis has it; EmailsConsumer, in *)
(* every process, takes jobs one at a time and hands them to the provider. *)
(* BullMQ retries a job that failed, takes a job whose lock has expired    *)
(* away from its worker, and removes a job that is completed or given up.  *)
(***************************************************************************)
EXTENDS Integers, FiniteSets

CONSTANTS
  Mails,       \* e-mails, one per request for a link
  Copies,      \* jobs there can be for one e-mail
  Workers,     \* processes that consume the queue
  Attempts,    \* retryAttempts: failures after which a job is given up
  MaxStalled,  \* times a job that lost its lock is put back
  MaxFaults,   \* bound on lost connections, outages, crashes and false stalls
  Nobody       \* the worker of a job that none is working on

ASSUME EmailAssumption ==
  /\ Attempts \in Nat \ {0} /\ MaxStalled \in Nat /\ MaxFaults \in Nat
  /\ Nobody \notin Workers /\ IsFiniteSet(Workers)

VARIABLES
  request,   \* request[m]: how far sendEmail has come for m
  job,       \* job[m][k]: the k-th job queued for m
  worker,    \* worker[w]: what the consumer of process w does
  handed,    \* handed[m][k]: times the provider has taken job k of m
  faults     \* faults so far

emailVars == <<request, job, worker, handed, faults>>

-----------------------------------------------------------------------------

Queued == {"waiting", "delayed", "active"}
Removed == {"completed", "dropped"}        \* removeOnComplete, removeOnFail

NoJob == [state |-> "none", tries |-> 0, stalls |-> 0, owner |-> Nobody]
NewJob == [NoJob EXCEPT !.state = "waiting"]

Free == [pc |-> "free", mail |-> Nobody, copy |-> Nobody]
Down == [pc |-> "down", mail |-> Nobody, copy |-> Nobody]

Fault == faults < MaxFaults /\ faults' = faults + 1

\* A worker reports the end of a job only while it holds the job's lock.
Holds(w, m, k) == job[m][k].state = "active" /\ job[m][k].owner = w

-----------------------------------------------------------------------------
(* The request.                                                            *)

\* requestAccountVerification, requestAccountDeletion or requestSignOutAll for
\* an account that may have it: the token is generated and queue.add is called.
SendEmail(m) ==
  /\ request[m] = "idle"
  /\ request' = [request EXCEPT ![m] = "adding"]
  /\ UNCHANGED <<job, worker, handed, faults>>

\* An account that is already verified, or an address that has no account or
\* that of a suspended one, whose answer says what it says when a job is queued.
Decline(m) ==
  /\ request[m] = "idle"
  /\ request' \in {[request EXCEPT ![m] = reply] : reply \in {"conflict", "ifExists"}}
  /\ UNCHANGED <<job, worker, handed, faults>>

\* Redis adds a job under a new id; the reply is under way.
Add(m) ==
  /\ request[m] = "adding"
  /\ \E k \in Copies :
       /\ job[m][k].state = "none"
       /\ job' = [job EXCEPT ![m][k] = NewJob]
  /\ request' = [request EXCEPT ![m] = "added"]
  /\ UNCHANGED <<worker, handed, faults>>

\* Fault: sendEmail does not wait for queue.add.
AnswerUnawaited(m) ==
  /\ request[m] \in {"adding", "added"}
  /\ request' = [request EXCEPT ![m] = "true"]
  /\ UNCHANGED <<job, worker, handed, faults>>

AnswerTrue(m) ==
  /\ request[m] = "added"
  /\ request' = [request EXCEPT ![m] = "true"]
  /\ UNCHANGED <<job, worker, handed, faults>>

\* The connection is lost before the reply: commands have no limit of retries
\* on this connection, so the command is sent again after the reconnection.
ReplyLost(m) ==
  /\ request[m] = "added"
  /\ \E k \in Copies : job[m][k].state = "none"
  /\ Fault
  /\ request' = [request EXCEPT ![m] = "adding"]
  /\ UNCHANGED <<job, worker, handed>>

\* Redis refuses the command, or the process of the request stops.
RequestLost(m) ==
  /\ request[m] \in {"adding", "added"}
  /\ Fault
  /\ request' = [request EXCEPT ![m] = "error"]
  /\ UNCHANGED <<job, worker, handed>>

-----------------------------------------------------------------------------
(* The consumer.                                                           *)

Take(w, m, k) ==
  /\ worker[w].pc = "free"
  /\ job[m][k].state = "waiting"
  /\ worker' = [worker EXCEPT ![w] = [pc |-> "sending", mail |-> m, copy |-> k]]
  /\ job' = [job EXCEPT ![m][k] = [@ EXCEPT !.state = "active", !.owner = w]]
  /\ UNCHANGED <<request, handed, faults>>

\* Fault: process does not wait for sendMail.
SendUnawaited(w) ==
  /\ worker[w].pc = "sending"
  /\ worker' = [worker EXCEPT ![w].pc = "sent"]
  /\ UNCHANGED <<request, job, handed, faults>>

\* sendMail: the provider takes the e-mail and says so, takes it and is not
\* heard, or does not take it.
Send(w) ==
  /\ worker[w].pc = "sending"
  /\ LET m == worker[w].mail
         k == worker[w].copy
     IN \/ /\ worker' = [worker EXCEPT ![w].pc = "sent"]
           /\ handed' = [handed EXCEPT ![m][k] = @ + 1]
        \/ /\ worker' = [worker EXCEPT ![w].pc = "failed"]
           /\ handed' \in {handed, [handed EXCEPT ![m][k] = @ + 1]}
  /\ UNCHANGED <<request, job, faults>>

\* The job is reported as completed and removed.
Complete(w) ==
  /\ worker[w].pc = "sent"
  /\ LET m == worker[w].mail
         k == worker[w].copy
     IN job' = IF Holds(w, m, k)
               THEN [job EXCEPT ![m][k] = [@ EXCEPT !.state = "completed", !.owner = Nobody]]
               ELSE job
  /\ worker' = [worker EXCEPT ![w] = Free]
  /\ UNCHANGED <<request, handed, faults>>

\* Fault: one attempt too many.
AfterFailureLate(j) ==
  [j EXCEPT !.owner = Nobody, !.tries = @ + 1,
            !.state = IF j.tries < Attempts THEN "delayed" ELSE "dropped"]

\* Fault: a failed job is put back whatever the number of its attempts.
AfterFailureAgain(j) ==
  [j EXCEPT !.owner = Nobody, !.state = "delayed",
            !.tries = IF j.tries < Attempts THEN @ + 1 ELSE @]

\* A failed job waits for its backoff; after its last attempt it is removed.
AfterFailure(j) ==
  [j EXCEPT !.owner = Nobody, !.tries = @ + 1,
            !.state = IF j.tries + 1 < Attempts THEN "delayed" ELSE "dropped"]

Fail(w) ==
  /\ worker[w].pc = "failed"
  /\ LET m == worker[w].mail
         k == worker[w].copy
     IN job' = IF Holds(w, m, k) THEN [job EXCEPT ![m][k] = AfterFailure(@)] ELSE job
  /\ worker' = [worker EXCEPT ![w] = Free]
  /\ UNCHANGED <<request, handed, faults>>

BackoffEnds(m, k) ==
  /\ job[m][k].state = "delayed"
  /\ job' = [job EXCEPT ![m][k].state = "waiting"]
  /\ UNCHANGED <<request, worker, handed, faults>>

\* The process of the consumer stops at any point of its job.
Crash(w) ==
  /\ worker[w].pc # "down"
  /\ Fault
  /\ worker' = [worker EXCEPT ![w] = Down]
  /\ UNCHANGED <<request, job, handed>>

Restart(w) ==
  /\ worker[w].pc = "down"
  /\ worker' = [worker EXCEPT ![w] = Free]
  /\ UNCHANGED <<request, job, handed, faults>>

-----------------------------------------------------------------------------
(* Stalled jobs.                                                           *)

AfterStall(j) ==
  [j EXCEPT !.owner = Nobody, !.stalls = @ + 1,
            !.state = IF j.stalls < MaxStalled THEN "waiting" ELSE "dropped"]

\* The worker that holds the lock is still at the job.
Alive(m, k) ==
  LET w == job[m][k].owner
  IN w # Nobody /\ worker[w].mail = m /\ worker[w].copy = k

\* The stalled check of a running consumer finds a job whose lock has expired:
\* its worker is gone, or could not renew the lock in time and is still at it.
Stall(m, k) ==
  /\ job[m][k].state = "active"
  /\ \E w \in Workers : worker[w].pc # "down"
  /\ IF Alive(m, k) THEN Fault ELSE UNCHANGED faults
  /\ job' = [job EXCEPT ![m][k] = AfterStall(@)]
  /\ UNCHANGED <<request, worker, handed>>

-----------------------------------------------------------------------------

EmailInit ==
  /\ request = [m \in Mails |-> "idle"]
  /\ job = [m \in Mails |-> [k \in Copies |-> NoJob]]
  /\ worker = [w \in Workers |-> Free]
  /\ handed = [m \in Mails |-> [k \in Copies |-> 0]]
  /\ faults = 0

RequestStep(m) == Add(m) \/ AnswerTrue(m) \/ ReplyLost(m) \/ RequestLost(m)

JobStep(m, k) == (\E w \in Workers : Take(w, m, k)) \/ BackoffEnds(m, k) \/ Stall(m, k)

WorkerStep(w) == Send(w) \/ Complete(w) \/ Fail(w) \/ Crash(w) \/ Restart(w)

\* What happens once sendEmail has been called.
QueueStep ==
  \/ \E m \in Mails : RequestStep(m)
  \/ \E m \in Mails, k \in Copies : JobStep(m, k)
  \/ \E w \in Workers : WorkerStep(w)

EmailNext == (\E m \in Mails : SendEmail(m) \/ Decline(m)) \/ QueueStep

EmailSpec == EmailInit /\ [][EmailNext]_emailVars

\* The process of a request goes on, a worker finishes what it sends and is
\* started again, timers fire, and a waiting job is taken in its turn.
EmailFairness ==
  /\ \A m \in Mails : WF_emailVars(Add(m)) /\ WF_emailVars(AnswerTrue(m))
  /\ \A w \in Workers : /\ WF_emailVars(Send(w)) /\ WF_emailVars(Complete(w))
                        /\ WF_emailVars(Fail(w)) /\ WF_emailVars(Restart(w))
  /\ \A m \in Mails, k \in Copies :
       /\ SF_emailVars(\E w \in Workers : Take(w, m, k))
       /\ WF_emailVars(BackoffEnds(m, k))
       /\ WF_emailVars(Stall(m, k) /\ ~Alive(m, k))

EmailFairSpec == EmailSpec /\ EmailFairness

=============================================================================
