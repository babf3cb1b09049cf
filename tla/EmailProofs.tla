---------------------------- MODULE EmailProofs ----------------------------
(* Proofs about EmailQueue: its inductive invariant, the bound on copies,   *)
(* and that it keeps the promise of MailPromise, for any number of e-mails, *)
(* jobs, workers, attempts and faults.                                      *)
EXTENDS EmailProps, FiniteSetTheorems, TLAPS

-----------------------------------------------------------------------------
(* Sends in progress.                                                      *)

LEMMA SendingFinite ==
  ASSUME NEW m, NEW k
  PROVE  IsFiniteSet(Sending(m, k)) /\ Cardinality(Sending(m, k)) \in Nat
<1>1. Sending(m, k) \subseteq Workers
  BY DEF Sending
<1> QED
  BY <1>1, EmailAssumption, FS_Subset, FS_CardinalityType DEF EmailAssumption

\* A worker that begins to send adds itself, one that ends takes itself away.
LEMMA SendingGrows ==
  ASSUME NEW m, NEW k, NEW S, NEW w \in Workers, S \subseteq Sending(m, k) \union {w}
  PROVE  Cardinality(S) \in Nat /\ Cardinality(S) <= Cardinality(Sending(m, k)) + 1
<1>1. IsFiniteSet(Sending(m, k)) /\ Cardinality(Sending(m, k)) \in Nat
  BY SendingFinite
<1>2. IsFiniteSet(Sending(m, k) \union {w})
      /\ Cardinality(Sending(m, k) \union {w}) <= Cardinality(Sending(m, k)) + 1
  <2> DEFINE T == Sending(m, k)
  <2> HIDE DEF T
  <2>1. IsFiniteSet(T) /\ Cardinality(T) \in Nat
    BY <1>1 DEF T
  <2>2. /\ IsFiniteSet(T \union {w})
        /\ Cardinality(T \union {w}) = IF w \in T THEN Cardinality(T) ELSE Cardinality(T) + 1
    BY <2>1, FS_AddElement
  <2>3. Cardinality(T \union {w}) <= Cardinality(T) + 1
    BY <2>1, <2>2
  <2> QED
    BY <2>2, <2>3 DEF T
<1>3. IsFiniteSet(S) /\ Cardinality(S) <= Cardinality(Sending(m, k) \union {w})
  BY <1>2, FS_Subset
<1> QED
  BY <1>1, <1>2, <1>3, FS_CardinalityType

LEMMA SendingShrinks ==
  ASSUME NEW m, NEW k, NEW S, S \subseteq Sending(m, k)
  PROVE  Cardinality(S) \in Nat /\ Cardinality(S) <= Cardinality(Sending(m, k))
BY SendingFinite, FS_Subset, FS_CardinalityType

LEMMA SendingLoses ==
  ASSUME NEW m, NEW k, NEW S, NEW w \in Sending(m, k), S \subseteq Sending(m, k) \ {w}
  PROVE  Cardinality(S) \in Nat /\ Cardinality(S) + 1 <= Cardinality(Sending(m, k))
<1>1. IsFiniteSet(Sending(m, k)) /\ Cardinality(Sending(m, k)) \in Nat
  BY SendingFinite
<1>2. IsFiniteSet(Sending(m, k) \ {w})
      /\ Cardinality(Sending(m, k) \ {w}) = Cardinality(Sending(m, k)) - 1
  BY <1>1, FS_RemoveElement
<1>3. IsFiniteSet(S) /\ Cardinality(S) <= Cardinality(Sending(m, k) \ {w})
  BY <1>2, FS_Subset
<1> QED
  BY <1>1, <1>2, <1>3, FS_CardinalityType

-----------------------------------------------------------------------------
(* The invariant: initial states.                                          *)

LEMMA NoJobFits == NoJob \in Jobs /\ JobOK(NoJob) /\ Takes(NoJob) = 0
BY EmailAssumption DEF EmailAssumption, NoJob, Jobs, JobOK, Takes, Queued, Removed

LEMMA FreeFits == Free \in WorkerStates /\ Down \in WorkerStates
BY DEF Free, Down, WorkerStates

LEMMA EmailInitInv == EmailInit => EmailInv
<1> SUFFICES ASSUME EmailInit
             PROVE  EmailInv
  OBVIOUS
<1>1. EmailTypeOK
  BY NoJobFits, FreeFits DEF EmailInit, EmailTypeOK
<1>2. JobsOK /\ RequestsOK /\ CompletedOK
  BY NoJobFits DEF EmailInit, JobsOK, RequestsOK, CompletedOK, NoJob
<1>3. WorkersOK
  BY DEF EmailInit, WorkersOK, Busy, Free
<1>4. HandedOK
  <2> SUFFICES ASSUME NEW m \in Mails, NEW k \in Copies
               PROVE  handed[m][k] + Cardinality(Sending(m, k)) <= Takes(job[m][k])
    BY DEF HandedOK
  <2>1. Sending(m, k) = {}
    BY DEF Sending, EmailInit, Free
  <2>2. handed[m][k] = 0 /\ job[m][k] = NoJob
    BY DEF EmailInit
  <2> QED
    BY <2>1, <2>2, FS_EmptySet, NoJobFits
<1> QED
  BY <1>1, <1>2, <1>3, <1>4 DEF EmailInv

-----------------------------------------------------------------------------
(* Steps of requests: jobs, workers and sends stay.                        *)

LEMMA RequestInv ==
  ASSUME EmailInv, NEW m \in Mails, NEW r, request' = [request EXCEPT ![m] = r],
         r \in {"adding", "added", "true", "error", "conflict", "ifExists"},
         r \in Unasked => \A k \in Copies : job[m][k].state = "none",
         r \in {"added", "true"} => \E k \in Copies : job[m][k].state # "none",
         UNCHANGED <<job, worker, handed>>, faults' \in Nat
  PROVE  EmailInv'
<1>1. request \in [Mails -> {"idle", "adding", "added", "true", "error", "conflict", "ifExists"}]
  BY DEF EmailInv, EmailTypeOK
<1>2. EmailTypeOK'
  BY <1>1 DEF EmailInv, EmailTypeOK
<1>3. RequestsOK'
  BY <1>1 DEF EmailInv, RequestsOK
<1>4. JobsOK' /\ CompletedOK' /\ WorkersOK' /\ HandedOK'
  BY DEF EmailInv, JobsOK, CompletedOK, WorkersOK, Busy, HandedOK, Sending
<1> QED
  BY <1>2, <1>3, <1>4 DEF EmailInv

-----------------------------------------------------------------------------
(* Steps that write one job: what the new job and the sends must satisfy.  *)

RequestStates == {"idle", "adding", "added", "true", "error", "conflict", "ifExists"}

\* Only the request of m changes, and it goes on being asked.
RequestFits(m) ==
  /\ request' \in [Mails -> RequestStates]
  /\ \A n \in Mails : n # m => request'[n] = request[n]
  /\ request[m] \notin Unasked /\ request'[m] \notin Unasked

\* The workers that change end their send, or begin to send job k of m.
WorkersFit(m, k) ==
  /\ worker' \in [Workers -> WorkerStates]
  /\ \A w \in Workers :
       \/ worker'[w] = worker[w]
       \/ ~Busy(w)'
       \/ worker'[w].mail = m /\ worker'[w].copy = k /\ worker'[w].pc = "sending"

\* No other job gets a send, and those of this one have been taken as job j.
SendsFit(m, k, j) ==
  /\ \A n \in Mails, l \in Copies :
       <<n, l>> # <<m, k>> => Sending(n, l)' \subseteq Sending(n, l)
  /\ handed[m][k] + Cardinality(Sending(m, k)') <= Takes(j)

JobFits(m, k, j) ==
  /\ j \in Jobs /\ JobOK(j) /\ j.state # "none"
  /\ j.state = "completed" => handed[m][k] >= 1

LEMMA JobInv ==
  ASSUME EmailInv, NEW m \in Mails, NEW k \in Copies, NEW j,
         job' = [job EXCEPT ![m][k] = j], UNCHANGED handed, faults' \in Nat,
         JobFits(m, k, j), SendsFit(m, k, j), RequestFits(m), WorkersFit(m, k)
  PROVE  EmailInv'
<1> USE DEF JobFits, SendsFit, RequestFits, WorkersFit
<1>1. /\ job \in [Mails -> [Copies -> Jobs]]
      /\ handed \in [Mails -> [Copies -> Nat]]
  BY DEF EmailInv, EmailTypeOK
<1>2. /\ job' \in [Mails -> [Copies -> Jobs]]
      /\ job'[m][k] = j
      /\ \A n \in Mails, l \in Copies : <<n, l>> # <<m, k>> => job'[n][l] = job[n][l]
  BY <1>1
<1>3. EmailTypeOK'
  BY <1>1, <1>2 DEF EmailInv, EmailTypeOK, RequestStates
<1>4. JobsOK'
  BY <1>2 DEF EmailInv, JobsOK
<1>5. CompletedOK'
  BY <1>2 DEF EmailInv, CompletedOK
<1>6. RequestsOK'
  <2> SUFFICES ASSUME NEW n \in Mails
               PROVE  /\ request'[n] \in Unasked => \A l \in Copies : job'[n][l].state = "none"
                      /\ request'[n] \in {"added", "true"} => \E l \in Copies : job'[n][l].state # "none"
    BY DEF RequestsOK
  <2>1. CASE n = m
    BY <1>2, <2>1
  <2>2. CASE n # m
    BY <1>2, <2>2 DEF EmailInv, RequestsOK
  <2> QED
    BY <2>1, <2>2
<1>7. WorkersOK'
  <2> SUFFICES ASSUME NEW w \in Workers, Busy(w)'
               PROVE  /\ worker'[w].mail \in Mails /\ worker'[w].copy \in Copies
                      /\ job'[worker'[w].mail][worker'[w].copy].state # "none"
                      /\ worker'[w].pc = "sent" => handed'[worker'[w].mail][worker'[w].copy] >= 1
    BY DEF WorkersOK
  <2>1. CASE worker'[w] = worker[w]
    <3>1. Busy(w)
      BY <2>1 DEF Busy
    <3>2. /\ worker[w].mail \in Mails /\ worker[w].copy \in Copies
          /\ job[worker[w].mail][worker[w].copy].state # "none"
          /\ worker[w].pc = "sent" => handed[worker[w].mail][worker[w].copy] >= 1
      BY <3>1 DEF EmailInv, WorkersOK
    <3> QED
      BY <2>1, <3>2, <1>2
  <2>2. CASE worker'[w].mail = m /\ worker'[w].copy = k /\ worker'[w].pc = "sending"
    BY <2>2, <1>2
  <2> QED
    BY <2>1, <2>2
<1>8. HandedOK'
  <2> SUFFICES ASSUME NEW n \in Mails, NEW l \in Copies
               PROVE  handed'[n][l] + Cardinality(Sending(n, l)') <= Takes(job'[n][l])
    BY DEF HandedOK, Takes
  <2>1. CASE <<n, l>> = <<m, k>>
    BY <1>2, <2>1
  <2>2. CASE <<n, l>> # <<m, k>>
    <3>1. /\ Cardinality(Sending(n, l)') \in Nat
          /\ Cardinality(Sending(n, l)') <= Cardinality(Sending(n, l))
      BY <2>2, SendingShrinks
    <3>2. handed[n][l] + Cardinality(Sending(n, l)) <= Takes(job[n][l]) /\ handed[n][l] \in Nat
      BY <1>1 DEF EmailInv, HandedOK
    <3>3. Cardinality(Sending(n, l)) \in Nat /\ Takes(job[n][l]) \in Int
      <4>1. job[n][l] \in Jobs
        BY <1>1
      <4> QED
        BY <4>1, SendingFinite DEF Jobs, Takes
    <3> QED
      BY <3>1, <3>2, <3>3, <1>2, <2>2
  <2> QED
    BY <2>1, <2>2
<1> QED
  BY <1>3, <1>4, <1>5, <1>6, <1>7, <1>8 DEF EmailInv

-----------------------------------------------------------------------------
(* The invariant is inductive: one lemma for each action.                  *)

LEMMA Typed ==
  ASSUME EmailInv
  PROVE  /\ request \in [Mails -> RequestStates]
         /\ job \in [Mails -> [Copies -> Jobs]]
         /\ worker \in [Workers -> WorkerStates]
         /\ handed \in [Mails -> [Copies -> Nat]]
         /\ faults \in Nat
BY DEF EmailInv, EmailTypeOK, RequestStates

LEMMA FaultTyped == ASSUME EmailInv, Fault \/ UNCHANGED faults PROVE faults' \in Nat
BY Typed DEF Fault

LEMMA SendEmailInv ==
  ASSUME EmailInv, NEW m \in Mails, SendEmail(m) \/ Decline(m)
  PROVE  EmailInv'
<1>1. request[m] = "idle" /\ UNCHANGED <<job, worker, handed, faults>>
  BY DEF SendEmail, Decline
<1>2. PICK r \in {"adding", "conflict", "ifExists"} : request' = [request EXCEPT ![m] = r]
  BY DEF SendEmail, Decline
<1>3. \A k \in Copies : job[m][k].state = "none"
  BY <1>1 DEF EmailInv, RequestsOK, Unasked
<1> QED
  BY <1>1, <1>2, <1>3, Typed, RequestInv

LEMMA AnswerInv ==
  ASSUME EmailInv, NEW m \in Mails, AnswerTrue(m) \/ ReplyLost(m) \/ RequestLost(m)
  PROVE  EmailInv'
<1>1. request[m] \in {"adding", "added"} /\ UNCHANGED <<job, worker, handed>> /\ faults' \in Nat
  BY Typed, FaultTyped DEF AnswerTrue, ReplyLost, RequestLost
<1>2. CASE AnswerTrue(m)
  <2>1. \E k \in Copies : job[m][k].state # "none"
    BY <1>2 DEF AnswerTrue, EmailInv, RequestsOK
  <2> QED
    BY <1>1, <1>2, <2>1, RequestInv DEF AnswerTrue, Unasked
<1>3. CASE ReplyLost(m)
  BY <1>1, <1>3, RequestInv DEF ReplyLost, Unasked
<1>4. CASE RequestLost(m)
  BY <1>1, <1>4, RequestInv DEF RequestLost, Unasked
<1> QED
  BY <1>2, <1>3, <1>4

LEMMA AddInv ==
  ASSUME EmailInv, NEW m \in Mails, Add(m)
  PROVE  EmailInv'
<1>1. PICK k \in Copies : job[m][k].state = "none" /\ job' = [job EXCEPT ![m][k] = NewJob]
  BY DEF Add
<1>2. request[m] = "adding" /\ request' = [request EXCEPT ![m] = "added"]
      /\ UNCHANGED <<worker, handed, faults>>
  BY DEF Add
<1>3. NewJob \in Jobs /\ JobOK(NewJob) /\ NewJob.state = "waiting" /\ Takes(NewJob) = 0
  BY EmailAssumption DEF EmailAssumption, NewJob, NoJob, Jobs, JobOK, Takes, Queued, Removed
<1>4. \A n \in Mails, l \in Copies : Sending(n, l)' = Sending(n, l)
  BY <1>2 DEF Sending
<1>5. handed[m][k] + Cardinality(Sending(m, k)') <= Takes(NewJob)
  <2>1. job[m][k] = NoJob
    BY <1>1 DEF EmailInv, JobsOK, JobOK
  <2>2. handed[m][k] + Cardinality(Sending(m, k)) <= Takes(job[m][k])
    BY DEF EmailInv, HandedOK
  <2> QED
    BY <1>3, <1>4, <2>1, <2>2, NoJobFits
<1>6. RequestFits(m)
  BY <1>2, Typed DEF Unasked, RequestFits, RequestStates
<1>7. WorkersFit(m, k) /\ faults' \in Nat
  BY <1>2, Typed DEF WorkersFit
<1>8. JobFits(m, k, NewJob)
  BY <1>3 DEF JobFits
<1>9. SendsFit(m, k, NewJob)
  BY <1>4, <1>5 DEF SendsFit
<1> QED
  BY <1>1, <1>2, <1>6, <1>7, <1>8, <1>9, JobInv

\* What a job that is in the queue says of its request.
LEMMA JobAsked ==
  ASSUME EmailInv, NEW m \in Mails, NEW k \in Copies, job[m][k].state # "none"
  PROVE  request[m] \notin Unasked
BY DEF EmailInv, RequestsOK

\* A step that writes one job and leaves the requests and the workers.
LEMMA QueueInv ==
  ASSUME EmailInv, NEW m \in Mails, NEW k \in Copies, NEW j \in Jobs,
         job[m][k].state # "none", job' = [job EXCEPT ![m][k] = j],
         JobOK(j), j.state \notin {"none", "completed"}, Takes(j) = Takes(job[m][k]),
         UNCHANGED <<request, worker, handed>>, faults' \in Nat
  PROVE  EmailInv'
<1>1. \A n \in Mails, l \in Copies : Sending(n, l)' = Sending(n, l)
  BY DEF Sending
<1>2. handed[m][k] + Cardinality(Sending(m, k)') <= Takes(j)
  BY <1>1 DEF EmailInv, HandedOK
<1>3. SendsFit(m, k, j) /\ JobFits(m, k, j)
  BY <1>1, <1>2 DEF SendsFit, JobFits
<1>4. RequestFits(m) /\ WorkersFit(m, k)
  BY JobAsked, Typed DEF RequestFits, WorkersFit
<1> QED
  BY <1>3, <1>4, JobInv

LEMMA BackoffInv ==
  ASSUME EmailInv, NEW m \in Mails, NEW k \in Copies, BackoffEnds(m, k)
  PROVE  EmailInv'
<1> DEFINE j == [job[m][k] EXCEPT !.state = "waiting"]
<1>1. job[m][k] \in Jobs /\ job[m][k].state = "delayed" /\ JobOK(job[m][k])
  BY Typed DEF BackoffEnds, EmailInv, JobsOK
<1>2. job' = [job EXCEPT ![m][k] = j]
  BY Typed DEF BackoffEnds
<1>3. j \in Jobs /\ JobOK(j) /\ j.state = "waiting" /\ Takes(j) = Takes(job[m][k])
  BY <1>1 DEF Jobs, JobOK, Takes, Queued, Removed
<1> QED
  BY <1>1, <1>2, <1>3, Typed, QueueInv DEF BackoffEnds

LEMMA StallInv ==
  ASSUME EmailInv, NEW m \in Mails, NEW k \in Copies, Stall(m, k)
  PROVE  EmailInv'
<1> DEFINE j == AfterStall(job[m][k])
<1>1. job[m][k] \in Jobs /\ job[m][k].state = "active" /\ JobOK(job[m][k])
  BY Typed DEF Stall, EmailInv, JobsOK
<1>2. job' = [job EXCEPT ![m][k] = j] /\ UNCHANGED <<request, worker, handed>>
  BY Typed DEF Stall
<1>3. /\ j \in Jobs /\ JobOK(j) /\ j.state \in {"waiting", "dropped"}
      /\ Takes(j) = Takes(job[m][k])
  <2> DEFINE old == job[m][k]
  <2>1. /\ old \in Jobs /\ old.tries \in 0..Attempts /\ old.stalls \in 0..(MaxStalled + 1)
        /\ old.tries < Attempts /\ old.stalls <= MaxStalled /\ old.state = "active"
    BY <1>1 DEF Jobs, JobOK, Queued
  <2>2. Attempts \in Nat /\ MaxStalled \in Nat
    BY EmailAssumption DEF EmailAssumption
  <2> DEFINE next == IF old.stalls < MaxStalled THEN "waiting" ELSE "dropped"
  <2> HIDE DEF old
  <2>3. next \in {"waiting", "dropped"} /\ old.stalls + 1 \in 0..(MaxStalled + 1)
    BY <2>1, <2>2
  <2>4. /\ AfterStall(old) \in Jobs
        /\ AfterStall(old).tries = old.tries
        /\ AfterStall(old).stalls = old.stalls + 1
        /\ AfterStall(old).state = next
    <3>1. AfterStall(old) = [old EXCEPT !.owner = Nobody, !.stalls = old.stalls + 1, !.state = next]
      BY <2>1 DEF AfterStall, Jobs
    <3> HIDE DEF next
    <3> QED
      BY <2>1, <2>3, <3>1 DEF Jobs, Queued, Removed
  <2>5. JobOK(AfterStall(old)) /\ Takes(AfterStall(old)) = Takes(old)
    BY <2>1, <2>2, <2>4 DEF JobOK, Takes, Queued
  <2> QED
    BY <2>4, <2>5 DEF old
<1>4. faults' \in Nat
  BY FaultTyped DEF Stall
<1> QED
  BY <1>1, <1>2, <1>3, <1>4, QueueInv

LEMMA TakeInv ==
  ASSUME EmailInv, NEW w \in Workers, NEW m \in Mails, NEW k \in Copies, Take(w, m, k)
  PROVE  EmailInv'
<1> DEFINE j == [job[m][k] EXCEPT !.state = "active", !.owner = w]
<1>1. /\ job[m][k] \in Jobs /\ job[m][k].state = "waiting" /\ JobOK(job[m][k])
      /\ worker[w].pc = "free"
  BY Typed DEF Take, EmailInv, JobsOK
<1>2. /\ UNCHANGED <<request, handed, faults>>
      /\ worker' = [worker EXCEPT ![w] = [pc |-> "sending", mail |-> m, copy |-> k]]
  BY DEF Take
<1>A. job' = [job EXCEPT ![m][k] = j]
  BY Typed DEF Take
<1>3. /\ j \in Jobs /\ JobOK(j) /\ j.state = "active"
      /\ Takes(j) = Takes(job[m][k]) + 1
  <2> DEFINE old == job[m][k]
  <2>1. /\ old \in Jobs /\ old.state = "waiting" /\ old.tries \in Nat /\ old.stalls \in Nat
        /\ old.tries < Attempts /\ old.stalls <= MaxStalled
    BY <1>1 DEF Jobs, JobOK, Queued
  <2>2. j \in Jobs /\ j.state = "active" /\ j.tries = old.tries /\ j.stalls = old.stalls
    BY <2>1 DEF Jobs, Queued, Removed
  <2> HIDE DEF old, j
  <2> QED
    BY <2>1, <2>2 DEF JobOK, Takes, Queued, old
<1>4. WorkersFit(m, k)
  BY <1>2, Typed DEF WorkersFit, WorkerStates
<1>5. \A n \in Mails, l \in Copies :
        Sending(n, l)' \subseteq Sending(n, l) \union (IF <<n, l>> = <<m, k>> THEN {w} ELSE {})
  BY <1>2, Typed DEF Sending
<1>6. handed[m][k] + Cardinality(Sending(m, k)') <= Takes(j)
  <2>1. handed[m][k] + Cardinality(Sending(m, k)) <= Takes(job[m][k]) /\ handed[m][k] \in Nat
    BY Typed DEF EmailInv, HandedOK
  <2>2. /\ Cardinality(Sending(m, k)') \in Nat
        /\ Cardinality(Sending(m, k)') <= Cardinality(Sending(m, k)) + 1
    <3>1. Sending(m, k)' \subseteq Sending(m, k) \union {w}
      BY <1>5
    <3> QED
      BY <3>1, SendingGrows
  <2>3. Cardinality(Sending(m, k)) \in Nat /\ Takes(job[m][k]) \in Int
    BY <1>1, SendingFinite DEF Jobs, Takes
  <2> QED
    BY <2>1, <2>2, <2>3, <1>3
<1>7. SendsFit(m, k, j)
  BY <1>5, <1>6 DEF SendsFit
<1>8. JobFits(m, k, j)
  BY <1>3 DEF JobFits
<1>9. RequestFits(m)
  BY <1>1, <1>2, JobAsked, Typed DEF RequestFits
<1> QED
  BY <1>2, <1>A, <1>4, <1>7, <1>8, <1>9, Typed, JobInv

\* The worker at a job is at a job that exists.
LEMMA AtJob ==
  ASSUME EmailInv, NEW w \in Workers, Busy(w)
  PROVE  /\ worker[w].mail \in Mails /\ worker[w].copy \in Copies
         /\ job[worker[w].mail][worker[w].copy].state # "none"
         /\ worker[w].pc = "sent" => handed[worker[w].mail][worker[w].copy] >= 1
BY DEF EmailInv, WorkersOK

LEMMA SendInv ==
  ASSUME EmailInv, NEW w \in Workers, Send(w)
  PROVE  EmailInv'
<1> DEFINE m == worker[w].mail
           k == worker[w].copy
<1>1. worker[w].pc = "sending" /\ UNCHANGED <<request, job, faults>>
  BY DEF Send
<1>2. m \in Mails /\ k \in Copies /\ job[m][k].state # "none"
  BY <1>1, AtJob DEF Busy
<1>3. PICK pc \in {"sent", "failed"} :
        /\ worker' = [worker EXCEPT ![w].pc = pc]
        /\ handed' \in {handed, [handed EXCEPT ![m][k] = @ + 1]}
        /\ pc = "sent" => handed' = [handed EXCEPT ![m][k] = @ + 1]
  BY DEF Send
<1>4. /\ worker' \in [Workers -> WorkerStates] /\ handed' \in [Mails -> [Copies -> Nat]]
      /\ handed[m][k] \in Nat
      /\ handed'[m][k] \in {handed[m][k], handed[m][k] + 1}
      /\ pc = "sent" => handed'[m][k] >= 1
      /\ \A n \in Mails, l \in Copies : /\ handed'[n][l] >= handed[n][l]
                                        /\ <<n, l>> # <<m, k>> => handed'[n][l] = handed[n][l]
  <2>1. worker' \in [Workers -> WorkerStates]
    BY <1>3, Typed DEF WorkerStates
  <2> HIDE DEF m, k
  <2>2. handed \in [Mails -> [Copies -> Nat]]
    BY Typed
  <2>3. CASE handed' = handed
    BY <1>2, <1>3, <2>1, <2>2, <2>3
  <2>4. CASE handed' = [handed EXCEPT ![m][k] = @ + 1]
    BY <1>2, <2>1, <2>2, <2>4
  <2> QED
    BY <1>3, <2>3, <2>4
<1>5. EmailTypeOK' /\ RequestsOK' /\ JobsOK'
  BY <1>1, <1>4 DEF EmailInv, EmailTypeOK, RequestsOK, JobsOK
<1>6. CompletedOK'
  <2> SUFFICES ASSUME NEW n \in Mails, NEW l \in Copies, job'[n][l].state = "completed"
               PROVE  handed'[n][l] >= 1
    BY DEF CompletedOK
  <2>1. handed[n][l] >= 1 /\ handed[n][l] \in Nat /\ handed'[n][l] \in Nat
    BY <1>1, <1>4, Typed DEF EmailInv, CompletedOK
  <2> QED
    BY <1>4, <2>1
<1>7. WorkersOK'
  <2> SUFFICES ASSUME NEW v \in Workers, Busy(v)'
               PROVE  /\ worker'[v].mail \in Mails /\ worker'[v].copy \in Copies
                      /\ job'[worker'[v].mail][worker'[v].copy].state # "none"
                      /\ worker'[v].pc = "sent" => handed'[worker'[v].mail][worker'[v].copy] >= 1
    BY DEF WorkersOK
  <2>1. CASE v = w
    <3>1. worker'[v].mail = m /\ worker'[v].copy = k /\ worker'[v].pc = pc
      BY <1>3, <2>1, Typed DEF WorkerStates
    <3> QED
      BY <3>1, <1>1, <1>2, <1>4
  <2>2. CASE v # w
    <3>1. worker'[v] = worker[v]
      BY <1>3, <2>2, Typed
    <3>2. Busy(v)
      BY <3>1 DEF Busy
    <3>3. /\ worker[v].mail \in Mails /\ worker[v].copy \in Copies
          /\ job[worker[v].mail][worker[v].copy].state # "none"
          /\ worker[v].pc = "sent" => handed[worker[v].mail][worker[v].copy] >= 1
      BY <3>2, AtJob
    <3>4. ASSUME worker[v].pc = "sent"
          PROVE  handed'[worker[v].mail][worker[v].copy] >= 1
      BY <3>3, <3>4, <1>4, Typed
    <3> QED
      BY <3>1, <3>3, <3>4, <1>1
  <2> QED
    BY <2>1, <2>2
<1>8. HandedOK'
  <2> SUFFICES ASSUME NEW n \in Mails, NEW l \in Copies
               PROVE  handed'[n][l] + Cardinality(Sending(n, l)') <= Takes(job[n][l])
    BY <1>1 DEF HandedOK, Takes
  <2>1. /\ handed[n][l] + Cardinality(Sending(n, l)) <= Takes(job[n][l])
        /\ handed[n][l] \in Nat /\ handed'[n][l] \in Nat
    BY <1>4, Typed DEF EmailInv, HandedOK
  <2>2. Cardinality(Sending(n, l)) \in Nat /\ Takes(job[n][l]) \in Int
    <3>1. job[n][l] \in Jobs
      BY Typed
    <3> QED
      BY <3>1, SendingFinite DEF Jobs, Takes
  <2>3. CASE <<n, l>> = <<m, k>>
    <3>1. w \in Sending(n, l) /\ Sending(n, l)' \subseteq Sending(n, l) \ {w}
      BY <1>1, <1>3, <2>3, Typed DEF Sending, WorkerStates
    <3>2. /\ Cardinality(Sending(n, l)') \in Nat
          /\ Cardinality(Sending(n, l)') + 1 <= Cardinality(Sending(n, l))
      BY <3>1, SendingLoses
    <3>3. handed'[n][l] <= handed[n][l] + 1
      BY <1>4, <2>3
    <3> QED
      BY <2>1, <2>2, <3>2, <3>3
  <2>4. CASE <<n, l>> # <<m, k>>
    <3>1. Sending(n, l)' \subseteq Sending(n, l)
      BY <1>3, Typed DEF Sending, WorkerStates
    <3>2. /\ Cardinality(Sending(n, l)') \in Nat
          /\ Cardinality(Sending(n, l)') <= Cardinality(Sending(n, l))
      BY <3>1, SendingShrinks
    <3>3. handed'[n][l] = handed[n][l]
      BY <1>4, <2>4
    <3> QED
      BY <2>1, <2>2, <3>2, <3>3
  <2> QED
    BY <2>3, <2>4
<1> QED
  BY <1>5, <1>6, <1>7, <1>8 DEF EmailInv

LEMMA StopInv ==
  ASSUME EmailInv, NEW w \in Workers, NEW s \in {Free, Down},
         worker' = [worker EXCEPT ![w] = s], UNCHANGED <<request, job, handed>>, faults' \in Nat
  PROVE  EmailInv'
<1>1. worker' \in [Workers -> WorkerStates] /\ ~Busy(w)'
      /\ \A v \in Workers : v # w => worker'[v] = worker[v]
  BY Typed, FreeFits DEF Busy, Free, Down
<1>2. EmailTypeOK' /\ RequestsOK' /\ JobsOK' /\ CompletedOK'
  BY <1>1 DEF EmailInv, EmailTypeOK, RequestsOK, JobsOK, CompletedOK
<1>3. WorkersOK'
  BY <1>1 DEF EmailInv, WorkersOK, Busy
<1>4. HandedOK'
  <2> SUFFICES ASSUME NEW n \in Mails, NEW l \in Copies
               PROVE  handed[n][l] + Cardinality(Sending(n, l)') <= Takes(job[n][l])
    BY DEF HandedOK, Takes
  <2>1. handed[n][l] + Cardinality(Sending(n, l)) <= Takes(job[n][l]) /\ handed[n][l] \in Nat
    BY Typed DEF EmailInv, HandedOK
  <2>2. Cardinality(Sending(n, l)) \in Nat /\ Takes(job[n][l]) \in Int
    <3>1. job[n][l] \in Jobs
      BY Typed
    <3> QED
      BY <3>1, SendingFinite DEF Jobs, Takes
  <2>3. Sending(n, l)' \subseteq Sending(n, l)
    BY <1>1 DEF Sending, Busy
  <2>4. /\ Cardinality(Sending(n, l)') \in Nat
        /\ Cardinality(Sending(n, l)') <= Cardinality(Sending(n, l))
    BY <2>3, SendingShrinks
  <2> QED
    BY <2>1, <2>2, <2>4
<1> QED
  BY <1>2, <1>3, <1>4 DEF EmailInv

\* A worker that ends its job, which becomes j.
LEMMA EndInv ==
  ASSUME EmailInv, NEW w \in Workers, NEW m \in Mails, NEW k \in Copies, NEW j,
         job[m][k].state # "none", job' = [job EXCEPT ![m][k] = j],
         worker' = [worker EXCEPT ![w] = Free], UNCHANGED <<request, handed, faults>>,
         JobFits(m, k, j), Takes(j) = Takes(job[m][k])
  PROVE  EmailInv'
<1>1. WorkersFit(m, k) /\ RequestFits(m)
  BY JobAsked, Typed, FreeFits DEF WorkersFit, RequestFits, Busy, Free
<1>2. \A n \in Mails, l \in Copies : Sending(n, l)' \subseteq Sending(n, l)
  BY Typed DEF Sending, Free
<1>3. handed[m][k] + Cardinality(Sending(m, k)') <= Takes(j)
  <2>1. /\ Cardinality(Sending(m, k)') \in Nat /\ Cardinality(Sending(m, k)) \in Nat
        /\ Cardinality(Sending(m, k)') <= Cardinality(Sending(m, k))
    BY <1>2, SendingShrinks, SendingFinite
  <2>2. handed[m][k] + Cardinality(Sending(m, k)) <= Takes(job[m][k]) /\ handed[m][k] \in Nat
    BY Typed DEF EmailInv, HandedOK
  <2>3. Takes(job[m][k]) \in Int
    <3>1. job[m][k] \in Jobs
      BY Typed
    <3> QED
      BY <3>1 DEF Jobs, Takes
  <2> QED
    BY <2>1, <2>2, <2>3
<1>4. SendsFit(m, k, j)
  BY <1>2, <1>3 DEF SendsFit
<1> QED
  BY <1>1, <1>4, Typed, JobInv

LEMMA CompleteInv ==
  ASSUME EmailInv, NEW w \in Workers, Complete(w)
  PROVE  EmailInv'
<1> DEFINE m == worker[w].mail
           k == worker[w].copy
           j == [job[m][k] EXCEPT !.state = "completed", !.owner = Nobody]
<1>1. worker[w].pc = "sent" /\ worker' = [worker EXCEPT ![w] = Free]
      /\ UNCHANGED <<request, handed, faults>>
  BY DEF Complete
<1>2. m \in Mails /\ k \in Copies /\ job[m][k].state # "none" /\ handed[m][k] >= 1
  BY <1>1, AtJob DEF Busy
<1>3. CASE Holds(w, m, k)
  <2>1. job[m][k] \in Jobs /\ job[m][k].state = "active" /\ JobOK(job[m][k])
    BY <1>2, <1>3, Typed DEF Holds, EmailInv, JobsOK
  <2>2. j \in Jobs /\ JobOK(j) /\ j.state = "completed" /\ Takes(j) = Takes(job[m][k])
    BY <2>1 DEF Jobs, JobOK, Takes, Queued, Removed
  <2>3. job' = [job EXCEPT ![m][k] = j]
    BY <1>3 DEF Complete
  <2>4. JobFits(m, k, j)
    BY <1>2, <2>2 DEF JobFits
  <2> QED
    BY <1>1, <1>2, <2>2, <2>3, <2>4, EndInv
<1>4. CASE ~Holds(w, m, k)
  <2>1. job' = job
    BY <1>4 DEF Complete
  <2> QED
    BY <1>1, <2>1, Typed, StopInv
<1> QED
  BY <1>3, <1>4

LEMMA FailInv ==
  ASSUME EmailInv, NEW w \in Workers, Fail(w)
  PROVE  EmailInv'
<1> DEFINE m == worker[w].mail
           k == worker[w].copy
           j == AfterFailure(job[m][k])
<1>1. worker[w].pc = "failed" /\ worker' = [worker EXCEPT ![w] = Free]
      /\ UNCHANGED <<request, handed, faults>>
  BY DEF Fail
<1>2. m \in Mails /\ k \in Copies /\ job[m][k].state # "none"
  BY <1>1, AtJob DEF Busy
<1>3. CASE Holds(w, m, k)
  <2>1. job[m][k] \in Jobs /\ job[m][k].state = "active" /\ JobOK(job[m][k])
    BY <1>2, <1>3, Typed DEF Holds, EmailInv, JobsOK
  <2>2. j \in Jobs /\ JobOK(j) /\ j.state \in {"delayed", "dropped"}
        /\ Takes(j) = Takes(job[m][k])
    <3> DEFINE old == job[m][k]
    <3>1. /\ old \in Jobs /\ old.tries \in 0..Attempts /\ old.stalls \in 0..(MaxStalled + 1)
          /\ old.tries < Attempts /\ old.stalls <= MaxStalled /\ old.state = "active"
      BY <2>1 DEF Jobs, JobOK, Queued
    <3>2. Attempts \in Nat /\ MaxStalled \in Nat
      BY EmailAssumption DEF EmailAssumption
    <3> DEFINE next == IF old.tries + 1 < Attempts THEN "delayed" ELSE "dropped"
    <3> HIDE DEF old
    <3>3. /\ next \in {"delayed", "dropped"} /\ old.tries + 1 \in 0..Attempts
          /\ next = "delayed" => old.tries + 1 < Attempts
          /\ next = "dropped" => old.tries + 1 = Attempts
      BY <3>1, <3>2
    <3>4. /\ AfterFailure(old) \in Jobs
          /\ AfterFailure(old).tries = old.tries + 1
          /\ AfterFailure(old).stalls = old.stalls
          /\ AfterFailure(old).state = next
      <4>1. AfterFailure(old) = [old EXCEPT !.owner = Nobody, !.tries = old.tries + 1, !.state = next]
        BY <3>1 DEF AfterFailure, Jobs
      <4> HIDE DEF next
      <4> QED
        BY <3>1, <3>3, <4>1 DEF Jobs, Queued, Removed
    <3> HIDE DEF next
    <3>5. JobOK(AfterFailure(old)) /\ Takes(AfterFailure(old)) = Takes(old)
      BY <3>1, <3>2, <3>3, <3>4 DEF JobOK, Takes, Queued
    <3> QED
      BY <3>3, <3>4, <3>5 DEF old
  <2>3. job' = [job EXCEPT ![m][k] = j]
    <3>1. job \in [Mails -> [Copies -> Jobs]]
      BY Typed
    <3> QED
      BY <1>2, <1>3, <3>1 DEF Fail
  <2>4. JobFits(m, k, j)
    BY <2>2 DEF JobFits
  <2> QED
    BY <1>1, <1>2, <2>2, <2>3, <2>4, EndInv
<1>4. CASE ~Holds(w, m, k)
  <2>1. job' = job
    BY <1>4 DEF Fail
  <2> QED
    BY <1>1, <2>1, Typed, StopInv
<1> QED
  BY <1>3, <1>4

LEMMA EmailNextInv == EmailInv /\ [EmailNext]_emailVars => EmailInv'
<1> SUFFICES ASSUME EmailInv, [EmailNext]_emailVars
             PROVE  EmailInv'
  OBVIOUS
<1>1. ASSUME NEW m \in Mails, SendEmail(m) \/ Decline(m) \/ RequestStep(m)
      PROVE  EmailInv'
  BY <1>1, SendEmailInv, AddInv, AnswerInv DEF RequestStep
<1>2. ASSUME NEW m \in Mails, NEW k \in Copies, JobStep(m, k)
      PROVE  EmailInv'
  BY <1>2, TakeInv, BackoffInv, StallInv DEF JobStep
<1>3. ASSUME NEW w \in Workers, WorkerStep(w)
      PROVE  EmailInv'
  <2>1. CASE Crash(w)
    BY <2>1, FaultTyped, StopInv DEF Crash
  <2>2. CASE Restart(w)
    BY <2>2, Typed, StopInv DEF Restart
  <2> QED
    BY <1>3, <2>1, <2>2, SendInv, CompleteInv, FailInv DEF WorkerStep
<1>4. CASE UNCHANGED emailVars
  BY <1>4 DEF emailVars, EmailInv, EmailTypeOK, JobsOK, HandedOK, RequestsOK, WorkersOK,
              CompletedOK, Sending, Busy
<1> QED
  BY <1>1, <1>2, <1>3, <1>4 DEF EmailNext, QueueStep

(* The inductive invariant: a job has been handed to the provider at most  *)
(* as often as workers have taken it and ended their send.                 *)
THEOREM EmailInvariance == EmailSpec => []EmailInv
BY EmailInitInv, EmailNextInv, PTL DEF EmailSpec

-----------------------------------------------------------------------------
(* What follows.                                                           *)

(* The variables of the queue have their types: no job fails or loses its  *)
(* lock more often than BullMQ allows, plus once.                          *)
THEOREM EmailTypes == EmailSpec => []EmailTypeOK
<1>1. EmailInv => EmailTypeOK
  BY DEF EmailInv
<1> QED
  BY <1>1, EmailInvariance, PTL

(* However many workers, crashes and lost locks there are, the provider    *)
(* takes one job at most Attempts + MaxStalled times.                      *)
THEOREM CopiesAreBounded == EmailSpec => []CopiesBounded
<1>1. EmailInv => CopiesBounded
  <2> SUFFICES ASSUME EmailInv, NEW m \in Mails, NEW k \in Copies
               PROVE  handed[m][k] <= Attempts + MaxStalled
    BY DEF CopiesBounded
  <2>1. /\ handed[m][k] + Cardinality(Sending(m, k)) <= Takes(job[m][k])
        /\ handed[m][k] \in Nat /\ Cardinality(Sending(m, k)) \in Nat
    BY Typed, SendingFinite DEF EmailInv, HandedOK
  <2>2. job[m][k] \in Jobs /\ JobOK(job[m][k])
    BY Typed DEF EmailInv, JobsOK
  <2>3. Takes(job[m][k]) \in Int /\ Takes(job[m][k]) <= Attempts + MaxStalled
    BY <2>2, NoJobFits, EmailAssumption
       DEF EmailAssumption, Jobs, JobOK, Takes, Queued, Removed
  <2> QED
    BY <2>1, <2>2, <2>3, EmailAssumption DEF EmailAssumption
<1> QED
  BY <1>1, EmailInvariance, PTL

(* A job leaves the queue as completed only when the provider has it, and  *)
(* is given up only after its last attempt or one lost lock too many.      *)
THEOREM OutcomesJustified == EmailSpec => []OutcomeJustified
<1>1. EmailInv => OutcomeJustified
  <2> SUFFICES ASSUME EmailInv, NEW m \in Mails, NEW k \in Copies
               PROVE  /\ job[m][k].state = "completed" => handed[m][k] >= 1
                      /\ job[m][k].state = "dropped" => \/ job[m][k].tries = Attempts
                                                        \/ job[m][k].stalls > MaxStalled
    BY DEF OutcomeJustified
  <2>1. job[m][k] \in Jobs /\ JobOK(job[m][k])
    BY Typed DEF EmailInv, JobsOK
  <2> QED
    BY <2>1, EmailAssumption DEF EmailInv, CompletedOK, JobOK, Jobs, EmailAssumption
<1> QED
  BY <1>1, EmailInvariance, PTL

(* A mutation that has answered true has put a job in the queue.           *)
THEOREM TrueIsQueued == EmailSpec => []TrueMeansQueued
<1>1. EmailInv => TrueMeansQueued
  BY DEF EmailInv, RequestsOK, TrueMeansQueued
<1> QED
  BY <1>1, EmailInvariance, PTL

-----------------------------------------------------------------------------
(* The queue keeps the promise of MailPromise.                             *)

\* Nothing that the fate of an e-mail depends on changes.
Same(m) ==
  /\ Asking(m)' = Asking(m) /\ BeingSent(m)' = BeingSent(m)
  /\ job'[m] = job[m] /\ handed'[m] = handed[m]

LEMMA SameFate == ASSUME NEW m \in Mails, Same(m) PROVE Fate(m)' = Fate(m)
<1>1. WasSent(m)' = WasSent(m) /\ \A S : Some(m, S)' = Some(m, S)
  BY DEF Same, WasSent, Some
<1> QED
  BY <1>1 DEF Same, Fate, Pending, Queued, Removed

\* What may become of an e-mail, as MailPromise has it.
Legal(m) ==
  \/ Fate(m)' = Fate(m)
  \/ Fate(m) = "none" /\ Fate(m)' = "accepted"
  \/ Fate(m) = "accepted" /\ Fate(m)' \in {"sent", "dropped"}

NonNone == Queued \union Removed

LEMMA JobsPartition ==
  ASSUME EmailInv, NEW m \in Mails, NEW k \in Copies, job[m][k].state # "none"
  PROVE  Some(m, Queued) \/ Some(m, Removed)
<1>1. job[m][k].state \in Queued \union Removed
  BY Typed DEF Jobs
<1> QED
  BY <1>1 DEF Some

\* An e-mail that is pending has a job, and jobs do not vanish.
LEMMA PendingLegal ==
  ASSUME EmailInv', NEW m \in Mails, Pending(m), WasSent(m) => WasSent(m)',
         NEW k \in Copies, job'[m][k].state # "none"
  PROVE  Legal(m)
<1>1. Some(m, Queued)' \/ Some(m, Removed)'
  <2>1. job'[m][k] \in Jobs
    BY DEF EmailInv, EmailTypeOK
  <2>2. job'[m][k].state \in Queued \union Removed
    BY <2>1 DEF Jobs
  <2> QED
    BY <2>2 DEF Some, Queued, Removed
<1>2. Fate(m) = IF WasSent(m) THEN "sent" ELSE "accepted"
  BY DEF Fate
<1>3. Fate(m)' \in {"sent", "accepted", "dropped"} /\ (WasSent(m)' => Fate(m)' = "sent")
  BY <1>1 DEF Fate, Pending
<1> QED
  BY <1>2, <1>3 DEF Legal

\* The step of one e-mail.
Concerns(m) == Legal(m) /\ \A n \in Mails : n # m => Same(n)

LEMMA AskConcerns ==
  ASSUME EmailInv, NEW m \in Mails, SendEmail(m) \/ Decline(m)
  PROVE  Concerns(m)
<1>1. request[m] = "idle" /\ UNCHANGED <<job, worker, handed>>
      /\ \A n \in Mails : n # m => request'[n] = request[n]
  BY Typed DEF SendEmail, Decline
<1>2. \A k \in Copies : job[m][k].state = "none"
  BY <1>1 DEF EmailInv, RequestsOK, Unasked
<1>3. ~BeingSent(m) /\ ~BeingSent(m)'
  BY <1>1, <1>2, AtJob DEF BeingSent, Busy
<1>4. ~Some(m, Queued) /\ ~Some(m, Removed) /\ ~Some(m, Queued)' /\ ~Some(m, Removed)'
      /\ WasSent(m)' = WasSent(m)
  BY <1>1, <1>2 DEF Some, WasSent, Queued, Removed
<1>5. Fate(m)' = Fate(m)
  BY <1>3, <1>4 DEF Fate, Pending
<1>6. ASSUME NEW n \in Mails, n # m PROVE Same(n)
  BY <1>1, <1>6 DEF Same, Asking, BeingSent
<1> QED
  BY <1>5, <1>6 DEF Concerns, Legal

LEMMA AnswerConcerns ==
  ASSUME EmailInv, NEW m \in Mails, AnswerTrue(m) \/ ReplyLost(m) \/ RequestLost(m)
  PROVE  Concerns(m)
<1>1. request[m] \in {"adding", "added"} /\ UNCHANGED <<job, worker, handed>>
      /\ \A n \in Mails : n # m => request'[n] = request[n]
  BY Typed DEF AnswerTrue, ReplyLost, RequestLost
<1>2. /\ WasSent(m)' = WasSent(m) /\ BeingSent(m)' = BeingSent(m)
      /\ Some(m, Queued)' = Some(m, Queued) /\ Some(m, Removed)' = Some(m, Removed)
  BY <1>1 DEF WasSent, BeingSent, Some, Queued, Removed
<1>3. Legal(m)
  BY <1>1, <1>2 DEF Legal, Fate, Pending, Asking
<1>4. ASSUME NEW n \in Mails, n # m PROVE Same(n)
  BY <1>1, <1>4 DEF Same, Asking, BeingSent
<1> QED
  BY <1>3, <1>4 DEF Concerns

LEMMA AddConcerns ==
  ASSUME EmailInv, NEW m \in Mails, Add(m)
  PROVE  Concerns(m)
<1>1. PICK k \in Copies : job' = [job EXCEPT ![m][k] = NewJob]
  BY DEF Add
<1>2. request[m] = "adding" /\ request' = [request EXCEPT ![m] = "added"]
      /\ UNCHANGED <<worker, handed>>
  BY DEF Add
<1>3. job'[m][k] = NewJob /\ \A n \in Mails : n # m => job'[n] = job[n]
  BY <1>1, Typed
<1>4. Some(m, Queued)'
  BY <1>3 DEF Some, NewJob, NoJob, Queued
<1>5. WasSent(m)' = WasSent(m) /\ Asking(m)
  BY <1>2 DEF WasSent, Asking
<1>6. Legal(m)
  BY <1>4, <1>5 DEF Legal, Fate, Pending
<1>7. ASSUME NEW n \in Mails, n # m PROVE Same(n)
  BY <1>2, <1>3, <1>7, Typed DEF Same, Asking, BeingSent
<1> QED
  BY <1>6, <1>7 DEF Concerns

\* A step that writes a job of m, or ends a send of m, leaves the requests.
LEMMA PendingConcerns ==
  ASSUME EmailInv, EmailInv', NEW m \in Mails, NEW k \in Copies, Pending(m),
         job[m][k].state # "none", job'[m][k].state # "none", UNCHANGED request,
         \A l \in Copies : handed'[m][l] >= handed[m][l],
         \A n \in Mails : n # m => /\ job'[n] = job[n] /\ handed'[n] = handed[n]
                                  /\ BeingSent(n)' = BeingSent(n)
  PROVE  Concerns(m)
<1>1. WasSent(m) => WasSent(m)'
  <2> SUFFICES ASSUME NEW l \in Copies, handed[m][l] > 0
               PROVE  handed'[m][l] > 0
    BY DEF WasSent
  <2>1. handed[m][l] \in Nat /\ handed'[m][l] \in Nat
    BY DEF EmailInv, EmailTypeOK
  <2> QED
    BY <2>1
<1>2. Legal(m)
  BY <1>1, PendingLegal
<1>3. \A n \in Mails : n # m => Same(n)
  BY DEF Same, Asking
<1> QED
  BY <1>2, <1>3 DEF Concerns

LEMMA JobConcerns ==
  ASSUME EmailInv, EmailInv', NEW m \in Mails, NEW k \in Copies, JobStep(m, k)
  PROVE  Concerns(m)
<1>1. /\ job[m][k].state \in Queued /\ UNCHANGED <<request, handed>>
      /\ \A n \in Mails : n # m => job'[n] = job[n]
  BY Typed DEF JobStep, Take, BackoffEnds, Stall, Queued
<1>2. Pending(m) /\ job[m][k].state # "none"
  BY <1>1 DEF Pending, Some, Queued
<1>3. job'[m][k].state # "none"
  <2>1. CASE \E w \in Workers : Take(w, m, k)
    <3>1. job[m][k] \in Jobs
      BY Typed
    <3>2. PICK w \in Workers :
            job' = [job EXCEPT ![m][k] = [job[m][k] EXCEPT !.state = "active", !.owner = w]]
      BY <2>1, Typed DEF Take
    <3>3. job'[m][k] = [job[m][k] EXCEPT !.state = "active", !.owner = w]
      BY <3>2, Typed
    <3> QED
      BY <3>1, <3>3 DEF Jobs
  <2>2. CASE BackoffEnds(m, k)
    BY <2>2, Typed DEF BackoffEnds, Jobs
  <2>3. CASE Stall(m, k)
    BY <2>3, Typed DEF Stall, AfterStall, Jobs
  <2> QED
    BY <2>1, <2>2, <2>3 DEF JobStep
<1>4. \A n \in Mails : n # m => BeingSent(n)' = BeingSent(n)
  <2>1. CASE UNCHANGED worker
    BY <2>1 DEF BeingSent
  <2>2. CASE \E w \in Workers : Take(w, m, k)
    BY <2>2, Typed DEF Take, BeingSent, WorkerStates
  <2> QED
    BY <2>1, <2>2 DEF JobStep, BackoffEnds, Stall
<1>5. \A l \in Copies : handed'[m][l] >= handed[m][l]
  BY <1>1, Typed
<1> QED
  BY <1>1, <1>2, <1>3, <1>4, <1>5, PendingConcerns

Quiet == \A n \in Mails : Same(n)

\* A worker that ends its job: it was not sending any more.
LEMMA EndConcerns ==
  ASSUME EmailInv, EmailInv', NEW w \in Workers, Complete(w) \/ Fail(w)
  PROVE  Quiet \/ \E m \in Mails : Concerns(m)
<1>1. worker[w].pc \in {"sent", "failed"} /\ worker' = [worker EXCEPT ![w] = Free]
      /\ UNCHANGED <<request, handed>>
  BY DEF Complete, Fail
<1>2. \A n \in Mails : BeingSent(n)' = BeingSent(n)
  BY <1>1, Typed DEF BeingSent, Free
<1>3. PICK m \in Mails, k \in Copies :
        m = worker[w].mail /\ k = worker[w].copy /\ job[m][k].state # "none"
  BY <1>1, AtJob DEF Busy
<1>4. CASE Holds(w, m, k)
  <2>1. Pending(m)
    BY <1>4 DEF Holds, Pending, Some, Queued
  <2>2. PICK j : j.state # "none" /\ job' = [job EXCEPT ![m][k] = j]
    <3>1. job[m][k] \in Jobs
      BY Typed
    <3>2. CASE Complete(w)
      <4>1. job' = [job EXCEPT ![m][k] = [job[m][k] EXCEPT !.state = "completed", !.owner = Nobody]]
        BY <1>3, <1>4, <3>2, Typed DEF Complete
      <4>2. [job[m][k] EXCEPT !.state = "completed", !.owner = Nobody].state # "none"
        BY <3>1 DEF Jobs
      <4> QED
        BY <4>1, <4>2
    <3>3. CASE Fail(w)
      <4>1. job' = [job EXCEPT ![m][k] = AfterFailure(job[m][k])]
        BY <1>3, <1>4, <3>3, Typed DEF Fail
      <4>2. AfterFailure(job[m][k]).state # "none"
        BY <3>1 DEF Jobs, AfterFailure
      <4> QED
        BY <4>1, <4>2
    <3> QED
      BY <3>2, <3>3
  <2>3. job'[m][k].state # "none" /\ \A n \in Mails : n # m => job'[n] = job[n]
    BY <2>2, Typed
  <2>4. \A l \in Copies : handed'[m][l] >= handed[m][l]
    BY <1>1, Typed
  <2> QED
    BY <1>1, <1>2, <1>3, <2>1, <2>3, <2>4, PendingConcerns
<1>5. CASE ~Holds(w, m, k)
  BY <1>1, <1>2, <1>3, <1>5 DEF Complete, Fail, Quiet, Same, Asking
<1> QED
  BY <1>4, <1>5

\* A worker that sends, dies or starts again.
LEMMA SendConcerns ==
  ASSUME EmailInv, EmailInv', NEW w \in Workers, Send(w) \/ Crash(w) \/ Restart(w)
  PROVE  Quiet \/ \E m \in Mails : Concerns(m)
<1>1. UNCHANGED <<request, job>>
  BY DEF Send, Crash, Restart
<1>2. PICK s : worker' = [worker EXCEPT ![w] = s] /\ s.pc # "sending"
  BY Typed DEF Send, Crash, Restart, Free, Down, WorkerStates
<1>3. CASE worker[w].pc = "sending"
  <2>1. PICK m \in Mails, k \in Copies :
          m = worker[w].mail /\ k = worker[w].copy /\ job[m][k].state # "none"
    BY <1>3, AtJob DEF Busy
  <2>2. Pending(m)
    BY <1>3, <2>1 DEF Pending, BeingSent
  <2>3. \A n \in Mails : n # m => BeingSent(n)' = BeingSent(n)
    BY <1>2, <2>1, Typed DEF BeingSent
  <2>4. handed' \in {handed, [handed EXCEPT ![m][k] = @ + 1]}
    BY <2>1 DEF Send, Crash, Restart
  <2>5. /\ \A l \in Copies : handed'[m][l] >= handed[m][l]
        /\ \A n \in Mails : n # m => handed'[n] = handed[n]
    BY <2>4, Typed
  <2> QED
    BY <1>1, <2>1, <2>2, <2>3, <2>5, PendingConcerns
<1>4. CASE worker[w].pc # "sending"
  <2>1. \A n \in Mails : BeingSent(n)' = BeingSent(n)
    BY <1>2, <1>4, Typed DEF BeingSent
  <2> QED
    BY <1>1, <1>4, <2>1 DEF Send, Crash, Restart, Quiet, Same, Asking
<1> QED
  BY <1>3, <1>4

LEMMA StepConcerns ==
  ASSUME EmailInv, EmailInv', [EmailNext]_emailVars
  PROVE  Quiet \/ \E m \in Mails : Concerns(m)
<1>1. ASSUME NEW m \in Mails, SendEmail(m) \/ Decline(m) \/ RequestStep(m)
      PROVE  Concerns(m)
  BY <1>1, AskConcerns, AddConcerns, AnswerConcerns DEF RequestStep
<1>2. ASSUME NEW m \in Mails, NEW k \in Copies, JobStep(m, k)
      PROVE  Concerns(m)
  BY <1>2, JobConcerns
<1>3. ASSUME NEW w \in Workers, WorkerStep(w)
      PROVE  Quiet \/ \E m \in Mails : Concerns(m)
  BY <1>3, EndConcerns, SendConcerns DEF WorkerStep
<1>4. CASE UNCHANGED emailVars
  BY <1>4 DEF emailVars, Quiet, Same, Asking, BeingSent
<1> QED
  BY <1>1, <1>2, <1>3, <1>4 DEF EmailNext, QueueStep

Fates == [m \in Mails |-> Fate(m)]

LEMMA FateStep ==
  ASSUME EmailInv, EmailInv', [EmailNext]_emailVars
  PROVE  [Mail!MailNext]_Fates
<1>1. CASE Quiet
  BY <1>1, SameFate DEF Quiet, Fates
<1>2. ASSUME NEW m \in Mails, Concerns(m)
      PROVE  [Mail!MailNext]_Fates
  <2>1. \A n \in Mails : n # m => Fate(n)' = Fate(n)
    BY <1>2, SameFate DEF Concerns
  <2>2. Fates' = [Fates EXCEPT ![m] = Fate(m)'] /\ Fates[m] = Fate(m)
    BY <2>1 DEF Fates
  <2>3. CASE Fate(m)' = Fate(m)
    BY <2>1, <2>3 DEF Fates
  <2>4. CASE Fate(m) = "none" /\ Fate(m)' = "accepted"
    <3>1. Mail!Accept(m)
      BY <2>2, <2>4 DEF Mail!Accept, Mail!Becomes, Fates
    <3> QED
      BY <3>1 DEF Mail!MailNext
  <2>5. CASE Fate(m) = "accepted" /\ Fate(m)' \in {"sent", "dropped"}
    <3>1. Mail!Deliver(m) \/ Mail!GiveUp(m)
      BY <2>2, <2>5 DEF Mail!Deliver, Mail!GiveUp, Mail!Becomes, Fates
    <3> QED
      BY <3>1 DEF Mail!MailNext
  <2> QED
    BY <1>2, <2>3, <2>4, <2>5 DEF Concerns, Legal
<1> QED
  BY <1>1, <1>2, StepConcerns

LEMMA FateInit == EmailInit => Mail!MailInit
<1> SUFFICES ASSUME EmailInit, NEW m \in Mails
             PROVE  Fate(m) = "none"
  BY DEF Mail!MailInit
<1>1. ~WasSent(m) /\ ~Some(m, Queued) /\ ~Some(m, Removed)
  BY DEF EmailInit, WasSent, Some, NoJob, Queued, Removed
<1>2. ~BeingSent(m)
  BY DEF EmailInit, BeingSent, Free
<1> QED
  BY <1>1, <1>2 DEF Fate, Pending

(* The queue implements the promise: an e-mail is accepted once, and then  *)
(* sent or given up, never both and never undone, although its job may be  *)
(* queued twice, taken by two workers at once and sent without being heard.*)
THEOREM ImplementsMail == EmailSpec => Mail!MailSpec
<1>1. EmailInv /\ EmailInv' /\ [EmailNext]_emailVars => [Mail!MailNext]_Fates
  BY FateStep
<1> QED
  BY <1>1, FateInit, EmailInvariance, PTL DEF EmailSpec, Mail!MailSpec, Fates

=============================================================================
