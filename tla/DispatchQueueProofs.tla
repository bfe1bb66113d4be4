------------------------ MODULE DispatchQueueProofs ------------------------
(***************************************************************************)
(* Proofs about DispatchQueue for any jobs, workers, policy and durations. *)
(***************************************************************************)
EXTENDS DispatchQueue, FiniteSetTheorems, TLAPS

\* What the proofs need of sequences.
LEMMA EmptySeq == \A S : <<>> \in Seq(S) /\ Len(<<>>) = 0
  OBVIOUS

LEMMA LenProperties ==
    ASSUME NEW S, NEW q \in Seq(S)
    PROVE  Len(q) \in Nat /\ DOMAIN q = 1..Len(q) /\ q \in [1..Len(q) -> S]
  OBVIOUS

LEMMA ElementOfSeq ==
    ASSUME NEW S, NEW q \in Seq(S), NEW n \in 1..Len(q)
    PROVE  q[n] \in S
  OBVIOUS

LEMMA AppendProperties ==
    ASSUME NEW S, NEW q \in Seq(S), NEW x \in S
    PROVE  /\ Append(q, x) \in Seq(S) /\ Len(Append(q, x)) = Len(q) + 1
           /\ Append(q, x)[Len(q) + 1] = x
           /\ \A n \in 1..Len(q) : Append(q, x)[n] = q[n]
  OBVIOUS

LEMMA ExceptSeq ==
    ASSUME NEW S, NEW q \in Seq(S), NEW n \in 1..Len(q), NEW x \in S
    PROVE  /\ [q EXCEPT ![n] = x] \in Seq(S) /\ Len([q EXCEPT ![n] = x]) = Len(q)
           /\ \A m \in 1..Len(q) : [q EXCEPT ![n] = x][m] = IF m = n THEN x ELSE q[m]
  OBVIOUS

-----------------------------------------------------------------------------
\* What the tables satisfy row by row.  The last conjunct is what the stated
\* invariants lack to be inductive: a job enters the queue with no attempt
\* behind it, so it has one left.
RowInv(j) ==
    /\ Len(attempts[j]) = job[j].attemptCount
    /\ job[j].state = "leased" =>
          /\ job[j].leaseAttempt = job[j].attemptCount
          /\ job[j].attemptCount > 0
          /\ attempts[j][job[j].attemptCount].worker = job[j].leaseWorker
    /\ \A n \in 1..Len(attempts[j]) :
          attempts[j][n].state = "active" <=> HoldsLease(j, n)
    /\ job[j].cancelRequested => job[j].state \in {"leased", "canceled"}
    /\ job[j].attemptCount <= MaxAttempts(j)
    /\ job[j].state = "queued" => job[j].attemptCount < MaxAttempts(j)
    /\ job[j].state = "absent" => job[j].attemptCount = 0

IInv == TypeOK /\ \A j \in Jobs : RowInv(j)

-----------------------------------------------------------------------------
LEMMA MaxAttemptsPositive == \A j \in Jobs : MaxAttempts(j) \in Nat \ {0}
BY SpecAssumption DEF MaxAttempts

\* A row none of whose columns change keeps its invariant.
LEMMA RowUnchanged ==
    ASSUME NEW j \in Jobs, RowInv(j), job'[j] = job[j], attempts'[j] = attempts[j]
    PROVE  RowInv(j)'
BY DEF RowInv, HoldsLease

LEMMA InitIInv == Init => IInv
<1> SUFFICES ASSUME Init PROVE IInv
  OBVIOUS
<1>1. TypeOK
  BY EmptySeq DEF Init, TypeOK, JobRow, WorkerRow, JobStates
<1>2. ASSUME NEW j \in Jobs PROVE RowInv(j)
  BY MaxAttemptsPositive, EmptySeq DEF Init, RowInv, HoldsLease
<1> QED
  BY <1>1, <1>2 DEF IInv

-----------------------------------------------------------------------------
\* One lemma per operation: it preserves the invariant.

\* An operation that rewrites the row of one job.
LEMMA OneRow ==
    ASSUME IInv, NEW j \in Jobs, NEW r \in JobRow, job' = [job EXCEPT ![j] = r],
           attempts' \in [Jobs -> Seq(AttemptRow)], \A k \in Jobs \ {j} : attempts'[k] = attempts[k],
           worker' \in [Workers -> WorkerRow],
           RowInv(j)'
    PROVE  IInv'
<1>1. TypeOK'
  BY Zenon DEF IInv, TypeOK
<1>2. ASSUME NEW k \in Jobs, k # j PROVE RowInv(k)'
  BY <1>2, RowUnchanged DEF IInv, TypeOK
<1> QED
  BY <1>1, <1>2 DEF IInv

LEMMA EnqueueIInv ==
    ASSUME IInv, NEW j \in Jobs, Enqueue(j)
    PROVE  IInv'
<1> DEFINE c == Cardinality(Present) + 1
           r == [job[j] EXCEPT !.state = "queued", !.created = c]
<1>1. c \in Nat
  BY JobsFinite, FS_Subset, FS_CardinalityType DEF Present
<1>2. r \in JobRow
  BY <1>1, ZenonT(40) DEF IInv, TypeOK, JobRow, JobStates
<1>3. job' = [job EXCEPT ![j] = r] /\ UNCHANGED <<attempts, worker>>
  BY DEF Enqueue
<1>4. /\ job'[j] = r /\ attempts'[j] = attempts[j]
      /\ r.state = "queued" /\ r.attemptCount = job[j].attemptCount
      /\ r.cancelRequested = job[j].cancelRequested
  BY <1>3 DEF IInv, TypeOK, JobRow
<1> HIDE DEF r, c
<1>5. RowInv(j)'
  BY <1>4, MaxAttemptsPositive DEF IInv, RowInv, HoldsLease, Enqueue
<1> QED
  BY <1>2, <1>3, <1>5, OneRow, Zenon DEF IInv, TypeOK

\* An operation that may rewrite every row.
LEMMA AllRows ==
    ASSUME IInv, job' \in [Jobs -> JobRow], attempts' \in [Jobs -> Seq(AttemptRow)],
           worker' \in [Workers -> WorkerRow], \A j \in Jobs : RowInv(j)'
    PROVE  IInv'
BY DEF IInv, TypeOK

LEMMA CancelIInv ==
    ASSUME IInv, NEW S, \A j \in S : j \in Jobs /\ Cancelable(j), Cancel(S)
    PROVE  IInv'
<1> DEFINE st(j) == IF job[j].state = "queued" THEN "canceled" ELSE job[j].state
           r(j) == [job[j] EXCEPT !.cancelRequested = TRUE, !.state = st(j)]
<1>1. job' = [j \in Jobs |-> IF j \in S THEN r(j) ELSE job[j]]
  BY Zenon DEF Cancel
<1>2. ASSUME NEW j \in Jobs
      PROVE  /\ r(j) \in JobRow
             /\ r(j).state = st(j) /\ r(j).attemptCount = job[j].attemptCount
             /\ r(j).leaseAttempt = job[j].leaseAttempt
             /\ r(j).leaseWorker = job[j].leaseWorker
  BY ZenonT(40) DEF IInv, TypeOK, JobRow, JobStates, Terminal
<1> HIDE DEF r
<1>3. job' \in [Jobs -> JobRow]
  BY <1>1, <1>2 DEF IInv, TypeOK
<1>4. ASSUME NEW j \in Jobs PROVE RowInv(j)'
  <2>1. CASE j \in S
    <3>1. job'[j] = r(j) /\ attempts'[j] = attempts[j] /\ Cancelable(j)
      BY <1>1, <2>1, Zenon DEF Cancel
    <3> QED
      BY <1>2, <3>1 DEF IInv, RowInv, HoldsLease, Cancelable
  <2>2. CASE j \notin S
    BY <1>1, <2>2, RowUnchanged, Zenon DEF IInv, Cancel
  <2> QED
    BY <2>1, <2>2
<1> QED
  BY <1>3, <1>4, AllRows, Zenon DEF IInv, TypeOK, Cancel

LEMMA ReleaseAffinityIInv ==
    ASSUME IInv, NEW j \in Jobs, ReleaseAffinity(j)
    PROVE  IInv'
<1>1. TypeOK'
  BY ZenonT(40) DEF IInv, TypeOK, ReleaseAffinity, JobRow
<1>2. RowInv(j)'
  BY DEF IInv, TypeOK, JobRow, RowInv, HoldsLease, ReleaseAffinity
<1>3. ASSUME NEW k \in Jobs, k # j PROVE RowInv(k)'
  BY <1>3, RowUnchanged DEF IInv, TypeOK, ReleaseAffinity
<1> QED
  BY <1>1, <1>2, <1>3 DEF IInv

\* The three operations on a registration touch neither jobs nor attempts.
LEMMA RegistrationIInv ==
    ASSUME IInv, NEW w \in Workers, NEW b \in BOOLEAN,
           RegisterWorker(w, b, FALSE) \/ HeartbeatWorker(w, b) \/ SetWorkerDrain(w, b)
    PROVE  IInv'
<1>1. UNCHANGED <<job, attempts>>
  BY DEF RegisterWorker, HeartbeatWorker, SetWorkerDrain
<1>2. worker' \in [Workers -> WorkerRow]
  <2>1. CASE RegisterWorker(w, b, FALSE)
    BY <2>1 DEF IInv, TypeOK, WorkerRow, RegisterWorker
  <2>2. CASE HeartbeatWorker(w, b)
    BY <2>2, Zenon DEF IInv, TypeOK, WorkerRow, HeartbeatWorker
  <2>3. CASE SetWorkerDrain(w, b)
    <3>1. [worker[w] EXCEPT !.draining = b, !.ready = ~b] \in WorkerRow
      BY Zenon DEF IInv, TypeOK, WorkerRow
    <3> QED
      BY <2>3, <3>1 DEF IInv, TypeOK, SetWorkerDrain
  <2> QED
    BY <2>1, <2>2, <2>3, Zenon
<1> QED
  BY <1>1, <1>2, RowUnchanged DEF IInv, TypeOK

LEMMA ClaimIInv ==
    ASSUME IInv, NEW w \in Workers, NEW j \in Jobs, Claim(w, j)
    PROVE  IInv'
<1> DEFINE n == job[j].attemptCount + 1
           pin == IF JobSpec[j].affinityKey # None /\ job[j].affinityWorker = NoWorker
                  THEN w ELSE job[j].affinityWorker
           r == [job[j] EXCEPT !.state = "leased", !.attemptCount = n,
                               !.leaseAttempt = n, !.leaseWorker = w,
                               !.leaseTTL = LeaseDuration, !.affinityWorker = pin]
           e == [worker |-> w, state |-> "active"]
<1>1. job[j].state = "queued" /\ ~job[j].cancelRequested
  BY DEF Claim, Acceptable, Candidates, Claimable
<1>2. /\ job' = [job EXCEPT ![j] = r]
      /\ attempts' = [attempts EXCEPT ![j] = Append(attempts[j], e)]
      /\ worker' = [worker EXCEPT ![w].activeJobs = @ + 1]
  BY DEF Claim, ClaimedRow
<1>a. /\ job[j] \in JobRow
      /\ n \in Nat /\ n > 0 /\ pin \in Workers \cup {NoWorker}
  <2>1. job[j] \in JobRow
    BY DEF IInv, TypeOK
  <2>2. job[j].attemptCount \in Nat /\ job[j].affinityWorker \in Workers \cup {NoWorker}
    BY <2>1 DEF JobRow
  <2>3. n \in Nat /\ n > 0
    BY <2>2
  <2>4. pin \in Workers \cup {NoWorker}
    BY <2>2
  <2> QED
    BY <2>1, <2>3, <2>4
<1> HIDE DEF n, pin
<1>3. r \in JobRow
  BY <1>a, TimeAssumption, Zenon DEF JobRow, JobStates
<1>4. /\ r.state = "leased" /\ r.attemptCount = n /\ r.leaseAttempt = n
      /\ r.leaseWorker = w
  BY <1>a DEF JobRow
<1> HIDE DEF r
<1>5. /\ attempts[j] \in Seq(AttemptRow) /\ Len(attempts[j]) \in Nat
      /\ Len(attempts[j]) + 1 = n
  BY LenProperties DEF IInv, TypeOK, RowInv, n
<1>b. e \in AttemptRow
  BY DEF AttemptRow, AttemptStates
<1> HIDE DEF e
<1>6. /\ Append(attempts[j], e) \in Seq(AttemptRow)
      /\ Len(Append(attempts[j], e)) = n
      /\ \A i \in 1..Len(attempts[j]) : Append(attempts[j], e)[i] = attempts[j][i]
      /\ Append(attempts[j], e)[n] = e
  BY <1>5, <1>b, AppendProperties
<1>7. RowInv(j)'
  <2>1. job'[j] = r /\ attempts'[j] = Append(attempts[j], e)
    BY <1>2 DEF IInv, TypeOK
  <2>2. e.worker = w /\ e.state = "active"
    BY DEF e
  <2>3. \A i \in 1..Len(attempts'[j]) : attempts'[j][i].state = "active" <=> i = n
    <3>1. \A i \in 1..Len(attempts[j]) : attempts[j][i].state # "active"
      BY <1>1 DEF IInv, RowInv, HoldsLease
    <3> QED
      BY <1>a, <1>5, <1>6, <2>1, <2>2, <3>1
  <2>4. n <= MaxAttempts(j)
    BY <1>1, <1>a, MaxAttemptsPositive DEF IInv, RowInv, JobRow, n
  <2>5. MaxAttempts(j)' = MaxAttempts(j)
    BY DEF MaxAttempts
  <2>6. ~job'[j].cancelRequested
    BY <1>1, <1>a, <2>1 DEF r, JobRow
  <2> QED
    BY <1>a, <1>4, <1>6, <2>1, <2>2, <2>3, <2>4, <2>5, <2>6 DEF RowInv, HoldsLease
<1>8. worker' \in [Workers -> WorkerRow]
  <2>a. worker[w] \in WorkerRow
    BY DEF IInv, TypeOK
  <2>b. worker[w].activeJobs + 1 \in Nat
    BY <2>a DEF WorkerRow
  <2>1. [worker[w] EXCEPT !.activeJobs = @ + 1] \in WorkerRow
    BY <2>a, <2>b DEF WorkerRow
  <2> QED
    BY <1>2, <2>1 DEF IInv, TypeOK
<1>9. /\ attempts' \in [Jobs -> Seq(AttemptRow)]
      /\ \A k \in Jobs \ {j} : attempts'[k] = attempts[k]
  BY <1>2, <1>6 DEF IInv, TypeOK
<1> QED
  BY <1>2, <1>3, <1>7, <1>8, <1>9, OneRow, Zenon

LEMMA HeartbeatIInv ==
    ASSUME IInv, NEW j \in Jobs, NEW n, Heartbeat(j, n)
    PROVE  IInv'
<1> DEFINE r == [job[j] EXCEPT !.leaseTTL = LeaseDuration]
<1>1. job' = [job EXCEPT ![j] = r] /\ UNCHANGED <<attempts, worker>>
  BY DEF Heartbeat
<1>2. /\ r \in JobRow
      /\ r.state = job[j].state /\ r.attemptCount = job[j].attemptCount
      /\ r.leaseAttempt = job[j].leaseAttempt /\ r.leaseWorker = job[j].leaseWorker
      /\ r.cancelRequested = job[j].cancelRequested
  BY TimeAssumption, ZenonT(40) DEF IInv, TypeOK, JobRow
<1> HIDE DEF r
<1>3. job'[j] = r
  BY <1>1 DEF IInv, TypeOK
<1>4. RowInv(j)'
  BY <1>1, <1>2, <1>3 DEF IInv, RowInv, HoldsLease
<1> QED
  BY <1>1, <1>2, <1>4, OneRow, Zenon DEF IInv, TypeOK

\* A lease that ends, by Finish or by ReclaimExpired: its attempt ends with it,
\* the job is queued again only with an attempt left and no cancel recorded,
\* and a recorded cancel makes it canceled.
LEMMA EndOfLease ==
    ASSUME IInv, NEW j \in Jobs, job[j].state = "leased",
           NEW n, n = job[j].leaseAttempt, NEW a \in AttemptStates \ {"active"},
           NEW st \in {"queued"} \cup Terminal, NEW d \in Nat,
           st = "queued" => job[j].attemptCount < MaxAttempts(j),
           job[j].cancelRequested => st = "canceled",
           job'[j] = Unleased(j, st, d),
           attempts'[j] = EndedAttempt(j, n, a)
    PROVE  job'[j] \in JobRow /\ attempts'[j] \in Seq(AttemptRow) /\ RowInv(j)'
<1>1. job[j] \in JobRow /\ attempts[j] \in Seq(AttemptRow)
  BY DEF IInv, TypeOK
<1>2. /\ n \in 1..Len(attempts[j]) /\ n = job[j].attemptCount
      /\ Len(attempts[j]) = job[j].attemptCount
  <2>1. /\ n = job[j].attemptCount /\ job[j].attemptCount > 0
        /\ Len(attempts[j]) = job[j].attemptCount
    BY DEF IInv, RowInv
  <2>2. job[j].attemptCount \in Nat
    BY <1>1 DEF JobRow
  <2> QED
    BY <2>1, <2>2
<1>3. /\ attempts'[j] \in Seq(AttemptRow) /\ Len(attempts'[j]) = Len(attempts[j])
      /\ attempts'[j][n].state = a
      /\ \A i \in 1..Len(attempts[j]) : i # n => attempts'[j][i] = attempts[j][i]
  <2> DEFINE e == [attempts[j][n] EXCEPT !.state = a]
  <2>1. attempts[j][n] \in AttemptRow
    BY <1>1, <1>2, ElementOfSeq
  <2>a. attempts[j][n].state = "active"
    BY <1>2 DEF IInv, RowInv, HoldsLease
  <2>2. e \in AttemptRow /\ e.state = a
    BY <2>1 DEF AttemptRow
  <2>3. attempts'[j] = [attempts[j] EXCEPT ![n] = e]
    BY <2>a DEF EndedAttempt
  <2> HIDE DEF e
  <2> QED
    BY <1>1, <1>2, <2>2, <2>3, ExceptSeq, SMTT(30)
<1>4. /\ job'[j] \in JobRow
      /\ job'[j].state = st /\ job'[j].attemptCount = job[j].attemptCount
      /\ job'[j].cancelRequested = job[j].cancelRequested
  <2>1. st \in JobStates
    BY DEF JobStates
  <2>2. NoWorker \in Workers \cup {NoWorker} /\ 0 \in Nat
    OBVIOUS
  <2> QED
    BY <1>1, <2>1, <2>2, ZenonT(40) DEF Unleased, JobRow
<1>5. \A i \in 1..Len(attempts'[j]) : attempts'[j][i].state # "active"
  <2>1. \A i \in 1..Len(attempts[j]) : i # n => attempts[j][i].state # "active"
    BY <1>2 DEF IInv, RowInv, HoldsLease
  <2> QED
    BY <1>3, <2>1
<1>6. MaxAttempts(j)' = MaxAttempts(j)
  BY DEF MaxAttempts
<1>7. st \notin {"leased", "absent"}
  BY DEF Terminal
<1> QED
  BY <1>2, <1>3, <1>4, <1>5, <1>6, <1>7 DEF IInv, RowInv, HoldsLease

LEMMA ReleasedType ==
    ASSUME TypeOK, NEW w, NEW k \in Nat
    PROVE  /\ Released(w, k) \in [Workers -> WorkerRow]
           /\ \A v \in Workers : Released(w, k)[v].activeJobs =
                 IF v # w THEN worker[v].activeJobs
                 ELSE IF worker[v].activeJobs > k THEN worker[v].activeJobs - k ELSE 0
<1> DEFINE f == Released(w, k)
           m == worker[w].activeJobs
           g == IF m > k THEN m - k ELSE 0
<1>1. f = [worker EXCEPT ![w] = [worker[w] EXCEPT !.activeJobs = g]]
  BY DEF Released
<1>2. ASSUME w \in Workers
      PROVE  /\ [worker[w] EXCEPT !.activeJobs = g] \in WorkerRow
             /\ [worker[w] EXCEPT !.activeJobs = g].activeJobs = g
  <2>1. worker[w] \in WorkerRow
    BY <1>2 DEF TypeOK
  <2>2. m \in Nat
    BY <2>1 DEF WorkerRow
  <2>3. g \in Nat
    BY <2>2
  <2> HIDE DEF g
  <2> QED
    BY <2>1, <2>3 DEF WorkerRow
<1> HIDE DEF f, g
<1>3. f \in [Workers -> WorkerRow]
  BY <1>1, <1>2, Zenon DEF TypeOK
<1>4. ASSUME NEW v \in Workers
      PROVE  f[v].activeJobs = IF v # w THEN worker[v].activeJobs ELSE g
  BY <1>1, <1>2 DEF TypeOK
<1> QED
  BY <1>3, <1>4 DEF f, g

\* Where a finished or a reclaimed job goes.
LEMMA FinishedWhere ==
    ASSUME NEW j \in Jobs, NEW r \in Results, TypeOK
    PROVE  /\ FinishedJob(j, r) \in {"queued"} \cup Terminal
           /\ FinishedJob(j, r) = "queued" => job[j].attemptCount < MaxAttempts(j)
           /\ job[j].cancelRequested => FinishedJob(j, r) = "canceled"
           /\ ~job[j].cancelRequested => FinishedJob(j, r) # "canceled"
           /\ FinishedAttempt(j, r) \in AttemptStates \ {"active"}
<1>1. CASE job[j].cancelRequested
  BY <1>1 DEF FinishedJob, FinishedAttempt, Terminal, AttemptStates
<1>2. CASE ~job[j].cancelRequested
  BY <1>2 DEF FinishedJob, FinishedAttempt, Terminal, AttemptStates, Results
<1> QED
  BY <1>1, <1>2

LEMMA ReclaimedWhere ==
    ASSUME NEW j \in Jobs, TypeOK
    PROVE  /\ ReclaimedJob(j) \in {"queued"} \cup Terminal
           /\ ReclaimedJob(j) = "queued" => job[j].attemptCount < MaxAttempts(j)
           /\ job[j].cancelRequested => ReclaimedJob(j) = "canceled"
           /\ ~job[j].cancelRequested => ReclaimedJob(j) # "canceled"
<1>1. job[j].attemptCount \in Nat /\ MaxAttempts(j) \in Nat
  BY MaxAttemptsPositive DEF TypeOK, JobRow
<1>2. CASE job[j].cancelRequested
  BY <1>2 DEF ReclaimedJob, Terminal
<1>3. CASE ~job[j].cancelRequested
  BY <1>1, <1>3 DEF ReclaimedJob, Terminal
<1> QED
  BY <1>2, <1>3

LEMMA FinishIInv ==
    ASSUME IInv, NEW j \in Jobs, NEW n \in DOMAIN attempts[j],
           NEW result \in Results, NEW delay \in RetryDelays,
           Finish(j, n, result, delay)
    PROVE  IInv'
<1> DEFINE st == FinishedJob(j, result)
           a == FinishedAttempt(j, result)
<1>1. job[j].state = "leased" /\ n = job[j].leaseAttempt /\ delay \in Nat
  BY TimeAssumption DEF Finish, HoldsLease
<1>2. /\ job' = [job EXCEPT ![j] = Unleased(j, st, delay)]
      /\ attempts' = [attempts EXCEPT ![j] = EndedAttempt(j, n, a)]
  BY DEF Finish
<1>3. /\ job'[j] = Unleased(j, st, delay)
      /\ attempts'[j] = EndedAttempt(j, n, a)
  BY <1>2 DEF IInv, TypeOK
<1>4. /\ st \in {"queued"} \cup Terminal /\ a \in AttemptStates \ {"active"}
      /\ st = "queued" => job[j].attemptCount < MaxAttempts(j)
      /\ job[j].cancelRequested => st = "canceled"
  BY FinishedWhere DEF IInv
<1> HIDE DEF st, a
<1>5. job'[j] \in JobRow /\ attempts'[j] \in Seq(AttemptRow) /\ RowInv(j)'
  BY <1>1, <1>3, <1>4, EndOfLease
<1>6. worker' \in [Workers -> WorkerRow]
  BY ReleasedType DEF Finish, IInv
<1>7. /\ attempts' \in [Jobs -> Seq(AttemptRow)]
      /\ \A k \in Jobs \ {j} : attempts'[k] = attempts[k]
  BY <1>2, <1>3, <1>5 DEF IInv, TypeOK
<1> QED
  BY <1>2, <1>3, <1>5, <1>6, <1>7, OneRow, Zenon

LEMMA ReclaimExpiredIInv ==
    ASSUME IInv, ReclaimExpired
    PROVE  IInv'
<1>1. ASSUME NEW j \in Jobs
      PROVE  job'[j] \in JobRow /\ attempts'[j] \in Seq(AttemptRow) /\ RowInv(j)'
  <2>1. CASE j \in Expired
    <3>1. job[j].state = "leased"
      BY <2>1 DEF Expired, Leased
    <3>2. /\ job'[j] = Unleased(j, ReclaimedJob(j), 0)
          /\ attempts'[j] = EndedAttempt(j, job[j].leaseAttempt, "expired")
      BY <2>1 DEF ReclaimExpired
    <3>3. "expired" \in AttemptStates \ {"active"}
      BY DEF AttemptStates
    <3> QED
      BY <3>1, <3>2, <3>3, ReclaimedWhere, EndOfLease, Zenon DEF IInv
  <2>2. CASE j \notin Expired
    <3>1. job'[j] = job[j] /\ attempts'[j] = attempts[j]
      BY <2>2 DEF ReclaimExpired
    <3> QED
      BY <3>1, RowUnchanged DEF IInv, TypeOK
  <2> QED
    BY <2>1, <2>2
<1>2. job' = [j \in Jobs |-> job'[j]] /\ attempts' = [j \in Jobs |-> attempts'[j]]
  BY DEF ReclaimExpired
<1>3. worker' \in [Workers -> WorkerRow]
  <2>1. ASSUME NEW w \in Workers
        PROVE  Cardinality(LeasesOf(w) \cap Expired) \in Nat
    BY JobsFinite, FS_Subset, FS_CardinalityType DEF LeasesOf, Leased
  <2>2. ASSUME NEW w \in Workers PROVE worker'[w] \in WorkerRow
    BY <2>1, ReleasedType DEF ReclaimExpired, IInv
  <2> QED
    BY <2>2 DEF ReclaimExpired
<1> QED
  BY <1>1, <1>2, <1>3, AllRows

LEMMA TickIInv ==
    ASSUME IInv, Tick
    PROVE  IInv'
<1> DEFINE dec(x) == IF x > 0 THEN x - 1 ELSE 0
           r(j) == [job[j] EXCEPT !.leaseTTL = dec(job[j].leaseTTL),
                                  !.availableIn = dec(job[j].availableIn)]
<1>1. job' = [j \in Jobs |-> r(j)]
  BY Zenon DEF Tick
<1>2. ASSUME NEW j \in Jobs
      PROVE  /\ r(j) \in JobRow
             /\ r(j).state = job[j].state /\ r(j).attemptCount = job[j].attemptCount
             /\ r(j).leaseAttempt = job[j].leaseAttempt
             /\ r(j).leaseWorker = job[j].leaseWorker
             /\ r(j).cancelRequested = job[j].cancelRequested
  <2>1. job[j] \in JobRow
    BY DEF IInv, TypeOK
  <2>2. job[j].leaseTTL \in Nat /\ job[j].availableIn \in Nat
    BY <2>1 DEF JobRow
  <2>3. dec(job[j].leaseTTL) \in Nat /\ dec(job[j].availableIn) \in Nat
    BY <2>2
  <2> HIDE DEF dec
  <2> QED
    BY <2>1, <2>3, Zenon DEF JobRow
<1> HIDE DEF r
<1>3. ASSUME NEW j \in Jobs PROVE RowInv(j)'
  <2>1. job'[j] = r(j) /\ attempts'[j] = attempts[j]
    BY <1>1, Zenon DEF Tick
  <2> QED
    BY <1>2, <2>1 DEF IInv, RowInv, HoldsLease
<1>4. worker' \in [Workers -> WorkerRow]
  <2>1. ASSUME NEW w \in Workers
        PROVE  [worker[w] EXCEPT !.silence = IF @ > WorkerTimeout THEN @ ELSE @ + 1]
                  \in WorkerRow
    <3> DEFINE s == IF worker[w].silence > WorkerTimeout
                    THEN worker[w].silence ELSE worker[w].silence + 1
    <3>1. worker[w] \in WorkerRow
      BY DEF IInv, TypeOK
    <3>2. worker[w].silence \in Nat
      BY <3>1 DEF WorkerRow
    <3>3. s \in Nat
      BY <3>2
    <3> HIDE DEF s
    <3>4. [worker[w] EXCEPT !.silence = s] \in WorkerRow
      BY <3>1, <3>3 DEF WorkerRow
    <3> QED
      BY <3>4 DEF s
  <2> QED
    BY <2>1, Zenon DEF Tick
<1>5. job' \in [Jobs -> JobRow]
  BY <1>1, <1>2
<1>6. attempts' \in [Jobs -> Seq(AttemptRow)]
  BY Zenon DEF IInv, TypeOK, Tick
<1> QED
  BY <1>3, <1>4, <1>5, <1>6, AllRows

LEMMA NextIInv == IInv /\ [Next]_vars => IInv'
<1> SUFFICES ASSUME IInv, [Next]_vars PROVE IInv'
  OBVIOUS
<1>1. ASSUME NEW j \in Jobs, Enqueue(j) \/ RequestCancel(j) \/ ReleaseAffinity(j)
      PROVE  IInv'
  <2>1. CASE RequestCancel(j)
    BY <2>1, CancelIInv DEF RequestCancel
  <2> QED
    BY <1>1, <2>1, EnqueueIInv, ReleaseAffinityIInv
<1>2. ASSUME NEW t \in Tasks, NEW wf \in Workflows, RequestCancelFor(t, wf)
      PROVE  IInv'
  BY <1>2, CancelIInv DEF RequestCancelFor
<1>3. ASSUME NEW w \in Workers, NEW b \in BOOLEAN,
             RegisterWorker(w, b, FALSE) \/ HeartbeatWorker(w, b) \/ SetWorkerDrain(w, b)
      PROVE  IInv'
  BY <1>3, RegistrationIInv, Zenon
<1>4. ASSUME NEW w \in Workers, NEW j \in Jobs, Claim(w, j)
      PROVE  IInv'
  BY <1>4, ClaimIInv
<1>5. ASSUME NEW j \in Jobs, NEW n \in DOMAIN attempts[j],
             Heartbeat(j, n) \/ \E r \in Results, d \in RetryDelays : Finish(j, n, r, d)
      PROVE  IInv'
  BY <1>5, HeartbeatIInv, FinishIInv
<1>6. CASE UNCHANGED vars
  BY <1>6, RowUnchanged DEF vars, IInv, TypeOK
<1> QED
  BY <1>1, <1>2, <1>3, <1>4, <1>5, <1>6, ReclaimExpiredIInv, TickIInv, Zenon DEF Next

-----------------------------------------------------------------------------
\* The rows of the three tables satisfy the inductive invariant in every
\* reachable state, whatever the order of the operations of queue_store.go.
THEOREM Invariance == Spec => []IInv
BY InitIInv, NextIInv, PTL DEF Spec

\* Every column keeps its type; no counter or delay goes below zero.
THEOREM TypeCorrect == Spec => []TypeOK
<1>1. IInv => TypeOK
  BY DEF IInv
<1> QED
  BY <1>1, Invariance, PTL

\* The compare-and-set fence of Heartbeat, Finish and ReclaimExpired keeps the
\* job table and the attempt table in agreement about who runs a job.
THEOREM LeaseFenceHolds == Spec => []LeaseFence
<1>1. IInv => LeaseFence
  BY DEF IInv, RowInv, LeaseFence
<1> QED
  BY <1>1, Invariance, PTL

\* A recorded cancel is never lost to a finish, a retry or a reclaim.
THEOREM CancelWinsHolds == Spec => []CancelWins
<1>1. IInv => CancelWins
  BY DEF IInv, RowInv, CancelWins
<1> QED
  BY <1>1, Invariance, PTL

\* No job is delivered more often than max_attempts allows.
THEOREM AttemptsBoundedHolds == Spec => []AttemptsBounded
<1>1. IInv => AttemptsBounded
  BY DEF IInv, RowInv, AttemptsBounded
<1> QED
  BY <1>1, Invariance, PTL

=============================================================================
