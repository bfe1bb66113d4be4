---------------------------- MODULE DispatchQueue ----------------------------
(***************************************************************************)
(* The durable dispatch queue: the three SQLite tables dispatch_jobs,      *)
(* dispatch_attempts and worker_registrations, and the operations of       *)
(* QueueStore (internal/db/queue_store.go) on them.  The database is       *)
(* opened with _txlock=immediate, so an operation, which is one statement  *)
(* or one transaction, is one atomic action.  An operation that returns an *)
(* error changes no row; its failure is the negation of its guard.         *)
(*                                                                         *)
(* Time is relative.  The code only ever compares a stored time with the   *)
(* current one, so a row holds how long is left until a lease expires or a *)
(* job becomes available, and how long a worker has been silent; Tick lets *)
(* one unit pass everywhere.                                               *)
(*                                                                         *)
(* The n-th attempt of job j stands for its (attempt id, claim token)      *)
(* pair.  Both are drawn fresh for every claim and attempt numbers are     *)
(* unique per job, so comparing numbers is comparing the pairs.            *)
(***************************************************************************)
EXTENDS Integers, Sequences, FiniteSets

CONSTANTS
    Jobs,           \* job ids the dispatcher may enqueue
    Workers,        \* worker ids
    NoWorker,       \* the NULL of a worker column
    None,           \* the empty string of a scope, pool or affinity key
    JobSpec,        \* [Jobs -> record]: the immutable columns of a job
    WorkerSpec,     \* [Workers -> record]: what a worker registers with
    Policy,         \* [Scopes -> record]: default limit and per-value overrides
    LeaseDuration,  \* how long a claim or a heartbeat leases a job
    WorkerTimeout,  \* silence after which a worker is unhealthy
    RetryDelays,    \* delays a retrying FinishResult may ask for
    ScanLimit       \* how many candidate rows a claim reads (LIMIT 100)

\* The columns withinPolicy counts active leases by.
Scopes == {"project", "source", "agent", "runner", "pool"}

ASSUME SpecAssumption ==
    /\ NoWorker \notin Workers
    /\ \A j \in Jobs : JobSpec[j].maxAttempts \in Int
    /\ \A w \in Workers : WorkerSpec[w].capacity \in Nat \ {0}

\* A table holds finitely many rows.
ASSUME JobsFinite == IsFiniteSet(Jobs)

\* A limit may be any integer; one that is not positive is no limit.
ASSUME PolicyAssumption ==
    \A s \in Scopes : /\ Policy[s].default \in Int
                      /\ \A v \in DOMAIN Policy[s].override : Policy[s].override[v] \in Int

ASSUME TimeAssumption ==
    /\ LeaseDuration \in Nat \ {0}
    /\ WorkerTimeout \in Nat
    /\ RetryDelays \subseteq Nat /\ 0 \in RetryDelays
    /\ ScanLimit \in Nat \ {0}

VARIABLES
    job,       \* [Jobs -> JobRow]: dispatch_jobs, "absent" before Enqueue
    attempts,  \* [Jobs -> Seq(AttemptRow)]: dispatch_attempts
    worker     \* [Workers -> WorkerRow]: worker_registrations

vars == <<job, attempts, worker>>

Terminal == {"done", "failed", "canceled"}
JobStates == {"absent", "queued", "leased"} \cup Terminal
AttemptStates == {"active", "succeeded", "failed", "expired", "canceled"}

JobRow ==
    [state : JobStates, created : Nat, attemptCount : Nat, cancelRequested : BOOLEAN,
     availableIn : Nat, affinityWorker : Workers \cup {NoWorker},
     leaseAttempt : Nat, leaseWorker : Workers \cup {NoWorker}, leaseTTL : Nat]

AttemptRow == [worker : Workers, state : AttemptStates]

WorkerRow ==
    [registered : BOOLEAN, ready : BOOLEAN, draining : BOOLEAN,
     activeJobs : Nat, silence : Nat]

\* INSERT OR IGNORE stores a non-positive max_attempts as 3.
MaxAttempts(j) == IF JobSpec[j].maxAttempts <= 0 THEN 3 ELSE JobSpec[j].maxAttempts

Present == {j \in Jobs : job[j].state # "absent"}
Leased == {j \in Jobs : job[j].state = "leased"}
LeasesOf(w) == {j \in Leased : job[j].leaseWorker = w}

Init ==
    /\ job = [j \in Jobs |->
                [state |-> "absent", created |-> 0, attemptCount |-> 0,
                 cancelRequested |-> FALSE, availableIn |-> 0, affinityWorker |-> NoWorker,
                 leaseAttempt |-> 0, leaseWorker |-> NoWorker, leaseTTL |-> 0]]
    /\ attempts = [j \in Jobs |-> << >>]
    /\ worker = [w \in Workers |->
                   [registered |-> FALSE, ready |-> FALSE, draining |-> FALSE,
                    activeJobs |-> 0, silence |-> 0]]

-----------------------------------------------------------------------------
\* Operations of the control plane.

\* A job whose idempotency key is taken is not inserted: the caller is handed
\* the row that holds the key and no table changes.
KeyTaken(j) == \E k \in Present : JobSpec[k].key = JobSpec[j].key

Enqueue(j) ==
    /\ job[j].state = "absent"
    /\ ~KeyTaken(j)
    /\ job' = [job EXCEPT ![j] = [@ EXCEPT !.state = "queued",
                                          !.created = Cardinality(Present) + 1]]
    /\ UNCHANGED <<attempts, worker>>

\* RequestCancel ends a queued job and only flags a leased one.
Cancelable(j) == job[j].state \in {"queued", "leased"}

Cancel(S) ==
    /\ job' = [j \in Jobs |->
                 IF j \in S
                 THEN [job[j] EXCEPT
                         !.cancelRequested = TRUE,
                         !.state = IF @ = "queued" THEN "canceled" ELSE @]
                 ELSE job[j]]
    /\ UNCHANGED <<attempts, worker>>

RequestCancel(j) == Cancelable(j) /\ Cancel({j})

\* RequestCancelFor cancels every live job of one task's workflow in one UPDATE.
RequestCancelFor(t, wf) ==
    LET S == {j \in Jobs : /\ Cancelable(j)
                           /\ JobSpec[j].task = t
                           /\ JobSpec[j].workflow = wf}
    IN  S # {} /\ Cancel(S)

ReleaseAffinity(j) ==
    /\ job[j].state = "queued"
    /\ job' = [job EXCEPT ![j].affinityWorker = NoWorker]
    /\ UNCHANGED <<attempts, worker>>

\* The count is reset whatever leases name the worker.
RegisterWorker(w, ready, draining) ==
    /\ worker' = [worker EXCEPT ![w] =
                    [registered |-> TRUE, ready |-> ready, draining |-> draining,
                     activeJobs |-> 0, silence |-> 0]]
    /\ UNCHANGED <<job, attempts>>

HeartbeatWorker(w, ready) ==
    /\ worker[w].registered
    /\ worker' = [worker EXCEPT ![w] = [@ EXCEPT !.ready = ready, !.silence = 0]]
    /\ UNCHANGED <<job, attempts>>

SetWorkerDrain(w, draining) ==
    /\ worker[w].registered
    /\ worker' = [worker EXCEPT ![w] = [@ EXCEPT !.draining = draining, !.ready = ~draining]]
    /\ UNCHANGED <<job, attempts>>

-----------------------------------------------------------------------------
\* Claim.

\* containsAll over labels and capabilities, and the job's pool when it has one.
Compatible(w, j) ==
    /\ JobSpec[j].pool \in {None, WorkerSpec[w].pool}
    /\ JobSpec[j].labels \subseteq WorkerSpec[w].labels
    /\ JobSpec[j].capabilities \subseteq WorkerSpec[w].capabilities

\* Active leases counted by one scope column.
LeasedIn(s, v) == {j \in Leased : JobSpec[j].scope[s] = v}

ScopedLimit(s, v) ==
    IF v \in DOMAIN Policy[s].override THEN Policy[s].override[v] ELSE Policy[s].default

\* Mutant: an off-by-one admits one lease more than the limit.
WithinPolicyOneMore(j) ==
    \A s \in Scopes :
        LET v == JobSpec[j].scope[s]
        IN  v # None /\ ScopedLimit(s, v) > 0
               => Cardinality(LeasedIn(s, v)) <= ScopedLimit(s, v)

\* A limit that is not positive, or an empty column, is unlimited.
WithinPolicy(j) ==
    \A s \in Scopes :
        LET v == JobSpec[j].scope[s]
        IN  v # None /\ ScopedLimit(s, v) > 0
               => Cardinality(LeasedIn(s, v)) < ScopedLimit(s, v)

\* ORDER BY priority DESC, created_at ASC.
Precedes(j, k) ==
    \/ JobSpec[j].priority > JobSpec[k].priority
    \/ JobSpec[j].priority = JobSpec[k].priority /\ job[j].created < job[k].created

\* The rows the candidate query ranges over, before and after its LIMIT.
Claimable(w) ==
    {j \in Jobs : /\ job[j].state = "queued"
                  /\ ~job[j].cancelRequested
                  /\ job[j].availableIn = 0
                  /\ job[j].affinityWorker \in {NoWorker, w}}

Candidates(w) ==
    {j \in Claimable(w) : Cardinality({k \in Claimable(w) : Precedes(k, j)}) < ScanLimit}

Acceptable(w) == {j \in Candidates(w) : Compatible(w, j) /\ WithinPolicy(j)}

\* Mutants: the capacity test lets one more in; a worker that has been silent
\* for just the timeout is unhealthy.
MayClaimOneMore(w) ==
    /\ worker[w].registered
    /\ worker[w].ready /\ ~worker[w].draining
    /\ worker[w].silence <= WorkerTimeout
    /\ worker[w].activeJobs <= WorkerSpec[w].capacity

MayClaimStrict(w) ==
    /\ worker[w].registered
    /\ worker[w].ready /\ ~worker[w].draining
    /\ worker[w].silence < WorkerTimeout
    /\ worker[w].activeJobs < WorkerSpec[w].capacity

\* ErrWorkerUnknown, ErrWorkerDraining, ErrWorkerUnhealthy and the capacity test.
MayClaim(w) ==
    /\ worker[w].registered
    /\ worker[w].ready /\ ~worker[w].draining
    /\ worker[w].silence <= WorkerTimeout
    /\ worker[w].activeJobs < WorkerSpec[w].capacity

\* The claimed row: a new attempt, a lease for w, and the affinity pin when the
\* job has an affinity key and no pin yet.
ClaimedRow(w, j) ==
    [job[j] EXCEPT
       !.state = "leased", !.attemptCount = @ + 1, !.leaseAttempt = job[j].attemptCount + 1,
       !.leaseWorker = w, !.leaseTTL = LeaseDuration,
       !.affinityWorker = IF JobSpec[j].affinityKey # None /\ @ = NoWorker THEN w ELSE @]

Claim(w, j) ==
    /\ MayClaim(w)
    /\ j \in Acceptable(w)
    /\ \A k \in Acceptable(w) : k = j \/ Precedes(j, k)
    /\ job' = [job EXCEPT ![j] = ClaimedRow(w, j)]
    /\ attempts' = [attempts EXCEPT ![j] = Append(@, [worker |-> w, state |-> "active"])]
    /\ worker' = [worker EXCEPT ![w].activeJobs = @ + 1]

-----------------------------------------------------------------------------
\* Operations on a claimed attempt.

\* Mutant: the fence tests the state of the job and not the attempt.
HoldsLeaseAnyAttempt(j, n) == job[j].state = "leased"

\* The compare-and-set fence of Heartbeat and Finish.
HoldsLease(j, n) == job[j].state = "leased" /\ job[j].leaseAttempt = n

\* The attempt row's own copy of the expiry is never read and is left out.
Heartbeat(j, n) ==
    /\ n \in DOMAIN attempts[j] /\ attempts[j][n].state = "active"
    /\ HoldsLease(j, n)
    /\ job' = [job EXCEPT ![j].leaseTTL = LeaseDuration]
    /\ UNCHANGED <<attempts, worker>>

\* Mutant: the slot is given back without the test for zero.
ReleasedBelowZero(w, n) == [worker EXCEPT ![w].activeJobs = @ - n]

Released(w, n) == [worker EXCEPT ![w].activeJobs = IF @ > n THEN @ - n ELSE 0]

\* The row of a job whose lease ends, in state st, available after delay d.
Unleased(j, st, d) ==
    [job[j] EXCEPT !.state = st, !.availableIn = d, !.leaseAttempt = 0,
                   !.leaseWorker = NoWorker, !.leaseTTL = 0]

\* UPDATE dispatch_attempts SET state=st ... AND state='active'.
EndedAttempt(j, n, st) ==
    [attempts[j] EXCEPT ![n].state = IF @ = "active" THEN st ELSE @]

Results == {"success", "failure", "retry"}

\* Mutant: the result is looked at before the cancel flag.
FinishedJobResultFirst(j, result) ==
    CASE result = "success" -> "done"
      [] result # "success" /\ job[j].cancelRequested -> "canceled"
      [] result = "retry" /\ ~job[j].cancelRequested
         /\ job[j].attemptCount < MaxAttempts(j) -> "queued"
      [] OTHER -> "failed"

FinishedJob(j, result) ==
    CASE job[j].cancelRequested -> "canceled"
      [] ~job[j].cancelRequested /\ result = "success" -> "done"
      [] ~job[j].cancelRequested /\ result = "retry"
         /\ job[j].attemptCount < MaxAttempts(j) -> "queued"
      [] OTHER -> "failed"

FinishedAttempt(j, result) ==
    CASE job[j].cancelRequested -> "canceled"
      [] ~job[j].cancelRequested /\ result = "success" -> "succeeded"
      [] OTHER -> "failed"

\* Mutant: Finish identifies the attempt and does not look at the job's lease.
FinishUnfenced(j, n, result, delay) ==
    /\ delay = 0 \/ FinishedJob(j, result) = "queued"
    /\ attempts' = [attempts EXCEPT ![j] = EndedAttempt(j, n, FinishedAttempt(j, result))]
    /\ job' = [job EXCEPT ![j] = Unleased(j, FinishedJob(j, result), delay)]
    /\ worker' = Released(attempts[j][n].worker, 1)

Finish(j, n, result, delay) ==
    /\ HoldsLease(j, n)
    /\ delay = 0 \/ FinishedJob(j, result) = "queued"
    /\ attempts' = [attempts EXCEPT ![j] = EndedAttempt(j, n, FinishedAttempt(j, result))]
    /\ job' = [job EXCEPT ![j] = Unleased(j, FinishedJob(j, result), delay)]
    /\ worker' = Released(job[j].leaseWorker, 1)

\* Mutant: a lease in its last unit of time counts as expired.
ExpiredEarly == {j \in Leased : job[j].leaseTTL <= 1}

Expired == {j \in Leased : job[j].leaseTTL = 0}

\* Mutant: an expired lease is always worth one more attempt.
ReclaimedJobOneMore(j) ==
    CASE job[j].cancelRequested -> "canceled"
      [] ~job[j].cancelRequested /\ job[j].attemptCount > MaxAttempts(j) -> "failed"
      [] OTHER -> "queued"

ReclaimedJob(j) ==
    CASE job[j].cancelRequested -> "canceled"
      [] ~job[j].cancelRequested /\ job[j].attemptCount >= MaxAttempts(j) -> "failed"
      [] OTHER -> "queued"

\* Mutant: reclaiming a lease does not give the worker its slot back.
ReclaimExpiredKeepsSlot ==
    /\ Expired # {}
    /\ attempts' = [j \in Jobs |->
                      IF j \in Expired
                      THEN EndedAttempt(j, job[j].leaseAttempt, "expired")
                      ELSE attempts[j]]
    /\ job' = [j \in Jobs |->
                 IF j \in Expired THEN Unleased(j, ReclaimedJob(j), 0) ELSE job[j]]
    /\ UNCHANGED worker

\* One transaction over every expired lease.
ReclaimExpired ==
    /\ Expired # {}
    /\ attempts' = [j \in Jobs |->
                      IF j \in Expired
                      THEN EndedAttempt(j, job[j].leaseAttempt, "expired")
                      ELSE attempts[j]]
    /\ job' = [j \in Jobs |->
                 IF j \in Expired THEN Unleased(j, ReclaimedJob(j), 0) ELSE job[j]]
    /\ worker' = [w \in Workers |->
                    Released(w, Cardinality(LeasesOf(w) \cap Expired))[w]]

\* One unit of time passes for every stored time.  Silence beyond the timeout
\* is all the same to Claim.
Tick ==
    /\ job' = [j \in Jobs |->
                 [job[j] EXCEPT !.leaseTTL = IF @ > 0 THEN @ - 1 ELSE 0,
                                !.availableIn = IF @ > 0 THEN @ - 1 ELSE 0]]
    /\ worker' = [w \in Workers |->
                    [worker[w] EXCEPT !.silence = IF @ > WorkerTimeout THEN @ ELSE @ + 1]]
    /\ UNCHANGED attempts

-----------------------------------------------------------------------------
\* Reading the queue.  JobLeased is the constant the callers of ListJobs pass.
JobLeased == "running"

ListJobs(st) == {j \in Present : job[j].state = st}

-----------------------------------------------------------------------------
Tasks == {JobSpec[j].task : j \in Jobs}
Workflows == {JobSpec[j].workflow : j \in Jobs}

Next ==
    \/ \E j \in Jobs : Enqueue(j) \/ RequestCancel(j) \/ ReleaseAffinity(j)
    \/ \E t \in Tasks, wf \in Workflows : RequestCancelFor(t, wf)
    \/ \E w \in Workers, b \in BOOLEAN :
          \/ RegisterWorker(w, b, FALSE)
          \/ HeartbeatWorker(w, b)
          \/ SetWorkerDrain(w, b)
    \/ \E w \in Workers, j \in Jobs : Claim(w, j)
    \/ \E j \in Jobs : \E n \in DOMAIN attempts[j] :
          \/ Heartbeat(j, n)
          \/ \E r \in Results, d \in RetryDelays : Finish(j, n, r, d)
    \/ ReclaimExpired
    \/ Tick

Spec == Init /\ [][Next]_vars

-----------------------------------------------------------------------------
\* The columns have their types.  Counters, delays and the time left on a lease
\* never go below zero, although Released and Tick count them down.
TypeOK ==
    /\ job \in [Jobs -> JobRow]
    /\ attempts \in [Jobs -> Seq(AttemptRow)]
    /\ worker \in [Workers -> WorkerRow]

\* The two tables agree on who runs a job.  A leased job's lease names its
\* newest attempt, that attempt is active and belongs to the worker the lease
\* names; every older attempt, and every attempt of a job that is not leased,
\* has ended.  This is what "at most one active lease" and the compare-and-set
\* fence of Heartbeat, Finish and ReclaimExpired are for: a late Finish of a
\* reclaimed attempt must not end the attempt that replaced it.
LeaseFence ==
    \A j \in Jobs :
        /\ Len(attempts[j]) = job[j].attemptCount
        /\ job[j].state = "leased" =>
              /\ job[j].leaseAttempt = job[j].attemptCount
              /\ job[j].attemptCount > 0
              /\ attempts[j][job[j].attemptCount].worker = job[j].leaseWorker
        /\ \A n \in 1..Len(attempts[j]) :
              attempts[j][n].state = "active" <=> HoldsLease(j, n)

\* A cancellation wins over a simultaneous successful finish and over a
\* redelivery: once a cancel is recorded on a job, the job is canceled or the
\* attempt that will cancel it still holds the lease.
CancelWins ==
    \A j \in Jobs : job[j].cancelRequested => job[j].state \in {"leased", "canceled"}

\* Retries are bounded: no order of claims, retrying finishes and reclaimed
\* leases gives a job more than max_attempts attempts, and a job that waits in
\* the queue always has one left.
AttemptsBounded ==
    \A j \in Jobs :
        /\ job[j].attemptCount <= MaxAttempts(j)
        /\ job[j].state = "queued" => job[j].attemptCount < MaxAttempts(j)

\* The concurrency policy holds of the leases themselves, whoever granted them:
\* withinPolicy counts the leased rows inside the claiming transaction.
PolicyRespected ==
    \A j \in Leased, s \in Scopes :
        LET v == JobSpec[j].scope[s]
        IN  v # None /\ ScopedLimit(s, v) > 0
               => Cardinality(LeasedIn(s, v)) <= ScopedLimit(s, v)

\* The counter Claim compares with the capacity never exceeds the leases that
\* name the worker, so no lease that is gone keeps a slot occupied: every way a
\* lease ends gives its slot back (issue #375).
NoPhantomLoad ==
    \A w \in Workers : worker[w].activeJobs <= Cardinality(LeasesOf(w))

\* Jobs and attempts that have ended stay as they are.
EndedStays ==
    \A j \in Jobs :
        /\ job[j].state \in Terminal =>
              job'[j].state = job[j].state /\ attempts'[j] = attempts[j]
        /\ \A n \in DOMAIN attempts[j] :
              attempts[j][n].state # "active" => attempts'[j][n] = attempts[j][n]

\* No operation changes a job that has ended, nor an attempt that has ended:
\* not a late Finish, not a late cancel, not the reclaim of its old lease.
HistoryIsFinal == [][EndedStays]_vars

-----------------------------------------------------------------------------
\* What the documentation and the code's own words say, and the queue does not.

\* "Affinity pins later claims for the task to the first worker until
\* explicitly released": a job is not claimed by one worker while another job
\* with its affinity key is pinned to a different one.
AffinityPinsTask ==
    [][\A w \in Workers, j, k \in Jobs :
          /\ job[j].state = "queued" /\ job'[j].leaseWorker = w
          /\ JobSpec[j].affinityKey # None
          /\ JobSpec[k].affinityKey = JobSpec[j].affinityKey
          => job[k].affinityWorker \in {NoWorker, w}]_vars

\* Claim answers ErrNoJob, "no compatible queued job", to a worker with a free
\* slot only when the queue has no job that it could be given.
NoJobMeansNone ==
    \A w \in Workers :
        MayClaim(w) /\ Acceptable(w) = {} =>
            ~\E j \in Claimable(w) : Compatible(w, j) /\ WithinPolicy(j)

\* ListJobs(JobLeased), with which the concurrency test looks for jobs left
\* leased, lists the jobs that are leased.
LeasedJobsListed == ListJobs(JobLeased) = Leased

-----------------------------------------------------------------------------
\* The queue implements JobLifecycle: a lease is a holder.
PhaseOf(st) == IF st = "queued" THEN "waiting" ELSE IF st = "leased" THEN "held" ELSE st

lifeBar ==
    [j \in Jobs |->
       [phase |-> PhaseOf(job[j].state), tries |-> job[j].attemptCount,
        withdrawn |-> job[j].cancelRequested]]

Life == INSTANCE JobLifecycle
            WITH Job <- Jobs, MaxTries <- [j \in Jobs |-> MaxAttempts(j)], life <- lifeBar

\* Whatever the workers, clocks, retries and reclaims do, every job goes through
\* the life cycle: submitted once, held by one worker at a time, delivered at
\* most max_attempts times, canceled if a cancel was recorded, ended once.
ImplementsLifecycle == Life!Lifecycle

=============================================================================
