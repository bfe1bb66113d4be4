---------------------------- MODULE WorkerRuntime ----------------------------
(***************************************************************************)
(* Worker processes (internal/worker/worker.go) against the dispatch       *)
(* queue: a process registers, polls, runs a job per claim, heartbeats for *)
(* itself and for every running job, drains, exits, crashes and is started *)
(* again.  The embedded worker lives in the control plane and calls        *)
(* QueueStore directly; a remote one reaches it through the HTTP protocol  *)
(* (internal/queuehttp), whose calls can get lost and whose client turns   *)
(* ReclaimExpired into a no-op.                                            *)
(*                                                                         *)
(* A run is one call of Runtime.execute.  It is "running" until its        *)
(* heartbeat reports a cancel ("canceling": the context is canceled, the   *)
(* heartbeats go on) or fails ("silent": canceled, and no more             *)
(* heartbeats); "ended" is between the return of the executor and Finish.  *)
(***************************************************************************)
EXTENDS DispatchQueue

CONSTANTS
    Embedded,     \* the workers whose ReclaimExpired reaches the store
    Deployments   \* [workers, jobs, faults]: who is deployed, what is enqueued, and
                  \* which faults happen: "crash", "lost" (HTTP calls), "late" (a
                  \* heartbeat comes after the lease it should have extended)

ASSUME RuntimeAssumption ==
    /\ Embedded \subseteq Workers
    /\ \A d \in Deployments : /\ d.workers \subseteq Workers /\ d.jobs \subseteq Jobs
                              /\ d.faults \subseteq {"crash", "lost", "late"}

VARIABLES
    deployment,  \* the one of this behaviour; it never changes
    proc,        \* [Workers -> Process]
    runs         \* the set of Runs in progress

runtimeVars == <<job, attempts, worker, proc, runs>>

Process == [phase : {"down", "up", "draining", "quitting"}, beating : BOOLEAN]

Runs ==
    [worker : Workers, job : Jobs, attempt : Nat,
     status : {"running", "canceling", "silent", "ended"}]

RunsOf(w) == {r \in runs : r.worker = w}
Faults == deployment.faults
Beating == {r \in runs : r.status \in {"running", "canceling"}}
Remote == Workers \ Embedded

\* A call of the worker may fail, before the server acted on it or after.
MayLose(w) == "lost" \in Faults /\ w \in Remote

RuntimeInit ==
    /\ Init
    /\ deployment \in Deployments
    /\ proc = [w \in Workers |-> [phase |-> "down", beating |-> FALSE]]
    /\ runs = {}

-----------------------------------------------------------------------------
\* Runtime.Run.

Start(w) ==
    /\ w \in deployment.workers
    /\ proc[w].phase = "down"
    /\ RegisterWorker(w, TRUE, FALSE)
    /\ proc' = [proc EXCEPT ![w] = [phase |-> "up", beating |-> TRUE]]
    /\ UNCHANGED runs

\* Run returns the error of a registration whose answer is lost: the row is there
\* and nobody listens on it.
StartLost(w) ==
    /\ w \in deployment.workers /\ MayLose(w)
    /\ proc[w].phase = "down"
    /\ RegisterWorker(w, TRUE, FALSE)
    /\ UNCHANGED <<proc, runs>>

\* A poll reclaims and then claims until there is no job.  Any time may pass
\* between these calls, so each is a step of its own.  Mutants: a poll reclaims
\* for its own worker's sake only; the run is told the count before the claim.
PollReclaimOwn(w) ==
    /\ proc[w].phase = "up"
    /\ w \in Embedded
    /\ \E j \in Expired : job[j].leaseWorker = w
    /\ ReclaimExpired
    /\ UNCHANGED <<proc, runs>>

PollReclaim(w) ==
    /\ proc[w].phase = "up"
    /\ w \in Embedded
    /\ ReclaimExpired
    /\ UNCHANGED <<proc, runs>>

PollClaimOldCount(w, j) ==
    /\ proc[w].phase = "up"
    /\ Claim(w, j)
    /\ runs' = runs \cup {[worker |-> w, job |-> j, attempt |-> job[j].attemptCount,
                           status |-> "running"]}
    /\ UNCHANGED proc

PollClaim(w, j) ==
    /\ proc[w].phase = "up"
    /\ Claim(w, j)
    /\ runs' = runs \cup {[worker |-> w, job |-> j, attempt |-> job[j].attemptCount + 1,
                           status |-> "running"]}
    /\ UNCHANGED proc

\* The response of a remote claim is lost: the store has leased the job and
\* nobody runs it.
ClaimLost(w, j) ==
    /\ MayLose(w)
    /\ proc[w].phase = "up"
    /\ Claim(w, j)
    /\ UNCHANGED <<proc, runs>>

\* workerHeartbeatLoop, which goes on while the worker drains.
WorkerBeat(w) ==
    /\ proc[w].beating
    /\ HeartbeatWorker(w, TRUE)
    /\ UNCHANGED <<proc, runs>>

\* The error of the drain call is dropped, and so is that of the last heartbeat.
Drain(w) ==
    /\ proc[w].phase = "up"
    /\ SetWorkerDrain(w, TRUE) \/ (MayLose(w) /\ UNCHANGED vars)
    /\ proc' = [proc EXCEPT ![w].phase = "draining"]
    /\ UNCHANGED runs

\* Mutant: the heartbeat loop is not stopped.
StopHeartbeatNot(w) ==
    /\ proc[w].phase = "draining"
    /\ RunsOf(w) = {}
    /\ proc' = [proc EXCEPT ![w].phase = "quitting"]
    /\ UNCHANGED <<job, attempts, worker, runs>>

\* active.Wait, then the heartbeat loop is stopped and joined.
StopHeartbeat(w) ==
    /\ proc[w].phase = "draining"
    /\ RunsOf(w) = {}
    /\ proc' = [proc EXCEPT ![w] = [phase |-> "quitting", beating |-> FALSE]]
    /\ UNCHANGED <<job, attempts, worker, runs>>

Exit(w) ==
    /\ proc[w].phase = "quitting"
    /\ HeartbeatWorker(w, FALSE) \/ (MayLose(w) /\ UNCHANGED vars)
    /\ proc' = [proc EXCEPT ![w].phase = "down"]
    /\ UNCHANGED runs

Crash(w) ==
    /\ "crash" \in Faults
    /\ proc[w].phase # "down"
    /\ proc' = [proc EXCEPT ![w] = [phase |-> "down", beating |-> FALSE]]
    /\ runs' = runs \ RunsOf(w)
    /\ UNCHANGED <<job, attempts, worker>>

-----------------------------------------------------------------------------
\* Runtime.execute.

Becomes(r, status) == runs' = (runs \ {r}) \cup {[r EXCEPT !.status = status]}

\* A heartbeat that extends the lease also brings back the cancel flag.
RunBeats(r) ==
    /\ r \in Beating
    /\ Heartbeat(r.job, r.attempt)
    /\ IF job[r.job].cancelRequested THEN Becomes(r, "canceling") ELSE UNCHANGED runs
    /\ UNCHANGED proc

\* Any error of the heartbeat, a stale claim or a lost call, cancels the run and
\* ends its heartbeats.
RunBeatFails(r) ==
    /\ r \in Beating
    /\ \/ ~HoldsLease(r.job, r.attempt) /\ UNCHANGED vars
       \/ MayLose(r.worker) /\ (Heartbeat(r.job, r.attempt) \/ UNCHANGED vars)
    /\ Becomes(r, "silent")
    /\ UNCHANGED proc

\* The executor returns.  It need not: an agent may take any time.
RunReturns(r) ==
    /\ r \in runs
    /\ r.status # "ended"
    /\ Becomes(r, "ended")
    /\ UNCHANGED <<job, attempts, worker, proc>>

\* ErrStaleClaim is dropped: the job has been given to another attempt.
RunFinishes(r) ==
    /\ r \in runs
    /\ r.status = "ended"
    /\ \/ \E result \in Results, d \in RetryDelays : Finish(r.job, r.attempt, result, d)
       \/ ~HoldsLease(r.job, r.attempt) /\ UNCHANGED vars
    /\ runs' = runs \ {r}
    /\ UNCHANGED proc

\* A remote Finish that does not arrive is reported and not repeated.
FinishLost(r) ==
    /\ r \in runs
    /\ r.status = "ended" /\ MayLose(r.worker)
    /\ runs' = runs \ {r}
    /\ UNCHANGED <<job, attempts, worker, proc>>

-----------------------------------------------------------------------------
\* Without "late" a lease does not run out under a run that heartbeats: New
\* refuses a heartbeat interval that is not shorter than the lease.
TimePasses ==
    /\ \/ "late" \in Faults
       \/ \A r \in Beating : HoldsLease(r.job, r.attempt) => job[r.job].leaseTTL > 1
    /\ Tick
    /\ UNCHANGED <<proc, runs>>

\* The control plane's own part.
ControlPlane ==
    /\ \E j \in deployment.jobs : Enqueue(j) \/ RequestCancel(j)
    /\ UNCHANGED <<proc, runs>>

Step ==
    \/ ControlPlane
    \/ TimePasses
    \/ \E w \in Workers :
          \/ Start(w) \/ StartLost(w) \/ PollReclaim(w) \/ WorkerBeat(w)
          \/ Drain(w) \/ StopHeartbeat(w) \/ Exit(w) \/ Crash(w)
          \/ \E j \in Jobs : PollClaim(w, j) \/ ClaimLost(w, j)
    \/ \E r \in runs :
          RunBeats(r) \/ RunBeatFails(r) \/ RunReturns(r) \/ RunFinishes(r) \/ FinishLost(r)

RuntimeNext == Step /\ UNCHANGED deployment

RuntimeSpec == RuntimeInit /\ [][RuntimeNext]_<<runtimeVars, deployment>>

\* Fairness.  Time passes; a stopped or crashed process is started again, and a
\* draining one goes on draining; a running worker heartbeats; an agent run
\* returns in the end and its result is sent.  A poll that finds something to
\* reclaim or to claim is strongly fair: crashes and drains do not for ever fall
\* into the half second between two polls.
Fairness ==
    /\ WF_runtimeVars(TimePasses)
    /\ \A w \in Workers :
          /\ WF_runtimeVars(Start(w) \/ StopHeartbeat(w) \/ Exit(w))
          /\ WF_runtimeVars(WorkerBeat(w))
          /\ SF_runtimeVars(\E j \in Jobs : PollClaim(w, j))
    /\ \A w \in Embedded : SF_runtimeVars(PollReclaim(w))
    /\ WF_runtimeVars(\E r \in runs : RunReturns(r) \/ RunFinishes(r))

FairRuntimeSpec == RuntimeSpec /\ Fairness

-----------------------------------------------------------------------------
\* The processes and the runs have their types, and a run names the attempt it
\* was started for.
RuntimeTypeOK ==
    /\ deployment \in Deployments
    /\ proc \in [Workers -> Process]
    /\ runs \subseteq Runs
    /\ \A r \in runs : r.attempt \in 1..job[r.job].attemptCount

\* The runs of a worker whose claim is still theirs.
LiveRuns(w) == {r \in RunsOf(w) : HoldsLease(r.job, r.attempt)}

\* "Worker capacity is enforced independently": a worker process never has more
\* claims in hand than it advertised.  The counter behind it is moved by Claim,
\* Finish, ReclaimExpired and, at a restart, RegisterWorker.
CapacityAlways ==
    \A w \in Workers : Cardinality(LiveRuns(w)) <= WorkerSpec[w].capacity

\* Capacity holds where every claim reaches a process that lives to finish it: a
\* worker that is started again while a lease of its earlier life is out has its
\* counter set to zero and, when that lease is reclaimed, lowered once more.
CapacityRespected == Faults \subseteq {"late"} => CapacityAlways

\* The counter is the number of leases: no call of a worker that drains before
\* it stops is counted twice or not at all, so it neither refuses work it has
\* room for nor takes more.
CountIsExact ==
    Faults \subseteq {"late"} => \A w \in Workers : worker[w].activeJobs = Cardinality(LeasesOf(w))

\* A worker that has drained and exited is unready: no row that reads ready is
\* left behind with no process listening on it.
DrainedAlwaysDown ==
    \A w \in Workers : proc[w].phase = "down" /\ worker[w].draining => ~worker[w].ready

\* The same where the process lives to make the two calls of its exit and they
\* arrive: Runtime.Run joins the heartbeat loop, which writes ready, before it
\* writes unready.  Nobody repeats a final heartbeat that a remote worker lost.
DrainedStaysDown ==
    "crash" \notin Faults => \A w \in Workers :
        proc[w].phase = "down" /\ worker[w].draining /\ ~MayLose(w) => ~worker[w].ready

\* While heartbeats are in time a job runs in one place: whatever crashes and
\* whatever calls are lost, a job is not given out again while a run of it that
\* has not been canceled goes on.
NoConcurrentRuns ==
    "late" \notin Faults => \A r, s \in runs :
        r.job = s.job /\ {r.status, s.status} \subseteq {"running"} => r = s

\* "If a worker disappears, the control plane expires the attempt and makes the
\* job available again": a lease with nobody running the job ends.
OrphanLeaseEnds ==
    \A j \in Jobs : \A n \in 1..MaxAttempts(j) :
        HoldsLease(j, n) /\ ~(\E r \in runs : r.job = j /\ r.attempt = n)
            ~> ~HoldsLease(j, n)

\* Every job that was enqueued ends, through crashes, lost calls, late
\* heartbeats, redeliveries and restarts.
EveryJobEnds ==
    \A j \in Jobs : job[j].state = "queued" ~> job[j].state \in Terminal

=============================================================================
