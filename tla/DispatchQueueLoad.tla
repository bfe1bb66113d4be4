-------------------------- MODULE DispatchQueueLoad --------------------------
(***************************************************************************)
(* The counting invariants of the queue: what the leases add up to, per    *)
(* worker and per policy scope.  Both follow from how each operation       *)
(* changes the set of leased rows.                                         *)
(***************************************************************************)
EXTENDS DispatchQueueProofs

\* The row is leased before and after the step, by the same worker, or neither
\* before nor after.
LeaseStays(j) ==
    /\ job'[j].state = "leased" <=> job[j].state = "leased"
    /\ job[j].state = "leased" => job'[j].leaseWorker = job[j].leaseWorker

\* No lease begins or ends and no worker is charged with one.
Quiet ==
    /\ \A j \in Jobs : LeaseStays(j)
    /\ \A w \in Workers : worker'[w].activeJobs <= worker[w].activeJobs

-----------------------------------------------------------------------------
LEMMA LeasesFinite ==
    /\ \A w \in Workers : /\ IsFiniteSet(LeasesOf(w)) /\ Cardinality(LeasesOf(w)) \in Nat
                          /\ IsFiniteSet(LeasesOf(w)') /\ Cardinality(LeasesOf(w)') \in Nat
    /\ \A s, v : /\ IsFiniteSet(LeasedIn(s, v)) /\ Cardinality(LeasedIn(s, v)) \in Nat
                 /\ IsFiniteSet(LeasedIn(s, v)') /\ Cardinality(LeasedIn(s, v)') \in Nat
<1>1. \A S \in SUBSET Jobs : IsFiniteSet(S) /\ Cardinality(S) \in Nat
  BY JobsFinite, FS_Subset, FS_CardinalityType
<1>2. \A w \in Workers : LeasesOf(w) \in SUBSET Jobs /\ LeasesOf(w)' \in SUBSET Jobs
  BY DEF LeasesOf, Leased
<1>3. \A s, v : LeasedIn(s, v) \in SUBSET Jobs /\ LeasedIn(s, v)' \in SUBSET Jobs
  BY DEF LeasedIn, Leased
<1> QED
  BY <1>1, <1>2, <1>3, Zenon

LEMMA LimitType == \A s \in Scopes : \A v : ScopedLimit(s, v) \in Int
BY PolicyAssumption DEF ScopedLimit

LEMMA CountersAreNat == IInv => \A w \in Workers : worker[w].activeJobs \in Nat
BY DEF IInv, TypeOK, WorkerRow

\* Every operation but Claim, Finish and ReclaimExpired is quiet.
LEMMA OthersQuiet ==
    ASSUME IInv, [Next]_vars
    PROVE  \/ Quiet
           \/ \E w \in Workers, j \in Jobs : Claim(w, j)
           \/ \E j \in Jobs : \E n \in DOMAIN attempts[j], r \in Results, d \in RetryDelays :
                 Finish(j, n, r, d)
           \/ ReclaimExpired
<1>1. ASSUME UNCHANGED worker, \A j \in Jobs : LeaseStays(j)
      PROVE  Quiet
  BY <1>1, CountersAreNat DEF Quiet
<1>2. ASSUME UNCHANGED job, \A w \in Workers : worker'[w].activeJobs <= worker[w].activeJobs
      PROVE  Quiet
  BY <1>2 DEF Quiet, LeaseStays
<1>3. ASSUME NEW j \in Jobs, Enqueue(j) PROVE Quiet
  <2>1. ASSUME NEW k \in Jobs PROVE LeaseStays(k)
    BY <1>3, SMTT(30) DEF Enqueue, IInv, TypeOK, JobRow, LeaseStays
  <2> QED
    BY <1>1, <1>3, <2>1 DEF Enqueue
<1>4. ASSUME NEW S, \A j \in S : j \in Jobs /\ Cancelable(j), Cancel(S) PROVE Quiet
  <2>1. ASSUME NEW k \in Jobs PROVE LeaseStays(k)
    <3>1. job[k] \in JobRow
      BY DEF IInv, TypeOK
    <3>2. CASE k \in S
      BY <1>4, <3>1, <3>2, Zenon DEF Cancel, JobRow, LeaseStays
    <3>3. CASE k \notin S
      BY <1>4, <3>3, Zenon DEF Cancel, LeaseStays
    <3> QED
      BY <3>2, <3>3
  <2> QED
    BY <1>1, <1>4, <2>1, Zenon DEF Cancel
<1>5. ASSUME NEW j \in Jobs, ReleaseAffinity(j) PROVE Quiet
  <2>1. ASSUME NEW k \in Jobs PROVE LeaseStays(k)
    BY <1>5, SMTT(30) DEF ReleaseAffinity, IInv, TypeOK, JobRow, LeaseStays
  <2> QED
    BY <1>1, <1>5, <2>1 DEF ReleaseAffinity
<1>6. ASSUME NEW w \in Workers, NEW b \in BOOLEAN,
             RegisterWorker(w, b, FALSE) \/ HeartbeatWorker(w, b) \/ SetWorkerDrain(w, b)
      PROVE  Quiet
  <2>1. ASSUME NEW v \in Workers PROVE worker'[v].activeJobs <= worker[v].activeJobs
    <3>1. worker[v] \in WorkerRow /\ worker[v].activeJobs \in Nat
      BY CountersAreNat DEF IInv, TypeOK
    <3>2. CASE RegisterWorker(w, b, FALSE)
      BY <3>1, <3>2 DEF RegisterWorker, IInv, TypeOK
    <3>3. CASE HeartbeatWorker(w, b)
      BY <3>1, <3>3 DEF HeartbeatWorker, IInv, TypeOK, WorkerRow
    <3>4. CASE SetWorkerDrain(w, b)
      BY <3>1, <3>4 DEF SetWorkerDrain, IInv, TypeOK, WorkerRow
    <3> QED
      BY <1>6, <3>2, <3>3, <3>4, Zenon
  <2> QED
    BY <1>2, <1>6, <2>1 DEF RegisterWorker, HeartbeatWorker, SetWorkerDrain
<1>7. ASSUME NEW j \in Jobs, NEW n \in DOMAIN attempts[j], Heartbeat(j, n) PROVE Quiet
  <2>1. ASSUME NEW k \in Jobs PROVE LeaseStays(k)
    BY <1>7, SMTT(30) DEF Heartbeat, IInv, TypeOK, JobRow, LeaseStays
  <2> QED
    BY <1>1, <1>7, <2>1 DEF Heartbeat
<1>8. ASSUME Tick PROVE Quiet
  <2>1. ASSUME NEW k \in Jobs PROVE LeaseStays(k)
    BY <1>8, ZenonT(40) DEF Tick, IInv, TypeOK, JobRow, LeaseStays
  <2>2. ASSUME NEW v \in Workers PROVE worker'[v].activeJobs <= worker[v].activeJobs
    <3>1. worker[v] \in WorkerRow /\ worker[v].activeJobs \in Nat
      BY CountersAreNat DEF IInv, TypeOK
    <3>2. PICK x : worker'[v] = [worker[v] EXCEPT !.silence = x]
      BY <1>8, Zenon DEF Tick
    <3>3. worker'[v].activeJobs = worker[v].activeJobs
      BY <3>1, <3>2 DEF WorkerRow
    <3> QED
      BY <3>1, <3>3
  <2> QED
    BY <2>1, <2>2 DEF Quiet
<1>9. CASE UNCHANGED vars
  BY <1>1, <1>9 DEF vars, LeaseStays
<1> QED
  BY <1>3, <1>4, <1>5, <1>6, <1>7, <1>8, <1>9, Zenon
  DEF Next, RequestCancel, RequestCancelFor

\* The leased rows after each operation, as sets.
LEMMA QuietLeases ==
    ASSUME Quiet
    PROVE  /\ Leased' = Leased
           /\ \A w \in Workers : LeasesOf(w)' = LeasesOf(w)
BY DEF Quiet, LeaseStays, Leased, LeasesOf

LEMMA ClaimLeases ==
    ASSUME IInv, NEW w \in Workers, NEW j \in Jobs, Claim(w, j)
    PROVE  /\ j \notin Leased /\ Leased' = Leased \cup {j}
           /\ LeasesOf(w)' = LeasesOf(w) \cup {j}
           /\ \A v \in Workers \ {w} : LeasesOf(v)' = LeasesOf(v)
<1>1. job[j].state = "queued"
  BY DEF Claim, Acceptable, Candidates, Claimable
<1>2. job' = [job EXCEPT ![j] = ClaimedRow(w, j)]
  BY DEF Claim
<1>3. ClaimedRow(w, j).state = "leased" /\ ClaimedRow(w, j).leaseWorker = w
  BY DEF IInv, TypeOK, JobRow, ClaimedRow
<1>4. /\ job'[j].state = "leased" /\ job'[j].leaseWorker = w
      /\ \A k \in Jobs \ {j} : job'[k] = job[k]
  BY <1>2, <1>3 DEF IInv, TypeOK
<1> QED
  BY <1>1, <1>4 DEF Leased, LeasesOf

LEMMA FinishLeases ==
    ASSUME IInv, NEW j \in Jobs, NEW n \in DOMAIN attempts[j],
           NEW r \in Results, NEW d \in RetryDelays, Finish(j, n, r, d)
    PROVE  /\ j \in Leased /\ Leased' = Leased \ {j}
           /\ \A w \in Workers : LeasesOf(w)' = LeasesOf(w) \ {j}
<1>1. job[j].state = "leased"
  BY DEF Finish, HoldsLease
<1>2. job' = [job EXCEPT ![j] = Unleased(j, FinishedJob(j, r), d)]
  BY DEF Finish
<1>3. FinishedJob(j, r) # "leased"
  BY FinishedWhere DEF IInv, Terminal
<1>4. Unleased(j, FinishedJob(j, r), d).state = FinishedJob(j, r)
  BY DEF Unleased, IInv, TypeOK, JobRow
<1>5. /\ job'[j].state # "leased"
      /\ \A k \in Jobs \ {j} : job'[k] = job[k]
  BY <1>2, <1>3, <1>4 DEF IInv, TypeOK
<1> QED
  BY <1>1, <1>5 DEF Leased, LeasesOf

LEMMA ReclaimLeases ==
    ASSUME IInv, ReclaimExpired
    PROVE  /\ Leased' = Leased \ Expired
           /\ \A w \in Workers : LeasesOf(w)' = LeasesOf(w) \ Expired
<1>1. ASSUME NEW j \in Jobs
      PROVE  IF j \in Expired THEN job'[j].state # "leased" ELSE job'[j] = job[j]
  <2>1. CASE j \in Expired
    <3>1. job'[j] = Unleased(j, ReclaimedJob(j), 0)
      BY <2>1 DEF ReclaimExpired
    <3>2. ReclaimedJob(j) # "leased"
      BY ReclaimedWhere DEF IInv, Terminal
    <3>3. Unleased(j, ReclaimedJob(j), 0).state = ReclaimedJob(j)
      BY DEF Unleased, IInv, TypeOK, JobRow
    <3> QED
      BY <2>1, <3>1, <3>2, <3>3
  <2>2. CASE j \notin Expired
    BY <2>2 DEF ReclaimExpired
  <2> QED
    BY <2>1, <2>2
<1> QED
  BY <1>1 DEF Leased, LeasesOf

-----------------------------------------------------------------------------
LEMMA NextNoPhantomLoad == IInv /\ NoPhantomLoad /\ [Next]_vars => NoPhantomLoad'
<1> SUFFICES ASSUME IInv, NoPhantomLoad, [Next]_vars, NEW w \in Workers
             PROVE  worker'[w].activeJobs <= Cardinality(LeasesOf(w)')
  BY DEF NoPhantomLoad
<1> DEFINE c == Cardinality(LeasesOf(w))
<1>0. /\ worker[w].activeJobs \in Nat /\ c \in Nat /\ IsFiniteSet(LeasesOf(w))
      /\ worker[w].activeJobs <= c
  BY CountersAreNat, LeasesFinite DEF NoPhantomLoad
<1>1. CASE Quiet
  <2>1. worker'[w].activeJobs <= worker[w].activeJobs /\ LeasesOf(w)' = LeasesOf(w)
    BY <1>1, QuietLeases DEF Quiet
  <2>2. worker'[w].activeJobs \in Nat
    BY NextIInv, CountersAreNat DEF IInv, TypeOK, WorkerRow
  <2> QED
    BY <1>0, <2>1, <2>2
<1>2. ASSUME NEW v \in Workers, NEW j \in Jobs, Claim(v, j)
      PROVE  worker'[w].activeJobs <= Cardinality(LeasesOf(w)')
  <2>1. CASE w = v
    <3>1. LeasesOf(w)' = LeasesOf(w) \cup {j} /\ j \notin LeasesOf(w)
      BY <1>2, <2>1, ClaimLeases DEF LeasesOf
    <3>2. Cardinality(LeasesOf(w)') = c + 1
      BY <1>0, <3>1, FS_AddElement, Zenon
    <3>3. worker'[w].activeJobs = worker[w].activeJobs + 1
      BY <1>2, <2>1 DEF Claim, IInv, TypeOK, WorkerRow
    <3> QED
      BY <1>0, <3>2, <3>3
  <2>2. CASE w # v
    BY <1>0, <1>2, <2>2, ClaimLeases, Zenon DEF Claim, IInv, TypeOK
  <2> QED
    BY <2>1, <2>2
<1>3. ASSUME NEW j \in Jobs, NEW n \in DOMAIN attempts[j],
             NEW r \in Results, NEW d \in RetryDelays, Finish(j, n, r, d)
      PROVE  worker'[w].activeJobs <= Cardinality(LeasesOf(w)')
  <2> DEFINE v == job[j].leaseWorker
             m == worker[w].activeJobs
  <2>1. /\ LeasesOf(w)' = LeasesOf(w) \ {j}
        /\ j \in LeasesOf(w) <=> v = w
    BY <1>3, FinishLeases DEF LeasesOf
  <2>2. Cardinality(LeasesOf(w)') = IF v = w THEN c - 1 ELSE c
    BY <1>0, <2>1, FS_RemoveElement, ZenonT(40)
  <2>3. worker'[w].activeJobs = IF w # v THEN m ELSE IF m > 1 THEN m - 1 ELSE 0
    BY <1>3, ReleasedType DEF Finish, IInv
  <2>4. v = w => c > 0
    BY <1>0, <2>1, FS_EmptySet
  <2> QED
    BY <1>0, <2>2, <2>3, <2>4
<1>4. CASE ReclaimExpired
  <2> DEFINE e == Cardinality(LeasesOf(w) \cap Expired)
             m == worker[w].activeJobs
  <2>1. Cardinality(LeasesOf(w)') = c - e
    BY <1>0, <1>4, ReclaimLeases, FS_Difference, Zenon
  <2>2. e \in Nat /\ e <= c
    BY <1>0, FS_Subset, FS_CardinalityType
  <2>3. worker'[w].activeJobs = IF m > e THEN m - e ELSE 0
    BY <1>4, <2>2, ReleasedType DEF ReclaimExpired, IInv
  <2> QED
    BY <1>0, <2>1, <2>2, <2>3
<1> QED
  BY <1>1, <1>2, <1>3, <1>4, OthersQuiet

\* Every way a lease ends gives its slot back: the counter Claim compares with
\* the capacity never exceeds the leases that name the worker.
THEOREM NoPhantomLoadHolds == Spec => []NoPhantomLoad
<1>1. Init => NoPhantomLoad
  <2> SUFFICES ASSUME Init PROVE NoPhantomLoad
    OBVIOUS
  <2>1. ASSUME NEW w \in Workers
        PROVE  worker[w].activeJobs = 0 /\ Cardinality(LeasesOf(w)) \in Nat
    BY LeasesFinite DEF Init
  <2> QED
    BY <2>1 DEF NoPhantomLoad
<1> QED
  BY <1>1, NextNoPhantomLoad, Invariance, PTL DEF Spec

-----------------------------------------------------------------------------
\* Ending leases only lowers what a scope counts.
LEMMA FewerLeases ==
    ASSUME PolicyRespected, Leased' \subseteq Leased
    PROVE  PolicyRespected'
<1> SUFFICES ASSUME NEW j \in Leased', NEW s \in Scopes,
                    JobSpec[j].scope[s] # None,
                    ScopedLimit(s, JobSpec[j].scope[s]) > 0
             PROVE  Cardinality(LeasedIn(s, JobSpec[j].scope[s])')
                       <= ScopedLimit(s, JobSpec[j].scope[s])
  BY Zenon DEF PolicyRespected, ScopedLimit
<1> DEFINE v == JobSpec[j].scope[s]
<1>1. Cardinality(LeasedIn(s, v)) <= ScopedLimit(s, v)
  BY DEF PolicyRespected
<1>2. LeasedIn(s, v)' \in SUBSET LeasedIn(s, v)
  BY DEF LeasedIn
<1>3. Cardinality(LeasedIn(s, v)') <= Cardinality(LeasedIn(s, v))
  BY <1>2, LeasesFinite, FS_Subset
<1> HIDE DEF v
<1>4. /\ Cardinality(LeasedIn(s, v)) \in Nat /\ Cardinality(LeasedIn(s, v)') \in Nat
      /\ ScopedLimit(s, v) \in Int
  BY LeasesFinite, LimitType
<1>5. Cardinality(LeasedIn(s, v)') <= ScopedLimit(s, v)
  BY <1>1, <1>3, <1>4
<1> QED
  BY <1>5 DEF v

\* The claimed job was within the policy, so its scopes have room for it; the
\* counts of all other scopes are as they were.
LEMMA ClaimPolicy ==
    ASSUME IInv, PolicyRespected, NEW w \in Workers, NEW j \in Jobs, Claim(w, j)
    PROVE  PolicyRespected'
<1> SUFFICES ASSUME NEW k \in Leased', NEW s \in Scopes,
                    JobSpec[k].scope[s] # None,
                    ScopedLimit(s, JobSpec[k].scope[s]) > 0
             PROVE  Cardinality(LeasedIn(s, JobSpec[k].scope[s])')
                       <= ScopedLimit(s, JobSpec[k].scope[s])
  BY Zenon DEF PolicyRespected, ScopedLimit
<1>1. PICK v : v = JobSpec[k].scope[s]
  OBVIOUS
<1>2. PICK m : m = ScopedLimit(s, v)
  OBVIOUS
<1>3. m \in Int /\ m > 0 /\ v # None
  BY <1>1, <1>2, LimitType
<1>4. j \notin Leased /\ Leased' = Leased \cup {j}
  BY ClaimLeases
<1>5. Cardinality(LeasedIn(s, v)') <= m
  <2>1. CASE JobSpec[j].scope[s] = v
    <3>1. Cardinality(LeasedIn(s, v)) < m
      <4>1. WithinPolicy(j)
        BY DEF Claim, Acceptable
      <4> QED
        BY <1>2, <1>3, <2>1, <4>1 DEF WithinPolicy
    <3>2. LeasedIn(s, v)' = LeasedIn(s, v) \cup {j} /\ j \notin LeasedIn(s, v)
      BY <1>4, <2>1 DEF LeasedIn
    <3>3. Cardinality(LeasedIn(s, v)') = Cardinality(LeasedIn(s, v)) + 1
      BY <3>2, LeasesFinite, FS_AddElement, Zenon
    <3>4. Cardinality(LeasedIn(s, v)) \in Nat
      BY LeasesFinite
    <3> QED
      BY <1>3, <3>1, <3>3, <3>4
  <2>2. CASE JobSpec[j].scope[s] # v
    <3>1. k \in Leased /\ LeasedIn(s, v)' = LeasedIn(s, v)
      BY <1>1, <1>4, <2>2 DEF LeasedIn
    <3>2. Cardinality(LeasedIn(s, v)) <= m
      BY <1>1, <1>2, <1>3, <3>1 DEF PolicyRespected
    <3> QED
      BY <3>1, <3>2
  <2> QED
    BY <2>1, <2>2
<1> QED
  BY <1>1, <1>2, <1>5

\* The limits of the concurrency policy hold of the leases in every reachable
\* state, because withinPolicy counts them inside the claiming transaction.
THEOREM PolicyRespectedHolds == Spec => []PolicyRespected
<1>1. Init => PolicyRespected
  BY DEF Init, PolicyRespected, Leased
<1>2. IInv /\ PolicyRespected /\ [Next]_vars => PolicyRespected'
  <2> SUFFICES ASSUME IInv, PolicyRespected, [Next]_vars PROVE PolicyRespected'
    OBVIOUS
  <2>1. CASE Quiet
    BY <2>1, QuietLeases, FewerLeases
  <2>2. ASSUME NEW j \in Jobs, NEW n \in DOMAIN attempts[j],
               NEW r \in Results, NEW d \in RetryDelays, Finish(j, n, r, d)
        PROVE  PolicyRespected'
    BY <2>2, FinishLeases, FewerLeases
  <2>3. CASE ReclaimExpired
    BY <2>3, ReclaimLeases, FewerLeases
  <2> QED
    BY <2>1, <2>2, <2>3, ClaimPolicy, OthersQuiet
<1> QED
  BY <1>1, <1>2, Invariance, PTL DEF Spec

=============================================================================
