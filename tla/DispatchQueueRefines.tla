------------------------ MODULE DispatchQueueRefines ------------------------
(***************************************************************************)
(* The dispatch queue implements JobLifecycle.  Each lemma maps what one   *)
(* operation does to one row to a step of the abstract job; an operation   *)
(* that touches several rows moves several jobs at once.                   *)
(***************************************************************************)
EXTENDS DispatchQueueProofs

\* The columns the abstract job is made of.
SameLife(j) ==
    /\ job'[j].state = job[j].state
    /\ job'[j].attemptCount = job[j].attemptCount
    /\ job'[j].cancelRequested = job[j].cancelRequested

Follows(j) == Life!Move(j) \/ lifeBar'[j] = lifeBar[j]

LEMMA SameFollows ==
    ASSUME NEW j \in Jobs, SameLife(j)
    PROVE  Follows(j)
BY DEF SameLife, Follows, lifeBar

LEMMA SubmitFollows ==
    ASSUME NEW j \in Jobs, job[j].state = "absent", job'[j].state = "queued",
           job'[j].attemptCount = job[j].attemptCount,
           job'[j].cancelRequested = job[j].cancelRequested
    PROVE  Follows(j)
<1>1. Life!Submit(j)
  BY DEF Life!Submit, lifeBar, PhaseOf
<1> QED
  BY <1>1 DEF Follows, Life!Move

LEMMA DeliverFollows ==
    ASSUME IInv, NEW j \in Jobs, job[j].state = "queued", ~job[j].cancelRequested,
           job'[j].state = "leased", job'[j].attemptCount = job[j].attemptCount + 1,
           job'[j].cancelRequested = job[j].cancelRequested
    PROVE  Follows(j)
<1>1. job[j].attemptCount < MaxAttempts(j)
  BY DEF IInv, RowInv
<1>2. /\ lifeBar[j].phase = "waiting" /\ lifeBar[j].withdrawn = FALSE
      /\ lifeBar[j].tries < [k \in Jobs |-> MaxAttempts(k)][j]
  BY <1>1 DEF lifeBar, PhaseOf, IInv, TypeOK, JobRow
<1>3. lifeBar'[j] = [phase |-> "held", tries |-> lifeBar[j].tries + 1, withdrawn |-> FALSE]
  BY Zenon DEF lifeBar, PhaseOf, IInv, TypeOK, JobRow
<1>4. Life!Deliver(j)
  BY <1>2, <1>3 DEF Life!Deliver
<1> QED
  BY <1>4 DEF Follows, Life!Move

LEMMA WithdrawFollows ==
    ASSUME NEW j \in Jobs, job[j].state \in {"queued", "leased"},
           job'[j].state = IF job[j].state = "queued" THEN "canceled" ELSE job[j].state,
           job'[j].attemptCount = job[j].attemptCount,
           job'[j].cancelRequested = TRUE
    PROVE  Follows(j)
<1>1. Life!Withdraw(j)
  BY Zenon DEF Life!Withdraw, lifeBar, PhaseOf
<1> QED
  BY <1>1 DEF Follows, Life!Move

LEMMA EndFollows ==
    ASSUME IInv, NEW j \in Jobs, job[j].state = "leased",
           NEW st \in {"queued"} \cup Terminal,
           st = "queued" => job[j].attemptCount < MaxAttempts(j),
           job[j].cancelRequested <=> st = "canceled",
           job'[j].state = st, job'[j].attemptCount = job[j].attemptCount,
           job'[j].cancelRequested = job[j].cancelRequested
    PROVE  Follows(j)
<1>1. CASE st = "queued"
  <2>1. Life!Requeue(j)
    BY <1>1 DEF Life!Requeue, lifeBar, PhaseOf
  <2> QED
    BY <2>1 DEF Follows, Life!Move
<1>2. CASE st \in Terminal
  <2>1. /\ lifeBar[j].phase = "held"
        /\ lifeBar'[j] = [lifeBar[j] EXCEPT !.phase = st]
        /\ (st = "canceled") <=> lifeBar[j].withdrawn
    BY <1>2 DEF lifeBar, PhaseOf, Terminal
  <2>2. Life!End(j)
    BY <1>2, <2>1 DEF Life!End, Life!Ended, Terminal
  <2> QED
    BY <2>2 DEF Follows, Life!Move
<1> QED
  BY <1>1, <1>2

-----------------------------------------------------------------------------
\* What each operation does to the abstract jobs.

LEMMA BeginHolds == Init => Life!Begin
BY DEF Init, Life!Begin, lifeBar, PhaseOf

LEMMA CancelAdvances ==
    ASSUME IInv, NEW S, \A j \in S : j \in Jobs /\ Cancelable(j), Cancel(S)
    PROVE  \A j \in Jobs : Follows(j)
<1> SUFFICES ASSUME NEW j \in Jobs PROVE Follows(j)
  OBVIOUS
<1>1. CASE j \in S
  <2>1. job[j] \in JobRow
    BY DEF IInv, TypeOK
  <2>2. job'[j] = [job[j] EXCEPT !.cancelRequested = TRUE,
                                 !.state = IF @ = "queued" THEN "canceled" ELSE @]
    BY <1>1, Zenon DEF Cancel
  <2>3. /\ job'[j].state = IF job[j].state = "queued" THEN "canceled" ELSE job[j].state
        /\ job'[j].attemptCount = job[j].attemptCount
        /\ job'[j].cancelRequested = TRUE
    BY <2>1, <2>2 DEF JobRow
  <2> QED
    BY <1>1, <2>3, WithdrawFollows, Zenon DEF Cancelable
<1>2. CASE j \notin S
  BY <1>2, SameFollows, Zenon DEF Cancel, SameLife
<1> QED
  BY <1>1, <1>2

LEMMA ClaimAdvances ==
    ASSUME IInv, NEW w \in Workers, NEW j \in Jobs, Claim(w, j)
    PROVE  \A k \in Jobs : Follows(k)
<1>1. job[j].state = "queued" /\ ~job[j].cancelRequested
  BY DEF Claim, Acceptable, Candidates, Claimable
<1>2. job[j] \in JobRow /\ job' = [job EXCEPT ![j] = ClaimedRow(w, j)]
  BY DEF Claim, IInv, TypeOK
<1>3. /\ job'[j].state = "leased" /\ job'[j].attemptCount = job[j].attemptCount + 1
      /\ job'[j].cancelRequested = job[j].cancelRequested
  <2>1. job'[j] = ClaimedRow(w, j)
    BY <1>2 DEF IInv, TypeOK
  <2> DEFINE n == job[j].attemptCount + 1
             pin == IF JobSpec[j].affinityKey # None /\ job[j].affinityWorker = NoWorker
                    THEN w ELSE job[j].affinityWorker
             row == [job[j] EXCEPT !.state = "leased", !.attemptCount = n,
                                   !.leaseAttempt = n, !.leaseWorker = w,
                                   !.leaseTTL = LeaseDuration, !.affinityWorker = pin]
  <2>2. job'[j] = row
    BY <2>1 DEF ClaimedRow
  <2> HIDE DEF n, pin
  <2>3. /\ row.state = "leased" /\ row.attemptCount = n
        /\ row.cancelRequested = job[j].cancelRequested
    BY <1>2 DEF JobRow
  <2> HIDE DEF row
  <2> QED
    BY <2>2, <2>3 DEF n
<1>4. Follows(j)
  BY <1>1, <1>3, DeliverFollows
<1>5. ASSUME NEW k \in Jobs, k # j PROVE Follows(k)
  BY <1>2, <1>5, SameFollows DEF IInv, TypeOK, SameLife
<1> QED
  BY <1>4, <1>5

\* Both ways a lease ends keep the columns Unleased does not name.
LEMMA UnleasedFollows ==
    ASSUME IInv, NEW j \in Jobs, job[j].state = "leased",
           NEW st \in {"queued"} \cup Terminal, NEW d,
           st = "queued" => job[j].attemptCount < MaxAttempts(j),
           job[j].cancelRequested <=> st = "canceled",
           job'[j] = Unleased(j, st, d)
    PROVE  Follows(j)
<1>1. job[j] \in JobRow
  BY DEF IInv, TypeOK
<1>2. /\ job'[j].state = st /\ job'[j].attemptCount = job[j].attemptCount
      /\ job'[j].cancelRequested = job[j].cancelRequested
  BY <1>1 DEF Unleased, JobRow
<1> QED
  BY <1>2, EndFollows, Zenon

LEMMA FinishAdvances ==
    ASSUME IInv, NEW j \in Jobs, NEW n \in DOMAIN attempts[j],
           NEW r \in Results, NEW d \in RetryDelays, Finish(j, n, r, d)
    PROVE  \A k \in Jobs : Follows(k)
<1> DEFINE st == FinishedJob(j, r)
<1>1. job[j].state = "leased" /\ job' = [job EXCEPT ![j] = Unleased(j, st, d)]
  BY DEF Finish, HoldsLease
<1>2. /\ st \in {"queued"} \cup Terminal
      /\ st = "queued" => job[j].attemptCount < MaxAttempts(j)
      /\ job[j].cancelRequested <=> st = "canceled"
  BY FinishedWhere DEF IInv
<1> HIDE DEF st
<1>3. job'[j] = Unleased(j, st, d)
  BY <1>1 DEF IInv, TypeOK
<1>4. Follows(j)
  BY <1>1, <1>2, <1>3, UnleasedFollows
<1>5. ASSUME NEW k \in Jobs, k # j PROVE Follows(k)
  BY <1>1, <1>5, SameFollows DEF IInv, TypeOK, SameLife
<1> QED
  BY <1>4, <1>5

LEMMA ReclaimAdvances ==
    ASSUME IInv, ReclaimExpired
    PROVE  \A j \in Jobs : Follows(j)
<1> SUFFICES ASSUME NEW j \in Jobs PROVE Follows(j)
  OBVIOUS
<1>1. CASE j \in Expired
  <2>1. job[j].state = "leased" /\ job'[j] = Unleased(j, ReclaimedJob(j), 0)
    BY <1>1 DEF ReclaimExpired, Expired, Leased
  <2> QED
    BY <2>1, ReclaimedWhere, UnleasedFollows, Zenon DEF IInv
<1>2. CASE j \notin Expired
  BY <1>2, SameFollows DEF ReclaimExpired, SameLife
<1> QED
  BY <1>1, <1>2

LEMMA NextAdvances == IInv /\ [Next]_vars => \A j \in Jobs : Follows(j)
<1> SUFFICES ASSUME IInv, [Next]_vars PROVE \A j \in Jobs : Follows(j)
  OBVIOUS
<1>1. ASSUME NEW j \in Jobs, Enqueue(j)
      PROVE  \A k \in Jobs : Follows(k)
  <2>1. /\ job[j] \in JobRow /\ job[j].state = "absent"
        /\ job' = [job EXCEPT ![j] = [job[j] EXCEPT !.state = "queued",
                                         !.created = Cardinality(Present) + 1]]
    BY <1>1 DEF Enqueue, IInv, TypeOK
  <2>2. /\ job'[j].state = "queued" /\ job'[j].attemptCount = job[j].attemptCount
        /\ job'[j].cancelRequested = job[j].cancelRequested
    BY <2>1 DEF IInv, TypeOK, JobRow
  <2>3. ASSUME NEW k \in Jobs, k # j PROVE Follows(k)
    BY <2>1, <2>3, SameFollows DEF IInv, TypeOK, SameLife
  <2> QED
    BY <2>1, <2>2, <2>3, SubmitFollows
<1>2. ASSUME NEW j \in Jobs, RequestCancel(j)
      PROVE  \A k \in Jobs : Follows(k)
  BY <1>2, CancelAdvances DEF RequestCancel
<1>3. ASSUME NEW j \in Jobs, ReleaseAffinity(j)
      PROVE  \A k \in Jobs : Follows(k)
  <2>1. ASSUME NEW k \in Jobs PROVE SameLife(k)
    BY <1>3, SMTT(30) DEF ReleaseAffinity, IInv, TypeOK, JobRow, SameLife
  <2> QED
    BY <2>1, SameFollows
<1>4. ASSUME NEW t \in Tasks, NEW wf \in Workflows, RequestCancelFor(t, wf)
      PROVE  \A k \in Jobs : Follows(k)
  BY <1>4, CancelAdvances DEF RequestCancelFor
<1>5. ASSUME NEW w \in Workers, NEW b \in BOOLEAN,
             RegisterWorker(w, b, FALSE) \/ HeartbeatWorker(w, b) \/ SetWorkerDrain(w, b)
      PROVE  \A k \in Jobs : Follows(k)
  <2>1. UNCHANGED job
    BY <1>5 DEF RegisterWorker, HeartbeatWorker, SetWorkerDrain
  <2> QED
    BY <2>1, SameFollows DEF SameLife
<1>6. ASSUME NEW j \in Jobs, NEW n \in DOMAIN attempts[j], Heartbeat(j, n)
      PROVE  \A k \in Jobs : Follows(k)
  <2>1. ASSUME NEW k \in Jobs PROVE SameLife(k)
    BY <1>6, SMTT(30) DEF Heartbeat, IInv, TypeOK, JobRow, SameLife
  <2> QED
    BY <2>1, SameFollows
<1>7. ASSUME Tick
      PROVE  \A k \in Jobs : Follows(k)
  <2>1. ASSUME NEW k \in Jobs PROVE SameLife(k)
    BY <1>7, Zenon DEF Tick, IInv, TypeOK, JobRow, SameLife
  <2> QED
    BY <2>1, SameFollows
<1>8. CASE UNCHANGED vars
  BY <1>8, SameFollows DEF vars, SameLife
<1> QED
  BY <1>1, <1>2, <1>3, <1>4, <1>5, <1>6, <1>7, <1>8,
     ClaimAdvances, FinishAdvances, ReclaimAdvances, Zenon DEF Next

\* The queue implements the life cycle of a job for any jobs, workers, policy
\* and durations: every operation of queue_store.go is, for every job, a step
\* of JobLifecycle or no step at all.
THEOREM Refinement == Spec => ImplementsLifecycle
<1>1. IInv /\ [Next]_vars => [Life!Advance]_lifeBar
  BY NextAdvances DEF Life!Advance, Follows
<1> QED
  BY <1>1, BeginHolds, Invariance, PTL DEF Spec, ImplementsLifecycle, Life!Lifecycle

=============================================================================
