------------------------ MODULE DispatchQueueHistory ------------------------
(***************************************************************************)
(* What no operation of the queue may do to the past: the action           *)
(* properties, from the inductive invariant of DispatchQueueProofs.        *)
(***************************************************************************)
EXTENDS DispatchQueueProofs

-----------------------------------------------------------------------------
\* Ending the attempt that holds the lease changes no attempt that had ended.
LEMMA EndedAttemptFinal ==
    ASSUME IInv, NEW j \in Jobs, job[j].state = "leased",
           NEW a, attempts'[j] = EndedAttempt(j, job[j].leaseAttempt, a)
    PROVE  \A n \in DOMAIN attempts[j] :
              attempts[j][n].state # "active" => attempts'[j][n] = attempts[j][n]
<1> DEFINE h == job[j].leaseAttempt
<1>1. attempts[j] \in Seq(AttemptRow) /\ job[j].attemptCount \in Nat
  BY DEF IInv, TypeOK, JobRow
<1>2. DOMAIN attempts[j] = 1..Len(attempts[j])
  BY <1>1, LenProperties
<1>3. h \in 1..Len(attempts[j])
  BY <1>1 DEF IInv, RowInv
<1>4. attempts[j][h].state = "active"
  BY <1>3 DEF IInv, RowInv, HoldsLease
<1> QED
  BY <1>1, <1>2, <1>3, <1>4 DEF EndedAttempt

\* Operations that leave the attempts alone and only move jobs that are live.
LEMMA AttemptsUntouched ==
    ASSUME UNCHANGED attempts,
           \A j \in Jobs : job[j].state \in Terminal => job'[j].state = job[j].state
    PROVE  EndedStays
BY DEF EndedStays

LEMMA NextEndedStays == IInv /\ [Next]_vars => EndedStays
<1> SUFFICES ASSUME IInv, [Next]_vars PROVE EndedStays
  OBVIOUS
<1> USE DEF Terminal
<1>1. ASSUME NEW j \in Jobs, Enqueue(j)
      PROVE  EndedStays
  BY <1>1, AttemptsUntouched DEF Enqueue, IInv, TypeOK
<1>2. ASSUME NEW S, Cancel(S)
      PROVE  EndedStays
  <2>1. ASSUME NEW j \in Jobs, job[j].state \in Terminal
        PROVE  job'[j].state = job[j].state
    <3>1. job[j] \in JobRow
      BY DEF IInv, TypeOK
    <3>2. CASE j \in S
      BY <1>2, <2>1, <3>1, <3>2, Zenon DEF Cancel, JobRow
    <3>3. CASE j \notin S
      BY <1>2, <3>3, Zenon DEF Cancel
    <3> QED
      BY <3>2, <3>3
  <2> QED
    BY <1>2, <2>1, AttemptsUntouched, Zenon DEF Cancel
<1>3. ASSUME NEW j \in Jobs, ReleaseAffinity(j)
      PROVE  EndedStays
  BY <1>3, AttemptsUntouched DEF ReleaseAffinity, IInv, TypeOK
<1>4. ASSUME NEW w \in Workers, NEW b \in BOOLEAN,
             RegisterWorker(w, b, FALSE) \/ HeartbeatWorker(w, b) \/ SetWorkerDrain(w, b)
      PROVE  EndedStays
  BY <1>4, AttemptsUntouched DEF RegisterWorker, HeartbeatWorker, SetWorkerDrain
<1>5. ASSUME NEW w \in Workers, NEW j \in Jobs, Claim(w, j)
      PROVE  EndedStays
  <2>1. job[j].state = "queued"
    BY <1>5 DEF Claim, Acceptable, Candidates, Claimable
  <2>2. ASSUME NEW k \in Jobs, k # j
        PROVE  job'[k] = job[k] /\ attempts'[k] = attempts[k]
    BY <1>5, <2>2 DEF Claim, IInv, TypeOK
  <2>3. ASSUME NEW n \in DOMAIN attempts[j]
        PROVE  attempts'[j][n] = attempts[j][n]
    <3> DEFINE e == [worker |-> w, state |-> "active"]
    <3>1. attempts'[j] = Append(attempts[j], e)
      BY <1>5 DEF Claim, IInv, TypeOK
    <3>2. attempts[j] \in Seq(AttemptRow) /\ e \in AttemptRow
      BY Zenon DEF IInv, TypeOK, AttemptRow, AttemptStates
    <3>3. n \in 1..Len(attempts[j])
      BY <3>2, LenProperties
    <3> HIDE DEF e
    <3> QED
      BY <3>1, <3>2, <3>3, AppendProperties
  <2> QED
    BY <2>1, <2>2, <2>3 DEF EndedStays
<1>6. ASSUME NEW j \in Jobs, NEW n \in DOMAIN attempts[j], Heartbeat(j, n)
      PROVE  EndedStays
  BY <1>6, AttemptsUntouched DEF Heartbeat, IInv, TypeOK
<1>7. ASSUME NEW j \in Jobs, NEW n \in DOMAIN attempts[j],
             NEW r \in Results, NEW d \in RetryDelays, Finish(j, n, r, d)
      PROVE  EndedStays
  <2>1. job[j].state = "leased" /\ n = job[j].leaseAttempt
    BY <1>7 DEF Finish, HoldsLease
  <2>2. ASSUME NEW k \in Jobs, k # j
        PROVE  job'[k] = job[k] /\ attempts'[k] = attempts[k]
    BY <1>7, <2>2 DEF Finish, IInv, TypeOK
  <2>3. attempts'[j] = EndedAttempt(j, n, FinishedAttempt(j, r))
    BY <1>7 DEF Finish, IInv, TypeOK
  <2>4. \A m \in DOMAIN attempts[j] :
           attempts[j][m].state # "active" => attempts'[j][m] = attempts[j][m]
    BY <2>1, <2>3, EndedAttemptFinal
  <2> QED
    BY <2>1, <2>2, <2>4 DEF EndedStays
<1>8. ASSUME ReclaimExpired
      PROVE  EndedStays
  <2>1. ASSUME NEW j \in Jobs, j \in Expired
        PROVE  /\ job[j].state = "leased"
               /\ \A m \in DOMAIN attempts[j] :
                     attempts[j][m].state # "active" => attempts'[j][m] = attempts[j][m]
    <3>1. job[j].state = "leased"
      BY <2>1 DEF Expired, Leased
    <3>2. attempts'[j] = EndedAttempt(j, job[j].leaseAttempt, "expired")
      BY <1>8, <2>1 DEF ReclaimExpired
    <3> QED
      BY <3>1, <3>2, EndedAttemptFinal
  <2>2. ASSUME NEW j \in Jobs, j \notin Expired
        PROVE  job'[j] = job[j] /\ attempts'[j] = attempts[j]
    BY <1>8, <2>2 DEF ReclaimExpired
  <2> QED
    BY <2>1, <2>2 DEF EndedStays
<1>9. ASSUME Tick
      PROVE  EndedStays
  <2>1. ASSUME NEW j \in Jobs PROVE job'[j].state = job[j].state
    BY <1>9, Zenon DEF Tick, IInv, TypeOK, JobRow
  <2> QED
    BY <1>9, <2>1, AttemptsUntouched, Zenon DEF Tick
<1>10. CASE UNCHANGED vars
  BY <1>10, AttemptsUntouched DEF vars
<1> QED
  BY <1>1, <1>2, <1>3, <1>4, <1>5, <1>6, <1>7, <1>8, <1>9, <1>10, Zenon
  DEF Next, RequestCancel, RequestCancelFor

\* No operation, however late, changes a job or an attempt that has ended.
THEOREM HistoryIsFinalHolds == Spec => HistoryIsFinal
<1>1. IInv /\ [Next]_vars => [EndedStays]_vars
  BY NextEndedStays
<1> QED
  BY <1>1, Invariance, PTL DEF Spec, HistoryIsFinal

=============================================================================
