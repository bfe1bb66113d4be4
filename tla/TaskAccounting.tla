--------------------------- MODULE TaskAccounting ---------------------------
(***************************************************************************)
(* The life of one internal task in the daemon: polls, manual runs,        *)
(* resumes and force-restarts hand workflows over to the dispatch queue or *)
(* to goroutines; runs of the workflow engine start, park, wake and        *)
(* settle; operators stop instances; the process dies and starts again.    *)
(* All of them share the task's row (state, outstanding_workflows,         *)
(* generation), the rows of workflow_instances and the dispatch queue, and *)
(* every statement on the database is a step of its own.                   *)
(*                                                                         *)
(* What a run does between its start and its outcome is StepGraph's        *)
(* subject; the leases of a job are DispatchQueue's.  A unit is what is    *)
(* handed over: a "job" of the queue, a goroutine of fanOut ("go"), of an  *)
(* operator's resume ("resume") or of the startup's resume ("auto").       *)
(***************************************************************************)
EXTENDS Integers, Sequences, FiniteSets, SequencesExt

CONSTANT Setups   \* the installations a behaviour may take place in, see Setup

VARIABLES
    setup,         \* the installation; it never changes
    task,          \* the row of internal_tasks
    inst,          \* the rows of workflow_instances, in insertion order
    unit,          \* the units handed over, in the order of creation
    run,           \* per instance, the engine's run of it in this process
    fan,           \* per caller of fanOut, how far it is
    inFlight,      \* whether the cell is marked in d.inFlight
    holding,       \* the fan-outs that will clear the mark, as sets of units
    autoResuming,  \* d.autoResuming
    stop,          \* the operator's StopInstance in progress
    crashes,       \* deaths of the process so far
    ever           \* history: the workflows an instance of which got done

vars == <<setup, task, inst, unit, run, fan, inFlight, holding, autoResuming, stop, crashes, ever>>

\* The workflows whose trigger may match the task, the ones with `once: true`
\* and with `resume: auto`; settings.max_attempts (0: no failure cap); whether
\* the dispatch queue is configured; what happens besides polls; and the bounds
\* on the units handed over and on the deaths of the process.
Setup(s) ==
    /\ s.once \subseteq s.workflows /\ s.auto \subseteq s.workflows
    /\ s.maxAttempts \in Nat /\ s.queue \in BOOLEAN
    /\ s.ops \subseteq {"manual", "stop", "resume", "restart", "park"}
    /\ s.units \in Nat /\ s.crashes \in Nat

ASSUME SetupsAssumption == \A s \in Setups : Setup(s)

Workflows == setup.workflows
Once == setup.once
AutoResume == setup.auto
MaxAttempts == setup.maxAttempts
UseQueue == setup.queue
Ops == setup.ops
MaxUnits == setup.units
MaxCrashes == setup.crashes

TaskRow ==
    [state : {"queued", "running", "blocked", "done", "failed"},
     reason : {"", "retry_backoff", "interrupted"},
     outstanding : Nat, generation : Nat]

InstanceRow ==
    [wf : Workflows, state : {"queued", "running", "blocked", "done", "failed", "canceled"},
     reason : {"", "parked", "interrupted"}, gen : Nat, from : Nat, job : Nat, born : Nat]

Unit ==
    [kind : {"job", "go", "resume", "auto"}, wf : Workflows, gen : Nat, manual : BOOLEAN,
     state : {"queued", "leased", "done", "failed", "canceled", "lost"},
     at : {"idle", "guard", "create", "adopt", "run", "finish", "dead"}, ok : BOOLEAN,
     attempts : Nat, cancel : BOOLEAN, reserved : Nat, from : Nat, born : Nat]

\* A run: "fresh" on its first drive, "waking" on a later one, "stopped" when
\* StopParked has flagged it; "settling", "hooks" and "last" are the points of
\* settle and completeTask between two statements; "left" is no run either: the
\* startup has left a parked instance without one.  A run is cut when the context
\* it writes with is cancelled.
Run ==
    [at : {"none", "left", "fresh", "parked", "claiming", "waking", "stopped", "settling",
           "hooks", "last"},
     failed : BOOLEAN, cut : BOOLEAN, unit : Nat]

Callers == {"poll", "manual", "restart"}

Fan ==
    [pc : {"idle", "forget", "write", "cancel", "bump", "increment", "read",
           "enqueue", "rollback", "launch"},
     todo : SUBSET Workflows, gen : Nat, reserved : Nat, rows : SUBSET Nat, row : Nat]

Idle == [pc |-> "idle", todo |-> {}, gen |-> 0, reserved |-> 0, rows |-> {}, row |-> 0]
NoRun == [at |-> "none", failed |-> FALSE, cut |-> FALSE, unit |-> 0]
Fresh(u) == [NoRun EXCEPT !.at = "fresh", !.unit = u]
NoStop == [pc |-> "idle", row |-> 0]

\* Rows and units are created in one order.
Now == Len(inst) + Len(unit)

-----------------------------------------------------------------------------
\* InternalTaskStore.

\* A settled task, or one that waits out a retry, is opened again by a dispatch.
Reopenable(t) ==
    \/ t.state \in {"done", "failed"}
    \/ t.state = "blocked" /\ t.reason = "retry_backoff"

Incremented(t, n) ==
    IF Reopenable(t)
    THEN [state |-> "running", reason |-> "", outstanding |-> t.outstanding + n,
          generation |-> t.generation + 1]
    ELSE [t EXCEPT !.outstanding = @ + n]

\* Mutant: not clamped at zero.
DecrementedUnclamped(t) == [t EXCEPT !.outstanding = @ - 1]

Decremented(t) == [t EXCEPT !.outstanding = IF @ > 0 THEN @ - 1 ELSE 0]

-----------------------------------------------------------------------------
\* Reads of workflow_instances.  Each is one query.

RowsOf(rows, w) == {i \in DOMAIN rows : rows[i].wf = w}

Interrupted(row) == row.state = "blocked" /\ row.reason = "interrupted"
Parked(row) == row.state = "blocked" /\ row.reason # "interrupted"
TerminalRow(row) == row.state \in {"done", "failed", "canceled"}

HasActiveInstanceForRoute(w) ==
    \E i \in RowsOf(inst, w) : inst[i].state = "running" \/ Parked(inst[i])

\* Mutant: only an instance of this round counts.
CompletedThisRound(w) ==
    \E i \in RowsOf(inst, w) : inst[i].state = "done" /\ inst[i].gen = task.generation

HasCompletedInstanceForRoute(w) == \E i \in RowsOf(inst, w) : inst[i].state = "done"

\* Mutant: failures of earlier rounds count.
HasFailedEver(rows, t) == \E i \in DOMAIN rows : rows[i].state = "failed"

HasFailedInstance(rows, t) ==
    \E i \in DOMAIN rows : rows[i].state = "failed" /\ rows[i].gen = t.generation

CountConsecutiveFailed(w) ==
    Cardinality({i \in RowsOf(inst, w) :
                   \A k \in RowsOf(inst, w) : k >= i => inst[k].state = "failed"})

Capped(w) == MaxAttempts > 0 /\ CountConsecutiveFailed(w) >= MaxAttempts

LiveRow(row) == row.state \in {"queued", "running"} \/ Parked(row)
LiveCount(rows) == Cardinality({i \in DOMAIN rows : LiveRow(rows[i])})

NewRow(w, st, from) ==
    [wf |-> w, state |-> st, reason |-> "", gen |-> task.generation, from |-> from,
     job |-> 0, born |-> Now]

WithState(row, st, why) == [row EXCEPT !.state = st, !.reason = why]

Init ==
    /\ setup \in Setups
    /\ task = [state |-> "queued", reason |-> "", outstanding |-> 0, generation |-> 0]
    /\ inst = << >> /\ unit = << >> /\ run = << >>
    /\ fan = [p \in Callers |-> Idle]
    /\ inFlight = FALSE /\ holding = {} /\ autoResuming = {}
    /\ stop = NoStop /\ crashes = 0 /\ ever = {}

-----------------------------------------------------------------------------
\* The callers of fanOut.

Room(n) ==
    LET under == {p \in Callers : fan[p].pc # "idle"}
    IN  Len(unit) + n + Cardinality(UNION {fan[p].todo \X {p} : p \in under}) <= MaxUnits

\* poll: route the cell and drop what the guards reject.  Mutant: a parked
\* instance does not hold its route.
AllowedRunningOnly(M) ==
    {w \in M : /\ w \notin autoResuming
               /\ \A i \in RowsOf(inst, w) : inst[i].state # "running"
               /\ ~(w \in Once /\ HasCompletedInstanceForRoute(w))
               /\ ~Capped(w)}

Allowed(M) ==
    {w \in M : /\ w \notin autoResuming
               /\ ~HasActiveInstanceForRoute(w)
               /\ ~(w \in Once /\ HasCompletedInstanceForRoute(w))
               /\ ~Capped(w)}

Poll(M) ==
    /\ fan["poll"].pc = "idle"
    /\ ~inFlight
    /\ Allowed(M) # {}
    /\ Room(Cardinality(Allowed(M)))
    /\ inFlight' = TRUE
    /\ fan' = [fan EXCEPT !["poll"] = [Idle EXCEPT !.pc = "increment", !.todo = Allowed(M)]]
    /\ UNCHANGED <<task, inst, unit, run, holding, autoResuming, stop, crashes, ever>>

\* RunWorkflowManual: no guard, but a reservation.
ManualRun(w) ==
    /\ "manual" \in Ops
    /\ fan["manual"].pc = "idle"
    /\ Room(1)
    /\ inst' = Append(inst, NewRow(w, "queued", 0))
    /\ run' = Append(run, NoRun)
    /\ fan' = [fan EXCEPT !["manual"] =
                 [Idle EXCEPT !.pc = "increment", !.todo = {w}, !.reserved = Len(inst')]]
    /\ UNCHANGED <<task, unit, inFlight, holding, autoResuming, stop, crashes, ever>>

\* fanOut counts its matches before any of them can end.
FanIncrement(p) ==
    /\ fan[p].pc = "increment"
    /\ task' = Incremented(task, Cardinality(fan[p].todo))
    /\ fan' = [fan EXCEPT ![p].pc = IF UseQueue THEN "read" ELSE "launch"]
    /\ UNCHANGED <<inst, unit, run, inFlight, holding, autoResuming, stop, crashes, ever>>

NewUnit(kind, w, gen, p, reserved, from, born) ==
    [kind |-> kind, wf |-> w, gen |-> gen, manual |-> p = "manual", state |-> "queued",
     at |-> "idle", ok |-> FALSE, attempts |-> 0, cancel |-> FALSE, reserved |-> reserved,
     from |-> from, born |-> born]

\* enqueueFanOut.
FanRead(p) ==
    /\ fan[p].pc = "read"
    /\ fan' = [fan EXCEPT ![p].pc = "enqueue", ![p].gen = task.generation]
    /\ UNCHANGED <<task, inst, unit, run, inFlight, holding, autoResuming, stop, crashes, ever>>

\* The idempotency key is the task, the generation and the workflow; a manual
\* run adds a nonce.
KeyTaken(p, w) ==
    \E u \in DOMAIN unit :
        /\ unit[u].kind = "job" /\ ~unit[u].manual /\ p # "manual"
        /\ unit[u].wf = w /\ unit[u].gen = fan[p].gen

FanEnqueue(p, w) ==
    /\ fan[p].pc = "enqueue" /\ w \in fan[p].todo
    /\ IF KeyTaken(p, w)
       THEN /\ fan' = [fan EXCEPT ![p].todo = @ \ {w}, ![p].pc = "rollback"]
            /\ UNCHANGED unit
       ELSE /\ fan' = [fan EXCEPT ![p].todo = @ \ {w}]
            /\ unit' = Append(unit, NewUnit("job", w, fan[p].gen, p, fan[p].reserved, 0, Now))
    /\ UNCHANGED <<task, inst, run, inFlight, holding, autoResuming, stop, crashes, ever>>

FanRollback(p) ==
    /\ fan[p].pc = "rollback"
    /\ task' = Decremented(task)
    /\ fan' = [fan EXCEPT ![p].pc = "enqueue"]
    /\ UNCHANGED <<inst, unit, run, inFlight, holding, autoResuming, stop, crashes, ever>>

\* The queue path clears the mark at once; a manual run never set it.
FanEnd(p) ==
    /\ fan[p].pc = "enqueue" /\ fan[p].todo = {}
    /\ fan' = [fan EXCEPT ![p] = Idle]
    /\ inFlight' = (inFlight /\ p = "manual")
    /\ UNCHANGED <<task, inst, unit, run, holding, autoResuming, stop, crashes, ever>>

\* The inline path starts a goroutine per match, and one that clears the mark
\* when all of them have ended.
FanLaunch(p) ==
    LET ws == SetToSeq(fan[p].todo)
        started == [k \in DOMAIN ws |->
                      NewUnit("go", ws[k], 0, p, fan[p].reserved, 0, Now + k - 1)]
    IN  /\ fan[p].pc = "launch"
        /\ unit' = unit \o started
        /\ holding' = IF p = "manual" THEN holding
                      ELSE holding \cup {Len(unit) + 1 .. Len(unit')}
        /\ fan' = [fan EXCEPT ![p] = Idle]
        /\ UNCHANGED <<task, inst, run, inFlight, autoResuming, stop, crashes, ever>>

Release(batch) ==
    /\ batch \in holding
    /\ \A u \in batch : unit[u].state = "done"
    /\ holding' = holding \ {batch}
    /\ inFlight' = FALSE
    /\ UNCHANGED <<task, inst, unit, run, fan, autoResuming, stop, crashes, ever>>

-----------------------------------------------------------------------------
\* ForceRestart and redispatchCell.

\* e.mu: claimParked holds it from its read of the row to its write.
MuFree == \A i \in DOMAIN run : run[i].at # "claiming"

\* Engine.StopParked: the engine lets go of a parked or waking run and gives
\* its slot back.  Mutant: the slot of a waking run is left to its settle.
StopParkedKeepsSlot(i) ==
    /\ MuFree
    /\ run' = [run EXCEPT ![i].at =
                 CASE @ = "parked" -> "none" [] @ = "waking" -> "stopped" [] OTHER -> @]
    /\ task' = IF run[i].at = "parked" THEN Decremented(task) ELSE task

StopParked(i) ==
    /\ MuFree
    /\ run' = [run EXCEPT ![i].at =
                 CASE @ = "parked" -> "none" [] @ = "waking" -> "stopped" [] OTHER -> @]
    /\ task' = IF run[i].at \in {"parked", "waking"} THEN Decremented(task) ELSE task

\* UpdateWorkflowInstanceState of a stop.  Mutant: the reason is left out, as for
\* any other state.
InterruptNoReason(i) == inst' = [inst EXCEPT ![i] = WithState(@, "blocked", "")]

Interrupt(i) == inst' = [inst EXCEPT ![i] = WithState(@, "blocked", "interrupted")]

\* assertKnownCell lets every cell pass that has a binding, and so a task.
ForceRestart ==
    LET rows == {i \in DOMAIN inst : ~TerminalRow(inst[i])}
    IN  /\ "restart" \in Ops
        /\ fan["restart"].pc = "idle"
        /\ Room(Cardinality(Workflows))
        /\ inFlight' = FALSE
        /\ fan' = [fan EXCEPT !["restart"] = [Idle EXCEPT !.pc = "forget", !.rows = rows]]
        /\ UNCHANGED <<task, inst, unit, run, holding, autoResuming, stop, crashes, ever>>

RestartForget(i) ==
    /\ fan["restart"].pc = "forget" /\ i \in fan["restart"].rows
    /\ StopParked(i)
    /\ fan' = [fan EXCEPT !["restart"].pc = "write", !["restart"].row = i]
    /\ UNCHANGED <<inst, unit, inFlight, holding, autoResuming, stop, crashes, ever>>

RestartWrite ==
    LET i == fan["restart"].row
    IN  /\ fan["restart"].pc = "write"
        /\ Interrupt(i)
        /\ fan' = [fan EXCEPT !["restart"].pc = "forget", !["restart"].rows = @ \ {i}]
        /\ UNCHANGED <<task, unit, run, inFlight, holding, autoResuming, stop, crashes, ever>>

\* `once` and the failure cap are overridden; an in-flight cell is left alone.
RestartRoute(M) ==
    LET todo == {w \in M : w \notin autoResuming /\ ~HasActiveInstanceForRoute(w)}
        goes == ~inFlight /\ todo # {}
    IN  /\ fan["restart"].pc = "forget" /\ fan["restart"].rows = {}
        /\ inFlight' = (inFlight \/ goes)
        /\ fan' = [fan EXCEPT !["restart"] =
                     IF goes THEN [Idle EXCEPT !.pc = "cancel", !.todo = todo] ELSE Idle]
        /\ UNCHANGED <<task, inst, unit, run, holding, autoResuming, stop, crashes, ever>>

\* QueueStore.RequestCancelFor.
CanceledFor(ws) ==
    [u \in DOMAIN unit |->
       CASE unit[u].kind # "job" \/ unit[u].wf \notin ws -> unit[u]
         [] unit[u].state = "queued" -> [unit[u] EXCEPT !.cancel = TRUE, !.state = "canceled"]
         [] unit[u].state = "leased" -> [unit[u] EXCEPT !.cancel = TRUE]
         [] OTHER -> unit[u]]

RestartCancel ==
    /\ fan["restart"].pc = "cancel"
    /\ unit' = CanceledFor(fan["restart"].todo)
    /\ fan' = [fan EXCEPT !["restart"].pc = "bump"]
    /\ UNCHANGED <<task, inst, run, inFlight, holding, autoResuming, stop, crashes, ever>>

RestartBump ==
    /\ fan["restart"].pc = "bump"
    /\ task' = [task EXCEPT !.generation = @ + 1]
    /\ fan' = [fan EXCEPT !["restart"].pc = "increment"]
    /\ UNCHANGED <<inst, unit, run, inFlight, holding, autoResuming, stop, crashes, ever>>

-----------------------------------------------------------------------------
\* A unit: the embedded worker's delivery of a job (worker.Runtime, see
\* WorkerRuntime), or a goroutine waiting for its agent's semaphore.

SetUnit(u, at, ok) == unit' = [unit EXCEPT ![u].at = at, ![u].ok = ok]

Claim(u) ==
    /\ unit[u].kind = "job" /\ unit[u].state = "queued"
    /\ unit' = [unit EXCEPT ![u].state = "leased", ![u].attempts = @ + 1, ![u].at = "guard"]
    /\ UNCHANGED <<task, inst, run, fan, inFlight, holding, autoResuming, stop, crashes, ever>>

\* The redelivery guards of ExecuteQueuedJob.  Mutant: without the second.
SkippedIfDone(u) ==
    (unit[u].attempts > 1 \/ unit[u].wf \in Once) /\ HasCompletedInstanceForRoute(unit[u].wf)

Skipped(u) ==
    \/ (unit[u].attempts > 1 \/ unit[u].wf \in Once) /\ HasCompletedInstanceForRoute(unit[u].wf)
    \/ /\ unit[u].attempts > 1
       /\ unit[u].wf \in autoResuming \/ HasActiveInstanceForRoute(unit[u].wf)

\* A redelivery whose reservation was used runs as a new instance.
ExecuteQueuedJob(u) ==
    LET r == unit[u].reserved
        adopts == r # 0 /\ (unit[u].attempts > 1 => inst[r].state \in {"queued", "canceled"})
    IN  /\ unit[u].at = "guard"
        /\ \/ Skipped(u) /\ SetUnit(u, "finish", TRUE)
           \/ ~Skipped(u) /\ SetUnit(u, IF adopts THEN "adopt" ELSE "create", FALSE)
        /\ UNCHANGED <<task, inst, run, fan, inFlight, holding, autoResuming, stop, crashes, ever>>

Waits(u) == unit[u].kind # "job" /\ unit[u].state = "queued" /\ unit[u].at = "idle"
Creates(u) == unit[u].at = "create" \/ (Waits(u) /\ unit[u].reserved = 0)
Adopts(u) == unit[u].at = "adopt" \/ (Waits(u) /\ unit[u].reserved # 0)

\* RunInstance and ResumeInstance.
RunInstance(u) ==
    /\ Creates(u)
    /\ inst' = Append(inst, NewRow(unit[u].wf, "running", unit[u].from))
    /\ run' = Append(run, Fresh(u))
    /\ SetUnit(u, "run", FALSE)
    /\ UNCHANGED <<task, fan, inFlight, holding, autoResuming, stop, crashes, ever>>

\* RunReservedInstance: whoever takes the row out of 'queued' owns its count.
\* Mutant: the row's state is not looked at.
RunReservedAnyway(u) ==
    LET r == unit[u].reserved
    IN  /\ Adopts(u)
        /\ inst' = [inst EXCEPT ![r] = WithState(@, "running", "")]
        /\ run' = [run EXCEPT ![r] = Fresh(u)]
        /\ SetUnit(u, "run", FALSE)
        /\ UNCHANGED <<task, fan, inFlight, holding, autoResuming, stop, crashes, ever>>

RunReservedInstance(u) ==
    LET r == unit[u].reserved
    IN  /\ Adopts(u)
        /\ IF inst[r].state = "queued"
           THEN /\ inst' = [inst EXCEPT ![r] = WithState(@, "running", "")]
                /\ run' = [run EXCEPT ![r] = Fresh(u)]
                /\ SetUnit(u, "run", FALSE)
           ELSE SetUnit(u, "finish", TRUE) /\ UNCHANGED <<inst, run>>
        /\ UNCHANGED <<task, fan, inFlight, holding, autoResuming, stop, crashes, ever>>

\* The worker's Finish, or the end of the goroutine; onDone of an auto resume.
FinishUnit(u) ==
    /\ unit[u].at = "finish"
    /\ unit' = [unit EXCEPT ![u].at = "idle", ![u].state =
                  CASE unit[u].kind # "job" -> "done"
                    [] unit[u].cancel -> "canceled"
                    [] unit[u].ok -> "done"
                    [] OTHER -> "failed"]
    /\ autoResuming' = IF unit[u].kind = "auto" THEN autoResuming \ {unit[u].wf} ELSE autoResuming
    /\ UNCHANGED <<task, inst, run, fan, inFlight, holding, stop, crashes, ever>>

\* A heartbeat reports the cancel request: the context of the whole run ends.
CancelSeen(i) ==
    LET u == run[i].unit
    IN  /\ run[i].at \in {"fresh", "settling", "hooks", "last"} /\ ~run[i].cut
        /\ u # 0 /\ unit[u].kind = "job" /\ unit[u].cancel
        /\ run' = [run EXCEPT ![i].cut = TRUE]
        /\ UNCHANGED <<task, inst, unit, fan, inFlight, holding, autoResuming, stop, crashes, ever>>

\* ReclaimExpired on a lease the dead process left.
JobMax == IF MaxAttempts > 0 THEN MaxAttempts ELSE 3

ReclaimExpired(u) ==
    /\ unit[u].at = "dead"
    /\ unit' = [unit EXCEPT ![u].at = "idle", ![u].state =
                  CASE unit[u].cancel -> "canceled"
                    [] unit[u].attempts >= JobMax -> "failed"
                    [] OTHER -> "queued"]
    /\ UNCHANGED <<task, inst, run, fan, inFlight, holding, autoResuming, stop, crashes, ever>>

-----------------------------------------------------------------------------
\* Engine: from the drive to the last statement of completeTask.

\* What the unit of a run on its first drive learns; later drives have none.
UnitEnds(i, ok) ==
    IF run[i].unit = 0 THEN UNCHANGED unit ELSE SetUnit(run[i].unit, "finish", ok)

\* A write with a cancelled context fails, and settle ignores it.
Write(i, st, why) ==
    inst' = IF run[i].cut THEN inst ELSE [inst EXCEPT ![i] = WithState(@, st, why)]

Park(i) ==
    /\ "park" \in Ops /\ MuFree
    /\ run[i].at \in {"fresh", "waking"}
    /\ Write(i, "blocked", "parked")
    /\ run' = [run EXCEPT ![i] = [NoRun EXCEPT !.at = "parked"]]
    /\ UnitEnds(i, FALSE)
    /\ UNCHANGED <<task, fan, inFlight, holding, autoResuming, stop, crashes, ever>>

Settle(i, failed) ==
    /\ MuFree
    /\ run[i].at \in {"fresh", "waking"}
    /\ run' = [run EXCEPT ![i].at = "settling", ![i].failed = failed]
    /\ UNCHANGED <<task, inst, unit, fan, inFlight, holding, autoResuming, stop, crashes, ever>>

SettleStopped(i) ==
    /\ run[i].at = "stopped"
    /\ run' = [run EXCEPT ![i] = NoRun]
    /\ UNCHANGED <<task, inst, unit, fan, inFlight, holding, autoResuming, stop, crashes, ever>>

SettleWrite(i) ==
    /\ run[i].at = "settling"
    /\ Write(i, IF run[i].failed THEN "failed" ELSE "done", "")
    /\ ever' = IF run[i].failed \/ run[i].cut THEN ever ELSE ever \cup {inst[i].wf}
    /\ run' = [run EXCEPT ![i].at = "hooks"]
    /\ UNCHANGED <<task, unit, fan, inFlight, holding, autoResuming, stop, crashes>>

\* completeTask: the count, and when it drains the state of the task.  Mutants:
\* only a task that reads running is settled; the test for zero is off by one.
CompleteRunningTask(i) ==
    LET t == Decremented(task)
        last == ~run[i].cut /\ t.outstanding = 0 /\ t.state = "running"
    IN  /\ run[i].at = "hooks"
        /\ task' = IF run[i].cut THEN task ELSE t
        /\ run' = [run EXCEPT ![i] = IF last THEN [@ EXCEPT !.at = "last"] ELSE NoRun]
        /\ IF last THEN UNCHANGED unit ELSE UnitEnds(i, ~run[i].failed)
        /\ UNCHANGED <<inst, fan, inFlight, holding, autoResuming, stop, crashes, ever>>

CompleteTaskOneLeft(i) ==
    LET t == Decremented(task)
        last == ~run[i].cut /\ t.outstanding <= 1
    IN  /\ run[i].at = "hooks"
        /\ task' = IF run[i].cut THEN task ELSE t
        /\ run' = [run EXCEPT ![i] = IF last THEN [@ EXCEPT !.at = "last"] ELSE NoRun]
        /\ IF last THEN UNCHANGED unit ELSE UnitEnds(i, ~run[i].failed)
        /\ UNCHANGED <<inst, fan, inFlight, holding, autoResuming, stop, crashes, ever>>

CompleteTask(i) ==
    LET t == Decremented(task)
        last == ~run[i].cut /\ t.outstanding = 0
    IN  /\ run[i].at = "hooks"
        /\ task' = IF run[i].cut THEN task ELSE t
        /\ run' = [run EXCEPT ![i] = IF last THEN [@ EXCEPT !.at = "last"] ELSE NoRun]
        /\ IF last THEN UNCHANGED unit ELSE UnitEnds(i, ~run[i].failed)
        /\ UNCHANGED <<inst, fan, inFlight, holding, autoResuming, stop, crashes, ever>>

RetryPending(w) == MaxAttempts > 0 /\ ~Capped(w)

SettledTask(t, failed, retry) ==
    [t EXCEPT !.state = CASE ~failed -> "done" [] failed /\ retry -> "blocked" [] OTHER -> "failed",
              !.reason = IF failed /\ retry THEN "retry_backoff" ELSE ""]

SetTaskState(i) ==
    LET failed == run[i].failed \/ (~run[i].cut /\ HasFailedInstance(inst, task))
    IN  /\ run[i].at = "last"
        /\ task' = IF run[i].cut THEN task
                   ELSE SettledTask(task, failed, RetryPending(inst[i].wf))
        /\ run' = [run EXCEPT ![i] = NoRun]
        /\ UnitEnds(i, ~run[i].failed)
        /\ UNCHANGED <<inst, fan, inFlight, holding, autoResuming, stop, crashes, ever>>

\* claimParked, by a re-check of the approval or wait: the read of the row and
\* the write of it, both under e.mu.  A row that is no longer parked drops the
\* run.
WakeRead(i) ==
    /\ run[i].at = "parked" /\ MuFree
    /\ IF Parked(inst[i])
       THEN run' = [run EXCEPT ![i].at = "claiming"] /\ UNCHANGED task
       ELSE run' = [run EXCEPT ![i] = NoRun] /\ task' = Decremented(task)
    /\ UNCHANGED <<inst, unit, fan, inFlight, holding, autoResuming, stop, crashes, ever>>

WakeWrite(i) ==
    /\ run[i].at = "claiming"
    /\ run' = [run EXCEPT ![i].at = "waking"]
    /\ inst' = [inst EXCEPT ![i] = WithState(@, "running", "")]
    /\ UNCHANGED <<task, unit, fan, inFlight, holding, autoResuming, stop, crashes, ever>>

-----------------------------------------------------------------------------
\* StopInstance, and StartResume by an operator.

StopInstance(i) ==
    /\ "stop" \in Ops
    /\ stop.pc = "idle"
    /\ stop' = [pc |-> IF inst[i].state = "queued" THEN "leave" ELSE "forget", row |-> i]
    /\ unit' = CanceledFor({inst[i].wf})
    /\ UNCHANGED <<task, inst, run, fan, inFlight, holding, autoResuming, crashes, ever>>

\* LeaveQueuedState; losing the race means the run just started.
StopReserved ==
    LET i == stop.row
    IN  /\ stop.pc = "leave"
        /\ IF inst[i].state = "queued"
           THEN /\ inst' = [inst EXCEPT ![i] = WithState(@, "canceled", "")]
                /\ stop' = [stop EXCEPT !.pc = "release"]
           ELSE stop' = [stop EXCEPT !.pc = "forget"] /\ UNCHANGED inst
        /\ UNCHANGED <<task, unit, run, fan, inFlight, holding, autoResuming, crashes, ever>>

StopRelease ==
    /\ stop.pc = "release"
    /\ task' = Decremented(task)
    /\ stop' = NoStop
    /\ UNCHANGED <<inst, unit, run, fan, inFlight, holding, autoResuming, crashes, ever>>

StopForget ==
    /\ stop.pc = "forget"
    /\ StopParked(stop.row)
    /\ inFlight' = FALSE
    /\ stop' = [stop EXCEPT !.pc = "write"]
    /\ UNCHANGED <<inst, unit, fan, holding, autoResuming, crashes, ever>>

StopWrite ==
    /\ stop.pc = "write"
    /\ Interrupt(stop.row)
    /\ stop' = NoStop
    /\ UNCHANGED <<task, unit, run, fan, inFlight, holding, autoResuming, crashes, ever>>

\* resumableState, then the count before the goroutine.
StartResume(i) ==
    /\ "resume" \in Ops
    /\ inst[i].state = "failed" \/ Interrupted(inst[i])
    /\ Room(1)
    /\ task' = Incremented(task, 1)
    /\ unit' = Append(unit, NewUnit("resume", inst[i].wf, 0, "resume", 0, i, Now))
    /\ UNCHANGED <<inst, run, fan, inFlight, holding, autoResuming, stop, crashes, ever>>

-----------------------------------------------------------------------------
\* A death of the process and the passes of Dispatcher.Start, which runs them
\* before its own loops and workers start.  They are one step here: the IPC server
\* is up a little earlier, but no operator's request is taken between two passes.
\* Each pass takes and returns the database, db = [task, inst].

\* ReconcileOrphanWorkflowInstances.
OrphansInterrupted(db) ==
    [db EXCEPT !.inst = [i \in DOMAIN @ |->
       IF @[i].state = "running" THEN WithState(@[i], "blocked", "interrupted") ELSE @[i]]]

\* settleJobAccounting.
JobAccounted(db, job) ==
    LET t == Decremented(db.task)
        failed == job.state = "failed" \/ HasFailedInstance(db.inst, t)
    IN  IF t.outstanding > 0 \/ job.state = "canceled"
        THEN [db EXCEPT !.task = t]
        ELSE [db EXCEPT !.task = SettledTask(t, failed, FALSE)]

\* settleRemoteQueueJob.  A row at least as new as the job means the engine of
\* the dead process owned the run.  Mutant: only if it is terminal.
EngineOwnedIfTerminal(db, u) ==
    \E i \in RowsOf(db.inst, unit[u].wf) :
        db.inst[i].born >= unit[u].born /\ TerminalRow(db.inst[i])

EngineOwned(db, u) ==
    \E i \in RowsOf(db.inst, unit[u].wf) : db.inst[i].born >= unit[u].born

JobSettled(db, u) ==
    LET job == unit[u]
        r == job.reserved
        row == [wf |-> job.wf, state |-> job.state, reason |-> "", gen |-> db.task.generation,
                from |-> 0, job |-> u, born |-> Len(db.inst) + Len(unit)]
    IN  CASE r # 0 /\ db.inst[r].state = "queued" ->
                JobAccounted([db EXCEPT !.inst[r] = WithState(@, job.state, "")], job)
          [] r # 0 /\ db.inst[r].state # "queued" -> db
          [] r = 0 /\ ((\E i \in DOMAIN db.inst : db.inst[i].job = u) \/ EngineOwned(db, u)) -> db
          [] OTHER -> JobAccounted([db EXCEPT !.inst = Append(@, row)], job)

\* reconcileTerminalQueueJobs.
JobsIn(st) ==
    SetToSortSeq({u \in DOMAIN unit : unit[u].kind = "job" /\ unit[u].state = st}, <)

TerminalJobsSettled(db) ==
    FoldLeft(JobSettled, db, JobsIn("done") \o JobsIn("failed") \o JobsIn("canceled"))

\* ReconcileOrphanQueuedInstances.  Mutant: left out.
ReservationsKept(db) == db

ReservationsInterrupted(db) ==
    [db EXCEPT !.inst = [i \in DOMAIN @ |->
       IF @[i].state = "queued" /\ ~\E u \in DOMAIN unit :
             unit[u].kind = "job" /\ unit[u].reserved = i /\ unit[u].state \in {"queued", "leased"}
       THEN WithState(@[i], "blocked", "interrupted") ELSE @[i]]]

\* ReconcileOrphanTaskCounters.
CountersRepaired(db) ==
    LET t == IF db.task.state \in {"done", "failed"} THEN db.task
             ELSE [db.task EXCEPT !.outstanding = LiveCount(db.inst)]
        stranded == /\ t.state = "running" /\ t.outstanding = 0
                    /\ \E i \in DOMAIN db.inst : /\ db.inst[i].state \in {"done", "failed"}
                                                 /\ db.inst[i].gen = t.generation
    IN  [db EXCEPT !.task =
           IF stranded THEN [t EXCEPT !.state = IF HasFailedInstance(db.inst, t) THEN "failed" ELSE "done"]
           ELSE t]

\* PropagateInterruptedToTasks.
InterruptionPropagated(db) ==
    IF /\ db.task.state \notin {"done", "failed", "running"} /\ db.task.outstanding = 0
       /\ \E i \in DOMAIN db.inst : Interrupted(db.inst[i])
       /\ \A i \in DOMAIN db.inst : ~LiveRow(db.inst[i])
    THEN [db EXCEPT !.task.state = "blocked", !.task.reason = "interrupted"]
    ELSE db

Reconciled ==
    InterruptionPropagated(CountersRepaired(ReservationsInterrupted(
        TerminalJobsSettled(OrphansInterrupted([task |-> task, inst |-> inst])))))

\* resumeAutoInterrupted: per workflow its newest interrupted instance, unless a
\* descendant continued it.  Mutant: the descendant is not looked for.
ToResumeAgain(db) ==
    {i \in DOMAIN db.inst :
        /\ Interrupted(db.inst[i]) /\ db.inst[i].wf \in AutoResume
        /\ \A k \in RowsOf(db.inst, db.inst[i].wf) : k > i => ~Interrupted(db.inst[k])
        /\ db.task.state \notin {"done", "failed"}}

ToResume(db) ==
    {i \in DOMAIN db.inst :
        /\ Interrupted(db.inst[i]) /\ db.inst[i].wf \in AutoResume
        /\ \A k \in RowsOf(db.inst, db.inst[i].wf) : k > i => ~Interrupted(db.inst[k])
        /\ \A k \in DOMAIN db.inst : db.inst[k].from # i
        /\ db.task.state \notin {"done", "failed"}}

\* The goroutines are gone with the process, the leases are not.
Abandoned(x) ==
    CASE x.kind = "job" /\ x.state = "leased" -> [x EXCEPT !.at = "dead"]
      [] x.kind # "job" /\ x.state = "queued" -> [x EXCEPT !.state = "lost", !.at = "idle"]
      [] OTHER -> x

\* rehydrateParkedApprovals and rehydrateParkedWaits.  A row is left parked, with
\* a warning, when its workflow is no longer defined, its step runs cannot be read
\* or no step to park at is found among them.
Rehydrated(db, found) ==
    [i \in DOMAIN db.inst |->
       CASE ~Parked(db.inst[i]) -> NoRun
         [] Parked(db.inst[i]) /\ i \in found -> [NoRun EXCEPT !.at = "parked"]
         [] OTHER -> [NoRun EXCEPT !.at = "left"]]

Restart ==
    LET db == Reconciled
        resumes == SetToSortSeq(ToResume(db), <)
        now == Len(db.inst) + Len(unit)
        auto == [k \in DOMAIN resumes |->
                   NewUnit("auto", db.inst[resumes[k]].wf, 0, "auto", 0, resumes[k], now + k - 1)]
    IN  /\ crashes < MaxCrashes
        /\ crashes' = crashes + 1
        /\ inst' = db.inst
        /\ \E found \in SUBSET {i \in DOMAIN db.inst : Parked(db.inst[i])} :
              run' = Rehydrated(db, found)
        /\ task' = IF auto = << >> THEN db.task ELSE Incremented(db.task, Len(auto))
        /\ unit' = [u \in DOMAIN unit |-> Abandoned(unit[u])] \o auto
        /\ autoResuming' = {auto[k].wf : k \in DOMAIN auto}
        /\ fan' = [p \in Callers |-> Idle]
        /\ inFlight' = FALSE /\ holding' = {} /\ stop' = NoStop
        /\ UNCHANGED ever

-----------------------------------------------------------------------------
Fanning ==
    \/ \E M \in SUBSET Workflows : Poll(M)
    \/ \E w \in Workflows : ManualRun(w)
    \/ \E p \in Callers : FanIncrement(p)
    \/ \E p \in Callers : FanRead(p)
    \/ \E p \in Callers, w \in Workflows : FanEnqueue(p, w)
    \/ \E p \in Callers : FanRollback(p)
    \/ \E p \in Callers : FanEnd(p)
    \/ \E p \in Callers : FanLaunch(p)
    \/ \E batch \in holding : Release(batch)

Restarting ==
    \/ ForceRestart
    \/ \E i \in DOMAIN inst : RestartForget(i)
    \/ RestartWrite
    \/ \E M \in SUBSET Workflows : RestartRoute(M)
    \/ RestartCancel
    \/ RestartBump

Delivering ==
    \/ \E u \in DOMAIN unit : Claim(u)
    \/ \E u \in DOMAIN unit : ExecuteQueuedJob(u)
    \/ \E u \in DOMAIN unit : RunInstance(u)
    \/ \E u \in DOMAIN unit : RunReservedInstance(u)
    \/ \E u \in DOMAIN unit : FinishUnit(u)
    \/ \E u \in DOMAIN unit : ReclaimExpired(u)

Running ==
    \/ \E i \in DOMAIN inst : CancelSeen(i)
    \/ \E i \in DOMAIN inst : Park(i)
    \/ \E i \in DOMAIN inst, failed \in BOOLEAN : Settle(i, failed)
    \/ \E i \in DOMAIN inst : SettleStopped(i)
    \/ \E i \in DOMAIN inst : SettleWrite(i)
    \/ \E i \in DOMAIN inst : CompleteTask(i)
    \/ \E i \in DOMAIN inst : SetTaskState(i)
    \/ \E i \in DOMAIN inst : WakeRead(i)
    \/ \E i \in DOMAIN inst : WakeWrite(i)

Operating ==
    \/ \E i \in DOMAIN inst : StopInstance(i)
    \/ StopReserved
    \/ StopRelease
    \/ StopForget
    \/ StopWrite
    \/ \E i \in DOMAIN inst : StartResume(i)

Step == Fanning \/ Restarting \/ Delivering \/ Running \/ Operating \/ Restart

Next == Step /\ UNCHANGED setup

Spec == Init /\ [][Next]_vars

-----------------------------------------------------------------------------
\* The records the daemon keeps of a task are well formed: every instance has
\* its slot in the engine, and references name rows and units that exist.
TypeOK ==
    /\ setup \in Setups
    /\ task \in TaskRow
    /\ inst \in Seq(InstanceRow) /\ unit \in Seq(Unit) /\ run \in Seq(Run)
    /\ Len(run) = Len(inst)
    /\ \A i \in DOMAIN inst : inst[i].from \in 0 .. Len(inst) /\ run[i].unit \in 0 .. Len(unit)
    /\ \A u \in DOMAIN unit : unit[u].reserved \in 0 .. Len(inst)
    /\ fan \in [Callers -> Fan]
    /\ inFlight \in BOOLEAN /\ autoResuming \subseteq AutoResume
    /\ holding \subseteq SUBSET (DOMAIN unit)
    /\ stop \in [pc : {"idle", "leave", "release", "forget", "write"}, row : Nat]
    /\ crashes \in 0 .. MaxCrashes /\ ever \subseteq Workflows

\* What still owes the task a decrement: units that have no run yet, runs up to
\* completeTask, matches a fan-out has counted, a stop about to give a
\* reservation's slot back.
OwedUnits ==
    {u \in DOMAIN unit :
        /\ unit[u].state \in {"queued", "leased"}
        /\ unit[u].at \in {"idle", "guard", "create", "adopt"}
        /\ unit[u].reserved # 0 => inst[unit[u].reserved].state = "queued"}

OwedRuns ==
    {i \in DOMAIN run :
        run[i].at \in {"fresh", "parked", "claiming", "waking", "settling", "hooks"}}

OwedMatches ==
    UNION {fan[p].todo \X {p} : p \in {q \in Callers : fan[q].pc \in {"read", "enqueue", "rollback", "launch"}}}

Owed ==
    Cardinality(OwedUnits) + Cardinality(OwedRuns) + Cardinality(OwedMatches)
      + Cardinality({p \in Callers : fan[p].pc = "rollback"})
      + (IF stop.pc = "release" THEN 1 ELSE 0)

\* outstanding_workflows is, at every moment, exactly the number of decrements
\* still to come: no slot is leaked and none is given back twice.
CountIsOwed == task.outstanding = Owed

\* The same, along every path of fanOut, settle, StopParked and claimParked, where
\* none of these happens: the process dies; a stop cancels a reservation, whose
\* slot it may give back before fanOut has counted it; a force-restart interrupts
\* one and gives none back; or the queue ends a job without a run, because it is
\* cancelled or its `once` workflow is done.
CounterExact ==
    /\ MaxCrashes = 0
    /\ UseQueue => Once = {}
    /\ UseQueue \/ "manual" \in Ops => Ops \cap {"stop", "restart"} = {}
    => CountIsOwed

\* The run that finds the count drained, and so applies the task's hook, is
\* the last: nothing else of the task is running, parked or on its way.
HookAfterLast ==
    [][\A i \in DOMAIN run :
          run[i].at # "last" /\ run'[i].at = "last" => Owed' = 0]_vars

Quiet ==
    /\ \A p \in Callers : fan[p].pc = "idle"
    /\ \A i \in DOMAIN run : run[i].at \in {"none", "left"}
    /\ \A u \in DOMAIN unit : unit[u].state \notin {"queued", "leased"}
    /\ stop.pc = "idle"

ThisRound == {i \in DOMAIN inst : inst[i].gen = task.generation}

\* When nothing runs any more and every instance of the task's round has
\* passed or failed, the task has left the states that mean work is going on.
TaskSettles ==
    Quiet /\ ThisRound # {} /\ (\A i \in ThisRound : inst[i].state \in {"done", "failed"})
      => task.state \in {"done", "failed"} \/ task.reason = "retry_backoff"

\* The same for inline dispatch without force-restarts and deaths of the process:
\* on the queue the rollback of a duplicate can be the decrement that reaches zero,
\* a force-restart can interrupt the row of a run that then parks and is dropped
\* with its slot, and a crash can fall between the instance's outcome and the task's.
LastRunSettles == ~UseQueue /\ "restart" \notin Ops /\ MaxCrashes = 0 => TaskSettles

\* A task that reads done has no failed instance in its round, and one that
\* reads failed or waits for a retry has one, once nothing runs any more.
OutcomeOfTheRound ==
    Quiet => /\ task.state = "done" => \A i \in ThisRound : inst[i].state # "failed"
             /\ task.state = "failed" \/ task.reason = "retry_backoff"
                  => \E i \in ThisRound : inst[i].state = "failed"

\* The same where polls alone dispatch and no run parks, so that the in-flight
\* mark keeps a round from opening before the one before has set its state.  (After
\* a death of the process a job may be delivered again, in a later round.)
PolledOutcome == Ops = {} /\ (UseQueue => MaxCrashes = 0) => OutcomeOfTheRound

Live(i) == run[i].at \in {"fresh", "parked", "claiming", "waking", "settling"}

\* The routing guards, the in-flight mark, the idempotency key and the
\* redelivery guard together keep a workflow from having two runs at once.
OneRunPerRoute ==
    \A i, k \in DOMAIN run : Live(i) /\ Live(k) /\ inst[i].wf = inst[k].wf => i = k

\* The same where polls alone dispatch: a manual run or a resume is meant to run
\* beside others, and a force-restart does.  (The same holds of a job delivered
\* again beside that of a later round; OneRunPerHandover is about one job.)
PolledOneRun == Ops \subseteq {"park"} /\ (UseQueue => MaxCrashes = 0) => OneRunPerRoute

\* Work handed over once runs once at a time, over deaths of the daemon too: a
\* redelivered job does not run beside the run of an earlier delivery that was
\* parked and rehydrated, or interrupted and resumed by the startup.  (A manual
\* run may run beside others.)
OneRunPerHandover ==
    "manual" \notin Ops /\ Cardinality({u \in DOMAIN unit : unit[u].kind # "auto"}) <= 1 => OneRunPerRoute

\* The row a stop or a force-restart is about to mark.
BeingMarked(i) ==
    (stop.pc # "idle" /\ stop.row = i) \/ (fan["restart"].pc = "write" /\ fan["restart"].row = i)

\* A row that reads running, parked or queued has something in the process or
\* in the queue that will take it further, after a restart of the daemon too:
\* nothing holds its route, or its slot, for ever.  The exception is a parked
\* instance the startup could not rebuild, which it leaves as it is.
RowsOwned ==
    \A i \in DOMAIN inst : ~BeingMarked(i) =>
        /\ inst[i].state = "running" => run[i].at \in {"fresh", "waking", "settling"}
        /\ Parked(inst[i]) => run[i].at \in {"parked", "claiming", "left"}
        /\ inst[i].state = "queued" =>
              \/ \E p \in Callers : fan[p].reserved = i
              \/ \E u \in DOMAIN unit :
                    unit[u].reserved = i /\ unit[u].state \in {"queued", "leased"}

\* A job may end with its row none the wiser: a cancel ends the jobs of all runs of
\* the workflow, and the process may die between it and the mark on the row; a
\* redelivered or `once` job is skipped because of another run.
JobsEndUnseen ==
    /\ UseQueue
    /\ \/ "restart" \in Ops
       \/ "stop" \in Ops /\ (Len(unit) > 1 \/ crashes > 0)
       \/ "manual" \in Ops /\ (Once # {} \/ crashes > 0) /\ Len(unit) > 1

\* The same wherever a job cannot end unseen.
LiveRowsOwned == JobsEndUnseen \/ RowsOwned

\* A `once` workflow has at most one done instance of the task, over rounds
\* that other workflows open again, where no operator overrides `once` and no
\* startup writes the outcome of a skipped job into a row of its own.
OnceDoneOnce ==
    Ops \subseteq {"park"} /\ (UseQueue => MaxCrashes = 0) =>
    \A i, k \in DOMAIN inst :
        /\ inst[i].wf \in Once /\ inst[k].wf = inst[i].wf
        /\ inst[i].state = "done" /\ inst[k].state = "done"
        => i = k

\* An interrupted instance is continued by the startup at most once.
ContinuedOnce ==
    \A i, k \in DOMAIN inst : inst[i].from # 0 /\ inst[i].from = inst[k].from => i = k

\* A reservation cancelled before it started never runs: of StopInstance and
\* RunReservedInstance, the first to take the row out of 'queued' wins.
CanceledNeverRuns ==
    [][\A i \in DOMAIN inst : inst[i].state = "canceled" => run'[i].at = "none"]_vars

\* The startup passes never settle a task one of whose instances is parked or
\* waits in the queue: the instance will still settle it.
StartupKeepsOpen ==
    [][crashes' # crashes /\ task.state \notin {"done", "failed"}
         /\ (\E i \in DOMAIN inst : Parked(inst'[i]) \/ inst'[i].state = "queued")
       => task'.state \notin {"done", "failed"}]_vars

\* An instance marked interrupted stays so: what continues it is another row.
InterruptedIsFinal ==
    [][\A i \in DOMAIN inst : Interrupted(inst[i]) => Interrupted(inst'[i])]_vars

\* A poll never dispatches a `once` workflow that has been done.
OnceForPolls ==
    [][fan["poll"].pc = "idle" => fan'["poll"].todo \cap Once \cap ever = {}]_vars
=============================================================================
