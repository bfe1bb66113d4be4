------------------------------ MODULE StepGraph ------------------------------
(***************************************************************************)
(* The scheduler of one workflow instance: driveDAG of workflow/dag.go,    *)
(* the ways it suspends and continues (workflow/approval.go, wait_park.go) *)
(* and the ways it is rebuilt from its persisted step runs after a restart *)
(* (RehydrateApproval, RehydrateWait) or a resume (workflow/resume.go).    *)
(*                                                                         *)
(* The scheduler goroutine owns the graph.  Each step's worker runs on its *)
(* own goroutine and touches nothing but the result channel, so the model  *)
(* interleaves the scheduler's passes over its loop (pc) with the          *)
(* completion of any worker (busy) at any point.                           *)
(*                                                                         *)
(* What an agent answers, what an expression evaluates to and what CI says *)
(* are choices of the environment.  A foreach or a sub-workflow step is,   *)
(* for this scheduler, an agent step; a parallel group holding a wait_for  *)
(* child is a wait step.                                                   *)
(***************************************************************************)
EXTENDS Integers, Sequences, FiniteSets, SequencesExt

CONSTANTS Workflows,    \* the workflow definitions an instance may run
          None,         \* no step
          Events,       \* what the environment does besides answering, by name
          MaxRestarts   \* bound: rebuilds of the instance from its rows

ASSUME EventsAssumption ==
  Events \subseteq {"stop", "cancel", "crash", "restart", "resume", "resume_from"}

VARIABLES wf,           \* dagRun.wf: the definition this instance runs
          state,        \* dagRun.state
          activated,    \* dagRun.activated
          retries,      \* dagRun.retries: on_fail laps taken by a step
          conflicts,    \* dagRun.conflictRetries: on_conflict laps
          contrib,      \* dagRun.contrib: the steps whose memory is visible
          feedback,     \* dagRun.feedback: the steps whose failed attempt is visible
          waitingStep,  \* dagRun.waitingStep
          stopped,      \* dagRun.stopped
          canceled,     \* ctx.Err() # nil
          busy,         \* steps whose worker goroutine is still running
          resultCh,     \* results sent and not received yet
          todo,         \* what is left of pickAllRunnable's list in dispatch
          termFail,     \* driveDAG's termFail
          loopTarget,   \* driveDAG's loopTarget
          pc,           \* where the scheduler goroutine is
          outcome,      \* what driveDAG returned
          resuming,     \* the run is in Engine.resuming
          doneRuns,     \* step_runs rows in state done, per step
          chosen,       \* what each split chose last
          restarts      \* rebuilds so far

graph == <<state, activated, retries, conflicts, contrib, feedback, waitingStep>>
locals == <<busy, resultCh, todo, termFail, loopTarget>>
vars == <<wf, graph, stopped, canceled, locals, pc, outcome, resuming, doneRuns,
          chosen, restarts>>

Steps == DOMAIN wf.step
Kind(s) == wf.step[s].kind

StepStates == {"pending", "running", "passed", "failed", "waiting", "skipped",
               "cond_skipped"}
Results == {"pass", "fail", "conflict", "pending"}
Driving == {"top", "dispatch", "check", "recv", "apply", "drain", "settle"}
Phases == Driving \cup {"parked", "ended", "interrupted", "lost"}
Outcomes == {"none", "waiting", "done", "failed", "stopped"}

InFlight == Cardinality(busy) + Len(resultCh)

-----------------------------------------------------------------------------
(* Graph queries and updates.  Each takes the state map st it reads.        *)

DepsPassedAny(st, s) ==
  /\ wf.step[s].dependsOn # {} => \E d \in wf.step[s].dependsOn : st[d] = "passed"
  /\ \A d \in wf.step[s].seqDependsOn : st[d] \in {"passed", "cond_skipped"}

\* depsPassed: an explicit dependency must have passed, an implicit
\* sequential one may also have been condition-skipped.
DepsPassed(st, s) ==
  /\ \A d \in wf.step[s].dependsOn : st[d] = "passed"
  /\ \A d \in wf.step[s].seqDependsOn : st[d] \in {"passed", "cond_skipped"}

Runnable(st, act, s) == st[s] = "pending" /\ s \in act /\ DepsPassed(st, s)

\* pickAllRunnable: in declaration order.
PickAllRunnable(st, act) == SelectSeq(wf.order, LAMBDA s : Runnable(st, act, s))

Targets(s) == {wf.step[s].branches[i].goto : i \in DOMAIN wf.step[s].branches} \ {None}
SplitTargets == UNION {Targets(s) : s \in Steps}

FeedingSplitsDoneAny(st, t) == \E s \in Steps : t \in Targets(s) /\ st[s] # "pending"

FeedingSplitsDone(st, t) == \A s \in Steps : t \in Targets(s) => st[s] # "pending"

Deps(s) == wf.step[s].dependsOn \cup wf.step[s].seqDependsOn

\* The steps of within that depend, through steps of within, on one of seed.
Downstream(seed, within) ==
  LET grow[n \in 0..Len(wf.order)] ==
        IF n = 0 THEN seed
        ELSE grow[n - 1] \cup {s \in within : Deps(s) \cap grow[n - 1] # {}}
  IN grow[Len(wf.order)]

\* markSkipped: the step and its pending dependents, transitively.
MarkSkipped(st, s) ==
  LET hit == Downstream({s}, {x \in Steps : st[x] = "pending"})
  IN IF st[s] \in {"skipped", "cond_skipped"} THEN st
     ELSE [x \in Steps |-> IF x \in hit THEN "skipped" ELSE st[x]]

Unreachable(st, s) ==
  \/ \E d \in wf.step[s].dependsOn : st[d] \in {"skipped", "failed", "cond_skipped"}
  \/ \E d \in wf.step[s].seqDependsOn : st[d] \in {"skipped", "failed"}
  \/ s \in SplitTargets /\ s \notin activated /\ FeedingSplitsDone(st, s)

\* skipUnreachable: one pass in declaration order, each step seeing the
\* skips before it.
SkipUnreachable ==
  FoldLeft(LAMBDA st, s : IF st[s] = "pending" /\ Unreachable(st, s)
                          THEN MarkSkipped(st, s) ELSE st,
           state, wf.order)

-----------------------------------------------------------------------------
(* Building the graph: initDAG and restoreCachedSteps.                      *)

InitActivated == Steps \ SplitTargets

Offered(s, from) ==
  LET index(x) == CHOOSE i \in DOMAIN wf.order : wf.order[i] = x
  IN from # None => index(s) < index(from)

RestoredAnyRow(from) == {s \in Steps : Kind(s) # "split" /\ state[s] # "pending"}

\* The steps whose passed run restoreCachedSteps replays: one with a row in
\* state done.  A split is re-evaluated; only the rows of steps declared
\* before from (None: all of them) are offered (resumeCacheSelection).
Restored(from) == {s \in Steps : doneRuns[s] > 0 /\ Kind(s) # "split" /\ Offered(s, from)}

RestoredState(from) ==
  [s \in Steps |-> IF s \in Restored(from) THEN "passed" ELSE "pending"]

RestoredActivated(from) ==
  InitActivated \cup ({wf.step[s].next : s \in Restored(from)} \ {None})

\* The dagRun fields a fresh drive starts from.
FreshCounters ==
  /\ feedback' = {}
  /\ retries' = [s \in Steps |-> 0]
  /\ conflicts' = [s \in Steps |-> 0]
  /\ stopped' = FALSE

Init ==
  /\ wf \in Workflows
  /\ state = [s \in Steps |-> "pending"]
  /\ activated = InitActivated
  /\ retries = [s \in Steps |-> 0]
  /\ conflicts = [s \in Steps |-> 0]
  /\ contrib = {} /\ feedback = {}
  /\ waitingStep = None
  /\ stopped = FALSE /\ canceled = FALSE
  /\ busy = {} /\ resultCh = <<>> /\ todo = <<>>
  /\ termFail = FALSE /\ loopTarget = None
  /\ pc = "top" /\ outcome = "none" /\ resuming = FALSE
  /\ doneRuns = [s \in Steps |-> 0]
  /\ chosen = [s \in Steps |-> {}]
  /\ restarts = 0

-----------------------------------------------------------------------------
(* driveDAG: the top of the loop and dispatch.                              *)

Send(s, r) == Append(resultCh, [step |-> s, res |-> r])

Top ==
  /\ pc = "top"
  /\ IF termFail \/ loopTarget # None \/ stopped
     THEN pc' = "check" /\ UNCHANGED todo
     ELSE pc' = "dispatch" /\ todo' = PickAllRunnable(state, activated)
  /\ UNCHANGED <<wf, graph, stopped, canceled, busy, resultCh, termFail, loopTarget,
                 outcome, resuming, doneRuns, chosen, restarts>>

\* The step at the head of the list, when its own condition lets it through.
Dispatching(s) == pc = "dispatch" /\ todo # <<>> /\ s = Head(todo)

DispatchUnchanged == UNCHANGED <<wf, retries, conflicts, contrib, feedback, waitingStep,
                                 stopped, canceled, termFail, loopTarget, pc, outcome,
                                 resuming, doneRuns, restarts>>

\* A condition or a split expression that cannot be evaluated fails the step
\* through the result channel.
DispatchError(s) ==
  /\ Dispatching(s)
  /\ wf.step[s].condition \/ Kind(s) = "split"
  /\ state' = [state EXCEPT ![s] = "running"]
  /\ resultCh' = Send(s, "fail")
  /\ todo' = Tail(todo)
  /\ UNCHANGED <<activated, busy, chosen>>
  /\ DispatchUnchanged

\* The condition is false: markCondSkipped.
DispatchCondSkip(s) ==
  /\ Dispatching(s)
  /\ wf.step[s].condition
  /\ state' = [state EXCEPT ![s] = "cond_skipped"]
  /\ todo' = Tail(todo)
  /\ UNCHANGED <<activated, busy, resultCh, chosen>>
  /\ DispatchUnchanged

ChoiceAll(s, matches) == {wf.step[s].branches[i].goto : i \in matches}

\* The targets of the branches matches, all of them for a multi split and
\* the first for any other; a fallback branch always matches.
Choice(s, matches) ==
  LET b == wf.step[s].branches
      first == CHOOSE i \in matches : \A j \in matches : i <= j
  IN IF wf.step[s].multi THEN {b[i].goto : i \in matches}
     ELSE IF matches = {} THEN {} ELSE {b[first].goto}

\* runSplitStep: applied inline, on the scheduler goroutine.
DispatchSplit(s) ==
  /\ Dispatching(s)
  /\ Kind(s) = "split"
  /\ \E matches \in SUBSET DOMAIN wf.step[s].branches :
       LET b == wf.step[s].branches
           picked == Choice(s, matches)
           act == activated \cup (picked \ {None})
           skip(st, br) == IF /\ br.goto # None
                              /\ br.goto \notin picked \cup act
                              /\ FeedingSplitsDone(st, br.goto)
                           THEN MarkSkipped(st, br.goto) ELSE st
       IN /\ {i \in DOMAIN b : b[i].fallback} \subseteq matches
          /\ activated' = act
          /\ state' = FoldLeft(skip, [state EXCEPT ![s] = "passed"], b)
          /\ chosen' = [chosen EXCEPT ![s] = picked \ {None}]
  /\ todo' = Tail(todo)
  /\ UNCHANGED <<busy, resultCh>>
  /\ DispatchUnchanged

\* An approval launches no worker: it counts as in flight and its result is
\* already in the channel.
DispatchApproval(s) ==
  /\ Dispatching(s)
  /\ Kind(s) = "approval"
  /\ state' = [state EXCEPT ![s] = "running"]
  /\ resultCh' = Send(s, "pass")
  /\ todo' = Tail(todo)
  /\ UNCHANGED <<activated, busy, chosen>>
  /\ DispatchUnchanged

\* Any other step goes to a worker goroutine, or ends the pass when the
\* concurrency limit is reached.
DispatchWorker(s) ==
  /\ Dispatching(s)
  /\ Kind(s) \in {"agent", "wait"}
  /\ IF InFlight >= wf.limit
     THEN todo' = <<>> /\ UNCHANGED <<state, busy>>
     ELSE /\ state' = [state EXCEPT ![s] = "running"]
          /\ busy' = busy \cup {s}
          /\ todo' = Tail(todo)
  /\ UNCHANGED <<activated, resultCh, chosen>>
  /\ DispatchUnchanged

DispatchEnd ==
  /\ pc = "dispatch"
  /\ todo = <<>>
  /\ pc' = "check"
  /\ UNCHANGED <<wf, graph, stopped, canceled, locals, outcome, resuming, doneRuns,
                 chosen, restarts>>

Dispatch == \/ DispatchEnd
            \/ \E s \in Steps : \/ DispatchError(s)
                                \/ DispatchCondSkip(s)
                                \/ DispatchSplit(s)
                                \/ DispatchApproval(s)
                                \/ DispatchWorker(s)

\* What a worker can answer: an agent run passes or fails; one check of a
\* wait_for passes, fails (or times out), meets a merge conflict, or has no
\* answer yet.
Answers(s) == IF Kind(s) = "wait" THEN Results ELSE {"pass", "fail"}


\* A worker returns: runStep has persisted the step run of an agent step
\* before it sends its result; a wait_for check persists none.
WorkerReturns(s) ==
  /\ s \in busy
  /\ \E r \in Answers(s) :
       /\ resultCh' = Send(s, r)
       /\ doneRuns' = IF Kind(s) = "agent" /\ r = "pass"
                      THEN [doneRuns EXCEPT ![s] = @ + 1] ELSE doneRuns
  /\ busy' = busy \ {s}
  /\ UNCHANGED <<wf, graph, stopped, canceled, todo, termFail, loopTarget, pc, outcome,
                 resuming, chosen, restarts>>

-----------------------------------------------------------------------------
(* driveDAG: nothing in flight.                                             *)

ResetLoopKeepMemory(target) ==
  LET reset == Downstream({target}, Steps)
  IN /\ state' = [s \in Steps |-> IF s \in reset THEN "pending" ELSE state[s]]
     /\ contrib' = contrib

\* resetLoop: the target and its transitive dependents are pending again and
\* their memory is gone; activated and feedback are left as they are.
ResetLoop(target) ==
  LET reset == Downstream({target}, Steps)
  IN /\ state' = [s \in Steps |-> IF s \in reset THEN "pending" ELSE state[s]]
     /\ contrib' = contrib \ reset

VerdictStrandedOnly == IF \E s \in Steps : state[s] = "pending" THEN "failed" ELSE "done"

\* The steps are quiescent: the instance fails when one of them failed, or
\* is stranded pending.
Verdict == IF \E s \in Steps : state[s] \in {"failed", "pending"} THEN "failed" ELSE "done"

Returns(o) == pc' = "settle" /\ outcome' = o

LoopBackKeepsTarget == ResetLoop(loopTarget) /\ pc' = "top" /\ UNCHANGED <<loopTarget, outcome>>

LoopBack == ResetLoop(loopTarget) /\ loopTarget' = None /\ pc' = "top" /\ UNCHANGED outcome

CheckUnchanged == UNCHANGED <<wf, activated, retries, conflicts, feedback, waitingStep,
                              stopped, canceled, busy, resultCh, todo, termFail, resuming,
                              doneRuns, chosen, restarts>>

\* Something is in flight: receive.  Nothing is: act on the stop, the
\* terminal failure, the loop-back, the unreachable steps or the steps a
\* split has just activated, in this order, or return.
Check ==
  /\ pc = "check"
  /\ CASE InFlight > 0 -> pc' = "recv" /\ UNCHANGED <<state, contrib, loopTarget, outcome>>
       [] InFlight = 0 /\ stopped -> Returns("stopped") /\ UNCHANGED <<state, contrib, loopTarget>>
       [] InFlight = 0 /\ ~stopped /\ termFail ->
            Returns("failed") /\ UNCHANGED <<state, contrib, loopTarget>>
       [] InFlight = 0 /\ ~stopped /\ ~termFail /\ loopTarget # None ->
            LoopBack
       [] OTHER ->
            /\ state' = SkipUnreachable
            /\ IF state' # state \/ PickAllRunnable(state, activated) # <<>>
               THEN pc' = "top" /\ UNCHANGED outcome
               ELSE Returns(Verdict)
            /\ UNCHANGED <<contrib, loopTarget>>
  /\ CheckUnchanged

-----------------------------------------------------------------------------
(* driveDAG: one result.                                                    *)

Got == Head(resultCh)

RecvUnchanged == UNCHANGED <<wf, waitingStep, stopped, canceled, busy, todo, outcome,
                             resuming, chosen, restarts>>

\* The graph and the loop's own variables when the result is only consumed.
GraphUnchanged == UNCHANGED <<state, activated, retries, conflicts, contrib, feedback,
                              termFail, loopTarget>>

Receiving(at) == pc = at /\ resultCh # <<>> /\ resultCh' = Tail(resultCh)

\* A stopped run only drains.
RecvStopped ==
  /\ Receiving("recv")
  /\ stopped
  /\ pc' = "top"
  /\ GraphUnchanged /\ UNCHANGED doneRuns
  /\ RecvUnchanged

\* An approval, or a wait with no answer yet: the other results in flight are
\* received and discarded, then the instance parks at this step.
RecvPark ==
  /\ pc = "recv" /\ resultCh # <<>>
  /\ ~stopped
  /\ Kind(Got.step) = "approval" \/ Got.res = "pending"
  /\ pc' = "drain"
  /\ UNCHANGED <<resultCh, doneRuns>>
  /\ GraphUnchanged
  /\ RecvUnchanged

\* The steps of every other in-flight result are left as they are: running.
Drain ==
  /\ pc = "drain"
  /\ InFlight > 1
  /\ Len(resultCh) > 1
  /\ resultCh' = <<Head(resultCh)>> \o Tail(Tail(resultCh))
  /\ UNCHANGED <<pc, doneRuns>>
  /\ GraphUnchanged
  /\ RecvUnchanged

\* enterApproval, enterWait.
EnterPark ==
  /\ pc = "drain"
  /\ InFlight = 1 /\ resultCh # <<>>
  /\ state' = [state EXCEPT ![Got.step] = "waiting"]
  /\ waitingStep' = Got.step
  /\ resultCh' = <<>>
  /\ Returns("waiting")
  /\ UNCHANGED <<wf, activated, retries, conflicts, contrib, feedback, stopped, canceled,
                 busy, todo, termFail, loopTarget, resuming, doneRuns, chosen, restarts>>

\* A canceled context turns any answer but "pending" into a failure.
Answer == IF canceled /\ Got.res # "conflict" THEN "fail" ELSE Got.res

\* applyMissingOutput, applyFailWhen: a step with a gate may have what it
\* returned rejected; a rejected agent step's row is rewritten as failed.
Judged(r) ==
  \/ r = Answer /\ UNCHANGED doneRuns
  \/ /\ Answer = "pass" /\ wf.step[Got.step].failWhen
     /\ r = "fail"
     /\ doneRuns' = IF Kind(Got.step) = "agent"
                    THEN [doneRuns EXCEPT ![Got.step] = @ - 1] ELSE doneRuns

\* The terminal result of an agent or wait step, or the error of a step that
\* could not be dispatched, of a run that is not stopped: what it amounts to.
\* The stop is not looked at again before the result is applied.
RecvJudge ==
  /\ pc = "recv" /\ resultCh # <<>>
  /\ ~stopped
  /\ Kind(Got.step) # "approval" /\ Got.res # "pending"
  /\ \E r \in {"pass", "fail", "conflict"} :
       Judged(r) /\ resultCh' = [resultCh EXCEPT ![1].res = r]
  /\ pc' = "apply"
  /\ GraphUnchanged
  /\ RecvUnchanged

Applying == Receiving("apply") /\ pc' = "top" /\ UNCHANGED doneRuns /\ RecvUnchanged

\* Success: the step has passed, and what a failed attempt of it reported goes.
RecvPass ==
  /\ Applying
  /\ Got.res = "pass"
  /\ state' = [state EXCEPT ![Got.step] = "passed"]
  /\ contrib' = contrib \cup {Got.step}
  /\ feedback' = feedback \ {Got.step}
  /\ activated' = activated \cup ({wf.step[Got.step].next} \ {None})
  /\ UNCHANGED <<retries, conflicts, termFail, loopTarget>>

\* The step failed or its gate rejected it.
RecvFailed ==
  /\ Applying
  /\ Got.res # "pass"
  /\ UNCHANGED <<activated, contrib>>

Governed == Got.res = "conflict" /\ wf.step[Got.step].onConflict.goto # None

MayRetryOnceMore(route, used) == /\ ~termFail /\ loopTarget = None
                                 /\ route.goto # None
                                 /\ used <= route.maxRetries

MayRetry(route, used) == /\ ~termFail /\ loopTarget = None
                         /\ route.goto # None
                         /\ used < route.maxRetries

\* on_conflict and on_fail: the step is pending again and the loop-back waits
\* for everything in flight.
RecvConflictLoop ==
  /\ RecvFailed
  /\ Governed
  /\ MayRetry(wf.step[Got.step].onConflict, conflicts[Got.step])
  /\ conflicts' = [conflicts EXCEPT ![Got.step] = @ + 1]
  /\ state' = [state EXCEPT ![Got.step] = "pending"]
  /\ loopTarget' = wf.step[Got.step].onConflict.goto
  /\ UNCHANGED <<retries, feedback, termFail>>

\* on_fail also keeps what the failed attempt reported visible, or nothing when
\* it reported nothing (failedContribs), in place of an earlier attempt's.
RecvFailLoop ==
  /\ RecvFailed
  /\ ~Governed
  /\ MayRetry(wf.step[Got.step].onFail, retries[Got.step])
  /\ retries' = [retries EXCEPT ![Got.step] = @ + 1]
  /\ state' = [state EXCEPT ![Got.step] = "pending"]
  /\ loopTarget' = wf.step[Got.step].onFail.goto
  /\ feedback' \in {feedback \ {Got.step}, feedback \cup {Got.step}}
  /\ UNCHANGED <<conflicts, termFail>>

RecvFatal ==
  /\ RecvFailed
  /\ ~ IF Governed THEN MayRetry(wf.step[Got.step].onConflict, conflicts[Got.step])
                   ELSE MayRetry(wf.step[Got.step].onFail, retries[Got.step])
  /\ state' = [state EXCEPT ![Got.step] = "failed"]
  /\ termFail' = TRUE
  /\ loopTarget' = None
  /\ UNCHANGED <<retries, conflicts, feedback>>

Recv == \/ RecvStopped \/ RecvPark \/ Drain \/ EnterPark \/ RecvJudge
        \/ RecvPass \/ RecvConflictLoop \/ RecvFailLoop \/ RecvFatal

-----------------------------------------------------------------------------
(* Around driveDAG.                                                         *)

SettleAnyway ==
  /\ pc = "settle"
  /\ pc' = IF outcome = "waiting" THEN "parked" ELSE "ended"
  /\ outcome' = outcome
  /\ resuming' = FALSE
  /\ UNCHANGED <<wf, graph, stopped, canceled, locals, doneRuns, chosen, restarts>>

\* settle: a stopped run settles nothing, a suspended one is parked, any
\* other has reached its terminal state.
Settle ==
  /\ pc = "settle"
  /\ pc' = IF ~stopped /\ outcome = "waiting" THEN "parked" ELSE "ended"
  /\ outcome' = IF stopped THEN "stopped" ELSE outcome
  /\ resuming' = FALSE
  /\ UNCHANGED <<wf, graph, stopped, canceled, locals, doneRuns, chosen, restarts>>

\* A driveDAG call starts with an empty channel and nothing in flight.
Drive == /\ pc' = "top" /\ outcome' = "none"
         /\ busy' = {} /\ resultCh' = <<>> /\ todo' = <<>>
         /\ termFail' = FALSE /\ loopTarget' = None
         /\ canceled' = FALSE

\* ResolveApprovalResponse: the decision is applied to the waiting step and
\* the graph is driven on.
ResolveApproval(decision) ==
  /\ pc = "parked"
  /\ Kind(waitingStep) = "approval"
  /\ contrib' = contrib \cup {waitingStep}
  /\ state' = [state EXCEPT ![waitingStep] = IF decision = "resume" THEN "passed" ELSE "failed"]
  /\ waitingStep' = None
  /\ resuming' = TRUE
  /\ Drive
  /\ UNCHANGED <<wf, activated, retries, conflicts, feedback, stopped, doneRuns, chosen,
                 restarts>>

\* WakeWait: the waiting step is pending again and is checked once more.
WakeWait ==
  /\ pc = "parked"
  /\ Kind(waitingStep) = "wait"
  /\ state' = [state EXCEPT ![waitingStep] = "pending"]
  /\ waitingStep' = None
  /\ resuming' = TRUE
  /\ Drive
  /\ UNCHANGED <<wf, activated, retries, conflicts, contrib, feedback, stopped, doneRuns,
                 chosen, restarts>>

\* StopParked: a parked run is dropped, one that is being driven after a park
\* is flagged, one on its first drive is left alone.
StopParked ==
  /\ "stop" \in Events
  /\ \/ /\ pc = "parked"
        /\ pc' = "ended" /\ outcome' = "stopped"
        /\ UNCHANGED <<stopped, resuming>>
     \/ /\ pc \in Driving /\ resuming
        /\ stopped' = TRUE /\ resuming' = FALSE
        /\ UNCHANGED <<pc, outcome>>
  /\ UNCHANGED <<wf, graph, canceled, locals, doneRuns, chosen, restarts>>

\* The run's context is canceled.
Cancel ==
  /\ "cancel" \in Events
  /\ pc \in Driving /\ ~canceled
  /\ canceled' = TRUE
  /\ UNCHANGED <<wf, graph, stopped, locals, pc, outcome, resuming, doneRuns, chosen, restarts>>

\* The daemon dies while it drives the instance.  The next start marks the
\* row interrupted.
Crash ==
  /\ "crash" \in Events
  /\ pc \in Driving
  /\ restarts < MaxRestarts
  /\ pc' = "interrupted"
  /\ busy' = {} /\ resultCh' = <<>> /\ todo' = <<>>
  /\ UNCHANGED <<wf, graph, stopped, canceled, termFail, loopTarget, outcome, resuming,
                 doneRuns, chosen, restarts>>

FirstRunnableWaitOnly(kind) ==
  LET ready == SelectSeq(PickAllRunnable(RestoredState(None), RestoredActivated(None)),
                         LAMBDA s : Kind(s) = "wait")
  IN IF ready = <<>> THEN None ELSE Head(ready)

\* The step a rebuilt instance is parked at: the first runnable step of the
\* kind its row says it is blocked on.
FirstRunnable(kind) ==
  LET ready == SelectSeq(PickAllRunnable(RestoredState(None), RestoredActivated(None)),
                         LAMBDA s : Kind(s) = kind)
  IN IF ready = <<>> THEN None ELSE Head(ready)

\* A restart of the daemon finds the instance parked: RehydrateApproval or
\* RehydrateWait.  When no step is found the row stays blocked and the
\* engine does not hold the instance.
Rehydrate ==
  LET at == FirstRunnable(Kind(waitingStep))
  IN /\ "restart" \in Events
     /\ pc = "parked"
     /\ restarts < MaxRestarts
     /\ restarts' = restarts + 1
     /\ IF at = None
        THEN pc' = "lost" /\ UNCHANGED <<graph, stopped, chosen>>
        ELSE /\ state' = [RestoredState(None) EXCEPT ![at] = "waiting"]
             /\ activated' = RestoredActivated(None)
             /\ contrib' = Restored(None)
             /\ waitingStep' = at
             /\ chosen' = [s \in Steps |-> {}]
             /\ FreshCounters
             /\ UNCHANGED pc
     /\ UNCHANGED <<wf, canceled, locals, outcome, resuming, doneRuns>>

\* ResumeInstance: a descendant of a failed, stopped or interrupted instance.
\* The rows it carries over are written in state skipped.
Resume(from) ==
  /\ IF from = None THEN "resume" \in Events ELSE "resume_from" \in Events
  /\ pc = "interrupted" \/ (pc = "ended" /\ outcome \in {"failed", "stopped"})
  /\ restarts < MaxRestarts
  /\ restarts' = restarts + 1
  /\ state' = RestoredState(from)
  /\ activated' = RestoredActivated(from)
  /\ contrib' = Restored(from)
  /\ waitingStep' = None
  /\ chosen' = [s \in Steps |-> {}]
  /\ FreshCounters
  /\ doneRuns' = [s \in Steps |-> 0]
  /\ resuming' = FALSE
  /\ Drive
  /\ UNCHANGED wf

-----------------------------------------------------------------------------
Scheduler == Top \/ Dispatch \/ Check \/ Recv \/ Settle

Next == \/ Scheduler
        \/ \E s \in Steps : WorkerReturns(s)
        \/ \E d \in {"resume", "abort"} : ResolveApproval(d)
        \/ WakeWait
        \/ StopParked
        \/ Cancel
        \/ Crash
        \/ Rehydrate
        \/ \E s \in Steps \cup {None} : Resume(s)

Spec == Init /\ [][Next]_vars

\* The scheduler goroutine and the workers run; an agent's run is bounded by
\* its timeout and a wait check is one query.  Nothing is assumed of the
\* operator, of the sources or of restarts.
FairSpec == Spec /\ WF_vars(Scheduler) /\ WF_vars(\E s \in Steps : WorkerReturns(s))

-----------------------------------------------------------------------------
(* Properties.                                                              *)

\* The type of every variable, whatever the workflow.
TypeOK ==
  /\ wf \in Workflows
  /\ state \in [Steps -> StepStates]
  /\ UNION {activated, contrib, feedback, busy} \subseteq Steps
  /\ \A s \in Steps : /\ retries[s] \in 0..wf.step[s].onFail.maxRetries
                      /\ conflicts[s] \in 0..wf.step[s].onConflict.maxRetries
                      /\ doneRuns[s] \in Nat
                      /\ chosen[s] \subseteq Steps
  /\ \A i \in DOMAIN resultCh : resultCh[i] \in [step : Steps, res : Results]
  /\ \A i \in DOMAIN todo : todo[i] \in Steps
  /\ waitingStep \in Steps \cup {None} /\ loopTarget \in Steps \cup {None}
  /\ {stopped, canceled, termFail, resuming} \subseteq BOOLEAN
  /\ pc \in Phases /\ outcome \in Outcomes /\ restarts \in 0..MaxRestarts

\* A step is at a worker, or its result is on the way, only while every
\* dependency it was dispatched on still holds: a loop-back waits for all that
\* is in flight before it resets the steps others are running on (driveDAG's
\* "Drain remaining in-flight before resetting").
InFlightOnPassedInputs ==
  \A s \in busy \cup {resultCh[i].step : i \in DOMAIN resultCh} :
    /\ state[s] = "running"
    /\ \A d \in wf.step[s].dependsOn : state[d] = "passed"
    /\ \A d \in wf.step[s].seqDependsOn : state[d] \in {"passed", "cond_skipped"}

\* The memory later steps read (memSteps) is current: a contribution comes from
\* a step that has passed on the current lap, or from an approval that has been
\* answered, and the report of a failed attempt from a step that was sent back
\* and has not passed since, so the two never speak for one step at a time.
\* resetLoop clears the first for what it resets, a pass the second.
MemoryIsCurrent ==
  /\ \A s \in contrib : \/ state[s] = "passed"
                        \/ Kind(s) = "approval" /\ state[s] = "failed"
  /\ \A s \in feedback : state[s] # "passed" /\ retries[s] > 0 /\ s \notin contrib

\* An instance reported done has no step that failed, never ran or never
\* reported: driveDAG's "The instance fails if any step ended failed" and its
\* check for stranded steps.
DoneMeansSettled ==
  outcome = "done" => \A s \in Steps : state[s] \in {"passed", "skipped", "cond_skipped"}

\* Of the targets that only a split which is not multi has chosen, at most one
\* is taken: runSplitStep "activates the chosen target(s), skipping the rest".
OneBranchTaken ==
  \A s \in Steps : Kind(s) = "split" /\ ~wf.step[s].multi =>
    LET own == Targets(s) \ UNION {chosen[x] : x \in Steps \ {s}}
    IN Cardinality({t \in own : state[t] \in {"running", "waiting", "passed"}}) <= 1

\* A step is cascade-skipped only when it can no longer run: a dependency
\* ended without passing, or no split that could choose it did.  A target two
\* splits share is not lost because the first passed it over.
SkippedForAReason ==
  \A s \in Steps : state[s] = "skipped" =>
    \/ \E d \in wf.step[s].dependsOn : state[d] \in {"skipped", "failed", "cond_skipped"}
    \/ \E d \in wf.step[s].seqDependsOn : state[d] \in {"skipped", "failed"}
    \/ s \notin activated

\* A stop that reaches a run being driven lets at most the result the scheduler
\* has already taken be applied: after it no result is taken up, nothing enters
\* the memory and no retry is spent, and settle neither parks nor completes the
\* run.  (A loop-back decided before the stop may still reset its steps.)
StopIsFinal ==
  [][stopped /\ stopped' => /\ pc # "apply" => /\ pc' # "apply"
                                              /\ contrib' \subseteq contrib
                                              /\ feedback' = feedback
                                              /\ retries' = retries /\ conflicts' = conflicts
                            /\ pc' # "parked"
                            /\ pc' = "ended" => outcome' = "stopped"]_vars

\* Every drive ends, parked or settled, however the loops of the workflow
\* nest: on_fail and on_conflict routes are bounded by their retries.
DriveEnds == pc \in Driving ~> pc \notin Driving

\* A step with an on_fail route fails for good only when its own retries are
\* spent: the route "loops back on failure with its own retry budget".
OwnRetryBudget ==
  \A s \in Steps : state[s] = "failed" => retries[s] = wf.step[s].onFail.maxRetries

\* A condition that cannot be evaluated fails its step: the run never parks
\* to ask for an approval whose own condition was an error.
BadConditionNeverAsks == pc = "drain" => Head(resultCh).res # "fail"

\* A restart finds every parked instance again: an instance that waits is
\* never left out of the engine's parked set.
RestartFindsThePark == pc # "lost"

\* A rebuilt instance waits at the step it was parked at: RehydrateApproval
\* "parks the run at its waiting approval step".
RestartParksSameStep ==
  [][restarts' # restarts /\ pc = "parked" /\ pc' = "parked" => waitingStep' = waitingStep]_vars

Loopless == \A s \in Steps : wf.step[s].onFail.goto = None /\ wf.step[s].onConflict.goto = None

\* A rebuild takes only what had passed for passed: a step that had failed or
\* had not run runs again (restoreCachedSteps: "Failed/running/pending steps
\* re-run").  For workflows without loop-backs, see OldLapsStayOld, and without
\* cancellations: a canceled run counts a step that did pass as failed.
OnlyPassedReplayed ==
  [][Loopless /\ "cancel" \notin Events /\ restarts' # restarts =>
       \A s \in Steps : state[s] \in {"failed", "pending"} => state'[s] # "passed"]_vars

\* A rebuild takes a gated step for passed only when its gate has let it pass:
\* restoreCachedSteps' "Failed/running/pending steps re-run".  runStep saves the
\* row as done before the scheduler evaluates the gate.
GateBeforeReplay ==
  [][restarts' # restarts =>
       \A s \in Steps : wf.step[s].failWhen /\ state[s] = "running" => state'[s] # "passed"]_vars

\* The same over loop-backs: a rebuild does not take the run of an earlier lap
\* for the current one.  resetLoop's "all its transitive dependents back to
\* pending so the branch re-runs" is in memory only, the rows stay done.
OldLapsStayOld ==
  [][restarts' # restarts =>
       \A s \in Steps : state[s] \in {"failed", "pending"} => state'[s] # "passed"]_vars


\* The same for an approval, which ResumeInstance names among the steps that
\* are carried over.
ApprovalCarriedOver ==
  [][restarts' # restarts /\ pc' = "top" =>
       \A s \in Steps : Kind(s) = "approval" /\ state[s] = "passed" => state'[s] = "passed"]_vars
=============================================================================
