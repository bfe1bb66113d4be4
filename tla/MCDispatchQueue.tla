-------------------------- MODULE MCDispatchQueue --------------------------
(***************************************************************************)
(* Small instances of DispatchQueue: two jobs for two workers, and three   *)
(* jobs for the one worker of capacity 2, where the policy bites.          *)
(*   - j1 and j2 belong to one task's workflow, so RequestCancelFor covers *)
(*     both; they carry the same affinity key.                             *)
(*   - j2 and j3 run the same agent, which the policy limits to one lease. *)
(*   - j3 needs a label only w1 advertises, and has the higher priority.   *)
(*   - j2 may be tried twice, j1 and j3 once.                              *)
(***************************************************************************)
EXTENDS DispatchQueue, TLC

CONSTANTS j1, j2, j3, w1, w2

TwoJobs == {j1, j2}
BlockedHead == {j1, j3}
ThreeJobs == {j1, j2, j3}
OneWorker == {w1}
Unlabelled == {w2}
TwoWorkers == {w1, w2}

Scope(agent) ==
    [s \in Scopes |-> IF s = "agent" THEN agent ELSE IF s = "project" THEN "p" ELSE None]

MCJobSpec ==
    (j1 :> [key |-> "t:1:a", task |-> "t", workflow |-> "a", pool |-> None,
            labels |-> {}, capabilities |-> {"wf"}, affinityKey |-> "task:t",
            scope |-> Scope("x"), priority |-> 0, maxAttempts |-> 1])
 @@ (j2 :> [key |-> "t:1:b", task |-> "t", workflow |-> "a", pool |-> None,
            labels |-> {}, capabilities |-> {"wf"}, affinityKey |-> "task:t",
            scope |-> Scope("y"), priority |-> 0, maxAttempts |-> 2])
 @@ (j3 :> [key |-> "u:1:a", task |-> "u", workflow |-> "a", pool |-> "default",
            labels |-> {"linux"}, capabilities |-> {"wf"}, affinityKey |-> None,
            scope |-> Scope("y"), priority |-> 1, maxAttempts |-> 1])

MCWorkerSpec ==
    (w1 :> [pool |-> "default", labels |-> {"linux"}, capabilities |-> {"wf"}, capacity |-> 2])
 @@ (w2 :> [pool |-> "default", labels |-> {}, capabilities |-> {"wf"}, capacity |-> 1])

MCPolicy ==
    [s \in Scopes |-> IF s = "agent" THEN [default |-> 0, override |-> [y |-> 1]]
                      ELSE [default |-> IF s = "project" THEN 2 ELSE 0, override |-> << >>]]

=============================================================================
