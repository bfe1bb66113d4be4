-------------------------- MODULE MCWorkerRuntime --------------------------
(***************************************************************************)
(* Small instances of WorkerRuntime: the embedded worker e and a remote    *)
(* worker r, both of the default capacity 1, and two jobs either can run.  *)
(* j1 may be tried once, j2 twice, so that a lease can be reclaimed into a *)
(* failed job and into a queued one.                                       *)
(***************************************************************************)
EXTENDS WorkerRuntime, TLC

CONSTANTS j1, j2, e, r

BothJobs == {j1, j2}
SecondJob == {j2}
JustEmbedded == {e}
BothWorkers == {e, r}

Deploy(ws, js, fs) == [workers |-> ws, jobs |-> js, faults |-> fs]

\* The embedded worker alone with two jobs, and both workers with one.
MCSafety == {Deploy({e}, {j1, j2}, {"late"}), Deploy({e, r}, {j1}, {"late"}),
             Deploy({e, r}, {j1}, {"lost"}), Deploy({e, r}, {j2}, {"crash", "lost"})}
MCProgress == {Deploy({e, r}, {j2}, {"crash", "lost", "late"})}
MCCrash == {Deploy({e}, {j1, j2}, {"crash"})}
MCDrainLost == {Deploy({r}, {j1}, {"lost"})}
MCRemoteOnly == {Deploy({r}, {j2}, {"crash"})}

MCJobSpec ==
    [j \in Jobs |->
       [key |-> j, task |-> j, workflow |-> "a", pool |-> None, labels |-> {},
        capabilities |-> {}, affinityKey |-> None, scope |-> [s \in Scopes |-> None],
        priority |-> 0, maxAttempts |-> IF j = j2 THEN 2 ELSE 1]]

MCWorkerSpec ==
    [w \in Workers |-> [pool |-> "default", labels |-> {}, capabilities |-> {}, capacity |-> 1]]

MCPolicy == [s \in Scopes |-> [default |-> 0, override |-> << >>]]

=============================================================================
