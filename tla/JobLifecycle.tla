---------------------------- MODULE JobLifecycle ----------------------------
(***************************************************************************)
(* What the dispatch queue promises of a job, with no leases, attempts,    *)
(* tokens, workers or clocks: a job is submitted once, is delivered at     *)
(* most MaxTries times and by one holder at a time, may be withdrawn, and  *)
(* ends once.  Several jobs may move in one step, as when one transaction  *)
(* reclaims every expired lease.                                           *)
(***************************************************************************)
EXTENDS Naturals

CONSTANTS
    Job,       \* the jobs
    MaxTries   \* [Job -> Nat \ {0}]: deliveries a job is allowed

VARIABLE life  \* [Job -> [phase, tries, withdrawn]]

Ended == {"done", "failed", "canceled"}
Phases == {"absent", "waiting", "held"} \cup Ended

Begin == life = [j \in Job |-> [phase |-> "absent", tries |-> 0, withdrawn |-> FALSE]]

Submit(j) ==
    /\ life[j].phase = "absent"
    /\ life'[j] = [life[j] EXCEPT !.phase = "waiting"]

\* A delivery uses up one try and hands the job to one holder.
Deliver(j) ==
    /\ life[j].phase = "waiting" /\ ~life[j].withdrawn
    /\ life[j].tries < MaxTries[j]
    /\ life'[j] = [phase |-> "held", tries |-> life[j].tries + 1, withdrawn |-> FALSE]

\* The holder gives up or is given up on; there must be a try left.
Requeue(j) ==
    /\ life[j].phase = "held" /\ ~life[j].withdrawn
    /\ life[j].tries < MaxTries[j]
    /\ life'[j] = [life[j] EXCEPT !.phase = "waiting"]

End(j) ==
    /\ life[j].phase = "held"
    /\ \E p \in Ended :
          /\ life'[j] = [life[j] EXCEPT !.phase = p]
          /\ (p = "canceled") <=> life[j].withdrawn

\* A waiting job is canceled on the spot; a held one is only marked.
Withdraw(j) ==
    /\ life[j].phase \in {"waiting", "held"}
    /\ life'[j] = [phase |-> IF life[j].phase = "waiting" THEN "canceled" ELSE "held",
                   tries |-> life[j].tries, withdrawn |-> TRUE]

Move(j) == Submit(j) \/ Deliver(j) \/ Requeue(j) \/ End(j) \/ Withdraw(j)

Advance == \A j \in Job : life'[j] = life[j] \/ Move(j)

Lifecycle == Begin /\ [][Advance]_life

=============================================================================
