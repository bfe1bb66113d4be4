-------------------------- MODULE MCTaskAccounting --------------------------
(* Installations for the model checker. *)
EXTENDS TaskAccounting

Base ==
    [workflows |-> {"a"}, once |-> {}, auto |-> {}, maxAttempts |-> 0, queue |-> FALSE,
     ops |-> {}, units |-> 2, crashes |-> 0]

Two == [Base EXCEPT !.workflows = {"a", "b"}, !.once = {"b"}, !.maxAttempts = 2]
OnQueue == [Base EXCEPT !.queue = TRUE]
Resuming == [Base EXCEPT !.auto = {"a"}]

Dispatch == [Two EXCEPT !.ops = {"park"}, !.units = 3]
Rounds == [Two EXCEPT !.units = 4]
Manual == [Base EXCEPT !.ops = {"manual", "resume", "park"}]
Stop == [Base EXCEPT !.ops = {"stop", "park", "resume"}]
StopReservation == [Base EXCEPT !.ops = {"manual", "stop"}]
Rerun == [Base EXCEPT !.ops = {"restart", "park"}]
Startup == [Resuming EXCEPT !.ops = {"manual", "park"}, !.maxAttempts = 2, !.crashes = 2]

Queue == [OnQueue EXCEPT !.ops = {"park"}, !.units = 3]
QueueOnce == [OnQueue EXCEPT !.once = {"a"}]
QueueManual == [OnQueue EXCEPT !.ops = {"manual", "resume", "park"}]
QueueStartup == [OnQueue EXCEPT !.auto = {"a"}, !.ops = {"park"}, !.crashes = 1]
Redelivery == [OnQueue EXCEPT !.auto = {"a"}, !.ops = {"park"}, !.units = 1, !.crashes = 2]
QueueStop == [OnQueue EXCEPT !.ops = {"park", "stop"}, !.units = 1]
QueueReserve == [OnQueue EXCEPT !.ops = {"manual", "park"}, !.units = 1, !.crashes = 2]
QueueUnreserve == [OnQueue EXCEPT !.ops = {"manual", "stop"}, !.units = 1]

MCCount == {Dispatch, Rounds, Manual, Stop, Rerun, Queue, QueueOnce, QueueManual}
MCRows == {StopReservation, Startup, QueueStartup, Redelivery, QueueStop, QueueReserve,
           QueueUnreserve}

\* One installation each for the counterexamples.
MCLostHook == {[OnQueue EXCEPT !.units = 3]}
MCRecount == {[OnQueue EXCEPT !.workflows = {"a", "b"}, !.crashes = 1]}
MCRestartTwice == {[Base EXCEPT !.ops = {"restart"}]}
MCStopLost == {[Base EXCEPT !.ops = {"stop"}, !.units = 1]}
MCStopOnce == {[Base EXCEPT !.once = {"a"}, !.ops = {"stop"}]}
MCRestartLeak == {[OnQueue EXCEPT !.ops = {"restart"}, !.units = 3]}
MCCrashInSettle == {[Base EXCEPT !.once = {"a"}, !.units = 1, !.crashes = 1]}
MCManualRound == {[Base EXCEPT !.ops = {"manual"}]}
MCStopUncounted == {StopReservation}
MCReserveSkipped == {[OnQueue EXCEPT !.ops = {"manual"}, !.crashes = 1]}
MCStopSibling == {[OnQueue EXCEPT !.ops = {"manual", "stop"}]}
MCResumeTwice == {[Resuming EXCEPT !.ops = {"park"}, !.units = 3, !.crashes = 2]}
MCOnceLeak == {[OnQueue EXCEPT !.once = {"a"}, !.ops = {"manual"}]}
=============================================================================
