---------------------------- MODULE MCStepGraph ----------------------------
(* Small workflows for StepGraph: the shapes lower_v2.go produces.          *)
EXTENDS StepGraph

NoRoute == [goto |-> None, maxRetries |-> 0]
To(t, n) == [goto |-> t, maxRetries |-> n]
Base == [kind |-> "agent", dependsOn |-> {}, seqDependsOn |-> {}, branches |-> <<>>,
         multi |-> FALSE, next |-> None, onFail |-> NoRoute, onConflict |-> NoRoute,
         condition |-> FALSE, failWhen |-> FALSE]

Of(k, seq) == [Base EXCEPT !.kind = k, !.seqDependsOn = seq]
Par(k, deps) == [Base EXCEPT !.kind = k, !.dependsOn = deps]
Goto(t) == [goto |-> t, fallback |-> FALSE]
Else(t) == [goto |-> t, fallback |-> TRUE]

\* a; then b and c side by side; then d, whose failure sends b back.
Diamond ==
  [limit |-> 2, order |-> <<"a", "b", "c", "d">>,
   step |-> [a |-> Of("agent", {}),
             b |-> [Par("agent", {"a"}) EXCEPT !.onFail = To("a", 1)],
             c |-> [Par("agent", {"a"}) EXCEPT !.condition = TRUE],
             d |-> [Par("agent", {"b", "c"}) EXCEPT !.onFail = To("b", 1), !.failWhen = TRUE]]]

\* implement, wait for CI, review: CI failures and conflicts loop back.
Pipeline ==
  [limit |-> 1, order |-> <<"impl", "ci", "review">>,
   step |-> [impl |-> Of("agent", {}),
             ci |-> [Of("wait", {"impl"}) EXCEPT !.onFail = To("impl", 1), !.onConflict = To("impl", 1)],
             review |-> [Of("agent", {"ci"}) EXCEPT !.failWhen = TRUE, !.onFail = To("impl", 1)]]]

\* An approval between two steps, the second one conditional.
Gated ==
  [limit |-> 1, order |-> <<"plan", "gate", "work">>,
   step |-> [plan |-> Of("agent", {}),
             gate |-> Of("approval", {"plan"}),
             work |-> [Of("agent", {"gate"}) EXCEPT !.condition = TRUE]]]

\* Two splits that can both choose mid.
Shared ==
  [limit |-> 2, order |-> <<"s1", "s2", "left", "mid", "right", "last">>,
   step |-> [s1 |-> [Of("split", {}) EXCEPT !.branches = <<Goto("left"), Else("mid")>>],
             s2 |-> [Of("split", {"s1"}) EXCEPT !.multi = TRUE,
                       !.branches = <<Goto("mid"), Goto("right")>>],
             left |-> Of("agent", {"s1"}),
             mid |-> Of("agent", {"s2"}),
             right |-> Of("agent", {"s2"}),
             last |-> [Of("agent", {"right"}) EXCEPT !.next = "last"]]]

\* An approval beside an agent step.
Beside ==
  [limit |-> 2, order |-> <<"gate", "work">>,
   step |-> [gate |-> Of("approval", {}), work |-> Of("agent", {})]]

\* An agent step beside an approval, and a wait between two steps.
Side ==
  [limit |-> 1, order |-> <<"work", "gate", "last">>,
   step |-> [work |-> Of("agent", {}), gate |-> Of("approval", {}), last |-> Of("agent", {"gate"})]]
Waited ==
  [limit |-> 1, order |-> <<"impl", "ci", "review">>,
   step |-> [impl |-> Of("agent", {}), ci |-> Of("wait", {"impl"}),
             review |-> [Of("agent", {"ci"}) EXCEPT !.failWhen = TRUE]]]

\* Two steps side by side, each with a retry of its own.
Twins ==
  [limit |-> 2, order |-> <<"a", "b", "c">>,
   step |-> [a |-> Of("agent", {}),
             b |-> [Par("agent", {"a"}) EXCEPT !.onFail = To("a", 1)],
             c |-> [Par("agent", {"a"}) EXCEPT !.onFail = To("a", 1)]]]

\* A split behind a step that a later step loops back to.
Rework ==
  [limit |-> 1, order |-> <<"triage", "route", "fix", "doc">>,
   step |-> [triage |-> Of("agent", {}),
             route |-> [Of("split", {"triage"}) EXCEPT !.branches = <<Goto("fix"), Else("doc")>>],
             fix |-> [Of("agent", {"route"}) EXCEPT !.onFail = To("triage", 1)],
             doc |-> Of("agent", {"route"})]]

\* Two approvals in sequence.
TwoGates ==
  [limit |-> 1, order |-> <<"plan", "gate1", "work", "gate2">>,
   step |-> [plan |-> Of("agent", {}), gate1 |-> Of("approval", {"plan"}),
             work |-> Of("agent", {"gate1"}), gate2 |-> Of("approval", {"work"})]]

\* A conditional step before an approval.
Optional ==
  [limit |-> 1, order |-> <<"plan", "extra", "gate">>,
   step |-> [plan |-> Of("agent", {}),
             extra |-> [Of("agent", {"plan"}) EXCEPT !.condition = TRUE],
             gate |-> Of("approval", {"extra"})]]

\* An approval whose reworked lap comes round again.
ReworkGate ==
  [limit |-> 1, order |-> <<"impl", "gate", "merge", "verify">>,
   step |-> [impl |-> Of("agent", {}), gate |-> Of("approval", {"impl"}),
             merge |-> Of("agent", {"gate"}),
             verify |-> [Of("agent", {"merge"}) EXCEPT !.onFail = To("impl", 1)]]]

\* An approval with a condition of its own.
AskIf ==
  [limit |-> 1, order |-> <<"plan", "gate">>,
   step |-> [plan |-> Of("agent", {}),
             gate |-> [Of("approval", {"plan"}) EXCEPT !.condition = TRUE]]]

MCCore == {Diamond, Pipeline, Gated, Shared}
MCRestart == MCCore \cup {Side, Waited, Rework, ReworkGate, Twins}
MCTwins == {Twins}
MCWaited == {Waited}
MCGated == {Gated}
MCBeside == {Beside}
MCRework == {Rework}
MCTwoGates == {TwoGates}
MCOptional == {Optional}
MCReworkGate == {ReworkGate}
MCAskIf == {AskIf}
=============================================================================
