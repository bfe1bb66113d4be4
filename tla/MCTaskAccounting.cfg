CONSTANT Setups <- MCCount
SPECIFICATION Spec
CHECK_DEADLOCK FALSE
INVARIANT CounterExact
INVARIANT LastRunSettles
INVARIANT PolledOutcome
INVARIANT PolledOneRun
INVARIANT OnceDoneOnce
INVARIANT LiveRowsOwned
PROPERTY HookAfterLast
