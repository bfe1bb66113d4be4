CONSTANT Setups <- MCRows
SPECIFICATION Spec
CHECK_DEADLOCK FALSE
INVARIANT TypeOK
INVARIANT LiveRowsOwned
INVARIANT ContinuedOnce
INVARIANT OneRunPerHandover
PROPERTY CanceledNeverRuns
PROPERTY StartupKeepsOpen
