CONSTANTS
  Workflows <- MCBeside
  None = None
  Events = {}
  MaxRestarts = 0
SPECIFICATION Spec
CHECK_DEADLOCK FALSE
INVARIANT DoneMeansSettled
