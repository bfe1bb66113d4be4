CONSTANTS
  Workflows <- MCTwoGates
  None = None
  Events = {"restart"}
  MaxRestarts = 1
SPECIFICATION Spec
CHECK_DEADLOCK FALSE
PROPERTY RestartParksSameStep
