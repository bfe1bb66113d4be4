CONSTANTS
  Workflows <- MCCore
  None = None
  Events = {"stop", "cancel"}
  MaxRestarts = 0
SPECIFICATION Spec
CHECK_DEADLOCK FALSE
INVARIANT TypeOK
INVARIANT InFlightOnPassedInputs
INVARIANT MemoryIsCurrent
INVARIANT DoneMeansSettled
INVARIANT OneBranchTaken
INVARIANT SkippedForAReason
PROPERTY StopIsFinal
