CONSTANTS
  Workflows <- MCRestart
  None = None
  Events = {"stop", "crash", "restart", "resume", "resume_from"}
  MaxRestarts = 1
SPECIFICATION FairSpec
CHECK_DEADLOCK FALSE
INVARIANT RestartFindsThePark
PROPERTY OnlyPassedReplayed
 
PROPERTY DriveEnds
