CONSTANTS
  None = None
  MaxHosts = 1
  MaxRounds = 2
  MaxRetries = 0
  MaxRuns = 1
  MaxCrashes = 1
SPECIFICATION Spec
INVARIANT CommittedWindowResumes
CHECK_DEADLOCK FALSE
