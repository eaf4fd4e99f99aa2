CONSTANTS
  Root = {R}
  Launch = {1, 2}
  Limits = {1, 2}
  MaxCrashes = 1
  None = None
SPECIFICATION Spec
CHECK_DEADLOCK FALSE
INVARIANTS
  TypeOK
  WithinLimit
  LeaseHeld
  GivenUpNeverRuns
  AnsweredOnce
  ResultBeforeSettlement
  Accounted
  NoQueueLost
  NoLostWakeup
PROPERTY HandlesKept
