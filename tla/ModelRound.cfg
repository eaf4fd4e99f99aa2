SPECIFICATION FairSpec
CONSTANTS
  None = None
  MaxHosts = 2
  MaxRounds = 2
  MaxRetries = 1
  MaxRuns = 2
  MaxCrashes = 2
CHECK_DEADLOCK FALSE
INVARIANTS
  TypeOK
  DoubtIsFenced
  TotalsAgree
PROPERTIES
  AnsweredIsNotAsked
  KeepsLedger
  RunSettles
