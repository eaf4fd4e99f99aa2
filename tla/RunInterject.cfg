CONSTANTS
  Message = {m1, m2}
  Loop = Loop
  MaxRecoveries = 2
SPECIFICATION Spec
CHECK_DEADLOCK FALSE
INVARIANTS
  TypeOK
  BufferCoversCheckpoint
  LoopKeepsStep
  ToldIsTrue
  DoneMeansApplied
  FlushHasReason
PROPERTY MessageLedger
