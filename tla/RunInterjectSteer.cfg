CONSTANTS
  Message = {m1}
  Loop = Loop
  MaxRecoveries = 1
SPECIFICATION Spec
CHECK_DEADLOCK FALSE
PROPERTY SteerKeepsTheLoopOpen
