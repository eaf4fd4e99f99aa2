CONSTANTS
  Call = {l1}
  Callback = {}
  Destructive = {}
  Client = {}
  Answers = {"run"}
  Run = Run
  MaxCrashes = 1
SPECIFICATION Spec
CHECK_DEADLOCK FALSE
INVARIANT BoundClientMayDecide
