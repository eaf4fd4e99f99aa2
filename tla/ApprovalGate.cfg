CONSTANTS
  Call = {l1, l2, c1}
  Callback = {c1}
  Destructive = {c1}
  Client = {k1, k2}
  Answers = {"run", "full", "denied"}
  Run = Run
  MaxCrashes = 1
SPECIFICATION Spec
CHECK_DEADLOCK FALSE
INVARIANT TypeOK
INVARIANT ConsentBehindExecution
INVARIANT EndLeavesNothing
PROPERTY DeniedStaysUndone
PROPERTY KeepsPromise
PROPERTY AbortSettles
