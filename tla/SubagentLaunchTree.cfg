CONSTANTS
  Root = {R}
  Launch = {1, 2, 3}
  Limits = {1}
  MaxCrashes = 0
  None = None
SPECIFICATION Spec
CHECK_DEADLOCK FALSE
INVARIANT DescendantsWithinLimit
