CONSTANTS
  Socket = {s1}
  MaxEvents = 1
  MaxAttempts = 2
SPECIFICATION Spec
INVARIANT JournalReachesTerminal
