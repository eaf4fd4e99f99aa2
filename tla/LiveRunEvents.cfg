CONSTANTS
  Socket = {s1}
  MaxEvents = 3
  MaxAttempts = 2
SPECIFICATION FairSpec
INVARIANTS
  TypeOK
  ResidentWindow
  DroppedIsJournaled
  JournalAgrees
  TerminalMeetsJournal
PROPERTIES
  DurableLog
  PublishedIsPersisted
  CommitResolves
