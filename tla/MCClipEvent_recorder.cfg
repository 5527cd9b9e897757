SPECIFICATION Spec
CHECK_DEADLOCK FALSE
CONSTANTS
  MaxSessions = 2
  MaxChunks = 2
  MaxFaults = 1
  SlowCard = TRUE
  QueueSize = 2
  AtCommands <- AllCommands
  MaxPosts = 4
INVARIANTS TypeOK CapturesOnlyWhenShown ParkedIsQuiet SessionsFinished
PROPERTIES StopsEventually AnsweredEventually FinishedStays StopIsKept
