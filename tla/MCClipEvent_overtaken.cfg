SPECIFICATION Spec
CHECK_DEADLOCK FALSE
CONSTANTS
  MaxSessions = 2
  MaxChunks = 1
  MaxFaults = 0
  SlowCard = TRUE
  QueueSize = 1
  AtCommands <- StartStop
  MaxPosts = 4
INVARIANTS NoneLeftRecording
