SPECIFICATION Spec
CHECK_DEADLOCK FALSE
CONSTANTS
  NFiles = 3
  NFrames = 1
  FileEndTries = 3
  MaxRounds = 2
  Window = 6
  MaxLoss = 1
  MaxResets = 0
  Fifo = TRUE
  Timely = FALSE
  MaxNacks = 4
  MaxWriteFaults = 0
INVARIANTS SyncedIsReceived
