SPECIFICATION AnySpec
CHECK_DEADLOCK FALSE
CONSTANTS
  NFiles = 3
  NFrames = 2
  FileEndTries = 3
  MaxRounds = 2
  Window = 8
  MaxLoss = 2
  MaxResets = 1
  Fifo = TRUE
  Timely = TRUE
  MaxNacks = 4
  MaxWriteFaults = 1
INVARIANTS AnyTypeOK AnySavedIntact FullCrc
PROPERTIES AnyKeepsPromise AnyLossIsRepaired
