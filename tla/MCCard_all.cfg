SPECIFICATION CardSpec
CONSTANTS
  MaxSession = 3
  OldSessions = 2
  MaxChunk = 2
  MaxIds = 3
  PerPages <- OneOrTwo
  Room = 2
  Budgets <- DeviceBudgets
  Clients <- Both
  HostBudgets <- SyncBudgets
  Allowances <- PunctualUses
  LateTick = FALSE
  PerHour = 2
  Width = 5
  Epoch = 8
INVARIANTS StoreTypeOK ClosedSurvive RecordingKept NoLostUpdate ChunksReachable
INVARIANTS DeletedStaysDeleted CalmSyncIsComplete
INVARIANTS PowerTypeOK CardStaysUp MountedHasPower
PROPERTIES SyncEnds CardSwitchesOff IdsGrow
CHECK_DEADLOCK FALSE
