SPECIFICATION SyncSpec
CONSTANTS
  MaxSession = 3
  OldSessions = 2
  MaxChunk = 2
  MaxIds = 3
  PerPages <- Two
  Room = 1
  Budgets <- JustQuiet
  Clients <- Sdk
  HostBudgets <- JustOneSync
INVARIANTS CalmSyncIsComplete
CHECK_DEADLOCK FALSE
