SPECIFICATION Spec
CONSTANTS
  Transports <- BothLinks
  Requesters <- OneLink
  Starts <- FromStart
  MaxFile = 2
  MaxFileRetries = 1
  MaxFileErrors = 1
  MissingSlack = 1
  MaxLinkChanges = 1
  MaxAtCancels = 0
  MaxFaults = 0
INVARIANTS TypeOK StartOwnsTransfer NothingLeft ToldOnce SyncedIsConfirmed BoostBalanced
PROPERTIES RecordedKept CancelEnds TransferEnds
