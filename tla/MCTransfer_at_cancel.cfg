SPECIFICATION Spec
CONSTANTS
  Transports <- OneLink
  Requesters <- OneLink
  Starts <- FromLast
  MaxFile = 2
  MaxFileRetries = 1
  MaxFileErrors = 1
  MissingSlack = 1
  MaxLinkChanges = 2
  MaxAtCancels = 1
  MaxFaults = 1
INVARIANTS StartOwnsTransfer ToldOnce
