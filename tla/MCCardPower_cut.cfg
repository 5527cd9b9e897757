SPECIFICATION PowerSpec
CONSTANTS
  Allowances <- JustRecords
  LateTick = TRUE
INVARIANTS CardStaysUp
CHECK_DEADLOCK FALSE
