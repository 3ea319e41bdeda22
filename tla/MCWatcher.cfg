SPECIFICATION FairSpec
CONSTANTS
  MaxPending = 2
  MaxCordons = 3
  MaxRestarts = 1
INVARIANTS
  TypeOK
  AskedBeforePing
PROPERTIES
  NoticesCordon
CHECK_DEADLOCK FALSE
