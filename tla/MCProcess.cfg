SPECIFICATION FairSpec
CONSTANTS
  Processes = {p1, p2}
INVARIANTS
  TypeOK
  ExitCodeIsFinal
PROPERTY KillEndsWait
CHECK_DEADLOCK FALSE
