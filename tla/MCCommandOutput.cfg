SPECIFICATION FairCommandSpec
CONSTANTS
  OutputLineLimit = 2
  MaxBytes = 3
INVARIANTS OutputIsTold OutputIsDrained GroupIsTold
PROPERTY CancelEndsCall
CHECK_DEADLOCK FALSE
