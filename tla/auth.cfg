SPECIFICATION Spec
CONSTANTS
  Messages = {m1, m2}
  Guarded = {m1}
  Copies = {c1, c2}
  None = none
  Skew = 1
  NonceTtl = 3
  Interval = 1
  MaxTransfer = 2
  MaxNow = 5
  MaxCrashes = 1
INVARIANTS TypeOK AcceptedOnce
PROPERTIES RefusedForCause
CHECK_DEADLOCK FALSE
