SPECIFICATION Spec
CONSTANTS
  Threads = {t1, t2}
  Ids = {s1, s2, s3}
  None = none
  Ttl = 2
  MaxAttempts = 1
  Window = 1
  MaxFailures = 2
  MaxPending = 1
  MaxNow = 2
  MaxCrashes = 1
SYMMETRY Symmetric
INVARIANTS TypeOK AttemptsBounded FailuresBounded PendingBounded PairedIsSpent
CHECK_DEADLOCK FALSE
