SPECIFICATION Spec
CONSTANTS
  Threads = {t1, t2}
  Contents = {p1}
  Sealings = {s1}
  Clients = {frame}
  Audiences = {"public", "followers", "unknown"}
  FlipAudiences = {"followers", "unknown"}
  NoCid = noCid
  Faults = TRUE
  MaxRequests = 4
  MaxCrashes = 1
SYMMETRY Symmetric
INVARIANTS TypeOK FlipsLoseNothing FlipLeavesNoneBehind HeldIsAccounted ListedIsHeld
CHECK_DEADLOCK FALSE
