SPECIFICATION Spec
CONSTANTS
  Threads = {t1, t2}
  Followers = {u1}
  Self = self
  Blank = blank
  Cids = {c1}
  Clients = {k1}
  AnyClient = anyClient
  Fields = {f1}
  NoOne = noOne
  NoEnv = noEnv
  Ops = {"post", "approve"}
  Faults = FALSE
  ReadFaults = FALSE
  MaxRequests = 2
  MaxCrashes = 0
INVARIANTS AckedPostsListed
CHECK_DEADLOCK FALSE
