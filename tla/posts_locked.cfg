SPECIFICATION FairSpec
CONSTANTS
  Threads = {t1, t2}
  Followers = {u1}
  Self = self
  Blank = blank
  Cids = {c1}
  Clients = {k1}
  AnyClient = anyClient
  Fields = {f1, f2}
  NoOne = noOne
  NoEnv = noEnv
  Ops = {"post", "delete", "profile"}
  Faults = TRUE
  ReadFaults = FALSE
  MaxRequests = 3
  MaxCrashes = 1
INVARIANTS AckedPostsListed ErasedStaysErased ContentPinnedUnlessErased
PROPERTIES ActsAsAtomicIndex RequestsAnswered
CHECK_DEADLOCK FALSE
