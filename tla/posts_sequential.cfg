SPECIFICATION FairSpec
CONSTANTS
  Threads = {t1}
  Followers = {u1, u2}
  Self = self
  Blank = blank
  Cids = {c1}
  Clients = {k1}
  AnyClient = anyClient
  Fields = {f1}
  NoOne = noOne
  NoEnv = noEnv
  Ops = {"post", "delete", "profile", "reshare", "approve", "remove"}
  Faults = FALSE
  ReadFaults = FALSE
  MaxRequests = 4
  MaxCrashes = 0
INVARIANTS AccessFollowsMembership EnvelopesPinned
CHECK_DEADLOCK FALSE
