SPECIFICATION Spec
CONSTANTS
  Threads = {t1, t2}
  Followers = {u1}
  Self = self
  Blank = blank
  Cids = {c1}
  Clients = {k1}
  AnyClient = anyClient
  Fields = {f1}
  NoOne = noOne
  NoEnv = noEnv
  Ops = {"post", "delete", "reshare", "approve", "remove"}
  Faults = TRUE
  ReadFaults = TRUE
  MaxRequests = 3
  MaxCrashes = 0
SYMMETRY Symmetric
INVARIANTS TypeOK PointerIsCurrent StationCanReopen AudienceRespected
CHECK_DEADLOCK FALSE
