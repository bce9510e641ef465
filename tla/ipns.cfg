SPECIFICATION FairSpec
CONSTANTS
  Writers = {w1, w2, monitor}
  Monitor = monitor
  Publisher = publisher
  NoOne = noOne
  MaxChanges = 2
  MaxUrls = 1
  MaxFaults = 1
  MaxCrashes = 1
INVARIANTS TypeOK NothingForgotten
PROPERTIES NoChangeUndone IpnsNeverGoesBack ChangesArePublished EndpointFollowsTunnel
CHECK_DEADLOCK FALSE
