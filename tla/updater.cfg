SPECIFICATION FairSpec
CONSTANTS
  Runs = {timer, byHand}
  Commits = {c1, c2, c3}
  Good = {c1, c2}
  NoCommit = NoCommit
  Hosted = TRUE
  MaxFaults = 2
  MaxDeaths = 1
  MaxPins = 2
INVARIANT TypeOK
PROPERTIES DoneMeansRunning Converges
CHECK_DEADLOCK FALSE
