SPECIFICATION Spec
CONSTANTS
  Followers = {f1}
  Devices = {d1, d2, d3}
  Keys = {k1, k2}
  NoRow = NoRow
  Malformed = Malformed
  Cap = 2
  AutoAccept = FALSE
  MaxEntries = 3
  MaxRequests = 4
INVARIANT TypeOK
PROPERTY RegisteredUntouched
CHECK_DEADLOCK FALSE
