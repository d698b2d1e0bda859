SPECIFICATION Spec
CONSTANTS
  Device = {d1, d2}
  User = {u1, u2}
  Nobody = Nobody
  Initial = 0
  NotSet = NotSet
  p1 = p1
  p2 = p2
  Playlist = {p1}
  Master = {}
  loc1 = loc1
  loc2 = loc2
  Location = {loc1}
  LocationOf <- OneSpot
  MaxTaps = 2
  MaxLoads = 2
SYMMETRY Interchangeable
INVARIANTS NoFinderLost
CHECK_DEADLOCK FALSE
