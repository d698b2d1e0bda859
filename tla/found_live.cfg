SPECIFICATION FairSpec
CONSTANTS
  Device = {d1}
  User = {u1, u2}
  Nobody = Nobody
  Initial = 0
  NotSet = NotSet
  p1 = p1
  p2 = p2
  Playlist = {p1, p2}
  Master = {p1}
  loc1 = loc1
  loc2 = loc2
  Location = {loc1}
  LocationOf <- OneSpot
  MaxTaps = 1
  MaxLoads = 2
PROPERTIES Drains
CHECK_DEADLOCK FALSE
