SPECIFICATION Histories
CONSTANTS
  d1 = d1
  d2 = d2
  u1 = u1
  u2 = u2
  u3 = u3
  p1 = p1
  p2 = p2
  loc1 = loc1
  loc2 = loc2
  Device = {d1, d2}
  User = {u1, u2, u3}
  Nobody = Nobody
  Initial = 0
  NotSet = NotSet
  Playlist = {p1, p2}
  Master = {p1}
  Location = {loc1, loc2}
  LocationOf <- TwoSpots
  PhoneOf <- Phones
  HastyTaps = 2
  HastyLoads = 2
  MaxTaps = 4
  MaxLoads = 4
CONSTRAINT Small
INVARIANTS TypeOK NoDuplicateFinders CountOnlyAfterRecorded CountBounded EachFindAddsOne ProfileIsCurrent
PROPERTIES ImplementsRegister
CHECK_DEADLOCK FALSE
