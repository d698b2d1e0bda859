SPECIFICATION Spec
CONSTANTS
  Device = {d1, d2}
  User = {u1}
  Nobody = Nobody
  Initial = 25
  NotSet = NotSet
  m1 = m1
  p1 = p1
  Playlist = {m1, p1}
  Master = {m1}
  Place = {here}
  Unknown = Unknown
  Distance <- Distances
  Radius = {10}
  MaxReloads = 2
  MaxActs = 1
  MaxLoads = 2
SYMMETRY Interchangeable
CONSTRAINT EditsAlone
INVARIANTS TypeOK NoCurrentGhost MapIsRight
PROPERTIES OnlyExpiredDeleted
CHECK_DEADLOCK FALSE
