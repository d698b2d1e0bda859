SPECIFICATION Histories
CONSTANTS
  d1 = d1
  d2 = d2
  u1 = u1
  u2 = u2
  u3 = u3
  Device = {d1, d2}
  User = {u1, u2, u3}
  Nobody = Nobody
  Picture = {pic1, pic2, pic3}
  NoPicture = NoPicture
  Initial = NoPicture
  NotSet = NotSet
  PhoneOf <- Phones
  MaxLoads = 4
SYMMETRY Interchangeable
CONSTRAINT Small
INVARIANTS TypeOK LinkedAfterStored NeverErasesUnlinked StorageMatchesProfiles
CHECK_DEADLOCK FALSE
