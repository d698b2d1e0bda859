SPECIFICATION Histories
CONSTANTS
  d1 = d1
  d2 = d2
  u1 = u1
  u2 = u2
  u3 = u3
  Device = {d1, d2}
  User = {u1, u2, u3}
  Nobody = Nobody
  Initial = 0
  NotSet = NotSet
  PhoneOf <- Phones
  MaxClicks = 4
  MaxLoads = 5
CONSTRAINT Small
INVARIANTS TypeOK CreatedBounded EachAddAddsOne
CHECK_DEADLOCK FALSE
