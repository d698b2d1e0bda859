SPECIFICATION DeletingSpec
CONSTANTS
  d1 = d1
  d2 = d2
  e1 = e1
  e2 = e2
  e3 = e3
  w1 = w1
  w2 = w2
  n1 = n1
  n2 = n2
  Device = {d1}
  MaxAccounts = 1
  Email = {e1, e2}
  Password = {w1}
  Username = {n1}
  Empty = Empty
  Absent = Absent
  Retypes = {}
  HastyClicks = 3
  MaxClicks = 4
INVARIANTS NoOrphans
CHECK_DEADLOCK FALSE
