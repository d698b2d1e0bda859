SPECIFICATION Histories
CONSTANTS
  d1 = d1
  d2 = d2
  e1 = e1
  e2 = e2
  e3 = e3
  w1 = w1
  w2 = w2
  n1 = n1
  n2 = n2
  Device = {d1, d2}
  MaxAccounts = 2
  Email = {e1, e2, e3}
  Password = {w1, w2}
  Username = {n1, n2}
  Empty = Empty
  Absent = Absent
  Retypes = {"username"}
  HastyClicks = 3
  MaxClicks = 5
CONSTRAINT Small
SYMMETRY Interchangeable
INVARIANTS TypeOK NeverAheadOfAuth MatchesAuth SingletonMatches
CHECK_DEADLOCK FALSE
