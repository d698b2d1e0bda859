SPECIFICATION Spec
CONSTANTS
  User = {u1, u2}
  FirstUser = u1
  Nobody = Nobody
  MaxPendingWrites = 3
  MaxWrites = 3
  MaxUpsets = 0
INVARIANT RejectedWasRefused
CHECK_DEADLOCK FALSE
