SPECIFICATION Spec
CONSTANTS
  Workers = {w1}
  Clients = {c1}
  Ops = {o1}
  Worlds = {a}
  BlockedWorlds = {}
  MaxAttempts = 2
  MaxPlans = 1
  AttemptBound = 2
INVARIANT SomeCommandReachesIt
CHECK_DEADLOCK FALSE
SYMMETRY Interchangeable
