SPECIFICATION Spec
CONSTANTS
  Workers = {w1}
  Clients = {c1, c2}
  Ops = {o1}
  Worlds = {a}
  BlockedWorlds = {}
  MaxAttempts = 2
  MaxPlans = 2
  AttemptBound = 2
INVARIANT ExecutesOnlyApprovedPlans
SYMMETRY Interchangeable
