SPECIFICATION Spec
CONSTANTS
  Workers = {w1, w2}
  Clients = {c1}
  Ops = {o1}
  Worlds = {a, b}
  BlockedWorlds = {b}
  MaxAttempts = 1
  MaxPlans = 1
  AttemptBound = 3
INVARIANT OneExecutorPerAttempt
PROPERTY ExecutionPromises
SYMMETRY Interchangeable
