SPECIFICATION FairSpec
CONSTANTS
  Workers = {w1}
  Clients = {c1}
  Ops = {o1, o2}
  Worlds = {a}
  BlockedWorlds = {}
  MaxAttempts = 1
  MaxPlans = 1
  AttemptBound = 2
PROPERTY OperationsFinish
