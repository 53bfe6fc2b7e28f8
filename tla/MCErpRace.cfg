SPECIFICATION Spec
CONSTANTS
  Plans = {p1}
  Submitters = {s1, s2}
  Sweepers = {}
  Processors = {}
  MaxBaseline = 3
  MaxRevision = 1
INVARIANT OneOperationPerPlan
CHECK_DEADLOCK FALSE
