SPECIFICATION FairSpec
CONSTANTS
  Plans = {p1}
  Submitters = {s1}
  Sweepers = {v1}
  Processors = {q1}
  MaxBaseline = 2
  MaxRevision = 2
INVARIANT AcceptedIsNeverOrphaned
PROPERTIES
  ErpPromises
  OperationsCatchUp
