SPECIFICATION FairSpec
CONSTANTS
  CubeDim = 3
  PlaneDim = 1
  FillPlanes = 0
  Depth = 2
  Total = 5
  BulkOperands = {lhs}
  CopiedOperands = {rhs}
INVARIANTS TypeOK ReadsItsRegion ParityNeverAliases SidesAgreeAtTheEnd
PROPERTIES WalkCompletes
