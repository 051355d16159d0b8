SPECIFICATION FairSpec
CONSTANTS
  CubeDim = 5
  PlaneDim = 2
  FillPlanes = 1
  Depth = 2
  Total = 5
  BulkOperands = {lhs, rhs}
  CopiedOperands = {}
INVARIANTS IInv NoRefillUnderReader
PROPERTIES WalkCompletes FeedSpec
