SPECIFICATION Spec
CONSTANTS
  p0 = p0
  p1 = p1
  PlaneDim = 8
  Planes = {p0, p1}
  Rounds = 2
  UnitsLevels <- StatedLevels
INVARIANTS NothingTwice EveryContributionOnce
