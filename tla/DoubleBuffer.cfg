SPECIFICATION FairSpec
CONSTANTS
  p0 = p0
  p1 = p1
  l0 = l0
  l1 = l1
  MainPlanes = {p0}
  LoadPlanes = {p1}
  Lanes = {l0, l1}
  Cases <- EveryCase
INVARIANTS ReadsItsSlice NoDataRace EveryTaskOnce
PROPERTY AllFinish
