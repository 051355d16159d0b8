SPECIFICATION FairSpec
CONSTANTS
  u1 = u1
  u2 = u2
  u3 = u3
  lhs = lhs
  rhs = rhs
  Units <- ThreeUnits
  Plans <- EveryPlan
  MaxTotal = 5
  Walks = 2
INVARIANTS NoDataRace ReadsItsRegion LoopsFollowTheRule
PROPERTIES WalksComplete
