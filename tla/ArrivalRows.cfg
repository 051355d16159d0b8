SPECIFICATION FairSpec
CONSTANTS
  c1 = c1
  c2 = c2
  c3 = c3
  u0 = u0
  u1 = u1
  row1 = row1
  row2 = row2
  Cubes <- ThreeCubes
  Units = {u0, u1}
  Leader = u0
  Groups = {row1, row2}
  GroupOf <- TwoAndOne
INVARIANTS IInv OneMerges SeesEveryPartial
PROPERTY GroupsAreMerged
