SPECIFICATION Spec
CONSTANTS
  k1 = k1
  Word = 65536
  Launches <- SmallGrids
  Cells <- OneCell
INVARIANTS IInv NoStepTwice EveryStepOnce Balanced
