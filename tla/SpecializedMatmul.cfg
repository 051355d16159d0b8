\* Two loading and two computing units.  Five needed stages make three loops, so
\* that each barrier's parity comes round, and a last stage past the range; four
\* make two loops and none makes none.  Both deliveries.
SPECIFICATION FairSpec
CONSTANTS
  LoadUnits = {l0, l1}
  ComputeUnits = {u0, u1}
  Leader = l0
  Needs = {0, 4, 5}
INVARIANTS IInv ReadsItsSlice FreedStagesAreQuiet WholeContraction
PROPERTY AllReturn
