----------------------------- MODULE NhwcTensors -----------------------------
(***************************************************************************)
(* Tensors of batches, spatial axes and channels, the channels innermost.  *)
(***************************************************************************)
EXTENDS CubeSteps

Size(shape) == FoldLeft(LAMBDA a, b : a * b, 1, shape)
LargerOf(a, b) == IF a > b THEN a ELSE b
LowerOf(a, b) == IF a < b THEN a ELSE b
TruncatedDiv(a, b) == IF a >= 0 THEN a \div b ELSE -((-a) \div b)

\* Where an element is.
Offset(shape, position) ==
  LET upTo[i \in 0 .. Len(shape)] == IF i = 0 THEN 0 ELSE upTo[i - 1] * shape[i] + position[i] IN
  upTo[Len(shape)]

\* `decompose_linear`: the position of an element, the last axis the fastest.
DecomposeLinear(shape, index) ==
  LET rest[i \in 0 .. Len(shape)] ==
        IF i = 0 THEN index ELSE rest[i - 1] \div shape[Len(shape) + 1 - i] IN
  [i \in 1 .. Len(shape) |-> rest[Len(shape) - i] % shape[i]]

Spatial(position) == SubSeq(position, 2, Len(position) - 1)
Positions(sizes) == {DecomposeLinear(sizes, i) : i \in 0 .. Size(sizes) - 1}

\* The positions of a box of the pooled axes, in the order of nested loops.
Box(ranges) ==
  LET sizes == [d \in DOMAIN ranges |-> LargerOf(ranges[d][2] - ranges[d][1], 0)] IN
  [i \in 1 .. Size(sizes) |->
    LET at == DecomposeLinear(sizes, i - 1) IN [d \in DOMAIN ranges |-> ranges[d][1] + at[d]]]
=============================================================================
