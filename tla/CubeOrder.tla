------------------------------ MODULE CubeOrder ------------------------------
(***************************************************************************)
(* The order a cube level hands its boxes to the grid: the in-plane        *)
(* position a cube takes for its flat dispatch index, in rows, or snaking  *)
(* in strips along one axis.  The arithmetic is the device's unsigned one, *)
(* Word being one past the greatest u32.                                   *)
(***************************************************************************)
EXTENDS Integers

CONSTANT Word

ASSUME WordAssumption == Word \in Nat \ {0}

Minus(a, b) == (a - b) % Word
Least(a, b) == IF a < b THEN a ELSE b

\* `snake`: odd strips run bottom-up, odd steps right to left.  Both ways are
\* computed and one is multiplied by zero; wraps says that a difference was
\* taken below zero on the way.
Snake(strip, posInStrip, numSteps, width, offset) ==
  LET step == posInStrip \div width
      pos == posInStrip % width
      upwards == Minus(Minus(numSteps, step), 1)
      leftwards == Minus(Minus(width, pos), 1) IN
  [step |-> IF strip % 2 = 1 THEN upwards ELSE step,
   along |-> (IF step % 2 = 1 THEN leftwards ELSE pos) + offset,
   wraps |-> numSteps < step + 1]

\* (wrong) the last strip as wide as the others.
WholeStrips(index, numSteps, stepLength, stripAxis) ==
  LET strip == index \div (numSteps * stepLength) IN
  Snake(strip, index - strip * numSteps * stepLength, numSteps, stepLength,
        stepLength * strip)

\* `swizzle_ragged`: the last strip is as wide as what is left of the axis.
SwizzleRagged(index, numSteps, stepLength, stripAxis) ==
  LET strip == index \div (numSteps * stepLength)
      offset == stepLength * strip
      left == IF stripAxis > offset THEN stripAxis - offset ELSE 0
      width == IF left < stepLength /\ left > 0 THEN left ELSE stepLength IN
  Snake(strip, index - strip * numSteps * stepLength, numSteps, width, offset)

\* The orders: rows, or strips of a width along the first or second axis.
RowMajor == [strips |-> "none", width |-> 1]
Canonical(order) == IF order.width = 1 THEN RowMajor ELSE order
Swizzles(order) == Canonical(order) # RowMajor

\* `cube_positions`: the box (x, y) of the cube at flat index, over a grid.
CubePositions(flat, countX, countY, order) ==
  CASE Canonical(order) = RowMajor ->
         [x |-> flat % countX, y |-> flat \div countX, wraps |-> FALSE]
    [] Canonical(order) # RowMajor /\ order.strips = "row" ->
         LET at == SwizzleRagged(flat, countY, order.width, countX) IN
         [x |-> at.along, y |-> at.step, wraps |-> at.wraps]
    [] Canonical(order) # RowMajor /\ order.strips = "col" ->
         LET at == SwizzleRagged(flat, countX, order.width, countY) IN
         [x |-> at.step, y |-> at.along, wraps |-> at.wraps]
=============================================================================
