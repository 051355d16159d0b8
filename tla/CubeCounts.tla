------------------------------ MODULE CubeCounts ------------------------------
(***************************************************************************)
(* The cubes a launch counts for a problem of x by y by z places, and the  *)
(* place each works at: a strategy is asked for, falls back to spreading   *)
(* the cubes over the axes of the device when it does not fit, and may     *)
(* launch more cubes than places.                                          *)
(***************************************************************************)
EXTENDS CubeSteps

LOCAL Order == INSTANCE CubeOrder WITH Word <- 65536

Total(count) == count[1] * count[2] * count[3]
Within(count, max) == \A i \in 1 .. 3 : count[i] <= max[i]

\* `SmAllocation::allocate`: the most multiprocessors of those that divide their
\* number whose cubes exceed the total by `extra` of them at most, a fraction.
Allocate(sms, total, extra) ==
  LET slack == CeilDiv(sms * extra[1], extra[2])
      fitting == {used \in 1 .. sms : sms % used = 0 /\ CeilDiv(total, used) * used - total <= slack}
      used == CHOOSE u \in fitting : \A other \in fitting : other <= u IN
  <<used, CeilDiv(total, used)>>

\* `spread_cube_count_plan`: the smallest volume of cubes, then the deepest and
\* the highest, whose depth and height are the device's, halved.
Halved(n) == {n \div 2 ^ e : e \in 0 .. 6} \ {0}
Spread(count, max) ==
  LET Along(z, y) == <<CeilDiv(CeilDiv(Total(count), z), y), y, z>>
      grids == {g \in {Along(z, y) : z \in Halved(max[3]), y \in Halved(max[2])} : g[1] <= max[1]}
      Before(a, b) ==
        \/ Total(a) < Total(b)
        \/ Total(a) = Total(b) /\ (a[3] > b[3] \/ (a[3] = b[3] /\ a[2] >= b[2])) IN
  IF Within(count, max) THEN count ELSE CHOOSE g \in grids : \A other \in grids : Before(g, other)

\* A strategy: its kind and, for multiprocessors, how many, how far they may be
\* over-allocated, and whether their cubes come first.
Simply(kind) == [kind |-> kind, sms |-> 1, extra |-> <<0, 1>>, cubesFirst |-> FALSE]
OnSms(sms, extra, cubesFirst) == [kind |-> "sm", sms |-> sms, extra |-> extra, cubesFirst |-> cubesFirst]

\* What the strategy asks for: a grid of cubes, or none that fits.
Asked(strategy, count, max) ==
  LET sm == Allocate(strategy.sms, Total(count), strategy.extra) IN
  CASE strategy.kind = "problem" -> IF Within(count, max) THEN {count} ELSE {}
    [] strategy.kind = "flattened" -> IF Total(count) < max[1] THEN {<<Total(count), 1, 1>>} ELSE {}
    [] strategy.kind = "sm" ->
         LET grid == IF strategy.cubesFirst THEN <<sm[2], sm[1], 1>> ELSE <<sm[1], sm[2], 1>> IN
         IF grid[1] < max[1] /\ grid[2] < max[2] THEN {grid} ELSE {}
    [] OTHER -> {}

\* The order places are taken in: strips that do not divide their axis are not.
FallBack(order, count) ==
  CASE order.strips = "row" /\ count[1] % order.width # 0 -> [strips |-> "none", width |-> 1]
    [] order.strips = "col" /\ count[2] % order.width # 0 -> [strips |-> "cols", width |-> 1]
    [] order.strips = "row" /\ order.width = 1 -> [strips |-> "none", width |-> 1]
    [] order.strips = "col" /\ order.width = 1 -> [strips |-> "cols", width |-> 1]
    [] OTHER -> order

\* `CubeCountPlan::from_blueprint`.
CubeCountPlan(strategy, order, count, max) ==
  LET asked == Asked(strategy, count, max)
      kind == IF asked = {} THEN "spread" ELSE strategy.kind
      grid == IF asked = {} THEN Spread(count, max) ELSE CHOOSE g \in asked : TRUE IN
  [kind |-> kind, order |-> FallBack(order, count), count |-> count, grid |-> grid,
   canYieldExtra |-> kind \in {"sm", "spread"} /\ Total(grid) # Total(count)]

\* `swizzle`: strips all as wide as one another.
Swizzle(index, numSteps, stepLength) ==
  LET strip == index \div (numSteps * stepLength)
      at == Order!Snake(strip, index - strip * numSteps * stepLength, numSteps, stepLength, stepLength * strip) IN
  <<at.step, at.along>>

\* `absolute_index_to_xyz`.
AbsoluteIndexToXyz(index, count, order) ==
  LET plane == count[1] * count[2]
      at == index % plane
      xy == CASE order.strips = "none" -> <<at \div count[2], at % count[2]>>
              [] order.strips = "cols" -> <<at % count[1], at \div count[1]>>
              [] order.strips = "row" ->
                   LET s == Swizzle(at, count[2], order.width) IN <<s[2], s[1]>>
              [] order.strips = "col" -> Swizzle(at, count[1], order.width) IN
  <<xy[1], xy[2], index \div plane>>

\* `cube_pos_to_xyz`, for the cube started at `pos`.
CubePosToXyz(plan, pos) ==
  IF plan.kind = "problem"
  THEN <<pos % plan.grid[1], (pos \div plan.grid[1]) % plan.grid[2], pos \div (plan.grid[1] * plan.grid[2])>>
  ELSE AbsoluteIndexToXyz(pos, plan.count, plan.order)

\* A cube to spare, where kernels look for them.
Spare(plan, pos) == plan.canYieldExtra /\ pos >= Total(plan.count)
=============================================================================
