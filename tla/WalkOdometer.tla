---------------------------- MODULE WalkOdometer ----------------------------
(***************************************************************************)
(* How a level hands the tiles of a grid to the instances of a scope: the  *)
(* walk every cube, plane or unit builds of the level (`Walk::of`) and the *)
(* regions it steps through (`Walk::region`).                              *)
(*                                                                         *)
(* An axis of the level is walked whole by every instance, gives each      *)
(* instance one tile ("each"), is distributed across a number of workers   *)
(* ("across"), or is taken in turns by as many units as the launch runs    *)
(* ("turns").  Axes that ride one hardware dimension are the digits of its *)
(* position, the earlier axis the more significant.                        *)
(*                                                                         *)
(* Walks share nothing, so all instances take their regions in step here.  *)
(***************************************************************************)
EXTENDS CubeOrder, Sequences, FiniteSets

CONSTANTS
  Launches    \* the walks that may be built: a level (its axes in the order of
              \* the space, its order on the grid, the direction its steps
              \* take), and the coordinate its first axis is routed to, or None

None == -1

\* An axis of a level: what an instance takes of its grid, the workers of an
\* axis across them or in turns, how they spread over it, what tells them apart,
\* and whether the host has proved that the workers divide the grid.
Cut ==
  [takes : {"walked", "each", "across", "turns"}, grid : Nat, workers : Nat \ {0},
   spread : {"contiguous", "interleaved"}, dim : STRING, divides : BOOLEAN]

InstancesOf(axis) ==
  CASE axis.takes = "walked" -> 1
    [] axis.takes = "each" -> axis.grid
    [] axis.takes \in {"across", "turns"} -> axis.workers

\* What the host has proved divides does, and what is taken in turns is interleaved.
Settled(axis) ==
  /\ axis.takes = "across" /\ axis.divides => axis.grid % axis.workers = 0
  /\ axis.takes = "turns" => axis.spread = "interleaved"

Rides(axis, dim) == axis.takes # "walked" /\ axis.dim = dim

\* A swizzle can put back only an axis that owns a whole dimension (`in_plane_axes`),
\* the indices of its grid, and of as much again, fit the device's word, and an
\* empty grid launches no cube.
PutsBack(axes, order) ==
  \E p, q \in DOMAIN axes :
    /\ \A r \in DOMAIN axes : (Rides(axes[r], "X") <=> r = p) /\ (Rides(axes[r], "Y") <=> r = q)
    /\ InstancesOf(axes[p]) > 0 /\ InstancesOf(axes[q]) > 0
    /\ 2 * InstancesOf(axes[p]) * InstancesOf(axes[q]) + 8 < Word
    /\ order.width * InstancesOf(axes[p]) < Word /\ order.width * InstancesOf(axes[q]) < Word

ASSUME LaunchesAssumption ==
  \A launch \in Launches :
    LET axes == launch.level.axes  order == launch.level.order IN
    /\ axes \in Seq(Cut) /\ \A p \in DOMAIN axes : Settled(axes[p])
    /\ launch.level.reversed \in BOOLEAN
    /\ order \in {RowMajor} \cup [strips : {"row", "col"}, width : Nat \ {0}]
    /\ Swizzles(order) => PutsBack(axes, order)
    /\ launch.route # None => launch.route \in Nat /\ axes # << >> /\ axes[1].grid > 0

VARIABLES
  level,
  route,      \* the coordinate the first axis is routed to, or None
  i,          \* the steps taken so far
  taken       \* per tile of the grid, how often it was taken

vars == <<level, route, i, taken>>

Axes == DOMAIN level.axes
Axis(p) == level.axes[p]
Distributes(p) == Axis(p).takes # "walked"

\* The instances an axis is distributed to.
Instances(p) == InstancesOf(Axis(p))

\* The product of the counts of the axes from p on.
ProductFrom(counts, p) ==
  LET product[q \in 1 .. Len(counts) + 1] ==
        IF q > Len(counts) THEN 1 ELSE counts[q] * product[q + 1] IN
  product[p]

\* What each axis multiplies the instances of a dimension by.
WeightsOn(d) == [p \in Axes |-> IF Rides(Axis(p), d) THEN Instances(p) ELSE 1]

\* (wrong) the later axes of a shared dimension not divided off.
FlatInner(p) == 1

\* The weight of the later axes of the dimension p rides.
Inner(p) == ProductFrom(WeightsOn(Axis(p).dim), p + 1)

\* What the launch runs: as many instances per dimension as its axes take.
Dims == {Axis(p).dim : p \in {q \in Axes : Distributes(q)}}
DimCount(d) == ProductFrom(WeightsOn(d), 1)
Positions ==
  {pos \in [Dims -> UNION {0 .. DimCount(d) - 1 : d \in Dims}] : \A d \in Dims : pos[d] < DimCount(d)}

\* The axes of a swizzled level that ride X and Y are decoded together.
OnDim(d) == CHOOSE p \in Axes : Rides(Axis(p), d)
Swizzled(p) == Swizzles(level.order) /\ Distributes(p) /\ Axis(p).dim \in {"X", "Y"}
InPlane(pos) ==
  CubePositions(pos["X"] + pos["Y"] * Instances(OnDim("X")),
                Instances(OnDim("X")), Instances(OnDim("Y")), level.order)

\* The instance's own digit along axis p.
Position(pos, p) ==
  IF ~Distributes(p) THEN 0
  ELSE IF Swizzled(p)
  THEN IF Axis(p).dim = "X" THEN InPlane(pos).x ELSE InPlane(pos).y
  ELSE (pos[Axis(p).dim] \div Inner(p)) % Instances(p)

\* A worker's run of an axis distributed across workers, the last one cut short.
Run(p) ==
  IF Axis(p).takes = "across"
  THEN (Axis(p).grid + Axis(p).workers - 1) \div Axis(p).workers ELSE 1

Saturating(a, b) == IF a > b THEN a - b ELSE 0

\* `AxisDistribution::tiles`: a whole run where the host proved the grid
\* divides, else what is left of the grid for this run or these turns.
Tiles(p, at) ==
  IF Axis(p).takes = "each" \/ (Axis(p).takes = "across" /\ Axis(p).divides)
  THEN Run(p)
  ELSE IF Axis(p).spread = "contiguous"
  THEN Least(Run(p), Saturating(Axis(p).grid, at * Run(p)))
  ELSE (Saturating(Axis(p).grid, at) + Instances(p) - 1) \div Instances(p)

\* The walk's count along each axis, one where the axis is routed.
Counts(pos) ==
  [p \in Axes |->
    IF route # None /\ p = 1 THEN 1
    ELSE IF ~Distributes(p) THEN Axis(p).grid ELSE Tiles(p, Position(pos, p))]

Total(pos) == ProductFrom(Counts(pos), 1)

\* `StepOrder::step`.
Step(n, total) == IF level.reversed THEN total - n - 1 ELSE n

\* (wrong) a digit whose later digits are not divided off.
Undivided(pos, idx, p) == idx % Counts(pos)[p]

\* `Walk::digit`: the odometer's digit along axis p, the last axis fastest.
Digit(pos, idx, p) ==
  (idx \div ProductFrom(Counts(pos), p + 1)) % Counts(pos)[p]

\* `Walk::fold`: an instance's run starts at its position's, its turns step by
\* the instances.
Fold(pos, digit, p) ==
  IF ~Distributes(p) THEN digit
  ELSE IF Axis(p).spread = "contiguous" THEN digit + Position(pos, p) * Run(p)
  ELSE digit * Instances(p) + Position(pos, p)

\* (wrong) a routed coordinate taken as it came.
UnclampedRoute(p) == route

\* `Walk::routed` clamps the coordinate to the tiles of the axis.
Routed(p) == Least(route, Axis(p).grid - 1)

\* `Walk::region`, as the tile's coordinates.
Region(pos, n) ==
  LET idx == Step(n, Total(pos)) IN
  [p \in Axes |-> IF route # None /\ p = 1 THEN Routed(p)
                  ELSE Fold(pos, Digit(pos, idx, p), p)]

Grid ==
  {t \in [Axes -> UNION {0 .. Axis(p).grid - 1 : p \in Axes}] : \A p \in Axes : t[p] < Axis(p).grid}

Init ==
  /\ \E launch \in Launches : level = launch.level /\ route = launch.route
  /\ i = 0
  /\ taken = [t \in Grid |-> 0]

\* The instances whose walk is not over, and the tile each takes next.
Walking == {pos \in Positions : i < Total(pos)}

TakeRegion ==
  /\ Walking # {}
  /\ i' = i + 1
  /\ LET tiles == [pos \in Walking |-> Region(pos, i)] IN
     taken' = [t \in DOMAIN taken \cup {tiles[pos] : pos \in Walking} |->
                (IF t \in DOMAIN taken THEN taken[t] ELSE 0)
                + Cardinality({pos \in Walking : tiles[pos] = t})]
  /\ UNCHANGED <<level, route>>

WalksEnd == Walking = {} /\ UNCHANGED vars

Next == TakeRegion \/ WalksEnd

Spec == Init /\ [][Next]_vars

\* How often each tile was taken, as the steps that name it.
Visits(n) == {x \in Positions \X (0 .. n - 1) : x[2] < Total(x[1])}
IInv ==
  /\ i \in Nat
  /\ \E launch \in Launches : level = launch.level /\ route = launch.route
  /\ taken = [t \in Grid |-> Cardinality({x \in Visits(i) : Region(x[1], x[2]) = t})]
-----------------------------------------------------------------------------
\* No walk leaves the grid, whatever coordinate a kernel routes an axis to.
StaysInGrid == DOMAIN taken = Grid

\* The walks of all instances take every tile of the grid, once: whatever the
\* distribution, the spread, a run cut short, an instance past the grid, axes
\* sharing a dimension, or the order of the boxes.
EveryTileOnce ==
  route = None =>
    /\ \A t \in DOMAIN taken : taken[t] <= 1
    /\ Walking = {} => \A t \in Grid : taken[t] = 1

\* A routed walk visits the rest of the grid at one coordinate of the axis.
RoutedVisitsTheSlice ==
  route # None /\ Walking = {} =>
    \A t \in Grid : taken[t] > 0 <=> t[1] = Least(route, Axis(1).grid - 1)

\* Past the grid a swizzled position is off the grid, whatever wraps on the way.
OffGrid ==
  Swizzles(level.order) =>
    LET x == Instances(OnDim("X"))  y == Instances(OnDim("Y")) IN
    \A flat \in x * y .. 2 * x * y + 8 :
      LET at == CubePositions(flat, x, y, level.order) IN at.x >= x \/ at.y >= y
=============================================================================
