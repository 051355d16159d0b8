--------------------------- MODULE MCWalkOdometer ---------------------------
(***************************************************************************)
(* The levels WalkOdometer is checked on, at most three axes of at most    *)
(* five tiles: cube levels with an axis per grid dimension and a batch axis *)
(* folded onto Z, plane and unit levels whose axes share one dimension,    *)
(* and units taking turns.                                                 *)
(***************************************************************************)
EXTENDS WalkOdometer

AxisCut(takes, grid, workers, spread, dim, divides) ==
  [takes |-> takes, grid |-> grid, workers |-> workers, spread |-> spread,
   dim |-> dim, divides |-> divides]

Walked == {AxisCut("walked", g, 1, "contiguous", "none", TRUE) : g \in 1 .. 2}
Each(dim, grids) == {AxisCut("each", g, g, s, dim, TRUE) : g \in grids, s \in {"contiguous", "interleaved"}}
Across(dim) ==
  {AxisCut("across", g, w, s, dim, FALSE) : g \in 1 .. 5, w \in 1 .. 4, s \in {"contiguous", "interleaved"}}
  \cup {AxisCut("across", g, 2, s, dim, TRUE) : g \in {2, 4}, s \in {"contiguous", "interleaved"}}
Turns == {AxisCut("turns", g, w, "interleaved", "units", FALSE) : g \in 0 .. 5, w \in 1 .. 4}

LevelOf(axes, order, reversed) == [axes |-> axes, order |-> order, reversed |-> reversed]

Strips == [strips : {"row", "col"}, width : 2 .. 3]

CubeLevels ==
  {LevelOf(<<a, b, c>>, RowMajor, FALSE) :
     a \in Each("X", {2}), b \in Across("Y"), c \in Walked}
  \cup {LevelOf(<<a, b, c>>, RowMajor, FALSE) :
     a \in Each("Z", {2}), b \in Walked, c \in Across("Z")}
SwizzledLevels ==
  {LevelOf(<<AxisCut("each", x, x, "contiguous", "X", TRUE),
             AxisCut("each", y, y, "contiguous", "Y", TRUE)>>, order, FALSE) :
     x \in 1 .. 5, y \in 1 .. 5, order \in Strips \cup {RowMajor}}
PlaneLevels ==
  {LevelOf(<<a, b>>, RowMajor, FALSE) : a \in Each("planes", 1 .. 3), b \in Each("planes", 1 .. 3)}
UnitLevels == {LevelOf(<<a>>, RowMajor, FALSE) : a \in Turns}
SequentialLevels ==
  {LevelOf(<<a, b, c>>, RowMajor, r) : a \in Walked, b \in Walked, c \in Walked, r \in BOOLEAN}

Every == CubeLevels \cup SwizzledLevels \cup PlaneLevels \cup UnitLevels \cup SequentialLevels
\* The levels whose first axis a kernel may route: a coordinate read from
\* data, in the grid or past it.
Routable == PlaneLevels \cup SequentialLevels

Launched(levels, routes) == [level : levels, route : routes]
Walks == Launched(Every, {None}) \cup Launched(Routable, 0 .. 4)
=============================================================================
