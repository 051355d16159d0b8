---------------------------- MODULE ReduceKernels ----------------------------
(***************************************************************************)
(* The reductions of cubek-reduce: a unit, a plane or a cube per result,   *)
(* the blueprints their routines infer or are forced to, and the sum of a  *)
(* whole tensor over several cubes.                                        *)
(*                                                                         *)
(* The instruction of a problem is op, with k for the k largest, and       *)
(* whether coordinates are tracked.  A tensor has `rows` results of `len` items of *)
(* `lanes` scalars: along the lanes when the reduced axis is contiguous    *)
(* (parallel), across them when it is not (perpendicular).  The reduced    *)
(* axis of the output, of size k, has stride `slot`.  A problem r also     *)
(* holds its launch: the cubes, their dimensions x and y, the width of the *)
(* device's planes, and the blueprint's fields.                            *)
(***************************************************************************)
EXTENDS CubeSteps

Rules == INSTANCE Selections

\* The cube, and the position in it, of unit u.
CubeOf(r, u) == u \div (r.x * r.y)
PosOf(r, u) == u % (r.x * r.y)
CubeUnits(r, cube) == {cube * r.x * r.y + i : i \in 0 .. r.x * r.y - 1}
PlaneUnits(r, u) == {(u \div r.plane) * r.plane + i : i \in 0 .. r.plane - 1}
Lanes(r) == 0 .. r.lanes - 1

\* Place j of an accumulator: of lane l of a register of u, or of a slot of
\* the cube's shared ones.
Places(r) == 1 .. r.k
Reg(r, name, u, l, j) == <<name, u * r.lanes + l, j>>
Slot(r, cube, slot, l, j) == <<"shared", cube, slot * r.lanes + l, j>>

\* Assignments to each place of the lanes of an accumulator.
ToPlaces(r, Cell(_, _), Terms(_, _)) ==
  Sets({<<Cell(l, j), Terms(l, j)>> : l \in Lanes(r), j \in Places(r)})
-----------------------------------------------------------------------------
(* Instructions.  What is accumulated are terms to add, or entries to      *)
(* choose from.                                                            *)

Adds(r) == r.op \in {"sum", "mean"}

\* What an item counts for beside its coordinate.
Weight(r) ==
  CASE r.op \in {"top", "max"} -> Rules!Far [] r.op = "min" -> -Rules!Far [] OTHER -> 1

\* An accumulator, and the one there is before any item.
Held(r, cell) == IF Adds(r) THEN Of(cell) ELSE Entry(cell, 1, 0)
Accumulator(r, Cell(_)) == [j \in Places(r) |-> Held(r, Cell(j))]
NullAccumulator(r) ==
  IF Adds(r) THEN <<>>
  ELSE [j \in Places(r) |-> Entry(<<"input", 0>>, 0, -Rules!NullItem(r.op, IF r.tracked THEN Rules!Nowhere ELSE 0))]

\* An item at a coordinate of its row, and one past the bounds, which has a
\* coordinate too.
Tracked(r, coordinate) == IF r.tracked THEN coordinate ELSE 0
Read(r, cell, coordinate) ==
  <<IF Adds(r) THEN Of(cell) ELSE Entry(cell, Weight(r), Tracked(r, coordinate))>>
NullInput(r, coordinate) ==
  IF Adds(r) THEN <<>>
  ELSE <<Entry(<<"input", 0>>, 0, -Rules!NullItem(r.op, Tracked(r, coordinate)))>>

\* Place j of an accumulator and others put together: `reduce`, `fuse_accumulators`,
\* `plane_reduce_inplace` or `to_output_parallel`.
Together(r, how, j, entries) ==
  IF Adds(r) THEN entries
  ELSE <<Chosen([op |-> r.op, how |-> how, k |-> r.k, tracked |-> r.tracked], j, entries)>>
\* `to_output`: a sum is divided by the length of its axis for a mean.
AxisSize(r) == r.len * (IF r.parallel THEN r.lanes ELSE 1)
Finally(r, terms) ==
  [i \in DOMAIN terms |-> IF r.op = "mean" THEN [terms[i] EXCEPT !.over = AxisSize(r)] ELSE terms[i]]

\* An item as it was read.
Alone(r, item) == IF Adds(r) THEN item ELSE <<Chosen([op |-> "largest"], 1, item)>>
-----------------------------------------------------------------------------
(* Readers.                                                                *)

\* Results in units of a write: `working_cubes`, `working_planes`, `working_units`.
Working(r) == r.rows \div (IF r.parallel THEN r.writes ELSE r.lanes)
WriteCount(r) == IF r.parallel THEN r.writes ELSE 1

\* `reduction_output_base`: where the first place of a result is written.
WriteIndex(r, result) ==
  LET stride == r.slot \div r.writes IN
  IF r.k = 1 THEN result ELSE (result \div stride) * stride * r.k + (result % stride)

\* `idle_check`, for the worker that writes at w.
Excess(r, w) ==
  w * WriteCount(r) >= IF r.parallel THEN r.rows * r.k ELSE (r.rows * r.k) \div r.lanes
Terminated(r, w) == r.idle = "terminate" /\ Excess(r, w)

\* Where a lane of the item at position pos of a result is, from where the
\* output has the result: the rows one after the other, or side by side.
ParallelItem(r, at, pos, lane) ==
  LET row == (at \div (r.slot * r.k)) * r.slot + (at % r.slot)
      place == (at \div r.slot) % r.k IN
  ((row * r.len * r.lanes + place) \div r.lanes + pos) * r.lanes + lane
PerpendicularItem(r, at, pos, lane) ==
  LET before == (at * r.lanes) \div (r.slot * r.k)
      place == ((at * r.lanes) \div r.slot) % r.k
      inner == (at * r.lanes) % r.slot IN
  ((before * r.len + place + pos) * r.slot + inner) + lane

\* (wrong) the units past the end of the row read on.
UnboundedItem(r, w, at, pos, lane) ==
  Read(r, <<"input", IF r.parallel THEN ParallelItem(r, at, pos, lane) ELSE PerpendicularItem(r, at, pos, lane)>>,
       IF r.parallel THEN pos * r.lanes + lane ELSE pos)

\* One lane of the item at position pos of a result, null past the bounds
\* when they are checked: an idle worker's bound is zero.
Item(r, w, at, pos, lane) ==
  LET checked == r.bounds # "none" \/ r.idle = "mask"
      bound == IF r.idle = "mask" /\ Excess(r, w) THEN 0 ELSE r.len
      coordinate == IF r.parallel THEN pos * r.lanes + lane ELSE pos
      cell == <<"input", IF r.parallel THEN ParallelItem(r, at, pos, lane) ELSE PerpendicularItem(r, at, pos, lane)>> IN
  IF ~checked \/ pos < bound THEN Read(r, cell, coordinate) ELSE NullInput(r, coordinate)

\* What the unit at `pos` of a group of `width` accumulates over its reads.
Accumulate(r, u, w, at, pos, width) ==
  Do(u, ToPlaces(r, LAMBDA l, j : Reg(r, "acc", u, l, j),
          LAMBDA l, j : Together(r, "reduce", j,
            NullAccumulator(r) \o Loop(CeilDiv(r.len, width), LAMBDA i : Item(r, w, at, i * width + pos, l)))))

\* `plane_reduce_inplace`: every unit of the plane has the whole of it.
PlaneReduce(r, u) ==
  LET lanes == SetToSortSeq(PlaneUnits(r, u), <) IN
  PlaneStep(PlaneUnits(r, u),
    ToPlaces(r, LAMBDA l, j : Reg(r, "acc", u, l, j),
      LAMBDA l, j : Together(r, "merge", j,
        FlattenSeq([v \in DOMAIN lanes |-> Accumulator(r, LAMBDA i : Reg(r, "acc", lanes[v], l, i))]))))
-----------------------------------------------------------------------------
(* Writers.                                                                *)

\* `ReduceOutputLayout`: a vector of the output, unless it is past its end.
Written(r, w, j, values) ==
  LET at == (j - 1) * (IF r.k = 1 THEN 0 ELSE r.slot \div r.writes) + w IN
  IF at * r.writes >= r.rows * r.k THEN {}
  ELSE {<<<<"output", at * r.writes + b>>, values[b]>> : b \in 0 .. r.writes - 1}

\* `write`: the lanes of a result put together in the b-th place of a buffer, or
\* written as they are.
ParallelWrite(r, u, b, name) ==
  LET lists == FlattenSeq([i \in Places(r) |-> [l \in 1 .. r.lanes |-> Held(r, Reg(r, name, u, l - 1, i))]]) IN
  <<Do(u, Sets({<<<<"buffer", u, b, j>>, Finally(r, Together(r, "final", j, NullAccumulator(r) \o lists))>> : j \in Places(r)}))>>
PerpendicularWrite(r, u, w, name) ==
  LET iters == r.lanes \div r.writes IN
  <<Do(u, Sets(UNION {Written(r, w * iters + i, j,
                        [b \in 0 .. r.writes - 1 |-> Finally(r, <<Of(Reg(r, name, u, i * r.writes + b, j))>>)])
                        : i \in 0 .. iters - 1, j \in Places(r)}))>>
Write(r, u, w, b, name) ==
  IF r.parallel THEN ParallelWrite(r, u, b, name) ELSE PerpendicularWrite(r, u, w, name)

\* `commit`: the buffers, each in one write.
Commit(r, u, w) ==
  When(r.parallel,
       <<Do(u, Sets(UNION {Written(r, w, j, [b \in 0 .. r.writes - 1 |-> <<Of(<<"buffer", u, b, j>>)>>])
                             : j \in Places(r)}))>>)
-----------------------------------------------------------------------------
(* The three routines' kernels.                                            *)

\* `GlobalFullUnitReduce`: its reader checks no bound but the idle one.
UnitReduce(r, u) ==
  LET w == WriteIndex(r, u)
      unchecked == [bounds |-> "none"] @@ r IN
  When(~Terminated(r, w),
       Loop(WriteCount(r), LAMBDA b :
              <<Accumulate(unchecked, u, w, w * WriteCount(r) + b, 0, 1)>>
                \o Write(r, u, w, b, "acc"))
         \o Commit(r, u, w))

\* `GlobalFullPlaneReduce`: a row of x units per result, of which the first
\* plane's first unit writes; the planes merge once per item or at the end.
PlaneReduceKernel(r, u) ==
  LET pos == PosOf(r, u) % r.x
      w == WriteIndex(r, CubeOf(r, u) * r.y + PosOf(r, u) \div r.x)
      width == IF r.ceil THEN r.plane ELSE r.x
      lanes == SetToSortSeq(PlaneUnits(r, u), <)
      Acc(l, j) == Reg(r, "acc", u, l, j)
      eagerly(at) ==
        <<Do(u, ToPlaces(r, Acc, LAMBDA l, j : Together(r, "reduce", j, NullAccumulator(r))))>>
          \o Loop(CeilDiv(r.len, width), LAMBDA i :
               <<Do(u, Sets({<<Reg(r, "item", u, l, 1),
                               Alone(r, Item(r, w, at, i * width + pos, l))>> : l \in Lanes(r)})),
                 PlaneStep(PlaneUnits(r, u),
                   ToPlaces(r, Acc, LAMBDA l, j : Together(r, "plane", j,
                     Accumulator(r, LAMBDA p : Acc(l, p))
                       \o [v \in DOMAIN lanes |-> Held(r, Reg(r, "item", lanes[v], l, 1))])))>>)
      lazily(at) == <<Accumulate(r, u, w, at, pos, width), PlaneReduce(r, u)>> IN
  When(~Terminated(r, w),
       Loop(WriteCount(r), LAMBDA b :
              LET at == w * WriteCount(r) + b IN
              (IF r.eager THEN eagerly(at) ELSE lazily(at))
                \o When(pos = 0, Write(r, u, w, b, "acc")))
         \o When(pos = 0, Commit(r, u, w)))

\* The levels of `reduce_tree` over `size` accumulators, a power of two or not.
TreeLevels(size) == CHOOSE n \in 0 .. size : 2^n >= size /\ (n = 0 \/ 2^(n - 1) < size)

\* `fuse_accumulator_inplace`: the slot 2^level after that of a worker, into it.
Fused(r, u, cube, worker, level) ==
  LET First(l, j) == Slot(r, cube, 2^level * 2 * worker, l, j)
      Second(l, j) == Slot(r, cube, 2^level * (2 * worker + 1), l, j) IN
  Do(u, ToPlaces(r, First, LAMBDA l, j : Together(r, "fuse", j,
          Accumulator(r, LAMBDA i : First(l, i)) \o Accumulator(r, LAMBDA i : Second(l, i)))))

\* (wrong) only the workers that fuse meet between two levels.
InnerSync(r, u, cube, worker, size) ==
  Loop(TreeLevels(size), LAMBDA level :
         When(worker < CeilDiv(size, 2^level) \div 2,
              <<Fused(r, u, cube, worker, level), Sync(CubeUnits(r, cube))>>))
    \o <<Sync(CubeUnits(r, cube))>>

\* `reduce_tree`: pairs of slots 2^level apart are fused into the first.
ReduceTree(r, u, cube, worker, size) ==
  Loop(TreeLevels(size), LAMBDA level :
         When(worker < CeilDiv(size, 2^level) \div 2, <<Fused(r, u, cube, worker, level)>>)
           \o <<Sync(CubeUnits(r, cube))>>)
    \o <<Sync(CubeUnits(r, cube))>>

\* `GlobalFullCubeReduce`: every unit accumulates, every worker (a plane or a
\* unit) puts its accumulator in its slot, and the slots are merged: by the first
\* worker, then a barrier; or in a tree, whose result every worker reads after the
\* last barrier, though the first alone writes it.
CubeReduce(r, u) ==
  LET cube == CubeOf(r, u)
      w == WriteIndex(r, cube)
      worker == IF r.usePlanes THEN PosOf(r, u) \div r.x ELSE PosOf(r, u)
      Acc(l, j) == Reg(r, "acc", u, l, j)
      Final(l, j) == Reg(r, "final", u, l, j)
      shared(b) ==
        <<Accumulate(r, u, w, w * WriteCount(r) + b, PosOf(r, u), r.x * r.y)>>
          \o When(r.usePlanes, <<PlaneReduce(r, u)>>)
          \o <<Do(u, ToPlaces(r, LAMBDA l, j : Slot(r, cube, worker, l, j), LAMBDA l, j : <<Of(Acc(l, j))>>)),
               Sync(CubeUnits(r, cube))>>
      merged(slots) ==
        <<Do(u, ToPlaces(r, Final, LAMBDA l, j : Together(r, "fuse", j,
                  NullAccumulator(r)
                    \o Loop(slots, LAMBDA s : Accumulator(r, LAMBDA i : Slot(r, cube, s, l, i))))))>> IN
  When(~Terminated(r, w),
       Loop(WriteCount(r), LAMBDA b :
              shared(b)
                \o IF r.usePlanes
                   THEN When(worker = 0, merged(r.slots) \o Write(r, u, w, b, "final"))
                          \o <<Sync(CubeUnits(r, cube))>>
                   ELSE ReduceTree(r, u, cube, worker, r.slots)
                          \o merged(1) \o When(worker = 0, Write(r, u, w, b, "final")))
         \o When(worker = 0, Commit(r, u, w)))
-----------------------------------------------------------------------------
(* Blueprints.                                                             *)

\* `cube_count_spread`: an axis that holds too many cubes is halved, rounding
\* up, into the next; the cubes launched are the product.
Halvings(n, max) == CHOOSE d \in 0 .. n : CeilDiv(n, 2^d) <= max /\ (d = 0 \/ CeilDiv(n, 2^(d - 1)) > max)
Launched(n, max) ==
  LET first == Halvings(n, max[1])
      second == Halvings(2^first, max[2]) IN
  CeilDiv(n, 2^first) * CeilDiv(2^first, 2^second) * 2^second

\* What the routines infer.  r holds the problem, the cube's dimensions, the
\* device (max, its cubes per axis; uniform, whether control flow must be) and
\* the settings: unchecked when shapes are their own keys, fused when a read
\* has a write side effect.
InferredBounds(r, width, idle) ==
  LET tail == ~(r.unchecked /\ r.len % width = 0) IN
  IF r.fused THEN (IF tail \/ ~r.unchecked \/ idle THEN "branch" ELSE "none")
  ELSE IF tail THEN "mask" ELSE "none"

InferredCube(r) ==
  LET launched == Launched(Working(r), r.max)
      idle == launched # Working(r) IN
  [cubes |-> launched, slots |-> IF r.usePlanes THEN r.y ELSE r.x * r.y,
   bounds |-> InferredBounds(r, r.x * r.y, idle),
   idle |-> IF r.unchecked /\ ~idle THEN "none"
            ELSE IF r.usePlanes /\ r.uniform THEN "mask" ELSE "terminate"] @@ r

InferredPlane(r) ==
  LET launched == Launched(CeilDiv(Working(r), r.y), r.max)
      idle == launched * r.x * r.y # Working(r) * r.x IN
  [cubes |-> launched, ceil |-> r.uneven, bounds |-> InferredBounds(r, r.x, idle),
   idle |-> IF r.unchecked /\ ~idle THEN "none" ELSE IF r.uniform THEN "mask" ELSE "terminate"] @@ r

InferredUnit(r) ==
  LET cubes == CeilDiv(Working(r), r.x * r.y)
      launched == Launched(cubes, r.max) IN
  [cubes |-> launched,
   idle |-> IF r.unchecked /\ Working(r) % (r.x * r.y) = 0 /\ launched = cubes
            THEN "none" ELSE "terminate"] @@ r

\* A unit blueprint the caller forces, and the check it must pass.
ForcedUnit(r) == [cubes |-> Launched(CeilDiv(Working(r), r.x * r.y), r.max)] @@ r
ForcedUnitAccepted(r) == ~(ForcedUnit(r).cubes # CeilDiv(Working(r), r.x * r.y) /\ r.idle # "none")
-----------------------------------------------------------------------------
(* `shared_sum`: every cube adds its sum to the one cell of the output.    *)

\* The items of unit u: none past the end.
SharedSumItems(r, u) ==
  LET perUnit == CeilDiv(r.len, r.cubes * r.x)
      Clamped(n) == IF n < r.len THEN n ELSE r.len
      start == Clamped(u * perUnit)
      end == Clamped(u * perUnit + perUnit) IN
  [i \in 1 .. end - start |-> start + i - 1]

SharedSum(r, u) ==
  LET cube == CubeOf(r, u)
      items == SharedSumItems(r, u)
      Own(l, j) == Slot(r, cube, PosOf(r, u), l, j) IN
  <<Do(u, ToPlaces(r, Own, LAMBDA l, j : <<>>)),
    Do(u, ToPlaces(r, Own, LAMBDA l, j :
            <<Of(Own(l, j))>> \o [i \in DOMAIN items |-> Of(<<"input", items[i] * r.lanes + l>>)])),
    Sync(CubeUnits(r, cube))>>
    \o Loop(TreeLevels(r.x), LAMBDA level :
         When(PosOf(r, u) < r.x \div 2^(level + 1), <<Fused(r, u, cube, PosOf(r, u), level)>>)
           \o <<Sync(CubeUnits(r, cube))>>)
    \o When(PosOf(r, u) = 0,
            <<AtomicAdd(u, <<"output", 0>>, [l \in 1 .. r.lanes |-> Of(Slot(r, cube, 0, l - 1, 1))])>>)
-----------------------------------------------------------------------------
(* The kernels.                                                            *)

Steps(r, Body(_, _)) == [u \in 0 .. r.cubes * r.x * r.y - 1 |-> Body(r, u)]

\* The scalars of a row, in order, and where the output has place j of it.
ScalarsOf(r, row) ==
  IF r.parallel THEN [i \in 1 .. r.len * r.lanes |-> row * r.len * r.lanes + i - 1]
  ELSE [i \in 1 .. r.len |-> ((row \div r.slot) * r.len + i - 1) * r.slot + (row % r.slot)]
PlaceOf(r, row, j) == ((row \div r.slot) * r.k + j - 1) * r.slot + (row % r.slot)
Scalars(r) == r.rows * r.len * (IF r.parallel THEN r.lanes ELSE 1)

\* What a sum must hold: each scalar of its row, once; a selection: the largest
\* of its row, in order, the first of equal ones first; and the rest.
Once(scalars) == [x \in {<<<<<<"input", scalars[i]>>>>, 0>> : i \in DOMAIN scalars} |-> 1]
ValuesOf(r, row) == LET scalars == ScalarsOf(r, row) IN [i \in DOMAIN scalars |-> r.values[scalars[i]]]
Ranked(r, row, j) ==
  LET values == ValuesOf(r, row)
      candidates == [i \in DOMAIN values |->
        Rules!Candidate(IF r.op = "min" THEN -values[i] ELSE values[i], Tracked(r, i - 1))] IN
  SortSeq(candidates, >)[j]
Reduced(r, row) ==
  LET values == ValuesOf(r, row) IN
  CASE r.op = "prod" -> FoldLeft(LAMBDA a, b : a * b, 1, values)
    [] r.op = "maxabs" -> CHOOSE x \in 0 .. 100 :
         /\ \E i \in DOMAIN values : values[i] \in {x, -x}
         /\ \A i \in DOMAIN values : values[i] \in -x .. x
    [] r.op = "any" -> IF \E i \in DOMAIN values : values[i] # 0 THEN 1 ELSE 0
    [] r.op = "all" -> IF \A i \in DOMAIN values : values[i] # 0 THEN 1 ELSE 0
Wanted(r, row, j) ==
  IF Adds(r) THEN Once(ScalarsOf(r, row))
  ELSE Number(IF r.op \in {"top", "max", "min"} THEN Ranked(r, row, j) ELSE Reduced(r, row))

\* The input: a scalar of its own in each place, as often as it is divided, or
\* numbers.
Inputs(r) ==
  Sets({<<<<"input", i>>,
          IF ~Adds(r) THEN Number(r.values[i])
          ELSE <<<<<<"input", i>>>>, 0>> :> IF r.op = "mean" THEN Len(ScalarsOf(r, 0)) ELSE 1>> : i \in 0 .. Scalars(r) - 1})

ReduceKernel(r, Body(_, _)) ==
  Kernel(Steps(r, Body), Inputs(r), {"output"},
         Sets({<<<<"output", PlaceOf(r, row, j)>>, Wanted(r, row, j)>> : row \in 0 .. r.rows - 1, j \in Places(r)}), 1)

SharedSumKernel(r) ==
  Kernel(Steps(r, SharedSum), Inputs([rows |-> 1, op |-> "sum", parallel |-> TRUE] @@ r) @@ (<<"output", 0>> :> Zero), {"output"},
         <<"output", 0>> :> Once([i \in 1 .. r.len * r.lanes |-> i - 1]), 1)
=============================================================================
