----------------------------- MODULE GemmKernels -----------------------------
(***************************************************************************)
(* The matmuls without stages: a plane to a cell of the output, or to a    *)
(* block of it; a plane to the columns of a row; a unit to a cell.         *)
(*                                                                         *)
(* A problem p is m by n by k, over batches; its operands are column-major *)
(* or not, and read in vectors.  Planes have p.plane units.                *)
(***************************************************************************)
EXTENDS MatmulMemory

Smaller(a, b) == IF a < b THEN a ELSE b
Larger(a, b) == IF a < b THEN b ELSE a

OutBatches(p) == BroadcastBatches(p.lhsBatches, p.rhsBatches)

\* Where a unit is: its cube, its plane among those of the cube, its lane.
CubeOf(p, u) == u \div (p.planes * p.plane)
PlaneId(p, u) == (u \div p.plane) % p.planes
Lane(p, u) == u % p.plane
Team(p, u) == {(u \div p.plane) * p.plane + i : i \in 0 .. p.plane - 1}
Register(u, name, i) == <<name, u, i>>

Lhs(p, checks) == Tensor("lhs", p.lhsBatches, p.m, p.k, p.lhsColMajor, p.lhsVector, checks)
Rhs(p, checks) == Tensor("rhs", p.rhsBatches, p.k, p.n, p.rhsColMajor, p.rhsVector, checks)
Out(p, vector, checks) == Tensor("output", OutBatches(p), p.m, p.n, FALSE, vector, checks)

\* The kernel whose units take the steps Run gives each.
MatmulOf(p, plan, Run(_)) ==
  LET none == <<FALSE, FALSE>>
      noStart == [at \in (0 .. Volume(OutBatches(p)) - 1) \X (0 .. p.m - 1) \X (0 .. p.n - 1) |-> Zero] IN
  Kernel([u \in 0 .. Total(plan.grid) * p.planes * p.plane - 1 |-> Run(u)],
         Contents(Lhs(p, none)) @@ Contents(Rhs(p, none)), {"output"},
         WantedProducts(Lhs(p, none), Rhs(p, none), Out(p, 1, none), OutBatches(p), noStart), 1)
-----------------------------------------------------------------------------
(* Gemm: a dot product per plane, or outer products on the planes of 1.    *)

\* What planes read is made contiguous along k: `make_k_contiguous`.
KContiguous(p) ==
  IF p.plane = 1 THEN p
  ELSE [p EXCEPT !.lhsColMajor = p.m = 1 /\ @, !.rhsColMajor = p.n > 1 \/ @]

\* `variant`, of the layouts; a row or a column is contiguous either way.
Variant(p) ==
  LET lhsAlongK == p.m = 1 \/ ~p.lhsColMajor
      rhsAlongK == p.n = 1 \/ p.rhsColMajor IN
  CASE lhsAlongK /\ rhsAlongK -> "dot"
    [] lhsAlongK /\ ~rhsAlongK -> "outerN"
    [] ~lhsAlongK /\ rhsAlongK -> "outerM"
    [] OTHER -> "none"
PlanesSplit(variant) == IF variant = "outerN" THEN "m" ELSE "n"

\* `output_units`: the blocks of a plane each, along the rows and the columns.
OutputUnits(p) ==
  <<IF Variant(p) = "outerM" THEN p.m \div p.lhsVector ELSE p.m,
    IF Variant(p) = "outerN" THEN p.n \div p.lhsVector ELSE p.n>>

\* The inferred blueprint: as many planes as blocks, up to the target, that
\* terminate when the last cube has some to spare.
GemmBlueprint(p) ==
  LET blocks == OutputUnits(p)[IF PlanesSplit(Variant(p)) = "m" THEN 1 ELSE 2]
      planes == Larger(1, Smaller(p.target, blocks)) IN
  [variant |-> Variant(p), split |-> PlanesSplit(Variant(p)), planes |-> planes,
   check |-> IF blocks % planes = 0 THEN "none" ELSE "terminate"]

\* What `validate_blueprint` lets through.
ValidGemm(p) ==
  /\ p.lhsVector = p.rhsVector
  /\ p.variant = "dot" => p.k % (p.plane * p.lhsVector) = 0
  /\ p.variant # "dot" => p.plane = 1 /\ p.k % p.lhsVector = 0
  /\ p.variant = "outerN" => p.n % p.lhsVector = 0
  /\ p.variant = "outerM" => p.m % p.lhsVector = 0
  /\ p.variant = Variant(p)

GemmPlan(p) ==
  LET blocks == OutputUnits(p)
      cubes == IF p.split = "m" THEN <<CeilDiv(blocks[1], p.planes), blocks[2]>>
               ELSE <<blocks[1], CeilDiv(blocks[2], p.planes)>> IN
  CubeCountPlan(p.strategy, p.order, <<cubes[1], cubes[2], Volume(OutBatches(p))>>, p.maxCubes)

\* The corner of the block of a plane.
BlockOf(p, u) ==
  LET cube == CubePosToXyz(GemmPlan(p), CubeOf(p, u))
      m == IF p.split = "m" THEN cube[1] * p.planes + PlaneId(p, u) ELSE cube[1]
      n == IF p.split = "n" THEN cube[2] * p.planes + PlaneId(p, u) ELSE cube[2] IN
  <<m * IF p.variant = "outerM" THEN p.lhsVector ELSE 1,
    n * IF p.variant = "outerN" THEN p.lhsVector ELSE 1, cube[3]>>

\* A unit's part of the dot product: its vectors along k, each plane starting
\* from a tile of its own.
DotPart(p, u, at) ==
  LET checks == <<p.check = "checked", p.check = "checked">>
      tiles == p.k \div (p.plane * p.lhsVector)
      K(tile) == (((tile + PlaneId(p, u)) % tiles) * p.plane + Lane(p, u)) * p.lhsVector
      Tile(tile) ==
        LET lhs == ReadVector(Lhs(p, checks), OutBatches(p), at[3], at[1], K(tile))
            rhs == ReadVector(Rhs(p, checks), OutBatches(p), at[3], K(tile), at[2]) IN
        FlattenSeq([i \in 1 .. p.lhsVector |-> Both(lhs[i], rhs[i])]) IN
  Loop(tiles, Tile)

\* `execute_dot`.
ExecuteDot(p, u, at) ==
  LET out == Out(p, 1, <<p.check = "checked", p.check = "checked">>)
      parts == [i \in 1 .. p.plane |-> Of(Register((u \div p.plane) * p.plane + i - 1, "acc", 0))]
      written == WriteVector(out, OutBatches(p), at[3], at[1], at[2], <<parts>>) IN
  <<Do(u, Register(u, "acc", 0) :> DotPart(p, u, at)),
    PlaneStep(Team(p, u), Sets(IF Lane(p, u) = 0 THEN written ELSE {}))>>

\* What element j of a block takes in, a vector along k at a time of one operand,
\* each of its elements by the vector of the block in the other.
OuterPart(p, at, j) ==
  LET checks == <<p.check = "checked", p.check = "checked">>
      Read(t, row, col) == ReadVector(t, OutBatches(p), at[3], row, col)
      Tile(tile) ==
        LET k == tile * p.lhsVector IN
        FlattenSeq([i \in 1 .. p.lhsVector |->
          IF p.variant = "outerN"
          THEN Both(Read(Lhs(p, checks), at[1], k)[i], Read(Rhs(p, checks), k + i - 1, at[2])[j])
          ELSE Both(Read(Lhs(p, checks), at[1], k + i - 1)[j], Read(Rhs(p, checks), k, at[2])[i])]) IN
  Loop(p.k \div p.lhsVector, Tile)

\* `execute_outer_product`.
ExecuteOuterProduct(p, u, at) ==
  LET out == Out(p, 1, <<p.check = "checked", p.check = "checked">>)
      Cell(j) == IF p.variant = "outerN" THEN <<at[1], at[2] + j - 1>> ELSE <<at[1] + j - 1, at[2]>> IN
  <<Do(u, Sets(UNION {WriteVector(out, OutBatches(p), at[3], Cell(j)[1], Cell(j)[2], <<OuterPart(p, at, j)>>)
                        : j \in 1 .. p.lhsVector}))>>

\* (wrong) no plane is told there is no block for it.
UncheckedGemm(p, u) ==
  LET at == BlockOf(p, u) IN
  IF p.variant = "dot" THEN ExecuteDot(p, u, at) ELSE ExecuteOuterProduct(p, u, at)

\* `Gemm::execute`.
Gemm(p, u) ==
  LET at == BlockOf(p, u) IN
  IF p.check = "terminate" /\ (at[1] >= p.m \/ at[2] >= p.n) THEN <<>>
  ELSE IF p.variant = "dot" THEN ExecuteDot(p, u, at) ELSE ExecuteOuterProduct(p, u, at)

\* Inferred for a problem, or forced to some blueprint.
GemmKernel(problem, forced) ==
  LET contiguous == KContiguous(problem)
      p == forced @@ GemmBlueprint(contiguous) @@ contiguous IN
  IF ValidGemm(p) THEN {MatmulOf(p, GemmPlan(p), LAMBDA u : Gemm(p, u))} ELSE {}
-----------------------------------------------------------------------------
(* A row by a matrix: the units of a plane share the row, and have each a  *)
(* vector of its columns.                                                  *)

TileDim(p) == p.plane * p.lhsVector

\* The inferred blueprint.  Planes whose units may not be past the end of a row
\* alone terminate; otherwise reads and writes are checked.
GemvBlueprint(p) ==
  LET planes == Larger(1, Smaller(p.target, CeilDiv(p.k, TileDim(p)))) IN
  [planes |-> planes,
   check |-> CASE p.n % TileDim(p) # 0 \/ p.k % TileDim(p) # 0 -> "checked"
               [] CeilDiv(p.n, TileDim(p)) % planes # 0 -> "terminate"
               [] OTHER -> "none"]
ValidGemv(p) ==
  /\ p.m = 1 /\ ~p.rhsColMajor
  /\ p.lhsVector = p.rhsVector
  /\ p.k % p.lhsVector = 0
  /\ p.n % TileDim(p) # 0 \/ p.k % TileDim(p) # 0 => p.check = "checked"

GemvPlan(p) ==
  CubeCountPlan(p.strategy, p.order,
                <<CeilDiv(CeilDiv(p.n, TileDim(p)), p.planes), 1, Volume(OutBatches(p))>>, p.maxCubes)

\* (wrong) units past the end of the row leave their plane, whatever the checks.
LonelyGemv(p, u) == p.check # "none"

\* The units that leave before the shuffles.
LeavesGemv(p, u) == p.check = "terminate"

\* `VecMatUnitPerpendicular::execute`.
VecMatUnitPerpendicular(p, u) ==
  LET cube == CubePosToXyz(GemvPlan(p), CubeOf(p, u))
      first == (u \div p.plane) * p.plane
      n == ((cube[1] * p.planes + PlaneId(p, u)) * p.plane + Lane(p, u)) * p.lhsVector
      checked == p.check = "checked"
      out == Out(p, p.lhsVector, <<FALSE, checked>>)
      tiles == IF checked THEN CeilDiv(p.k, TileDim(p)) ELSE p.k \div TileDim(p)
      K(tile, lane) == (((tile + PlaneId(p, u)) % tiles) * p.plane + lane) * p.lhsVector
      Load(tile) ==
        LET row == ReadVector(Lhs(p, <<FALSE, checked>>), OutBatches(p), cube[3], 0, K(tile, Lane(p, u))) IN
        Sets({<<Register(u, "row", i), [j \in DOMAIN row[i] |-> Of(row[i][j])]>> : i \in DOMAIN row})
      Column(tile, lane, i) ==
        ReadVector(Rhs(p, <<checked, checked>>), OutBatches(p), cube[3], (K(tile, lane) + i) - 1, n)
      Shuffled(tile, j) ==
        FlattenSeq([x \in 1 .. p.plane * p.lhsVector |->
          LET lane == (x - 1) \div p.lhsVector
              i == ((x - 1) % p.lhsVector) + 1 IN
          Both(<<Register(first + lane, "row", i)>>, Column(tile, lane, i)[j])])
      Accumulate(tile) ==
        Sets({<<Register(u, "acc", j), When(tile > 0, <<Of(Register(u, "acc", j))>>) \o Shuffled(tile, j)>>
                : j \in 1 .. p.lhsVector}) IN
  IF LeavesGemv(p, u) /\ n >= p.n THEN <<>>
  ELSE Loop(tiles, LAMBDA tile : <<Do(u, Load(tile)), PlaneStep(Team(p, u), Accumulate(tile))>>)
         \o <<Do(u, Sets(WriteVector(out, OutBatches(p), cube[3], 0, n,
                                     [j \in 1 .. p.lhsVector |-> <<Of(Register(u, "acc", j))>>])))>>

GemvKernel(problem, forced) ==
  LET p == forced @@ GemvBlueprint(problem) @@ problem IN
  IF ValidGemv(p) THEN {MatmulOf(p, GemvPlan(p), LAMBDA u : VecMatUnitPerpendicular(p, u))} ELSE {}
-----------------------------------------------------------------------------
(* Naive: a unit to a cell.                                                *)

\* `load_unrolled`: vectors of the operand that make one of `size` elements.
LoadUnrolled(t, outBatches, batch, row, col, size, alongRow) ==
  Loop(size \div t.vector, LAMBDA i :
    IF alongRow THEN ReadVector(t, outBatches, batch, row, col + i * t.vector)
    ELSE ReadVector(t, outBatches, batch, row + i * t.vector, col))

\* `launch_ref`: lhs is laid out by rows and rhs by columns.
NaiveLayouts(p) == [p EXCEPT !.lhsColMajor = FALSE, !.rhsColMajor = TRUE]

\* `simple_cube_count`, straight from the problem.
NaivePlan(p) ==
  LET count == <<CeilDiv(p.m, p.plane), CeilDiv(p.n, p.planes), Volume(OutBatches(p))>> IN
  CubeCountPlan(Simply("problem"), p.order, count, count)

\* `NaiveMatmul::execute`.
NaiveMatmul(p, u) ==
  LET grid == NaivePlan(p).grid
      cube == CubePosToXyz(NaivePlan(p), CubeOf(p, u))
      m == cube[1] * p.plane + Lane(p, u)
      n == cube[2] * p.planes + PlaneId(p, u)
      none == <<FALSE, FALSE>>
      size == Larger(p.lhsVector, p.rhsVector)
      Part(i) ==
        LET lhs == LoadUnrolled(Lhs(p, none), OutBatches(p), cube[3], m, i * size, size, TRUE)
            rhs == LoadUnrolled(Rhs(p, none), OutBatches(p), cube[3], i * size, n, size, FALSE) IN
        FlattenSeq([v \in 1 .. size |-> Both(lhs[v], rhs[v])]) IN
  IF m >= p.m \/ n >= p.n THEN <<>>
  ELSE <<Do(u, Sets(WriteVector(Out(p, 1, none), OutBatches(p), cube[3], m, n,
                                <<Loop(CeilDiv(p.k, size), Part)>>)))>>

NaiveKernel(problem) ==
  LET p == NaiveLayouts(problem) IN
  MatmulOf(p, NaivePlan(p), LAMBDA u : NaiveMatmul(p, u))
=============================================================================
