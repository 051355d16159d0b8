---------------------------- MODULE StageMatmuls ----------------------------
(***************************************************************************)
(* What the matmuls of stages are made of: a cube per stage of the output, *)
(* whose planes load stages of lhs and rhs together and multiply each a    *)
(* partition of tiles of them.                                             *)
(*                                                                         *)
(* A problem r is m by n by k, over batches.  Its tiling: tiles of tm by tn*)
(* by tk; pm by pn by pk tiles in a partition; sm by sn partitions in a    *)
(* stage, each of a plane of `plane` units, or of a unit when `unitwise`;  *)
(* and gm by gn stages in gb batches to a cube, one after another.  The    *)
(* operands lhs, rhs and acc hold how they are loaded: strategy, tiling    *)
(* order, whether they are column-major, the vectors they are read by and  *)
(* what a task copies; r.views is what each is read from, and the output   *)
(* written to, in global memory.                                           *)
(***************************************************************************)
EXTENDS MatmulMemory

CONSTANTS
  ReadView(_, _, _, _, _),     \* what a view holds, over batches, at a batch, a row and a column
  WriteView(_, _, _, _, _, _)  \* what giving it terms there assigns

StageM(r) == r.tm * r.pm * r.sm
StageN(r) == r.tn * r.pn * r.sn
StageK(r) == r.tk * r.pk
OutBatches(r) == BroadcastBatches(r.lhsBatches, r.rhsBatches)

\* `cube_launch_info`: the cubes counted for the problem.
CubeLaunchInfo(r) ==
  CubeCountPlan(r.strategy, r.order,
                <<CeilDiv(r.m, StageM(r) * r.gm), CeilDiv(r.n, StageN(r) * r.gn), CeilDiv(Volume(OutBatches(r)), r.gb)>>,
                r.maxCubes)

\* A cube has a unit, or a plane of units, to each partition.
CubeDim(r) == r.sm * r.sn * IF r.unitwise THEN 1 ELSE r.plane
PlaneCount(r) == CubeDim(r) \div r.plane
CubeOf(r, u) == u \div CubeDim(r)
PosOf(r, u) == u % CubeDim(r)
CubeUnits(r, u) == {CubeOf(r, u) * CubeDim(r) + i : i \in 0 .. CubeDim(r) - 1}

\* The partition a unit computes, among those of its cube: `UnitPartitioner`
\* and `PlanePartitioner`.
PartitionOf(r, u) == IF r.unitwise THEN PosOf(r, u) ELSE PosOf(r, u) \div r.plane
Coordinates(r, u) == <<PartitionOf(r, u) \div r.sn, PartitionOf(r, u) % r.sn>>
Team(r, u) == IF r.unitwise THEN {u} ELSE {(u \div r.plane) * r.plane + i : i \in 0 .. r.plane - 1}
LaneOf(r, u) == IF r.unitwise THEN 0 ELSE u % r.plane
-----------------------------------------------------------------------------
(* Stages in shared memory: where the element of a tile is.                *)

\* A stage: its tiles of trows by tcols, how it is loaded and where it starts.
Stage(how, rows, cols, trows, tcols, base, name) ==
  [rows |-> rows, cols |-> cols, trows |-> trows, tcols |-> tcols, base |-> base, name |-> name] @@ how
LhsStage(r) == Stage(r.lhs, r.pm * r.sm, r.pk, r.tm, r.tk, 0, "lhs")
RhsStage(r) == Stage(r.rhs, r.pk, r.pn * r.sn, r.tk, r.tn, StageM(r) * StageK(r), "rhs")
AccStage(r) == Stage(r.acc, r.pm * r.sm, r.pn * r.sn, r.tm, r.tn, (StageM(r) + StageN(r)) * StageK(r), "acc")
OutStage(r, base) ==
  Stage([order |-> "rows", strategy |-> "tiles", colmajor |-> FALSE, vector |-> r.vector],
        r.sm, r.sn, r.tm, r.tn, base, "output")
TileSize(s) == s.trows * s.tcols
StageSize(s) == s.rows * s.cols * TileSize(s)

\* `to_row_col` and `to_nth_tile` of the tiling orders: by rows, by columns, or
\* by columns within the rows of a plane.
ToRowCol(s, planes, nth) ==
  LET groupRows == s.rows \div planes
      inGroup == nth % (groupRows * s.cols) IN
  CASE s.order = "rows" -> <<nth \div s.cols, nth % s.cols>>
    [] s.order = "columns" -> <<nth % s.rows, nth \div s.rows>>
    [] OTHER -> <<(nth \div (groupRows * s.cols)) * groupRows + (inGroup % groupRows), inGroup \div groupRows>>

ToNthTile(s, planes, row, col) ==
  LET groupRows == s.rows \div planes IN
  CASE s.order = "rows" -> row * s.cols + col
    [] s.order = "columns" -> col * s.rows + row
    [] OTHER -> (row \div groupRows) * groupRows * s.cols + col * groupRows + (row % groupRows)

\* Whether tiles are laid in the rows, or the columns, of the whole stage.
Untiled(s) == s.strategy \in {"strided", "async_strided"}

\* Element <<i, j>> of the tile at <<row, col>>, each tile on its own or all of
\* them in the rows (or columns) of the stage, or in its only row: `get_tile`.
ElementAt(s, planes, row, col, i, j) ==
  LET start == TileSize(s) * ToNthTile(s, planes, row, col) IN
  CASE s.strategy = "bias" -> col * s.tcols + j
    [] ~Untiled(s) /\ ~s.colmajor -> start + i * s.tcols + j
    [] ~Untiled(s) /\ s.colmajor -> start + j * s.trows + i
    [] Untiled(s) /\ ~s.colmajor -> (row * s.trows + i) * s.cols * s.tcols + col * s.tcols + j
    [] OTHER -> row * s.trows + i + (col * s.tcols + j) * s.rows * s.trows

Shared(r, u, s, position) == <<"shared", CubeOf(r, u), s.base + position>>
InStage(r, u, s, tile, e) ==
  Shared(r, u, s, ElementAt(s, PlaneCount(r), tile[1], tile[2], e \div s.tcols, e % s.tcols))
-----------------------------------------------------------------------------
(* Loading: a unit's share of the vectors of a stage, in its tasks' order.  *)

\* Where the element at `offset` of tile nth is in the stage: `TiledLayout`.
TiledLayout(s, tile, offset) ==
  <<tile[1] * s.trows + IF s.colmajor THEN offset % s.trows ELSE offset \div s.tcols,
    tile[2] * s.tcols + IF s.colmajor THEN offset \div s.trows ELSE offset % s.tcols>>

\* Where the element at `offset` is in a stage that is not cut in tiles.
FullStageLayout(s, offset) ==
  IF s.colmajor THEN <<offset % (s.rows * s.trows), offset \div (s.rows * s.trows)>>
  ELSE <<offset \div (s.cols * s.tcols), offset % (s.cols * s.tcols)>>

\* What one task copies: a vector; as many as the hardware copies at once; or,
\* of a tensor map, the tiles of a row or of a column of them.
Width(s) ==
  IF s.strategy # "tma" THEN s.copy
  ELSE TileSize(s) * IF s.colmajor THEN s.cols ELSE s.rows
Copies(s) == StageSize(s) \div Width(s)

\* (wrong) a unit's vectors are not one stride apart.
OverlappingShare(r, s, pos) == [i \in 1 .. CeilDiv(Copies(s), CubeDim(r)) |-> pos + i - 1]

\* `SyncFullCyclicLoading`, whose last round may be partial, and
\* `SyncFullStridedLoading`, whose shares are whole: every unit of the cube loads
\* a vector a round.  The asynchronous ones copy more.
CyclicShare(r, s, pos) == Strided(pos, CubeDim(r), Copies(s))
StridedShare(r, s, pos) == [task \in 1 .. Copies(s) \div CubeDim(r) |-> (task - 1) * CubeDim(r) + pos]
AsyncCyclicShare(r, s, pos) == CyclicShare(r, s, pos)
AsyncStridedShare(r, s, pos) == StridedShare(r, s, pos)

\* `AsyncFullTmaLoading`: a task of the elected unit to each row or column of tiles.
TmaShare(s, pos) == [task \in 1 .. IF pos = 0 THEN Copies(s) ELSE 0 |-> task - 1]

\* `SyncFullTilewiseLoading`, and `SyncFullOrderedLoading` with its order of tiles:
\* a plane loads tiles that follow one another.
TilewiseShare(r, s, pos) ==
  LET vectors == TileSize(s) \div s.vector
      tiles == (s.rows * s.cols) \div PlaneCount(r)
      skipped == (pos \div r.plane) * tiles * vectors IN
  [task \in 1 .. (vectors * tiles) \div r.plane |-> skipped + (task - 1) * r.plane + (pos % r.plane)]
OrderedShare(r, s, pos) == TilewiseShare(r, s, pos)

\* `SyncBiasLoading`: the vectors of a row, the stage's columns.
BiasShare(r, s, pos) == Strided(pos, CubeDim(r), CeilDiv(s.cols * s.tcols, s.vector))

Share(r, s, pos) ==
  CASE s.strategy = "cyclic" -> CyclicShare(r, s, pos)
    [] s.strategy = "strided" -> StridedShare(r, s, pos)
    [] s.strategy = "async_cyclic" -> AsyncCyclicShare(r, s, pos)
    [] s.strategy = "async_strided" -> AsyncStridedShare(r, s, pos)
    [] s.strategy = "tma" -> TmaShare(s, pos)
    [] s.strategy = "tilewise" -> TilewiseShare(r, s, pos)
    [] s.strategy = "ordered" -> OrderedShare(r, s, pos)
    [] s.strategy = "bias" -> BiasShare(r, s, pos)

\* What the loading strategies are validated for.
ValidLoading(r, s) ==
  CASE s.strategy \in {"cyclic", "bias", "tma"} -> TRUE
    [] s.strategy \in {"strided", "async_strided"} -> Copies(s) % CubeDim(r) = 0
    [] s.strategy = "async_cyclic" -> (IF s.colmajor THEN s.trows ELSE s.tcols) % Width(s) = 0
    [] OTHER -> /\ (s.rows * s.cols) % PlaneCount(r) = 0
                /\ (((s.rows * s.cols) \div PlaneCount(r)) * (TileSize(s) \div s.vector)) % r.plane = 0
                /\ s.order = "ordered" => s.rows % PlaneCount(r) = 0

ValidLoads(r) == ValidLoading(r, LhsStage(r)) /\ ValidLoading(r, RhsStage(r))

\* A copy of a stage of a view with its corner at <<row, col>> of a batch: the
\* vectors it takes, each where the layout of the stage has it.
Copied(r, u, s, view, row, col, batch, copy) ==
  LET At(offset) ==
        CASE Untiled(s) -> FullStageLayout(s, offset)
          [] s.strategy = "bias" -> <<0, offset>>
          [] OTHER -> TiledLayout(s, ToRowCol(s, PlaneCount(r), offset \div TileSize(s)), offset % TileSize(s))
      Vector(offset) ==
        LET read == ReadView(view, OutBatches(r), batch, row + At(offset)[1], col + At(offset)[2]) IN
        {<<Shared(r, u, s, offset + i - 1), [j \in DOMAIN read[i] |-> Of(read[i][j])]>> : i \in 1 .. s.vector} IN
  UNION {Vector(copy * Width(s) + v * s.vector) : v \in 0 .. (Width(s) \div s.vector) - 1}

\* All of a unit's share of a stage.
LoadStage(r, u, s, view, row, col, batch) ==
  Do(u, Sets(UNION {Copied(r, u, s, view, row, col, batch, copy) : copy \in ToSet(Share(r, s, PosOf(r, u)))}))

\* Stage i along k of lhs and of rhs, and the accumulator's, for the corner `at`
\* of a stage of the output: its row, its column and its batch.
LoadLhs(r, u, at, i) == LoadStage(r, u, LhsStage(r), r.views.lhs, at[1], i * StageK(r), at[3])
LoadRhs(r, u, at, i) == LoadStage(r, u, RhsStage(r), r.views.rhs, i * StageK(r), at[2], at[3])
LoadAcc(r, u, at) == LoadStage(r, u, AccStage(r), r.views.acc, at[1], at[2], at[3])
-----------------------------------------------------------------------------
(* A partition, in the registers of its team.                              *)

\* `PartitionScheduler`: the tiles of the partition at <<row, col>> along an
\* axis, rotated when they are offset.
Scheduled(offset, outer, len, i) == outer * len + ((i + offset) % len)
MapM(r, u, i) ==
  LET at == Coordinates(r, u) IN
  Scheduled(IF r.rotated THEN (at[2] \div r.pk) % r.pm ELSE 0, at[1], r.pm, i)
MapN(r, u, i) ==
  LET at == Coordinates(r, u) IN
  Scheduled(IF r.rotated THEN (at[1] \div r.pk) % r.pn ELSE 0, at[2], r.pn, i)
MapK(r, u, i) ==
  LET at == Coordinates(r, u) IN
  Scheduled(IF r.rotated THEN (at[1] + at[2]) % r.pk ELSE 0, 0, r.pk, i)

\* An element of a fragment, and the lane that holds it: any fixed one would do.
Fragment(r, u, name, tile, e) == <<name, CubeOf(r, u) * r.sm * r.sn + PartitionOf(r, u), tile, e>>
Mine(r, u, size) == ToSet(Strided(LaneOf(r, u), Cardinality(Team(r, u)), size))

\* A fragment is copied from a tile of a stage.
CopyIn(r, u, name, slot, s, tile) ==
  Sets({<<Fragment(r, u, name, slot, e), <<Of(InStage(r, u, s, tile, e))>>>> : e \in Mine(r, u, TileSize(s))})

\* Tiles of the partition's column n take in the product of their row's fragment
\* by the one in `slot`.
Multiply(r, u, rows, n, slot) ==
  Sets(UNION {
    {<<Fragment(r, u, "c", m * r.pn + n, e),
       <<Of(Fragment(r, u, "c", m * r.pn + n, e))>>
         \o [l \in 1 .. r.tk |-> Product(Fragment(r, u, "a", m, (e \div r.tn) * r.tk + l - 1),
                                         Fragment(r, u, "b", slot, (l - 1) * r.tn + (e % r.tn)))]>>
       : e \in Mine(r, u, r.tm * r.tn)} : m \in rows})

\* What the units of a team do as one.
Together(r, u, sets) == Step(Team(r, u), "put", sets)

\* `load_partition_from_stage`: from the stage of acc, or zero without one.
LoadPartition(r, u, acc) ==
  LET tiles == (0 .. r.pm - 1) \X (0 .. r.pn - 1)
      From(t) ==
        IF r.fused
        THEN CopyIn(r, u, "c", t[1] * r.pn + t[2], acc, <<MapM(r, u, t[1]), MapN(r, u, t[2])>>)
        ELSE Sets({<<Fragment(r, u, "c", t[1] * r.pn + t[2], e), <<>>>> : e \in Mine(r, u, r.tm * r.tn)}) IN
  <<Together(r, u, FoldSet(LAMBDA t, f : f @@ From(t), Zero, tiles))>>

\* `write_partition_to_stage`: every tile goes through the partition's one in
\* the output's stage, from where the units of the team write its vectors.
WritePartition(r, u, corner, out) ==
  LET Stored(t) ==
        Sets({<<InStage(r, u, out, Coordinates(r, u), e), <<Of(Fragment(r, u, "c", t, e))>>>>
                : e \in Mine(r, u, TileSize(out))})
      Written(t) ==
        LET at == <<MapM(r, u, t \div r.pn), MapN(r, u, t % r.pn)>>
            Row(v) == corner[1] + TiledLayout(out, at, v * r.vector)[1]
            Col(v) == corner[2] + TiledLayout(out, at, v * r.vector)[2]
            Vector(v) == [i \in 1 .. r.vector |-> <<Of(InStage(r, u, out, Coordinates(r, u), v * r.vector + i - 1))>>] IN
        Sets(UNION {WriteView(r.views.out, OutBatches(r), corner[3], Row(v), Col(v), Vector(v))
                      : v \in Mine(r, u, TileSize(out) \div r.vector)}) IN
  Loop(r.pm * r.pn, LAMBDA t :
         <<Together(r, u, Stored(t))>> \o When(~r.unitwise, <<Sync(Team(r, u))>>)
           \o <<Do(u, Written(t))>> \o When(~r.unitwise, <<Sync(Team(r, u))>>))
=============================================================================
