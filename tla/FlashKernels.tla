----------------------------- MODULE FlashKernels -----------------------------
(***************************************************************************)
(* The attention of cubek-attention: a cube per stage of the queries of a  *)
(* batch and head, whose units load the keys and values of a block into    *)
(* shared memory together and fold it, each partition of the queries by a  *)
(* unit alone or by a plane, whose fragments bounce through shared memory  *)
(* to be seen by rows.                                                     *)
(*                                                                         *)
(* A problem a has q queries of d elements, kv keys and values of dv, over *)
(* <<batches, heads>>; tiles of tq by td, tkv by td and tkv by tv; pq by   *)
(* pkv of them in a partition; and sm partitions in a stage.  Scores are   *)
(* counted in units of the head's factor.                                  *)
(***************************************************************************)
EXTENDS FoldKernels

Memory == INSTANCE MatmulMemory
Mm == INSTANCE StageMatmuls WITH ReadView <- Memory!ReadVector, WriteView <- Memory!WriteVector

StageQ(a) == a.tq * a.pq * a.sm
PartitionKv(a) == a.tkv * a.pkv
HeadTiles(a) == a.d \div a.td
ValueTiles(a) == a.dv \div a.tv
CubeLaunchInfo(a) ==
  Mm!CubeCountPlan(Mm!Simply("spread"), [strips |-> "none", width |-> 1],
                   <<CeilDiv(a.q, StageQ(a)), Mm!Volume(a.lhsBatches), 1>>, a.maxCubes)

\* `AttentionGlobalLayout`s: the bounds checked are those the tiles do not divide,
\* and a batch or head of which there is one is everybody's.
CheckQ(a) == a.q % StageQ(a) # 0
CheckKv(a) == a.kv % PartitionKv(a) # 0
Given4(a, name, batches, rows, cols, checked) ==
  Mm!Tensor(name, batches, rows, cols, FALSE, a.vector, <<checked, FALSE>>)
Queries4(a) == Given4(a, "q", a.lhsBatches, a.q, a.d, CheckQ(a))
Keys4(a) == Given4(a, "k", a.rhsBatches, a.kv, a.d, CheckKv(a))
Values4(a) == Given4(a, "v", a.rhsBatches, a.kv, a.dv, CheckKv(a))
Output4(a) == Given4(a, "output", a.lhsBatches, a.q, a.dv, CheckQ(a))

\* The stages of keys and values, and the slot each partition writes through.
KvStage(a, base, tcols, tiles) ==
  Mm!Stage([order |-> "rows", strategy |-> "cyclic", colmajor |-> FALSE, vector |-> a.vector, copy |-> a.vector],
           a.pkv, tiles, a.tkv, tcols, base, "kv")
KeyStage(a) == KvStage(a, 0, a.td, HeadTiles(a))
ValueStage(a) == KvStage(a, PartitionKv(a) * a.d, a.tv, ValueTiles(a))
OutSlot(a, u, e) == <<"slot", Mm!CubeOf(a, u), Mm!PartitionOf(a, u), e>>

\* What a routine is validated for.
ValidAttention(a) ==
  /\ a.d % a.td = 0 /\ a.dv % a.tv = 0
  /\ \A n \in {a.td, a.tv} : n % a.vector = 0
  /\ IF a.unitwise THEN TRUE
     ELSE /\ a.q % StageQ(a) = 0
          /\ (a.tq * a.tkv) % (IF a.splitRows THEN 2 * a.plane ELSE a.plane) = 0
          /\ a.splitRows \/ a.tq <= a.plane
          /\ a.td >= a.tv
-----------------------------------------------------------------------------
(* A tile of cols columns as the units of a partition see it by rows.       *)

\* `WhiteboxFragmentLayout`: the rows and columns a unit of a plane has of it.
UnitRows(a) == IF a.unitwise THEN a.tq ELSE IF a.splitRows THEN 2 ELSE 1
UnitCols(a, cols) ==
  IF a.unitwise THEN cols ELSE CeilDiv(a.tq * cols, a.plane) \div UnitRows(a)
UnitsPerRow(a, cols) == cols \div UnitCols(a, cols)
UnitTile(a, cols) == (0 .. UnitRows(a) - 1) \X (0 .. UnitCols(a, cols) - 1)

\* `whitebox_fragment_absolute_pos`.
AbsolutePos(a, u, cols, x) ==
  IF a.unitwise THEN x
  ELSE LET lane == Mm!LaneOf(a, u) IN
       <<x[1] * (a.plane \div UnitsPerRow(a, cols)) + lane \div UnitsPerRow(a, cols),
         UnitCols(a, cols) * (lane % UnitsPerRow(a, cols)) + x[2]>>
Index(at, cols) == at[1] * cols + at[2]

\* An element of a tile as its unit sees it, in the fragment or out of it.
Seen(a, u, name, tile, cols, x) ==
  IF a.unitwise THEN Mm!Fragment(a, u, name, tile, Index(x, cols)) ELSE <<"seen", u, name, tile, x>>
Slot(a, u, name, tile, e) == <<"bounce", name, Mm!Team(a, u), tile, e>>

\* Steps of the team together, and every element of a tile of the unit's.
Together(a, u, sets) == <<Step(Mm!Team(a, u), "put", sets)>>
Mine(a, u, cols, Assignment(_)) == Sets({Assignment(e) : e \in Mm!Mine(a, u, a.tq * cols)})

\* `cmma_to_fragment`.
CmmaToFragment(a, u, name, tile, cols) ==
  When(~a.unitwise,
    Together(a, u, Mine(a, u, cols, LAMBDA e : <<Slot(a, u, name, tile, e), <<Of(Mm!Fragment(a, u, name, tile, e))>>>>))
      \o <<Sync(Mm!CubeUnits(a, u)),
           Do(u, Sets({<<Seen(a, u, name, tile, cols, x),
                         <<Of(Slot(a, u, name, tile, Index(AbsolutePos(a, u, cols, x), cols)))>>>> : x \in UnitTile(a, cols)})),
           Sync(Mm!CubeUnits(a, u))>>)

\* `fragment_to_cmma`, and `write_fragment_into` another tile, of the same columns.
FragmentInto(a, u, from, to, tile, cols) ==
  When(~a.unitwise,
    <<Do(u, Sets({<<Slot(a, u, to, tile, Index(AbsolutePos(a, u, cols, x), cols)),
                    <<Of(Seen(a, u, from, tile, cols, x))>>>> : x \in UnitTile(a, cols)})),
      Sync(Mm!CubeUnits(a, u))>>
      \o Together(a, u, Mine(a, u, cols, LAMBDA e : <<Mm!Fragment(a, u, to, tile, e), <<Of(Slot(a, u, to, tile, e))>>>>)))
-----------------------------------------------------------------------------
(* The softmax of the score tile of queries i of the partition.             *)

State(i, r) == <<i, r>>
RowMax(u, r) == <<"max", u, r>>
RowSum(u, r) == <<"sum", u, r>>

\* `reduce`: a row's value among the units that share it, those past its end
\* left out, then broadcast by the first.
Reduced(a, u, Cell(_, _), Combined(_)) ==
  LET perRow == UnitsPerRow(a, a.tkv)
      inRow == Mm!LaneOf(a, u) % perRow
      rounds == CHOOSE e \in 0 .. perRow : 2 ^ e >= perRow /\ (e = 0 \/ 2 ^ (e - 1) < perRow)
      Round(i) ==
        LET offset == perRow \div (2 ^ (i + 1)) IN
        Together(a, u, Sets({<<Cell(u, r),
          Combined(<<Cell(u, r)>> \o When(inRow + offset < perRow, <<Cell(u + offset, r)>>))>> : r \in 0 .. UnitRows(a) - 1})) IN
  When(~a.unitwise,
    FlattenSeq([i \in 1 .. rounds |-> Round(i - 1)])
      \o Together(a, u, Sets({<<Cell(u, r), <<Of(Cell(u - inRow, r))>>>> : r \in 0 .. UnitRows(a) - 1})))

\* `row_max`, of what a unit has of each row and the running maximum.
LocalMax(a, u, i, Shown(_)) ==
  Do(u, Sets({<<RowMax(u, r), <<LargestOf(<<M(u, State(i, r))>> \o Shown(r))>>>> : r \in 0 .. UnitRows(a) - 1}))

\* `LogicalTileMask::should_mask`, causal from the last query and key, and the
\* mask's own.
ShouldMask(a, g, s) ==
  \/ a.causal /\ s + a.q > g + a.kv
  \/ g >= a.q \/ s >= a.kv
  \/ <<g, s>> \in a.hidden

\* `softmax`, of the tile with its corner at <<g, s>> of the scores.
SoftmaxTile(a, u, i, g, s) ==
  LET Score4(x) == Seen(a, u, "score", i, a.tkv, x)
      Hidden(x) == LET at == AbsolutePos(a, u, a.tkv, x) IN ShouldMask(a, g + at[1], s + at[2])
      Shows(r) == SelectSeq([c \in 1 .. UnitCols(a, a.tkv) |-> <<r, c - 1>>], LAMBDA x : ~Hidden(x))
      Weight(x) == When(~Hidden(x), <<Exponential(One, Score4(x), <<RowMax(u, x[1])>>)>>)
      rows == 0 .. UnitRows(a) - 1
      st(r) == State(i, r) IN
  CmmaToFragment(a, u, "score", i, a.tkv)
    \o <<LocalMax(a, u, i, LAMBDA r : [c \in DOMAIN Shows(r) |-> Score4(Shows(r)[c])])>>
    \o Reduced(a, u, RowMax, LAMBDA cells : <<LargestOf(cells)>>)
    \o <<Do(u, Sets({<<Score4(x), Weight(x)>> : x \in UnitTile(a, a.tkv)}
                    \union {<<RowSum(u, r), FlattenSeq([c \in 1 .. UnitCols(a, a.tkv) |-> Weight(<<r, c - 1>>)])>> : r \in rows}))>>
    \o Reduced(a, u, RowSum, LAMBDA cells : [c \in DOMAIN cells |-> Of(cells[c])])
    \o <<Do(u, Sets({<<Correction(u, st(r)), <<Exponential(One, M(u, st(r)), <<RowMax(u, r)>>)>>>> : r \in rows}
                    \union {<<L(u, st(r)), <<Exponential(L(u, st(r)), M(u, st(r)), <<RowMax(u, r)>>), Of(RowSum(u, r))>>>> : r \in rows}
                    \union {<<M(u, st(r)), <<Of(RowMax(u, r))>>>> : r \in rows}))>>
    \o FragmentInto(a, u, "score", "softmaxed", i, a.tkv)
-----------------------------------------------------------------------------
(* The fold of a block of keys and values.                                 *)

\* The partition's queries, their rows in the stage.
PartitionQ(a, u) == Mm!PartitionOf(a, u) * a.pq * a.tq

\* Where the scores of queries i and the weights they become are.
Weights(a) == IF a.unitwise THEN "score" ELSE "softmaxed"

\* The scores of queries i by the keys of tile row t.
ScoreTile(a, u, i, t) ==
  LET Products(e) ==
        FlattenSeq([h \in 1 .. HeadTiles(a) |-> [l \in 1 .. a.td |->
          Product(Mm!Fragment(a, u, "query", i * HeadTiles(a) + h - 1, (e \div a.tkv) * a.td + l - 1),
                  Mm!InStage(a, u, KeyStage(a), <<t, h - 1>>, (e % a.tkv) * a.td + l - 1))]]) IN
  Together(a, u, Mine(a, u, a.tkv, LAMBDA e : <<Mm!Fragment(a, u, "score", i, e), Products(e)>>))

\* `scale_mul_at` or `scale_div_at`, by a factor of the row.
ScaleTile(a, u, tile, Scaled(_, _)) ==
  LET Out4(x) == Seen(a, u, "out", tile, a.tv, x) IN
  CmmaToFragment(a, u, "out", tile, a.tv)
    \o <<Do(u, Sets({<<Out4(x), <<Scaled(Out4(x), x[1])>>>> : x \in UnitTile(a, a.tv)}))>>
    \o FragmentInto(a, u, "out", "out", tile, a.tv)

\* The values of tile <<t, vd>> mixed by the weights of queries i.
MixTile(a, u, i, t, vd) ==
  LET tile == i * ValueTiles(a) + vd
      Mixed(e) ==
        <<Of(Mm!Fragment(a, u, "out", tile, e))>>
          \o [c \in 1 .. a.tkv |->
               Product(Mm!Fragment(a, u, Weights(a), i, (e \div a.tv) * a.tkv + c - 1),
                       Mm!InStage(a, u, ValueStage(a), <<t, vd>>, (c - 1) * a.tv + (e % a.tv)))] IN
  ScaleTile(a, u, tile, LAMBDA cell, r : Product(cell, Correction(u, State(i, r))))
    \o Together(a, u, Mine(a, u, a.tv, LAMBDA e : <<Mm!Fragment(a, u, "out", tile, e), Mixed(e)>>))

\* `PartitionAttention::execute`, for the block from key s on of the stage at g.
Execute(a, u, g, s) ==
  Loop(a.pkv, LAMBDA t : Loop(a.pq, LAMBDA i :
    ScoreTile(a, u, i, t)
      \o SoftmaxTile(a, u, i, g + PartitionQ(a, u) + i * a.tq, s + t * a.tkv)
      \o Loop(ValueTiles(a), LAMBDA vd : MixTile(a, u, i, t, vd))))
-----------------------------------------------------------------------------
(* The kernel.                                                             *)

\* `read_query`: into the fragments, through shared memory for a plane.
ReadQuery(a, u, batch, g) ==
  LET Cells(i, h, v) ==
        LET row == g + PartitionQ(a, u) + i * a.tq + (v * a.vector) \div a.td
            read == Mm!ReadVector(Queries4(a), a.lhsBatches, batch, row, h * a.td + ((v * a.vector) % a.td)) IN
        {<<v * a.vector + j - 1, [x \in DOMAIN read[j] |-> Of(read[j][x])]>> : j \in 1 .. a.vector}
      vectors == (a.tq * a.td) \div a.vector
      Staged(e) == <<"staged", Mm!Team(a, u), e>>
      Tile(i, h) ==
        LET tile == i * HeadTiles(a) + h
            read == UNION {Cells(i, h, v) : v \in ToSet(Strided(Mm!LaneOf(a, u), Cardinality(Mm!Team(a, u)), vectors))} IN
        IF a.unitwise THEN <<Do(u, Sets({<<Mm!Fragment(a, u, "query", tile, x[1]), x[2]>> : x \in read}))>>
        ELSE <<Do(u, Sets({<<Staged(x[1]), x[2]>> : x \in read})), Sync(Mm!Team(a, u))>>
               \o Together(a, u, Mine(a, u, a.td, LAMBDA e : <<Mm!Fragment(a, u, "query", tile, e), <<Of(Staged(e))>>>>))
               \o <<Sync(Mm!Team(a, u))>> IN
  Loop(a.pq, LAMBDA i : Loop(HeadTiles(a), LAMBDA h : Tile(i, h)))

\* `init_state` and `init_output`.
InitFold(a, u) ==
  Together(a, u,
    FoldSet(LAMBDA tile, f : f @@ Mine(a, u, a.tv, LAMBDA e : <<Mm!Fragment(a, u, "out", tile, e), <<>>>>),
            NewState(u, {State(i, r) : i \in 0 .. a.pq - 1, r \in 0 .. UnitRows(a) - 1}),
            0 .. a.pq * ValueTiles(a) - 1))

Rescale(a, u) ==
  Loop(a.pq, LAMBDA i : Loop(ValueTiles(a), LAMBDA vd :
    ScaleTile(a, u, i * ValueTiles(a) + vd, LAMBDA cell, r : Over(Of(cell), L(u, State(i, r))))))

\* `write`: a tile at a time through the slot.
WriteTiles(a, u, batch, g) ==
  LET Written(i, vd) ==
        LET vectors == (a.tq * a.tv) \div a.vector
            Row(v) == g + PartitionQ(a, u) + i * a.tq + (v * a.vector) \div a.tv
            Vector(v) == [j \in 1 .. a.vector |-> <<Of(OutSlot(a, u, v * a.vector + j - 1))>>] IN
        Sets(UNION {Mm!WriteVector(Output4(a), a.lhsBatches, batch, Row(v), vd * a.tv + ((v * a.vector) % a.tv), Vector(v)) :
                      v \in ToSet(Strided(Mm!LaneOf(a, u), Cardinality(Mm!Team(a, u)), vectors))}) IN
  Loop(a.pq, LAMBDA i : Loop(ValueTiles(a), LAMBDA vd :
    Together(a, u, Mine(a, u, a.tv, LAMBDA e :
        <<OutSlot(a, u, e), <<Of(Mm!Fragment(a, u, "out", i * ValueTiles(a) + vd, e))>>>>))
      \o When(~a.unitwise, <<Sync(Mm!Team(a, u))>>)
      \o <<Do(u, Written(i, vd))>>
      \o When(~a.unitwise, <<Sync(Mm!Team(a, u))>>)))

\* `SimpleGlobalAttention::execute`, for the stage of queries from g on.
GlobalAttention(a, u, batch, g) ==
  ReadQuery(a, u, batch, g) \o InitFold(a, u)
    \o Loop(CeilDiv(a.kv, PartitionKv(a)), LAMBDA block :
         <<Mm!LoadStage(a, u, KeyStage(a), Keys4(a), block * PartitionKv(a), 0, batch),
           Mm!LoadStage(a, u, ValueStage(a), Values4(a), block * PartitionKv(a), 0, batch),
           Sync(Mm!CubeUnits(a, u))>>
           \o Execute(a, u, g, block * PartitionKv(a))
           \o <<Sync(Mm!CubeUnits(a, u))>>)
    \o Rescale(a, u) \o WriteTiles(a, u, batch, g)

\* `SimpleBatchAttention::execute`: cubes to spare terminate.
BatchAttention(a, u) ==
  LET plan == CubeLaunchInfo(a)
      at == Mm!CubePosToXyz(plan, Mm!CubeOf(a, u)) IN
  IF Mm!Spare(plan, Mm!CubeOf(a, u)) THEN <<>> ELSE GlobalAttention(a, u, at[2], at[1] * StageQ(a))

\* Queries and keys are small numbers, values are inputs.
Number4(a, cell) ==
  IF cell[1] = "q" THEN 1 + (cell[2] % 2) ELSE (2 * (cell[2] \div a.d) + (cell[2] % a.d)) % 5
Wanted4(a, at) ==
  LET Cell(t, row, col) == Mm!GlobalLayout([t EXCEPT !.vector = 1], a.lhsBatches, at[1], row, col)[1]
      ScoreBy(s) ==
        FoldLeft(LAMBDA sum, l : sum + (Number4(a, Cell(Queries4(a), at[2], l - 1)) * Number4(a, Cell(Keys4(a), s, l - 1))),
                 0, [l \in 1 .. a.d |-> l])
      seen == SelectSeq([s \in 1 .. a.kv |-> s - 1], LAMBDA s : ~ShouldMask(a, at[2], s)) IN
  AttendedBy(seen, ScoreBy, LAMBDA s : Input(Cell(Values4(a), s, at[3])))

FlashKernel(a) ==
  Kernel([u \in 0 .. Mm!Total(CubeLaunchInfo(a).grid) * Mm!CubeDim(a) - 1 |-> BatchAttention(a, u)],
         (<<"lowest">> :> Lowest) @@ (One :> Number(1)) @@ Mm!Contents(Values4(a))
           @@ [c \in DOMAIN Mm!Contents(Queries4(a)) \union DOMAIN Mm!Contents(Keys4(a)) |-> Number(Number4(a, c))],
         {"output"},
         Sets({<<Mm!GlobalLayout([Output4(a) EXCEPT !.vector = 1], a.lhsBatches, at[1], at[2], at[3])[1], Wanted4(a, at)>> :
                 at \in (0 .. Mm!Volume(a.lhsBatches) - 1) \X (0 .. a.q - 1) \X (0 .. a.dv - 1)}),
         Turns)
=============================================================================
