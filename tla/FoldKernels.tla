------------------------------ MODULE FoldKernels ------------------------------
(***************************************************************************)
(* The attention operations of cubek-tile: the streamed fold of a plane    *)
(* and its endings, the fold through shared tiles of scores, the online    *)
(* softmax by units or by planes; and the sum in shared memory of a        *)
(* contraction cut across the planes of a cube.                            *)
(*                                                                         *)
(* Queries and keys are small numbers, so that scores are; a value is an   *)
(* input.  A missing key, a partial dot product or a weight taken against  *)
(* the wrong maximum shows as a wrong power of e in the answer.            *)
(***************************************************************************)
EXTENDS CubeSteps

\* `min_value`, below any score, and the half of the turns powers of e take.
Lowest == Number(-1000)
Turns == 64
One == <<"one">>
SmallerOf(a, b) == IF a < b THEN a ELSE b
LargerOf(a, b) == IF a > b THEN a ELSE b

\* Queries, keys and their products.
Query(g, l) == 1 + ((g + l) % 2)
Key(s, l) == (2 * s + l) % 5
Score(p, g, s) ==
  LET upTo[l \in 0 .. p.d] == IF l = 0 THEN 0 ELSE upTo[l - 1] + Query(g, l - 1) * Key(s, l - 1) IN
  upTo[p.d]

Given(p) ==
  Sets({<<<<"q", g * p.d + l>>, Number(Query(g, l))>> : g \in 0 .. p.rows - 1, l \in 0 .. p.d - 1}
       \union {<<<<"k", s * p.d + l>>, Number(Key(s, l))>> : s \in 0 .. p.bound - 1, l \in 0 .. p.d - 1}
       \union {<<<<"v", i>>, Input(<<"v", i>>)>> : i \in 0 .. p.bound * p.d - 1}
       \union {<<One, Number(1)>>})

\* Attention to keys by their scores: their values weighted by e to the scores,
\* over the sum of the weights.
AttendedBy(seen, ScoreBy(_), ValueOf(_)) ==
  LET top == CHOOSE s \in ToSet(seen) : \A t \in ToSet(seen) : ScoreBy(t) <= ScoreBy(s)
      Total(Weighed(_)) ==
        SumOfBags([i \in DOMAIN seen |-> Turned(Weighed(seen[i]), ScoreBy(seen[i]) - ScoreBy(top), Turns)]) IN
  ProductOfBags(Total(ValueOf), Reciprocal(Total(LAMBDA s : Number(1))), Turns)

\* Attention by its definition: of each row to the keys it sees.
Attended(p, Sees(_, _)) ==
  Sets({<<<<"output", g * p.d + l>>,
          AttendedBy(SelectSeq([i \in 1 .. p.bound |-> i - 1], LAMBDA s : Sees(g, s)),
                     LAMBDA s : Score(p, g, s), LAMBDA s : Input(<<"v", s * p.d + l>>))>> :
          g \in 0 .. p.rows - 1, l \in 0 .. p.d - 1})
-----------------------------------------------------------------------------
(* The streamed fold: p.splits planes of p.units units, split into teams of *)
(* a span of units each, with a key at a time to each team.                 *)

NextPowerOfTwo(n) == CHOOSE m \in {2 ^ e : e \in 0 .. n} : n <= m /\ (m = 1 \/ m \div 2 < n)

\* `team_span`.
TeamSpan(p) ==
  LET perUnit == LargerOf(p.unitFloats \div (2 * p.rows), 1) IN
  IF p.units <= 1 \/ NextPowerOfTwo(p.units) # p.units THEN LargerOf(p.units, 1)
  ELSE SmallerOf(NextPowerOfTwo(CeilDiv(p.d, perUnit)), p.units)
PerUnit(p) == CeilDiv(p.d, TeamSpan(p))
Teams(p) == p.units \div TeamSpan(p)
Chunk(p) ==
  LargerOf(SmallerOf(p.chunk, SmallerOf(CeilDiv(p.block, Teams(p)),
                                        p.stageFloats \div (2 * PerUnit(p)))), 1)

StreamUnits(p) == (0 .. p.units - 1) \X (0 .. p.splits - 1)
StreamCube(p) == StreamUnits(p)
TeamOf(p, u) == {v \in StreamUnits(p) : v[2] = u[2] /\ v[1] \div TeamSpan(p) = u[1] \div TeamSpan(p)}
AcrossTeams(p, u) == {v \in StreamUnits(p) : v[2] = u[2] /\ v[1] % TeamSpan(p) = u[1] % TeamSpan(p)}

\* The lines of the head a unit owns, in its order.
LinesOf(p, u) == Strided(u[1] % TeamSpan(p), TeamSpan(p), p.d)
RowsOf(p) == 0 .. p.rows - 1

M(u, g) == <<"m", u, g>>
L(u, g) == <<"l", u, g>>
Acc(u, g, line) == <<"acc", u, g, line>>
ScoreOf(u, g, c) == <<"score", u, g, c>>
Queries(u, g, line) == <<"qa", u, g, line>>

\* `new`: this unit's lines of the queries, nothing folded in.
NewFold(p, u) ==
  <<Do(u, Sets({<<M(u, g), <<Of(<<"lowest">>)>>>> : g \in RowsOf(p)}
               \union {<<L(u, g), <<>>>> : g \in RowsOf(p)}
               \union {<<Acc(u, g, line), <<>>>> : g \in RowsOf(p), line \in ToSet(LinesOf(p, u))}
               \union {<<Queries(u, g, line), <<Of(<<"q", g * p.d + line>>)>>>> :
                         g \in RowsOf(p), line \in ToSet(LinesOf(p, u))}))>>

\* One step of `absorb`, at s0 of the block from base on, of which `bound` keys
\* are read: the team closes its scores, then each unit updates its state.
AbsorbStep(p, u, base, s0, bound) ==
  LET team == u[1] \div TeamSpan(p)
      At(c) == s0 + c * Teams(p) + team
      live == SelectSeq([i \in 1 .. Chunk(p) |-> i - 1], LAMBDA c : At(c) < bound)
      Partial(v, g, c) ==
        [i \in DOMAIN LinesOf(p, v) |->
          Product(Queries(v, g, LinesOf(p, v)[i]), <<"k", (base + At(c)) * p.d + LinesOf(p, v)[i]>>)]
      Tops(g) == <<M(u, g)>> \o [i \in DOMAIN live |-> ScoreOf(u, g, live[i])]
      Weighted(g, Cell(_)) ==
        [i \in DOMAIN live |-> Exponential(Cell(live[i]), ScoreOf(u, g, live[i]), Tops(g))] IN
  <<PlaneStep(TeamOf(p, u),
      Sets({<<ScoreOf(u, g, c), FlattenSeq([i \in 1 .. TeamSpan(p) |->
                Partial(<<team * TeamSpan(p) + i - 1, u[2]>>, g, c)])>> :
              g \in RowsOf(p), c \in ToSet(live)})),
    Do(u, Sets({<<M(u, g), <<LargestOf(Tops(g))>>>> : g \in RowsOf(p)}
               \union {<<L(u, g), <<Exponential(L(u, g), M(u, g), Tops(g))>>
                                    \o Weighted(g, LAMBDA c : One)>> : g \in RowsOf(p)}
               \union {<<Acc(u, g, line), <<Exponential(Acc(u, g, line), M(u, g), Tops(g))>>
                           \o Weighted(g, LAMBDA c : <<"v", (base + At(c)) * p.d + line>>)>> :
                         g \in RowsOf(p), line \in ToSet(LinesOf(p, u))}))>>

Absorb(p, u, base, colsBound) ==
  LET bound == SmallerOf(colsBound, p.block)
      steps == Strided(0, Chunk(p) * Teams(p), bound) IN
  FlattenSeq([i \in DOMAIN steps |-> AbsorbStep(p, u, base, steps[i], bound)])

\* `close_teams`: the states of the plane's teams into one.
CloseTeams(p, u) ==
  LET others == SetToSeq(AcrossTeams(p, u))
      Tops(g) == [i \in DOMAIN others |-> M(others[i], g)]
      Merged(g, Cell(_)) ==
        [i \in DOMAIN others |-> Exponential(Cell(others[i]), M(others[i], g), Tops(g))] IN
  When(Teams(p) > 1,
       <<PlaneStep(AcrossTeams(p, u),
           Sets({<<M(u, g), <<LargestOf(Tops(g))>>>> : g \in RowsOf(p)}
                \union {<<L(u, g), Merged(g, LAMBDA v : L(v, g))>> : g \in RowsOf(p)}
                \union {<<Acc(u, g, line), Merged(g, LAMBDA v : Acc(v, g, line))>> :
                          g \in RowsOf(p), line \in ToSet(LinesOf(p, u))}))>>)

\* `store`: every plane parks its state in shared memory, and the first merges.
Parked(name, p, g, t) == <<name, g * p.splits + t>>
Partials(p, g, t, line) == <<"partials", (g * p.splits + t) * PerUnit(p) * TeamSpan(p) + line>>
Store(p, u) ==
  LET speaks == u[1] < TeamSpan(p)
      Tops(g) == [i \in 1 .. p.splits |-> Parked("maxes", p, g, i - 1)]
      Merged(g, Cell(_)) ==
        [i \in 1 .. p.splits |-> Exponential(Cell(i - 1), Parked("maxes", p, g, i - 1), Tops(g))]
      cells == {<<g, line>> : g \in RowsOf(p), line \in ToSet(LinesOf(p, u))} IN
  CloseTeams(p, u)
    \o When(speaks, <<Do(u,
         (IF u[1] # 0 THEN Zero
          ELSE Sets({<<Parked("maxes", p, g, u[2]), <<Of(M(u, g))>>>> : g \in RowsOf(p)}
                    \union {<<Parked("sums", p, g, u[2]), <<Of(L(u, g))>>>> : g \in RowsOf(p)}))
         @@ Sets({<<Partials(p, x[1], u[2], x[2]), <<Of(Acc(u, x[1], x[2]))>>>> : x \in cells}))>>)
    \o <<Sync(StreamCube(p))>>
    \o When(u[2] = 0 /\ speaks,
         <<Do(u, Sets({<<<<"norm", u, g>>, Merged(g, LAMBDA t : Parked("sums", p, g, t))>> :
                         g \in RowsOf(p)})),
           Do(u, Sets({<<<<"output", x[1] * p.d + x[2]>>,
                         LET terms == Merged(x[1], LAMBDA t : Partials(p, x[1], t, x[2])) IN
                         [i \in DOMAIN terms |-> Over(terms[i], <<"norm", u, x[1]>>)]>> : x \in cells}))>>)
-----------------------------------------------------------------------------
(* The split ending.                                                       *)

\* Where the states' layout puts a row of a split.
SplitStride(p) == IF p.inner THEN 1 ELSE p.rows
RowBase(p, r) ==
  LET slice == p.splits * SplitStride(p) IN (r \div SplitStride(p)) * slice + (r % SplitStride(p))
StateCell(p, r, t) == RowBase(p, r) + t * SplitStride(p)

\* `publish`: unit 0 stores the state, the first team the accumulator.
Publish(p, u) ==
  CloseTeams(p, u)
    \o When(u[1] < TeamSpan(p), <<Do(u,
         (IF u[1] # 0 THEN Zero
          ELSE Sets({<<<<"mAll", StateCell(p, g, u[2])>>, <<Of(M(u, g))>>>> : g \in RowsOf(p)}
                    \union {<<<<"lAll", StateCell(p, g, u[2])>>, <<Of(L(u, g))>>>> : g \in RowsOf(p)}))
         @@ Sets({<<<<"accAll", (u[2] * p.rows + g) * p.d + line>>, <<Of(Acc(u, g, line))>>>> :
                    g \in RowsOf(p), line \in ToSet(LinesOf(p, u))}))>>)

\* `merge_splits`, a unit to each cell: the states pass through the weights.
MergeCells(p, u, pos) ==
  LET owns == pos < p.rows * p.splits
      t == (pos \div SplitStride(p)) % p.splits
      base == pos - t * SplitStride(p)
      Row(name) == [i \in 1 .. p.splits |-> <<name, base + (i - 1) * SplitStride(p)>>]
      mine == <<"mine", u>>
      Owning(sets) == When(owns, <<Do(u, sets)>>) IN
  Owning(<<"w", pos>> :> <<Of(<<"mAll", pos>>)>>) \o <<Sync(StreamCube(p))>>
    \o Owning(mine :> <<Exponential(One, <<"mAll", pos>>, Row("w"))>>) \o <<Sync(StreamCube(p))>>
    \o Owning(<<"w", pos>> :> <<Product(mine, <<"lAll", pos>>)>>) \o <<Sync(StreamCube(p))>>
    \o Owning(<<"norm", u>> :> [i \in 1 .. p.splits |-> Of(Row("w")[i])]) \o <<Sync(StreamCube(p))>>
    \o Owning(<<"w", pos>> :> <<Over(Of(mine), <<"norm", u>>)>>)

\* A unit to each row, when there are more cells than units.
MergeRows(p, u, pos) ==
  LET rows == Strided(pos, Cardinality(StreamCube(p)), p.rows)
      MergeRow(r) ==
        LET cell == [i \in 1 .. p.splits |-> StateCell(p, r, i - 1)]
            Row(name) == [i \in 1 .. p.splits |-> <<name, cell[i]>>] IN
        <<Do(u, (<<"norm", u>> :> [i \in 1 .. p.splits |-> Exponential(Row("lAll")[i], Row("mAll")[i], Row("mAll"))])
                @@ Sets({<<Row("w")[i], <<Exponential(One, Row("mAll")[i], Row("mAll"))>>>> : i \in 1 .. p.splits})),
          Do(u, Sets({<<Row("w")[i], <<Over(Of(Row("w")[i]), <<"norm", u>>)>>>> : i \in 1 .. p.splits}))>> IN
  FlattenSeq([i \in DOMAIN rows |-> MergeRow(rows[i])])

MergeSplits(p, u, pos) ==
  IF p.rows * p.splits <= Cardinality(StreamCube(p)) THEN MergeCells(p, u, pos) ELSE MergeRows(p, u, pos)

\* The caller's drain: the accumulators weighted, cyclic over the cube.
Drain(p, u, pos) ==
  LET mine == Strided(pos, Cardinality(StreamCube(p)), p.rows * p.d)
      Weighted(i) ==
        [t \in 1 .. p.splits |->
          Product(<<"accAll", (t - 1) * p.rows * p.d + i>>, <<"w", StateCell(p, i \div p.d, t - 1)>>)] IN
  When(mine # <<>>, <<Do(u, Sets({<<<<"output", i>>, Weighted(i)>> : i \in ToSet(mine)}))>>)

\* A split folds a run of the blocks, then all of them end together.
Streamed(p, u) ==
  LET blocks == CeilDiv(p.bound, p.block)
      perTeam == CeilDiv(blocks, p.splits)
      first == u[2] * perTeam
      mine == [i \in 1 .. LargerOf(SmallerOf(perTeam, blocks - first), 0) |-> first + i - 1]
      pos == u[2] * p.units + u[1] IN
  NewFold(p, u)
    \o FlattenSeq([i \in DOMAIN mine |-> Absorb(p, u, mine[i] * p.block, p.bound - mine[i] * p.block)])
    \o IF p.fused THEN Store(p, u)
       ELSE Publish(p, u) \o <<Sync(StreamCube(p))>> \o MergeSplits(p, u, pos)
              \o <<Sync(StreamCube(p))>> \o Drain(p, u, pos)

StreamKernel(p) ==
  Kernel([u \in StreamUnits(p) |-> Streamed(p, u)],
         (<<"lowest">> :> Lowest) @@ Given(p), {"output"}, Attended(p, LAMBDA g, s : TRUE), Turns)
-----------------------------------------------------------------------------
(* The fold through shared tiles of scores.                                *)

Upto(n) == [i \in 1 .. n |-> i - 1]

(* Masking.                                                                *)

RowQ(p, origin, r) == p.originQ + ((origin + r) % p.qRows)
Masked(p, q, s) ==
  \/ q >= p.boundQ \/ s >= p.bound
  \/ p.causal /\ s > q
  \/ <<q, s>> \in p.hidden
KeysSeen(p) == IF p.causal THEN SmallerOf(p.bound, p.originQ + p.qRows) ELSE p.bound
Blocks(p) == CeilDiv(KeysSeen(p), p.block)

\* Attention over the keys a row is not masked from.
MaskedAttention(p) == Attended(p, LAMBDA g, s : ~Masked(p, RowQ(p, 0, g), s))
-----------------------------------------------------------------------------
(* The online softmax: the units of `worker` own rows `owned` of a tile of *)
(* scores together, each its own columns of them.  A tile is its cells of  *)
(* scores and of weights, the same ones in place, and those masked.        *)

Correction(u, r) == <<"corr", u, r>>

NewState(u, owned) ==
  Sets({<<M(u, r), <<Of(<<"lowest">>)>>>> : r \in owned} \union {<<L(u, r), <<>>>> : r \in owned})

\* `softmax`: scores masked, exponentials against the running maximum, their sum
\* and the correction of what was folded before.
Softmax(u, worker, owned, columns, tile) ==
  LET Live(r) == SelectSeq(Upto(tile.block), LAMBDA c : <<r, c>> \notin tile.masked)
      Tops(r) == <<M(u, r)>> \o [i \in DOMAIN Live(r) |-> tile.scores[r, Live(r)[i]]]
      Weight(r, c) ==
        When(<<r, c>> \notin tile.masked, <<Exponential(One, tile.scores[r, c], Tops(r))>>)
      cells == owned \X columns IN
  <<Step(worker, "put",
      Sets({<<tile.scores[x], Weight(x[1], x[2])>> : x \in cells}
           \union {<<tile.weights[x], Weight(x[1], x[2])>> : x \in cells}
           \union {<<M(u, r), <<LargestOf(Tops(r))>>>> : r \in owned}
           \union {<<L(u, r), <<Exponential(L(u, r), M(u, r), Tops(r))>>
                                \o FlattenSeq([c \in 1 .. tile.block |-> Weight(r, c - 1)])>> : r \in owned}
           \union {<<Correction(u, r), <<Exponential(One, M(u, r), Tops(r))>>>> : r \in owned}))>>
-----------------------------------------------------------------------------
(* The fold: p.splits teams of p.units units, a block to each in turn.      *)

ScoreCell(p, t, r, c) == <<"scores", (t * p.rows + r) * p.block + c>>
WeightCell(p, t, r, c) == IF p.inPlace THEN ScoreCell(p, t, r, c) ELSE <<"p", (t * p.rows + r) * p.block + c>>
AccCell(p, t, r, line) == <<"accAll", (t * p.rows + r) * p.d + line>>

\* The rows a unit owns, some or none.
OwnedRows(p, u) ==
  LET perUnit == CeilDiv(p.rows, p.units) IN
  {r \in RowsOf(p) : r \in u[1] * perUnit .. (u[1] + 1) * perUnit - 1}

\* `score_columns`: every row's scores in this unit's columns.
ScoreColumns(p, u, s0, bound) ==
  LET columns == ToSet(Strided(u[1], p.units, SmallerOf(bound, p.block))) IN
  When(columns # {},
    <<Do(u, Sets({<<ScoreCell(p, u[2], x[1], x[2]),
                    [l \in 1 .. p.d |-> Product(<<"q_s", x[1] * p.d + l - 1>>,
                                                <<"k", (s0 + x[2]) * p.d + l - 1>>)]>> :
                    x \in RowsOf(p) \X columns}))>>)

RescaleRows(p, u) ==
  When(OwnedRows(p, u) # {},
    <<Do(u, Sets({<<AccCell(p, u[2], x[1], x[2]),
                    <<Product(AccCell(p, u[2], x[1], x[2]), Correction(u, x[1]))>>>> :
                    x \in OwnedRows(p, u) \X (0 .. p.d - 1)}))>>)

\* `rows_per_visit`: the most rows the registers hold that divide them all.
RowsPerVisit(p) ==
  LET fits == {c \in 1 .. SmallerOf(LargerOf(p.budget \div p.vector, 1), p.rows) : p.rows % c = 0} IN
  CHOOSE c \in fits : \A other \in fits : other <= c

\* `mix_columns`: a chunk of rows and a line of the values at a visit.
MixColumns(p, u, s0, bound) ==
  LET lines == p.d \div p.vector
      visits == ToSet(Strided(u[1], p.units, (p.rows \div RowsPerVisit(p)) * lines))
      Row(visit, i) == (visit \div lines) * RowsPerVisit(p) + i
      Value(visit, j) == (visit % lines) * p.vector + j
      Mixed(r, value) ==
        <<Of(AccCell(p, u[2], r, value))>>
          \o [c \in 1 .. SmallerOf(bound, p.block) |->
               Product(WeightCell(p, u[2], r, c - 1), <<"v", (s0 + c - 1) * p.d + value>>)] IN
  When(visits # {},
    <<Do(u, Sets({LET r == Row(x[1], x[2]) value == Value(x[1], x[3]) IN
                  <<AccCell(p, u[2], r, value), Mixed(r, value)>> :
                    x \in visits \X (0 .. RowsPerVisit(p) - 1) \X (0 .. p.vector - 1)}))>>)

\* A round: every team keeps the barriers, though it may have no block.
FoldRound(p, u, round) ==
  LET blk == round * p.splits + u[2]
      s0 == blk * p.block
      bound == LargerOf(p.bound, s0) - s0
      cells == OwnedRows(p, u) \X (0 .. p.block - 1)
      tile == [block |-> p.block,
               scores |-> [x \in cells |-> ScoreCell(p, u[2], x[1], x[2])],
               weights |-> [x \in cells |-> WeightCell(p, u[2], x[1], x[2])],
               masked |-> {x \in cells : Masked(p, RowQ(p, 0, x[1]), s0 + x[2])}] IN
  When(blk < Blocks(p), ScoreColumns(p, u, s0, bound)) \o <<Sync(StreamCube(p))>>
    \o When(blk < Blocks(p) /\ OwnedRows(p, u) # {},
         Softmax(u, {u}, OwnedRows(p, u), 0 .. p.block - 1, tile)
           \o RescaleRows(p, u)) \o <<Sync(StreamCube(p))>>
    \o When(blk < Blocks(p), MixColumns(p, u, s0, bound)) \o <<Sync(StreamCube(p))>>

\* The queries in shared memory, a share to each unit; the accumulators zeroed,
\* all of them by every unit.
FoldStart(p, u, pos) ==
  <<Do(u, Sets({<<<<"q_s", i>>, <<Of(<<"q", i>>)>>>> :
                  i \in ToSet(Strided(pos, Cardinality(StreamCube(p)), p.rows * p.d))}
               \union {<<AccCell(p, t, r, line), <<>>>> :
                         t \in 0 .. p.splits - 1, r \in RowsOf(p), line \in 0 .. p.d - 1})
          @@ NewState(u, OwnedRows(p, u))),
    Sync(StreamCube(p))>>

\* The ending of one team: its owners publish 1 / l, the cube normalizes.
Normalize(p, u, pos) ==
  LET mine == Strided(pos, Cardinality(StreamCube(p)), p.rows * p.d)
      DoAll(sets) == When(sets # Zero, <<Do(u, sets)>>) IN
  DoAll(Sets({<<<<"factors", r>>, <<Over(Of(One), L(u, r))>>>> : r \in OwnedRows(p, u)}))
    \o <<Sync(StreamCube(p))>>
    \o DoAll(Sets({<<<<"accAll", i>>, <<Product(<<"accAll", i>>, <<"factors", i \div p.d>>)>>>> :
                     i \in ToSet(mine)}))
    \o <<Sync(StreamCube(p))>>
    \o DoAll(Sets({<<<<"output", i>>, <<Of(<<"accAll", i>>)>>>> : i \in ToSet(mine)}))

\* The ending of several: states published, then merged as the stream's are.
StoreRows(p, u) ==
  When(OwnedRows(p, u) # {},
    <<Do(u, Sets({<<<<"mAll", StateCell(p, r, u[2])>>, <<Of(M(u, r))>>>> : r \in OwnedRows(p, u)}
                 \union {<<<<"lAll", StateCell(p, r, u[2])>>, <<Of(L(u, r))>>>> : r \in OwnedRows(p, u)}))>>)

Fold(p, u) ==
  LET pos == u[2] * p.units + u[1] IN
  FoldStart(p, u, pos)
    \o Loop(CeilDiv(Blocks(p), p.splits), LAMBDA round : FoldRound(p, u, round))
    \o IF p.splits = 1 THEN Normalize(p, u, pos)
       ELSE StoreRows(p, u) \o <<Sync(StreamCube(p))>> \o MergeSplits(p, u, pos)
              \o <<Sync(StreamCube(p))>> \o Drain(p, u, pos)

FoldKernel(p) ==
  Kernel([u \in StreamUnits(p) |-> Fold(p, u)],
         (<<"lowest">> :> Lowest) @@ Given(p), {"output"}, MaskedAttention(p), Turns)
-----------------------------------------------------------------------------
(* The softmax walk: scores given, every worker its own rows, no barrier.   *)

WalkUnits(p) == 0 .. p.units - 1
WorkerOf(p, u) == {v \in WalkUnits(p) : v \div p.plane = u \div p.plane}
WalkRows(p, u) ==
  LET perWorker == CeilDiv(p.rows, p.units \div p.plane)
      worker == u \div p.plane IN
  {r \in RowsOf(p) : r \in worker * perWorker .. (worker + 1) * perWorker - 1}

WalkBlock(p, u, blk) ==
  LET rows == WalkRows(p, u)
      columns == ToSet(Strided(u % p.plane, p.plane, p.block))
      cells == rows \X (0 .. p.block - 1)
      tile == [block |-> p.block,
               scores |-> [x \in cells |-> <<"scores", x[1] * p.block + x[2]>>],
               weights |-> [x \in cells |-> <<"p", x[1] * p.block + x[2]>>],
               masked |-> {x \in cells : Masked(p, RowQ(p, 0, x[1]), blk * p.block + x[2])}]
      Accumulated(r) ==
        <<Product(Acc(u, r, 0), Correction(u, r))>>
          \o [c \in 1 .. p.block |-> Product(tile.weights[r, c - 1], <<"v", blk * p.block + c - 1>>)] IN
  When(rows # {},
    <<Do(u, Sets({<<tile.scores[x], <<Of(<<"given", x[1], blk * p.block + x[2]>>)>>>> :
                    x \in rows \X columns}))>>
      \o Softmax(u, WorkerOf(p, u), rows, columns, tile)
      \o <<Step(WorkerOf(p, u), "put", Sets({<<Acc(u, r, 0), Accumulated(r)>> : r \in rows}))>>)

SoftmaxWalk(p, u) ==
  LET rows == WalkRows(p, u) IN
  When(rows # {}, <<Do(u, NewState(u, rows) @@ Sets({<<Acc(u, r, 0), <<>>>> : r \in rows}))>>)
    \o Loop(p.blocks, LAMBDA blk : WalkBlock(p, u, blk))
    \o When(rows # {} /\ u % p.plane = 0,
         <<Do(u, Sets({<<<<"output", r>>, <<Over(Of(Acc(u, r, 0)), L(u, r))>>>> : r \in rows}))>>)

\* A score and a value to each key; some keys may be past the bound.
SoftmaxKernel(p) ==
  Kernel([u \in WalkUnits(p) |-> SoftmaxWalk(p, u)],
         (<<"lowest">> :> Lowest) @@ Given([p EXCEPT !.bound = p.blocks * p.block])
           @@ Sets({<<<<"given", r, s>>, Number(Score(p, r, s))>> :
                      r \in RowsOf(p), s \in 0 .. p.blocks * p.block - 1}),
         {"output"}, MaskedAttention(p), Turns)
-----------------------------------------------------------------------------
(* A contraction cut across the planes of a cube, summed in shared memory,  *)
(* a box after the other.                                                   *)

SmemUnits(p) == (0 .. p.plane - 1) \X (0 .. p.planes - 1)

\* `smem_accumulation`: zeroed between two barriers.
SmemAccumulation(p, u, pos) ==
  LET mine == Strided(pos, Cardinality(SmemUnits(p)), p.cells) IN
  <<Sync(SmemUnits(p))>>
    \o When(mine # <<>>, <<Do(u, Sets({<<<<"values", i>>, <<>>>> : i \in ToSet(mine)}))>>)
    \o <<Sync(SmemUnits(p))>>

\* A plane's slice of the contraction into the sink, a cell to a unit.
Sink(p, u, box) ==
  LET mine == Strided(u[1], p.plane, p.cells)
      slice == p.depth \div p.planes IN
  [i \in DOMAIN mine |->
    AtomicAdd(u, <<"values", mine[i]>>,
              [k \in 1 .. slice |-> Of(<<"product", box, mine[i], u[2] * slice + k - 1>>)])]

\* `copy_from` the source: lines of the box, a share to each unit of the cube.
Source(p, u, pos, box) ==
  LET lines == ToSet(Strided(pos, Cardinality(SmemUnits(p)), p.cells \div p.width))
      mine == {line * p.width + j : line \in lines, j \in 0 .. p.width - 1} IN
  When(mine # {},
    <<Do(u, Sets({<<<<"output", box * p.cells + i>>, <<Of(<<"values", i>>)>>>> : i \in mine}))>>)

SmemSplit(p, u) ==
  LET pos == u[2] * p.plane + u[1] IN
  Loop(p.boxes, LAMBDA box :
    SmemAccumulation(p, u, pos) \o Sink(p, u, box) \o <<Sync(SmemUnits(p))>> \o Source(p, u, pos, box))

SmemKernel(p) ==
  LET Products(box, i) == {<<"product", box, i, k>> : k \in 0 .. p.depth - 1} IN
  Kernel([u \in SmemUnits(p) |-> SmemSplit(p, u)],
         Sets({<<c, Input(c)>> : c \in UNION {Products(b, i) : b \in 0 .. p.boxes - 1, i \in 0 .. p.cells - 1}}),
         {"output"},
         Sets({<<<<"output", b * p.cells + i>>, [c \in {<<<<x>>, 0>> : x \in Products(b, i)} |-> 1]>> :
                 b \in 0 .. p.boxes - 1, i \in 0 .. p.cells - 1}),
         1)
=============================================================================
