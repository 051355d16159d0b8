----------------------------- MODULE MCCubeKernels -----------------------------
(***************************************************************************)
(* The machine, for the kernels of some families: each of the repository's *)
(* kernels modelled here, at sizes where shares are uneven, tiles hang     *)
(* over the edge and cubes are to spare.                                   *)
(***************************************************************************)
EXTENDS CubeMachine

CONSTANT Launches  \* the families that may be launched

Reduce == INSTANCE ReduceKernels
Fft == INSTANCE FftKernels
Matmul == INSTANCE MatrixMatmul
Pool == INSTANCE PoolKernels
Attention == INSTANCE FoldKernels
Gemms == INSTANCE GemmKernels
Flash == INSTANCE FlashKernels
Conv == INSTANCE ConvKernels
Random == INSTANCE RandomKernels
Quant == INSTANCE QuantKernels
Gradients == INSTANCE AttentionGradients WITH Turns <- 64

\* A device with room for every launch, and the settings most launches have.
Device == [max |-> <<64, 64, 64>>, uniform |-> FALSE, uneven |-> FALSE,
           unchecked |-> FALSE, fused |-> FALSE]

Rows(parallel, rows, len, lanes, writes) ==
  [parallel |-> parallel, rows |-> rows, len |-> len, lanes |-> lanes, writes |-> writes,
   op |-> "sum", k |-> 1, tracked |-> FALSE, slot |-> rows]
Cube(x, y, plane) == [x |-> x, y |-> y, plane |-> plane]

\* A unit, a plane or a cube to each result.
UnitRows == Rows(TRUE, 4, 2, 2, 2) @@ Cube(3, 1, 1) @@ Device
LazyPlanes ==
  [uniform |-> TRUE, eager |-> FALSE] @@ Rows(TRUE, 1, 3, 1, 1) @@ Cube(2, 2, 2) @@ Device
EagerPlanes ==
  [uniform |-> TRUE, uneven |-> TRUE, eager |-> TRUE]
    @@ Rows(FALSE, 2, 3, 2, 1) @@ Cube(4, 1, 2) @@ Device
TreeOfThree == [usePlanes |-> FALSE] @@ Rows(TRUE, 1, 5, 1, 1) @@ Cube(3, 1, 3) @@ Device
TreeOfFive == [usePlanes |-> FALSE] @@ Rows(TRUE, 1, 5, 2, 1) @@ Cube(5, 1, 5) @@ Device
PlanesOfACube == [usePlanes |-> TRUE] @@ Rows(TRUE, 2, 5, 2, 2) @@ Cube(2, 2, 2) @@ Device

\* Two results to a write, each of a tree.
TreesOfAWrite == [usePlanes |-> FALSE] @@ Rows(TRUE, 2, 2, 2, 2) @@ Cube(2, 1, 2) @@ Device
SpareCubes ==
  [max |-> <<2, 2, 4>>, uniform |-> TRUE, usePlanes |-> TRUE]
    @@ Rows(FALSE, 6, 3, 2, 1) @@ Cube(1, 1, 1) @@ Device

\* The k largest of each row, of items with ties, the lowest there is among them.
Mixed == [i \in 0 .. 31 |-> ((i * 7 + (i \div 3)) % 6) - 2]
Ties == [i \in 0 .. 31 |-> IF i % 4 \in {2, 3} THEN 1 ELSE -2]
Lowest == [i \in 0 .. 31 |-> -2]
Top(k, tracked) == [op |-> "top", k |-> k, tracked |-> tracked, values |-> Mixed]
Largest(tracked) == [op |-> "max", tracked |-> tracked, values |-> Mixed]
TopOfPlanes == [uniform |-> TRUE] @@ Rows(TRUE, 1, 5, 1, 1) @@ Cube(4, 1, 4) @@ Device
TopOfColumns(writes) == [slot |-> 2] @@ Rows(FALSE, 4, 3, 2, writes) @@ Cube(2, 1, 1) @@ Device

\* The other instructions.
Primes == <<2, 3, 5, 7, 11, 13, 17, 19, 23, 29>>
Instructions ==
  {[op |-> "mean", tracked |-> FALSE],
   [op |-> "prod", tracked |-> FALSE, values |-> [i \in 0 .. 31 |-> Primes[(i % 10) + 1]]],
   [op |-> "maxabs", tracked |-> FALSE, values |-> [i \in 0 .. 31 |-> ((i * 7) % 9) - 5]],
   [op |-> "any", tracked |-> FALSE, values |-> [i \in 0 .. 31 |-> IF i % 7 = 5 THEN 3 ELSE 0]],
   [op |-> "all", tracked |-> FALSE, values |-> [i \in 0 .. 31 |-> IF i % 7 = 5 THEN 0 ELSE 3]]}
   \union {[op |-> "min", tracked |-> tracked, values |-> [i \in 0 .. 31 |-> -Mixed[i]]] : tracked \in BOOLEAN}

\* More units than results, which the routine was told not to look for.
TooManyUnits ==
  [bounds |-> "none", idle |-> "none"] @@ Rows(TRUE, 3, 1, 1, 1) @@ Cube(2, 1, 1) @@ Device

\* A signal of n, in memory and cubes large enough for it or not.
Signal(n, max, units) ==
  [n |-> n, order |-> n, max |-> max, units |-> units, before |-> 1, after |-> 1, spare |-> 0, dim |-> 2]

\* How cubes are ordered, and the grids a matmul may be launched on.
ByRows == [strips |-> "none", width |-> 1]
ByColumns == [strips |-> "cols", width |-> 1]
Strips(along, width) == [strips |-> along, width |-> width]
Orders == {ByRows, ByColumns, Strips("row", 2), Strips("col", 2), Strips("col", 3)}
Grids ==
  {[strategy |-> Gemms!Simply("problem")], [strategy |-> Gemms!Simply("flattened")],
   [strategy |-> Gemms!Simply("problem"), maxCubes |-> <<2, 2, 2>>],
   [strategy |-> Gemms!OnSms(2, <<0, 1>>, FALSE)], [strategy |-> Gemms!OnSms(4, <<1, 1>>, TRUE)]}

\* The grid, unless given, and one matrix, unless there are batches.
Launch ==
  [strategy |-> Gemms!Simply("flattened"), order |-> ByRows, maxCubes |-> <<64, 8, 8>>,
   lhsBatches |-> <<1>>, rhsBatches |-> <<1>>]

\* A matmul without stages.
Problem(m, n, k, vector, plane) ==
  [m |-> m, n |-> n, k |-> k, lhsColMajor |-> FALSE, rhsColMajor |-> FALSE, lhsVector |-> vector,
   rhsVector |-> vector, plane |-> plane, target |-> 2] @@ Launch
Nothing == [x \in {} |-> 0]

\* How an operand of a matmul is loaded.
How(strategy, order, colmajor, vector) ==
  [strategy |-> strategy, order |-> order, colmajor |-> colmajor, vector |-> vector, copy |-> vector]

OneStage == [kernel |-> "simple", gm |-> 1, gn |-> 1, gb |-> 1, byRows |-> TRUE]
InOneCube == [gm |-> 2, gn |-> 2]

\* Two planes, tiles over the edge of all three axes.
PlaneMatmul ==
  Launch @@ OneStage @@
  [m |-> 3, n |-> 4, k |-> 3, tm |-> 2, tn |-> 2, tk |-> 2, pm |-> 1, pn |-> 2, pk |-> 1, sm |-> 2, sn |-> 1,
   plane |-> 2, unitwise |-> FALSE, lhs |-> How("ordered", "ordered", FALSE, 1),
   rhs |-> How("cyclic", "columns", FALSE, 2), acc |-> How("cyclic", "rows", FALSE, 2),
   vector |-> 2, fused |-> FALSE, double |-> TRUE, rotated |-> FALSE]

\* Two units with a partition of tiles each, and an accumulator to start from.
UnitMatmul ==
  Launch @@ OneStage @@
  [m |-> 2, n |-> 3, k |-> 4, tm |-> 1, tn |-> 2, tk |-> 1, pm |-> 2, pn |-> 1, pk |-> 2, sm |-> 1, sn |-> 2,
   plane |-> 2, unitwise |-> TRUE, lhs |-> How("strided", "rows", TRUE, 2),
   rhs |-> How("tilewise", "rows", FALSE, 1), acc |-> How("cyclic", "rows", FALSE, 1),
   vector |-> 1, fused |-> TRUE, double |-> FALSE, rotated |-> TRUE]

\* Both operands loaded alike, by copies of two elements where they are asynchronous.
Loaded(strategy, lhsColMajor, rhsColMajor) ==
  LET Operand(colmajor) ==
        CASE strategy = "tma" -> How("tma", IF colmajor THEN "rows" ELSE "columns", colmajor, 1)
          [] strategy \in {"async_cyclic", "async_strided"} -> [copy |-> 2] @@ How(strategy, "rows", colmajor, 1)
          [] OTHER -> How(strategy, "rows", colmajor, 1) IN
  [lhs |-> Operand(lhsColMajor), rhs |-> Operand(rhsColMajor)]

\* Three stages along k, the last of them cut, by two buffered planes.
Buffered(routine) ==
  Launch @@ [kernel |-> routine] @@ OneStage @@
  [m |-> 2, n |-> 3, k |-> 5, tm |-> 1, tn |-> 2, tk |-> 2, pm |-> 1, pn |-> 2, pk |-> 1, sm |-> 2, sn |-> 1,
   plane |-> 1, unitwise |-> FALSE, lhs |-> How("tilewise", "rows", FALSE, 1),
   rhs |-> How("tilewise", "columns", FALSE, 1), acc |-> How("cyclic", "rows", FALSE, 1),
   vector |-> 1, fused |-> FALSE, double |-> TRUE, rotated |-> FALSE]

\* A unit to a cube, and an element to a stage.
TinyMatmul(m, n) ==
  Launch @@ OneStage @@
  [m |-> m, n |-> n, k |-> 1, tm |-> 1, tn |-> 1, tk |-> 1, pm |-> 1, pn |-> 1, pk |-> 1, sm |-> 1, sn |-> 1,
   plane |-> 1, unitwise |-> TRUE, lhs |-> How("cyclic", "rows", FALSE, 1), rhs |-> How("cyclic", "rows", FALSE, 1),
   acc |-> How("cyclic", "rows", FALSE, 1), vector |-> 1, fused |-> FALSE, double |-> FALSE, rotated |-> FALSE]

\* Pooling of one axis: every small window the input fits in, that sees some of
\* it at every output.
Window(in, out, size, stride, padding, dilation) ==
  [batch |-> 1, channels |-> 1, in |-> in, out |-> out, size |-> size, stride |-> stride,
   padding |-> padding, dilation |-> dilation, countPad |-> FALSE, vector |-> 1, spare |-> 1,
   scale |-> 144, value |-> [x \in 0 .. 15 |-> (3 * x) % 4]]
OneAxis(in, size, stride, padding, dilation, ceil) ==
  LET room == in + 2 * padding - ((size - 1) * dilation + 1) IN
  Window(<<in>>, <<(IF ceil THEN Pool!CeilDiv(room, stride) ELSE room \div stride) + 1>>,
         <<size>>, <<stride>>, <<padding>>, <<dilation>>)
Sees(p) == \A o \in Pool!Positions(p.out) : Pool!WindowOf(p, o) # {}
Windows(dilations) ==
  {p \in {OneAxis(in, size, stride, padding, dilation, ceil) :
            in \in {3, 5}, size \in 1 .. 3, stride \in 1 .. 3, padding \in 0 .. 1,
            dilation \in dilations, ceil \in BOOLEAN} :
     Len(p.out) = 1 /\ p.out[1] \in 1 .. 6 /\ Sees(p)}

\* Two axes, batches and vectors of channels.
Plane ==
  [channels |-> 2, vector |-> 2, batch |-> 2]
    @@ Window(<<1, 2>>, <<1, 3>>, <<1, 2>>, <<2, 1>>, <<0, 1>>, <<1, 1>>)

Adaptive(in, out) == Window(in, out, in, in, in, in)

\* A streamed fold of `bound` keys by planes of `units` units.
Stream(rows, d, bound, units, splits) ==
  [rows |-> rows, d |-> d, bound |-> bound, block |-> 4, units |-> units, splits |-> splits,
   unitFloats |-> 4, chunk |-> 2, stageFloats |-> 8, fused |-> TRUE, inner |-> FALSE]

\* A fold through shared tiles, and a softmax of given scores.
Fold(rows, qRows, d, bound, units, splits) ==
  [qRows |-> qRows, boundQ |-> qRows, originQ |-> 0, causal |-> FALSE, hidden |-> {}, budget |-> 2, vector |-> 1,
   inPlace |-> FALSE] @@ Stream(rows, d, bound, units, splits)
Softmax(rows, bound, units, plane) ==
  [block |-> 3, blocks |-> 2, plane |-> plane] @@ Fold(rows, rows, 1, bound, units, 1)

\* Attention of q queries to kv keys, by units with a row or two each, or by
\* planes whose fragments bounce.
Attend(q, kv, d, dv) ==
  [q |-> q, d |-> d, kv |-> kv, dv |-> dv, tq |-> 1, td |-> 1, tkv |-> 2, tv |-> 1, pq |-> 1, pkv |-> 1,
   sm |-> 2, sn |-> 1, plane |-> 1, unitwise |-> TRUE, splitRows |-> FALSE, vector |-> 1, causal |-> FALSE,
   hidden |-> {}] @@ Launch
\* The gradients of attention.
Gradient(heads, seqQ, seqKv, causal) ==
  [heads |-> heads, seqQ |-> seqQ, seqKv |-> seqKv, dim |-> 2, val |-> 2, scale |-> 2, causal |-> causal, spare |-> 1]
Bouncing == [unitwise |-> FALSE, plane |-> 2]

\* A fill of `len` numbers, by lines of `lanes` and draws of `perDraw` lines.
Fill(len, lanes, perDraw, blocked) ==
  [len |-> len, lanes |-> lanes, perDraw |-> perDraw, blocked |-> blocked, perThread |-> 4, x |-> 2, minRun |-> 2, budget |-> 3,
   spare |-> 1]

\* A tensor to quantize and read back.
Quantized(shape, block, strides, quants, vector) ==
  [shape |-> shape, block |-> block, strides |-> strides, quants |-> quants, vector |-> vector,
   readVector |-> vector, global |-> TRUE, spare |-> 1]

\* A convolution of one axis or two, forward or backward, by cubes of two units
\* with a tile each unless told otherwise.
Convolve(op, channels, outChannels, in, size, stride, padding, dilation) ==
  [op |-> op, batches |-> 1, channels |-> channels, outChannels |-> outChannels, in |-> in, size |-> size,
   stride |-> stride, padding |-> padding, dilation |-> dilation, align |-> 1, groups |-> 1, bias |-> FALSE,
   out |-> [d \in DOMAIN in |->
              (in[d] + 2 * padding[d] - (size[d] - 1) * dilation[d] - 1) \div stride[d] + 1]]
ConvTiles(lhsColMajor, rhsColMajor) ==
  Launch @@ OneStage @@
  [tm |-> 2, tn |-> 1, tk |-> 2, pm |-> 1, pn |-> 1, pk |-> 1, sm |-> 1, sn |-> 2, plane |-> 2, unitwise |-> TRUE,
   lhs |-> How("cyclic", "rows", lhsColMajor, 1), rhs |-> How("cyclic", "columns", rhsColMajor, 1),
   acc |-> How("bias", "rows", FALSE, 1), vector |-> 1, double |-> FALSE, rotated |-> FALSE]

\* The families.
Families ==
  {"unit", "plane", "eager_plane", "tree3", "tree5", "tree_writes", "cube_planes",
   "topk_unit", "topk_planes", "topk_cube", "instructions", "topk_widths", "topk_low",
   "spare_cubes", "shared_sum", "unit_forced", "cfft4", "cfft8", "four_step8",
   "rfft4", "rfft8", "long_rfft8", "irfft4", "irfft8", "avg_pool", "max_pool",
   "pool_plane", "adaptive_pool", "stream_teams", "stream_splits",
   "merge_cells", "merge_rows", "fold", "fold_splits", "softmax",
   "softmax_planes", "smem", "plane_matmul", "unit_matmul", "matmul_async", "matmul_buffered", "matmul_grids",
   "gemm", "gemm_grids", "gemv", "naive",
   "flash_units", "flash_planes", "flash_rows", "gradients", "random", "quant", "quant_wide",
   "conv_forward", "conv_data", "conv_weight", "conv_ragged", "conv_direct", "conv_depthwise"}

\* The kernels of a family.
KernelsOf(family) ==
  CASE family = "unit" ->
         {Reduce!ReduceKernel(Reduce!InferredUnit(UnitRows), Reduce!UnitReduce)}
    [] family = "plane" ->
         {Reduce!ReduceKernel(Reduce!InferredPlane(LazyPlanes), Reduce!PlaneReduceKernel)}
    [] family = "eager_plane" ->
         {Reduce!ReduceKernel(Reduce!InferredPlane(EagerPlanes), Reduce!PlaneReduceKernel)}
    [] family = "tree3" ->
         {Reduce!ReduceKernel(Reduce!InferredCube(TreeOfThree), Reduce!CubeReduce)}
    [] family = "tree5" ->
         {Reduce!ReduceKernel(Reduce!InferredCube(TreeOfFive), Reduce!CubeReduce)}
    [] family = "tree_writes" ->
         {Reduce!ReduceKernel(Reduce!InferredCube(TreesOfAWrite), Reduce!CubeReduce)}
    [] family = "cube_planes" ->
         {Reduce!ReduceKernel(Reduce!InferredCube(PlanesOfACube), Reduce!CubeReduce)}
    [] family = "spare_cubes" ->
         {Reduce!ReduceKernel(Reduce!InferredCube(SpareCubes), Reduce!CubeReduce)}
    [] family = "topk_unit" ->
         {Reduce!ReduceKernel(Reduce!InferredUnit(Top(2, TRUE) @@ UnitRows), Reduce!UnitReduce),
          Reduce!ReduceKernel(Reduce!InferredUnit(Top(2, FALSE) @@ TopOfColumns(2)), Reduce!UnitReduce),
          Reduce!ReduceKernel(Reduce!InferredUnit(Largest(TRUE) @@ TopOfColumns(1)), Reduce!UnitReduce)}
    [] family = "topk_planes" ->
         {Reduce!ReduceKernel(Reduce!InferredPlane([eager |-> eager, values |-> values] @@ top @@ TopOfPlanes), Reduce!PlaneReduceKernel) :
            eager \in BOOLEAN, values \in {Mixed, Ties, Lowest},
            top \in {Top(3, TRUE), Top(2, FALSE), Largest(TRUE), Largest(FALSE)}}
    [] family = "topk_cube" ->
         {Reduce!ReduceKernel(Reduce!InferredCube(Top(2, TRUE) @@ TreeOfThree), Reduce!CubeReduce),
          Reduce!ReduceKernel(Reduce!InferredCube([values |-> Ties] @@ Top(2, TRUE) @@ PlanesOfACube), Reduce!CubeReduce),
          Reduce!ReduceKernel(Reduce!InferredCube(Largest(TRUE) @@ PlanesOfACube), Reduce!CubeReduce)}
    [] family = "instructions" ->
         UNION {{Reduce!ReduceKernel(Reduce!InferredUnit(i @@ TopOfColumns(2)), Reduce!UnitReduce),
                 Reduce!ReduceKernel(Reduce!InferredPlane([eager |-> TRUE] @@ i @@ TopOfPlanes), Reduce!PlaneReduceKernel),
                 Reduce!ReduceKernel(Reduce!InferredPlane([eager |-> FALSE] @@ i @@ TopOfPlanes), Reduce!PlaneReduceKernel),
                 Reduce!ReduceKernel(Reduce!InferredCube(i @@ TreeOfThree), Reduce!CubeReduce),
                 Reduce!ReduceKernel(Reduce!InferredUnit(i @@ UnitRows), Reduce!UnitReduce)} : i \in Instructions}
    [] family = "topk_widths" ->
         {Reduce!ReduceKernel(Reduce!InferredUnit(Top(2, TRUE) @@ TopOfColumns(1)), Reduce!UnitReduce)}
    [] family = "topk_low" ->
         {Reduce!ReduceKernel(Reduce!InferredUnit([values |-> [i \in 0 .. 31 |-> IF i = 0 THEN 1 ELSE -3]] @@ Top(2, TRUE) @@ UnitRows),
                              Reduce!UnitReduce)}
    [] family = "shared_sum" ->
         {Reduce!SharedSumKernel([cubes |-> 2] @@ Rows(TRUE, 1, 7, 2, 1) @@ Cube(2, 1, 1))}
    [] family = "unit_forced" ->
         {Reduce!ReduceKernel(Reduce!ForcedUnit(TooManyUnits), Reduce!UnitReduce)}
    [] family = "cfft4" ->
         {Fft!CfftKernel([after |-> 2, launched |-> 4] @@ Signal(4, 4, 2), "output", 1)}
    [] family = "cfft8" ->
         {Fft!CfftKernel([launched |-> 4] @@ Signal(8, 8, 4), "input", -1)}
    [] family = "four_step8" ->
         {Fft!CfftKernel([launched |-> 8] @@ Signal(8, 4, 1), "output", -1)}
    [] family = "rfft4" ->
         {Fft!RfftKernel([len |-> 3, used |-> 3, launched |-> 4, before |-> 2] @@ Signal(4, 4, 2))}
    [] family = "rfft8" ->
         {Fft!RfftKernel([len |-> 8, used |-> 7, launched |-> 6] @@ Signal(8, 4, 2))}
    [] family = "long_rfft8" ->
         {Fft!RfftKernel([len |-> 8, used |-> 8, launched |-> 6] @@ Signal(8, 2, 1))}
    [] family = "irfft4" ->
         {Fft!IrfftKernel([len |-> 3, used |-> 3, launched |-> 4, after |-> 2] @@ Signal(4, 4, 2))}
    [] family = "irfft8" ->
         {Fft!IrfftKernel([len |-> 5, used |-> 4, launched |-> 4] @@ Signal(8, 4, 2))}
    [] family = "avg_pool" ->
         UNION {Pool!AvgKernels([countPad |-> pad] @@ p) : p \in Windows({1}), pad \in BOOLEAN}
    [] family = "max_pool" ->
         UNION {Pool!MaxKernels([scale |-> 1] @@ p) : p \in Windows({1, 2})}
    [] family = "pool_plane" ->
         Pool!AvgKernels(Plane) \union Pool!MaxKernels([scale |-> 1] @@ Plane)
    [] family = "adaptive_pool" ->
         UNION {Pool!AdaptiveKernels(Adaptive(<<in>>, <<out>>)) : in \in 1 .. 5, out \in 1 .. 5}
         \union Pool!AdaptiveKernels(Adaptive(<<1, 3, 2>>, <<2, 1, 3>>))
    [] family = "stream_teams" ->
         {Attention!StreamKernel(Stream(1, 3, 5, 4, 1))}
    [] family = "stream_splits" ->
         {Attention!StreamKernel(Stream(2, 1, 6, 2, 2)), Attention!StreamKernel(Stream(1, 2, 0, 1, 2))}
    [] family = "merge_cells" ->
         {Attention!StreamKernel([fused |-> FALSE, inner |-> inner] @@ Stream(2, 1, 6, 2, 2)) : inner \in BOOLEAN}
    [] family = "merge_rows" ->
         {Attention!StreamKernel([fused |-> FALSE, inner |-> inner] @@ Stream(3, 1, 5, 1, 2)) : inner \in BOOLEAN}
    [] family = "fold" ->
         {Attention!FoldKernel(Fold(3, 3, 2, 6, 2, 1)),
          Attention!FoldKernel([block |-> 2, causal |-> TRUE, inPlace |-> TRUE, vector |-> 2, boundQ |-> 3, originQ |-> 1]
                                  @@ Fold(6, 3, 2, 6, 3, 1))}
    [] family = "fold_splits" ->
         {Attention!FoldKernel([causal |-> TRUE, block |-> 2, inner |-> inner] @@ Fold(2, 2, 1, 6, 1, 3)) :
            inner \in BOOLEAN}
         \union {Attention!FoldKernel([block |-> 2] @@ Fold(2, 1, 1, 5, 2, 2))}
    [] family = "softmax" ->
         {Attention!SoftmaxKernel(Softmax(3, 5, 2, 1)),
          Attention!SoftmaxKernel([hidden |-> {<<1, 0>>, <<1, 1>>, <<1, 2>>, <<1, 3>>, <<1, 4>>, <<2, 4>>}]
                                     @@ Softmax(3, 5, 2, 1))}
    [] family = "softmax_planes" ->
         {Attention!SoftmaxKernel([causal |-> TRUE, hidden |-> {<<0, 0>>}] @@ Softmax(3, 6, 4, 2))}
    [] family = "smem" ->
         {Attention!SmemKernel([plane |-> 1, planes |-> 3, cells |-> 4, width |-> 2, depth |-> 6, boxes |-> 3]),
          Attention!SmemKernel([plane |-> 2, planes |-> 2, cells |-> 3, width |-> 1, depth |-> 2, boxes |-> 2])}
    [] family = "plane_matmul" ->
         {Matmul!MatmulKernel(PlaneMatmul)}
    [] family = "unit_matmul" ->
         {Matmul!MatmulKernel(UnitMatmul)}
    [] family = "matmul_async" ->
         Matmul!MatmulKernels({Loaded(strategy, lhsColMajor, rhsColMajor) @@ PlaneMatmul :
           strategy \in {"strided", "async_cyclic", "async_strided", "tma"}, lhsColMajor \in BOOLEAN, rhsColMajor \in BOOLEAN})
    [] family = "matmul_buffered" ->
         Matmul!MatmulKernels(
           {Loaded(strategy, colmajor, ~colmajor) @@ Buffered("double") :
              strategy \in {"cyclic", "async_cyclic", "async_strided", "tma"}, colmajor \in BOOLEAN}
           \union {[k |-> 6] @@ Buffered("double"),
                   [unitwise |-> TRUE, plane |-> 2] @@ Loaded("cyclic", FALSE, TRUE) @@ Buffered("double"),
                   [gm |-> 2, m |-> 3, lhs |-> How("ordered", "ordered", FALSE, 1), rhs |-> How("cyclic", "rows", FALSE, 1)]
                     @@ Buffered("ordered")})
    [] family = "matmul_grids" ->
         {Matmul!MatmulKernel([maxCubes |-> <<2, 2, 2>>] @@ TinyMatmul(3, 1)),
          Matmul!MatmulKernel([order |-> Strips("row", 2), rhsBatches |-> <<2>>, gb |-> 2] @@ TinyMatmul(2, 1)),
          Matmul!MatmulKernel([tm |-> 2] @@ TinyMatmul(3, 1)), Matmul!MatmulKernel([gn |-> 2] @@ TinyMatmul(1, 4))}
         \union {Matmul!MatmulKernel([byRows |-> byRows, lhsBatches |-> <<2>>, gm |-> 2, gn |-> 2, gb |-> 2] @@ TinyMatmul(2, 2)) :
                   byRows \in BOOLEAN}
    [] family = "gemm" ->
         UNION {Gemms!GemmKernel([lhsColMajor |-> TRUE] @@ Problem(1, 3, 4, 1, 2), Nothing),
                Gemms!GemmKernel(Problem(3, 1, 4, 2, 2), Nothing),
                Gemms!GemmKernel(Problem(1, 3, 2, 1, 2), [check |-> "checked"]),
                Gemms!GemmKernel([lhsBatches |-> <<2>>] @@ Problem(3, 2, 4, 2, 1), Nothing),
                Gemms!GemmKernel([lhsColMajor |-> TRUE, rhsColMajor |-> TRUE, rhsBatches |-> <<2>>]
                                   @@ Problem(4, 3, 2, 2, 1), Nothing)}
    [] family = "gemm_grids" ->
         UNION {Gemms!GemmKernel([order |-> order] @@ grid @@ Problem(size[1], size[2], 1, 1, 1), [planes |-> 1]) :
                  order \in Orders, grid \in Grids, size \in {<<1, 4>>, <<4, 1>>, <<3, 1>>, <<2, 2>>}}
         \union Gemms!GemmKernel([order |-> Strips("row", 2)] @@ Problem(4, 2, 1, 1, 1), [planes |-> 1])
    [] family = "gemv" ->
         UNION {Gemms!GemvKernel([rhsBatches |-> <<2>>] @@ Problem(1, 2, 2, 1, 2), Nothing),
                Gemms!GemvKernel(Problem(1, 6, 4, 1, 2), Nothing),
                Gemms!GemvKernel(Problem(1, 3, 3, 1, 2), Nothing),
                Gemms!GemvKernel([lhsColMajor |-> TRUE] @@ Problem(1, 6, 6, 2, 2), Nothing)}
    [] family = "naive" ->
         {Gemms!NaiveKernel([lhsVector |-> 1, planes |-> 2, lhsBatches |-> <<2, 1>>, rhsBatches |-> <<1, 2>>]
                              @@ Problem(1, 2, 2, 2, 2)),
          Gemms!NaiveKernel([planes |-> 2] @@ Problem(3, 1, 4, 2, 2))}
    [] family = "flash_units" ->
         {Flash!FlashKernel([tq |-> 2, causal |-> TRUE, hidden |-> {<<2, 1>>, <<0, 0>>}] @@ Attend(3, 5, 2, 2)),
          Flash!FlashKernel([tq |-> 2, pq |-> 2, sm |-> 1, pkv |-> 2, td |-> 2, tv |-> 2, vector |-> 2,
                             lhsBatches |-> <<2, 1>>, rhsBatches |-> <<1, 1>>] @@ Attend(3, 3, 2, 2))}
    [] family = "flash_planes" ->
         {Flash!FlashKernel([tq |-> 2, td |-> 2, tv |-> 2, splitRows |-> TRUE, sm |-> 1] @@ Bouncing @@ Attend(2, 3, 2, 2)),
          Flash!FlashKernel([tq |-> 2, td |-> 2, causal |-> TRUE] @@ Bouncing @@ Attend(4, 3, 2, 1))}
    [] family = "flash_rows" ->
         {Flash!FlashKernel([tq |-> 2, tkv |-> 4, td |-> 2, tv |-> 2, plane |-> 4, sm |-> 1] @@ Bouncing @@ Attend(2, 5, 2, 2))}
    [] family = "gradients" ->
         {Gradients!BackwardKernel(Gradient(1, 2, 3, causal)) : causal \in BOOLEAN}
           \union {Gradients!BackwardKernel([val |-> 1] @@ Gradient(1, 3, 2, TRUE)),
                   Gradients!BackwardKernel([dim |-> 1] @@ Gradient(2, 1, 2, TRUE))}
    [] family = "random" ->
         {Random!RandomKernel(Fill(len * lanes, lanes, perDraw, blocked)) :
            len \in {1, 3, 7, 8}, lanes \in {1, 2}, perDraw \in {1, 2}, blocked \in BOOLEAN}
    [] family = "quant" ->
         Quant!QuantKernels({[readVector |-> how[2], global |-> global] @@ Quantized(<<2, 4>>, grid[1], grid[2], how[1], 2) :
                               how \in {<<1, 2>>, <<2, 1>>, <<2, 2>>}, global \in BOOLEAN,
                               grid \in {<<<<>>, <<>>>>, <<<<2, 2>>, <<4, 2>>>>, <<<<1, 4>>, <<1, 1>>>>}}
                              \union {Quantized(<<1, 3>>, <<1, 2>>, <<2, 1>>, 1, 1), [readVector |-> 4] @@ Quantized(<<1, 4>>, <<1, 4>>, <<1, 1>>, 1, 2)})
    [] family = "quant_wide" ->
         Quant!QuantKernels({[readVector |-> 4] @@ Quantized(<<1, 4>>, <<1, 2>>, <<2, 1>>, 1, 2)})
    [] family = "conv_forward" ->
         {Conv!ConvMatmul([bias |-> TRUE, align |-> 2] @@ InOneCube @@ Convolve("forward", 1, 3, <<3>>, <<2>>, <<1>>, <<1>>, <<2>>)
                            @@ ConvTiles(FALSE, TRUE)),
          Conv!ConvMatmul([batches |-> 2] @@ Convolve("forward", 1, 1, <<1, 3>>, <<1, 2>>, <<1, 2>>, <<0, 1>>, <<1, 1>>)
                            @@ ConvTiles(FALSE, TRUE))}
    [] family = "conv_data" ->
         {Conv!ConvMatmul([align |-> 2, gm |-> 2] @@ Convolve("data", 2, 3, <<3>>, <<2>>, <<2>>, <<1>>, <<1>>) @@ ConvTiles(FALSE, FALSE)),
          Conv!ConvMatmul(Convolve("data", 1, 2, <<1, 4>>, <<1, 2>>, <<1, 1>>, <<0, 0>>, <<1, 2>>) @@ ConvTiles(FALSE, FALSE))}
    [] family = "conv_weight" ->
         {Conv!ConvMatmul([align |-> 2] @@ InOneCube @@ Convolve("weight", 1, 3, <<3>>, <<2>>, <<1>>, <<1>>, <<1>>) @@ ConvTiles(TRUE, FALSE)),
          Conv!ConvMatmul([batches |-> 2] @@ Convolve("weight", 1, 1, <<1, 3>>, <<1, 2>>, <<1, 2>>, <<0, 1>>, <<1, 1>>)
                            @@ ConvTiles(TRUE, FALSE))}
    [] family = "conv_direct" ->
         {Conv!DirectKernel([groups |-> 2, bias |-> TRUE, vector |-> 2, lanes |-> 2, spare |-> 1]
                              @@ Convolve("forward", 4, 4, <<3>>, <<2>>, <<2>>, <<1>>, <<2>>)),
          Conv!DirectKernel([batches |-> 2, vector |-> 1, lanes |-> 1, spare |-> 0]
                              @@ Convolve("forward", 1, 2, <<1, 3>>, <<1, 2>>, <<1, 1>>, <<0, 0>>, <<1, 1>>))}
    [] family = "conv_depthwise" ->
         {Conv!DepthwiseKernel([batches |-> 2, groups |-> 1, rows |-> 2, cols |-> 3, plane |-> 2, width |-> 1, chans |-> 1]
                                 @@ Convolve("forward", 1, 1, <<1, 3>>, <<1, 2>>, <<1, 1>>, <<0, 0>>, <<1, 1>>)),
          Conv!DepthwiseKernel([groups |-> 4, rows |-> 2, cols |-> 2, plane |-> 1, width |-> 2, chans |-> 2]
                                 @@ Convolve("forward", 4, 4, <<2, 4>>, <<2, 2>>, <<1, 3>>, <<1, 1>>, <<1, 2>>)),
          Conv!DepthwiseKernel([groups |-> 5, rows |-> 1, cols |-> 1, plane |-> 2, width |-> 1, chans |-> 2]
                                 @@ Convolve("forward", 5, 5, <<2, 1>>, <<2, 1>>, <<1, 1>>, <<0, 0>>, <<1, 1>>))}
    [] family = "conv_ragged" ->
         {Conv!ConvMatmul([tn |-> 2] @@ Convolve("weight", 1, 2, <<3>>, <<3>>, <<1>>, <<1>>, <<1>>) @@ ConvTiles(TRUE, FALSE))}

ASSUME LaunchesAssumption == Launches \subseteq Families

Launched ==
  LET KernelsIn(family) == KernelsOf(family) IN
  [family \in Launches |-> KernelsIn(family)]
=============================================================================
