----------------------------- MODULE PoolKernels -----------------------------
(***************************************************************************)
(* The poolings of cubek-pool and their gradients, over one axis or        *)
(* several: a unit to each vector of channels of the answer, which gathers *)
(* what it needs.                                                          *)
(*                                                                         *)
(* A problem p holds the batches and channels, the sizes `in` and `out` of *)
(* the pooled axes, the window (size, stride, padding and dilation along   *)
(* each axis), whether padding counts, the vector size and the units       *)
(* launched to spare.  What is divided is counted p.scale times.           *)
(***************************************************************************)
EXTENDS NhwcTensors

Axes(p) == DOMAIN p.in

Full(p, sizes) == <<p.batch>> \o sizes \o <<p.channels>>

Cell(p, name, sizes, position, spatial) ==
  <<name, Offset(Full(p, sizes), <<Head(position)>> \o spatial \o <<position[Len(position)]>>)>>

\* A unit to each vector of the answer, and some to spare.
Elementwise(p, answer, sizes, Terms(_)) ==
  LET total == Size(Full(p, sizes))
      working == total \div p.vector IN
  [u \in 0 .. working - 1 + p.spare |->
    When(u < working,
         <<Do(u, [c \in {<<answer, u * p.vector + lane>> : lane \in 0 .. p.vector - 1} |->
                    Terms(DecomposeLinear(Full(p, sizes), c[2]))])>>)]

Whole(p, name, sizes, Value(_)) ==
  LET shape == Full(p, sizes) IN
  Sets({<<<<name, i>>, Value(DecomposeLinear(shape, i))>> : i \in 0 .. Size(shape) - 1})
Given(p, name, sizes) ==
  [c \in {<<name, i>> : i \in 0 .. Size(Full(p, sizes)) - 1} |-> Times(Input(c), p.scale, 1)]
-----------------------------------------------------------------------------
(* Windows.                                                                *)

\* `pool2d_direct`: where tap k of the window of output o is in the padded
\* input, in the input, and whether it is inside.
Padded(p, o, k) == [d \in Axes(p) |-> o[d] * p.stride[d] + k[d] * p.dilation[d]]
Unpadded(p, at) == [d \in Axes(p) |-> at[d] - p.padding[d]]
Inside(p, at) == \A d \in Axes(p) : at[d] >= p.padding[d] /\ at[d] < p.in[d] + p.padding[d]
Taps(p) == Box([d \in Axes(p) |-> <<0, p.size[d]>>])
TapsInside(p, o) == SelectSeq(Taps(p), LAMBDA k : Inside(p, Padded(p, o, k)))

\* `AvgPoolStrategy`: the positions counted are those inside, or all but the
\* extension of `ceil_mode`.
AvgCount(p, o) ==
  IF p.countPad
  THEN Len(SelectSeq(Taps(p), LAMBDA k :
             \A d \in Axes(p) : Padded(p, o, k)[d] < p.in[d] + 2 * p.padding[d]))
  ELSE Len(TapsInside(p, o))

AvgPool(p, position) ==
  LET o == Spatial(position)
      taps == TapsInside(p, o) IN
  [i \in DOMAIN taps |->
    Term(Cell(p, "input", p.in, position, Unpadded(p, Padded(p, o, taps[i]))), 0, 1, AvgCount(p, o), FALSE)]

\* `MaxPoolWithIndicesStrategy`: of the taps read in turn, the first none of the
\* others is above; p.value orders the inputs of a channel.
Place(p, i) == Offset(p.in, i)
MaxIndex(p, o) ==
  LET taps == TapsInside(p, o)
      At(k) == Unpadded(p, Padded(p, o, k))
      upTo[n \in 1 .. Len(taps)] ==
        IF n = 1 THEN At(taps[1])
        ELSE IF p.value[Place(p, At(taps[n]))] > p.value[Place(p, upTo[n - 1])] THEN At(taps[n])
        ELSE upTo[n - 1] IN
  upTo[Len(taps)]

\* Every tap inside is read, and the largest kept.
MaxPool(p, position) ==
  LET o == Spatial(position)
      taps == TapsInside(p, o)
      At(k) == Unpadded(p, Padded(p, o, k)) IN
  [i \in DOMAIN taps |->
    Term(Cell(p, "input", p.in, position, At(taps[i])), 0,
         IF At(taps[i]) = MaxIndex(p, o) THEN 1 ELSE 0, 1, FALSE)]

\* `loop_ranges`: the outputs whose windows may hold input i along axis d.
LoopRange(p, d, i) ==
  LET kms == p.dilation[d] * p.size[d] - p.stride[d]
      start == LargerOf(TruncatedDiv(i + p.padding[d] - kms, p.stride[d]), 0) IN
  <<start, LowerOf(LargerOf(kms, 0) + start, p.out[d] - 1) + 1>>
LoopRanges(p, i) == Box([d \in Axes(p) |-> LoopRange(p, d, i[d])])

\* `avg_pool2d_backward_kernel`: the gradients of the windows input i is in,
\* each by the positions its window counts.
AvgPoolBackward(p, position) ==
  LET i == Spatial(position)
      Begin(o, d) == LargerOf(o[d] * p.stride[d], p.padding[d])
      End(o, d) == LowerOf(o[d] * p.stride[d] + p.size[d], p.in[d] + p.padding[d])
      Counted(o, d) ==
        IF p.countPad THEN LowerOf(p.size[d], p.in[d] + 2 * p.padding[d] - o[d] * p.stride[d])
        ELSE End(o, d) - Begin(o, d)
      windows == SelectSeq(LoopRanges(p, i), LAMBDA o :
                   \A d \in Axes(p) : i[d] + p.padding[d] >= Begin(o, d) /\ i[d] < End(o, d)) IN
  [n \in DOMAIN windows |->
    Term(Cell(p, "grad", p.out, position, windows[n]), 0, 1,
         Size([d \in Axes(p) |-> Counted(windows[n], d)]), FALSE)]

\* `max_pool2d_with_indices_backward_kernel`: those whose largest it is.
MaxPoolBackward(p, position) ==
  LET i == Spatial(position)
      windows == LoopRanges(p, i) IN
  [n \in DOMAIN windows |->
    Term(Cell(p, "grad", p.out, position, windows[n]), 0,
         IF MaxIndex(p, windows[n]) = i THEN 1 ELSE 0, 1, FALSE)]
-----------------------------------------------------------------------------
(* Adaptive windows.                                                       *)

StartIndex(o, out, in) == (o * in) \div out
EndIndex(o, out, in) == LowerOf(CeilDiv((o + 1) * in, out), in)
AdaptiveRange(from, to, at) ==
  [d \in DOMAIN from |-> <<StartIndex(at[d], from[d], to[d]), EndIndex(at[d], from[d], to[d])>>]
Volume(ranges) == Size([d \in DOMAIN ranges |-> ranges[d][2] - ranges[d][1]])

\* `adaptive_avg_pool2d_direct` and `adaptive_avg_pool3d_direct`.
AdaptiveAvgPool(p, position) ==
  LET ranges == AdaptiveRange(p.out, p.in, Spatial(position))
      inputs == Box(ranges) IN
  [n \in DOMAIN inputs |->
    Term(Cell(p, "input", p.in, position, inputs[n]), 0, 1, Volume(ranges), FALSE)]

\* Their gradients: of the outputs that may hold input i, those that do.
AdaptiveAvgPoolBackward(p, position) ==
  LET i == Spatial(position)
      RangesOf(o) == AdaptiveRange(p.out, p.in, o)
      windows == SelectSeq(Box(AdaptiveRange(p.in, p.out, i)), LAMBDA o :
                   \A d \in Axes(p) : i[d] >= RangesOf(o)[d][1] /\ i[d] < RangesOf(o)[d][2]) IN
  [n \in DOMAIN windows |->
    Term(Cell(p, "grad", p.out, position, windows[n]), 0, 1, Volume(RangesOf(windows[n])), FALSE)]
-----------------------------------------------------------------------------
(* The kernels, and poolings by their definition: the mean of the inputs   *)
(* of a window, or their maximum; a gradient flows back where it came from.*)

\* The positions of the padded input in the window of output o, those of the
\* input itself, and those an adaptive window overlaps.
Holds(p, o, x) ==
  \E k \in Positions(p.size) :
    \A d \in Axes(p) : x[d] + p.padding[d] = o[d] * p.stride[d] + k[d] * p.dilation[d]
WindowOf(p, o) == {x \in Positions(p.in) : Holds(p, o, x)}
PaddedWindowOf(p, o) ==
  {x \in Positions([d \in Axes(p) |-> p.in[d] + 2 * p.padding[d]]) : Holds(p, o, Unpadded(p, x))}
AdaptiveWindowOf(p, o) ==
  {x \in Positions(p.in) : \A d \in Axes(p) :
     (x[d] + 1) * p.out[d] > o[d] * p.in[d] /\ x[d] * p.out[d] < (o[d] + 1) * p.in[d]}

\* The first of the largest inputs of a window.
Largest(p, o) ==
  LET Value(x) == p.value[Place(p, x)] IN
  CHOOSE x \in WindowOf(p, o) : \A y \in WindowOf(p, o) \ {x} :
    Value(y) < Value(x) \/ (Value(y) = Value(x) /\ Place(p, y) > Place(p, x))

\* Each of `cells` once over `over`.
Mean(p, cells, Count(_)) ==
  [t \in {<<<<c>>, 0>> : c \in cells} |-> p.scale \div Count(Head(t[1]))]

ForwardKernel(p, Terms(_, _), Window(_, _), Count(_, _)) ==
  Kernel(Elementwise(p, "output", p.out, LAMBDA at : Terms(p, at)),
         Given(p, "input", p.in), {"output"},
         Whole(p, "output", p.out, LAMBDA at :
           Mean(p, {Cell(p, "input", p.in, at, x) : x \in Window(p, Spatial(at))},
                LAMBDA c : Count(p, Spatial(at)))),
         1)

BackwardKernel(p, Terms(_, _), Window(_, _), Count(_, _)) ==
  Kernel(Elementwise(p, "output", p.in, LAMBDA at : Terms(p, at)),
         Given(p, "grad", p.out), {"output"},
         Whole(p, "output", p.in, LAMBDA at :
           Mean(p, {Cell(p, "grad", p.out, at, o) :
                      o \in {x \in Positions(p.out) : Spatial(at) \in Window(p, x)}},
                LAMBDA c : Count(p, Spatial(DecomposeLinear(Full(p, p.out), c[2]))))),
         1)

MeanOver(p, o) == Cardinality(IF p.countPad THEN PaddedWindowOf(p, o) ELSE WindowOf(p, o))
AvgKernels(p) ==
  {ForwardKernel(p, AvgPool, WindowOf, MeanOver),
   BackwardKernel(p, AvgPoolBackward, WindowOf, MeanOver)}

One(p, o) == 1
OnlyLargest(p, o) == {Largest(p, o)}
MaxKernels(p) ==
  {ForwardKernel(p, MaxPool, OnlyLargest, One), BackwardKernel(p, MaxPoolBackward, OnlyLargest, One)}

AdaptiveOver(p, o) == Cardinality(AdaptiveWindowOf(p, o))
AdaptiveKernels(p) ==
  {ForwardKernel(p, AdaptiveAvgPool, AdaptiveWindowOf, AdaptiveOver),
   BackwardKernel(p, AdaptiveAvgPoolBackward, AdaptiveWindowOf, AdaptiveOver)}
=============================================================================
