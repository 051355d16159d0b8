----------------------------- MODULE ConvKernels -----------------------------
(***************************************************************************)
(* Convolutions and their gradients, as a simple matmul of unfolded        *)
(* operands.                                                               *)
(*                                                                         *)
(* A convolution c is computed forward, or gives the gradient of its data  *)
(* or of its weight.  It holds the batches, the channels and the channels  *)
(* of the output; the sizes `in` and `out` of its spatial axes; the window *)
(* (size, stride, padding and dilation along each axis); and what channels *)
(* are padded to a multiple of.                                            *)
(***************************************************************************)
EXTENDS NhwcTensors

Axes(c) == DOMAIN c.in

\* A tensor of a convolution and the bounds its layout checks: of its batches,
\* its spatial axes, its channels.
Nhwc(name, batches, sizes, channels, vector, checks) ==
  [name |-> name, shape |-> <<batches>> \o sizes \o <<channels>>, vector |-> vector, checks |-> checks]

NhwcChecked(t, at) ==
  /\ "batch" \in t.checks => at[1] < t.shape[1]
  /\ "spatial" \in t.checks => \A d \in 2 .. Len(at) - 1 : at[d] >= 0 /\ at[d] < t.shape[d]
  /\ "channel" \in t.checks => at[Len(at)] < t.shape[Len(at)]

\* The cells of the vector at a position, none of them past the buffer.
NhwcLayout(t, at) ==
  LET start == (Offset(t.shape, at) \div t.vector) * t.vector IN
  [i \in 1 .. t.vector |->
    When(start + i - 1 \in 0 .. Size(t.shape) - 1, <<<<t.name, start + i - 1>>>>)]
-----------------------------------------------------------------------------
(* Channels are padded along what the taps unfold into.                    *)

\* `adjust_problem`.
PaddedChannels(c) ==
  LET channels == IF c.op = "data" THEN c.outChannels ELSE c.channels IN
  CeilDiv(channels, c.align) * c.align
ShouldCheckChannel(c) == c.channels # PaddedChannels(c)

SpatialBoundsRequired(c) ==
  \E d \in Axes(c) :
    LET extent == (c.size[d] - 1) * c.dilation[d] IN
    IF c.op = "data"
    THEN \/ c.stride[d] # 1
         \/ c.padding[d] - extent < 0
         \/ c.in[d] - 1 + c.padding[d] >= c.out[d] * c.stride[d]
    ELSE \/ c.padding[d] > 0
         \/ (c.out[d] - 1) * c.stride[d] + extent - c.padding[d] >= c.in[d]

\* `div_mod_seq`: a batch, however large, and a position.
DivModSeq(index, sizes) == <<index \div Size(sizes)>> \o DecomposeLinear(sizes, index % Size(sizes))

\* The tap and the channel a padded index stands for.
TapOf(c, index) == DecomposeLinear(c.size, index \div PaddedChannels(c))
ChannelOf(c, index) == index % PaddedChannels(c)
-----------------------------------------------------------------------------
(* Where an element of a matrix is, and whether it is anywhere.            *)

\* `Im2colLayout`: the input the output at row m takes through a tap; the output
\* the input at row m went to through it, where the stride has one.
Numerator(c, at, tap, d) == at[d + 1] + c.padding[d] - tap[d] * c.dilation[d]

StrideIsValid(c, m, k) ==
  c.op = "data" =>
    \A d \in Axes(c) : Numerator(c, DivModSeq(m, c.in), TapOf(c, k), d) % c.stride[d] = 0

Im2colLayout(c, m, k) ==
  LET at == DivModSeq(m, IF c.op = "data" THEN c.in ELSE c.out)
      tap == TapOf(c, k) IN
  <<Head(at)>>
    \o [d \in Axes(c) |->
         IF c.op = "data" THEN TruncatedDiv(Numerator(c, at, tap, d), c.stride[d])
         ELSE at[d + 1] * c.stride[d] + tap[d] * c.dilation[d] - c.padding[d]]
    \o <<ChannelOf(c, k)>>

WeightLayout(c, k, n) ==
  IF c.op = "data" THEN <<ChannelOf(c, k)>> \o TapOf(c, k) \o <<n>>
  ELSE <<n>> \o TapOf(c, k) \o <<ChannelOf(c, k)>>

OutLayout(c, m, n) == DivModSeq(m, IF c.op = "data" THEN c.in ELSE c.out) \o <<n>>

\* A view: a tensor through a layout of so many rows and columns, whose bounds it
\* checks or not; or the transpose of one.
View(layout, conv, tensor, rows, cols, checks) ==
  [layout |-> layout, conv |-> conv, tensor |-> tensor, rows |-> rows, cols |-> cols,
   checkRows |-> checks[1], checkCols |-> checks[2], transposed |-> FALSE]
Transpose(view) == [view EXCEPT !.transposed = TRUE]
Seen(view, row, col) == IF view.transposed THEN <<col, row>> ELSE <<row, col>>

InLayout(view, at) ==
  /\ view.checkRows => at[1] < view.rows
  /\ view.checkCols => at[2] < view.cols
  /\ view.layout = "im2col" => StrideIsValid(view.conv, at[1], at[2])
SourceOf(view, at) ==
  CASE view.layout = "im2col" -> Im2colLayout(view.conv, at[1], at[2])
    [] view.layout = "weight" -> WeightLayout(view.conv, at[1], at[2])
    [] view.layout = "out" -> OutLayout(view.conv, at[1], at[2])
    [] view.layout = "bias" -> <<0, at[2]>>

\* The cells behind the vector at a row and a column, each or none.
Behind(view, row, col) ==
  LET at == Seen(view, row, col)
      source == SourceOf(view, at)
      cells == NhwcLayout(view.tensor, source) IN
  [i \in DOMAIN cells |->
    When(InLayout(view, at) /\ NhwcChecked(view.tensor, source), cells[i])]

ReadConv(view, outBatches, batch, row, col) == Behind(view, row, col)
WriteConv(view, outBatches, batch, row, col, terms) ==
  LET cells == Behind(view, row, col) IN
  {<<Head(cells[i]), terms[i]>> : i \in {j \in DOMAIN terms : cells[j] # <<>>}}
-----------------------------------------------------------------------------
Stages == INSTANCE MatmulKernels WITH ReadView <- ReadConv, WriteView <- WriteConv

\* What a convolution is of, in memory.
InputOf(c, vector, checks) == Nhwc("input", c.batches, c.in, c.channels, vector, checks)
WeightOf(c, vector, checks) == Nhwc("weight", c.outChannels, c.size, c.channels \div c.groups, vector, checks)
OutputOf(c, name, vector, checks) == Nhwc(name, c.batches, c.out, c.outChannels, vector, checks)
BiasOf(c, vector) == [name |-> "bias", shape |-> <<1, c.outChannels>>, vector |-> vector, checks |-> {}]
ContentsOf(t) == [x \in {<<t.name, i>> : i \in 0 .. Size(t.shape) - 1} |-> Input(x)]
-----------------------------------------------------------------------------
(* Convolutions by their definition.                                       *)

\* Input x is what output o takes through a tap.
Takes(c, o, tap, x) ==
  \A d \in Axes(c) : x[d] + c.padding[d] = o[d] * c.stride[d] + tap[d] * c.dilation[d]
Links(c) ==
  {l \in Positions(c.out) \X Positions(c.size) \X Positions(c.in) : Takes(c, l[1], l[2], l[3])}

At(t, position) == <<t.name, Offset(t.shape, position)>>
Once(pairs) == [p \in {<<q, 0>> : q \in pairs} |-> 1]
Group(c, oc) == oc \div (c.outChannels \div c.groups)
PerGroup(c) == c.channels \div c.groups

WantedForward(c) ==
  LET out == OutputOf(c, "output", 1, {}) IN
  [y \in {<<"output", i>> : i \in 0 .. Size(out.shape) - 1} |->
    LET at == DecomposeLinear(out.shape, y[2])
        oc == at[Len(at)]
        links == {l \in Links(c) : l[1] = Spatial(at)} IN
    SumOfBags(<<IF c.bias THEN Input(<<"bias", oc>>) ELSE Zero,
      Once({<<At(InputOf(c, 1, {}), <<Head(at)>> \o x[1][3] \o <<Group(c, oc) * PerGroup(c) + x[2]>>),
              At(WeightOf(c, 1, {}), <<oc>> \o x[1][2] \o <<x[2]>>)>> : x \in links \X (0 .. PerGroup(c) - 1)})>>)]

WantedData(c) ==
  LET in == InputOf(c, 1, {}) IN
  [y \in {<<"output", i>> : i \in 0 .. Size(in.shape) - 1} |->
    LET at == DecomposeLinear(in.shape, y[2])
        links == {l \in Links(c) : l[3] = Spatial(at)} IN
    Once({<<At(OutputOf(c, "grad", 1, {}), <<Head(at)>> \o x[1][1] \o <<x[2]>>),
            At(WeightOf(c, 1, {}), <<x[2]>> \o x[1][2] \o <<at[Len(at)]>>)>> : x \in links \X (0 .. c.outChannels - 1)})]

WantedWeight(c) ==
  LET weight == WeightOf(c, 1, {}) IN
  [y \in {<<"output", i>> : i \in 0 .. Size(weight.shape) - 1} |->
    LET at == DecomposeLinear(weight.shape, y[2])
        links == {l \in Links(c) : l[2] = Spatial(at)} IN
    Once({<<At(OutputOf(c, "grad", 1, {}), <<x[2]>> \o x[1][1] \o <<Head(at)>>),
            At(InputOf(c, 1, {}), <<x[2]>> \o x[1][3] \o <<at[Len(at)]>>)>> : x \in links \X (0 .. c.batches - 1)})]
-----------------------------------------------------------------------------
(* As a matmul.  The bounds checked are settled before channels are padded.*)

Taps(c) == Size(c.size)
ShapeOf(c) ==
  CASE c.op = "forward" -> <<c.batches * Size(c.out), c.outChannels, c.channels * Taps(c)>>
    [] c.op = "data" -> <<c.batches * Size(c.in), c.channels, c.outChannels * Taps(c)>>
    [] c.op = "weight" -> <<c.outChannels, c.channels * Taps(c), c.batches * Size(c.out)>>
Adjusted(c) ==
  IF c.op = "weight" THEN [ShapeOf(c) EXCEPT ![2] = PaddedChannels(c) * Taps(c)]
  ELSE [ShapeOf(c) EXCEPT ![3] = PaddedChannels(c) * Taps(c)]
CheckM(c) == ShapeOf(c)[1] % Stages!StageM(c) # 0
CheckN(c) == ShapeOf(c)[2] % Stages!StageN(c) # 0
CheckK(c) == ShapeOf(c)[3] % Stages!StageK(c) # 0

\* What the tensors' layouts check.
Channel(c, check) == {x \in {check} : ShouldCheckChannel(c)}
Im2colChecks(c) == {x \in {"spatial"} : SpatialBoundsRequired(c)} \union Channel(c, "channel")

ForwardViews(c) ==
  LET s == Adjusted(c) IN
  [lhs |-> View("im2col", c, InputOf(c, c.lhs.vector, Im2colChecks(c)), s[1], s[3], <<CheckM(c), CheckK(c)>>),
   rhs |-> View("weight", c, WeightOf(c, c.rhs.vector, Channel(c, "channel")), s[3], s[2], <<CheckK(c), CheckN(c)>>),
   acc |-> View("bias", c, BiasOf(c, c.acc.vector), 1, s[2], <<FALSE, TRUE>>),
   out |-> View("out", c, OutputOf(c, "output", c.vector, {}), s[1], s[2], <<CheckM(c), CheckN(c)>>)]

DataViews(c) ==
  LET s == Adjusted(c) IN
  [lhs |-> View("im2col", c, OutputOf(c, "grad", c.lhs.vector, Im2colChecks(c)), s[1], s[3], <<CheckM(c), CheckK(c)>>),
   rhs |-> View("weight", c, WeightOf(c, c.rhs.vector, Channel(c, "batch")), s[3], s[2], <<CheckK(c), CheckN(c)>>),
   out |-> View("out", c, [InputOf(c, c.vector, {}) EXCEPT !.name = "output"], s[1], s[2], <<CheckM(c), CheckN(c)>>)]

\* The layouts of what is transposed check its rows when those of the matmul are
\* to be checked, which are its columns.
WeightViews(c) ==
  LET s == Adjusted(c) IN
  [lhs |-> Transpose(View("out", c, OutputOf(c, "grad", c.lhs.vector, {}), s[3], s[1], <<CheckM(c), CheckK(c)>>)),
   rhs |-> View("im2col", c, InputOf(c, c.rhs.vector, Im2colChecks(c)), s[3], s[2], <<CheckK(c), CheckN(c)>>),
   out |-> Transpose(View("weight", c, [WeightOf(c, c.vector, Channel(c, "channel")) EXCEPT !.name = "output"],
                          s[2], s[1], <<CheckM(c), CheckN(c)>>))]

ConvMatmul(c) ==
  LET s == Adjusted(c)
      views == CASE c.op = "forward" -> ForwardViews(c)
                 [] c.op = "data" -> DataViews(c)
                 [] c.op = "weight" -> WeightViews(c) IN
  Kernel(Stages!Launch([m |-> s[1], n |-> s[2], k |-> s[3], views |-> views, fused |-> c.bias] @@ c),
         ContentsOf(InputOf(c, 1, {})) @@ ContentsOf(WeightOf(c, 1, {})) @@ ContentsOf(BiasOf(c, 1))
           @@ ContentsOf(OutputOf(c, "grad", 1, {})),
         {"output"},
         CASE c.op = "forward" -> WantedForward(c)
           [] c.op = "data" -> WantedData(c)
           [] c.op = "weight" -> WantedWeight(c), 1)
-----------------------------------------------------------------------------
(***************************************************************************)
(* The convolutions that are not a matmul: directly, a unit to a vector of *)
(* channels of the output, whatever the groups; and depthwise, a filter to *)
(* a channel, cubes over boxes of the output, a plane to a row of the box  *)
(* and its lanes over the channels.                                        *)
(*                                                                         *)
(* Such a convolution is in `groups`; `vector` and `lanes` are what output *)
(* and input are vectorized by, `spare` the units past the output.         *)
(* Depthwise, a cube has `rows` planes of `plane` units, a lane `chans`    *)
(* lines of `width` channels by `cols` columns.                            *)
(***************************************************************************)

\* `decompose_linear`: the batch is what is left.
TapAt(c, i) == DecomposeLinear(c.size, i - 1)
InputPosition(c, spatial, tap) ==
  [d \in Axes(c) |-> spatial[d] * c.stride[d] + tap[d] * c.dilation[d] - c.padding[d]]

\* A tap at which the input is read: all of them, where none can be outside.
HasPadding(c) == SpatialBoundsRequired([op |-> "forward"] @@ c)
IsRead(c, position) == HasPadding(c) => \A d \in Axes(c) : position[d] \in 0 .. c.in[d] - 1

\* The output's vector a unit sums, its first channel and the input channel its
\* group starts at.
Vector(c, u) == DecomposeLinear(OutputOf(c, "output", 1, {}).shape, u * c.vector)
GroupStart(c, u) == (Vector(c, u)[Len(c.in) + 2] \div (c.outChannels \div c.groups)) * PerGroup(c)

\* An element of the vector a pointer is in.
Lane(name, offset, lanes, i) == <<name, (offset \div lanes) * lanes + i - 1>>

\* `direct_conv2d_kernel`: the taps in order, a vector of the group's channels at
\* a time.
DirectConv(c, u) ==
  LET at == Vector(c, u)
      oc == at[Len(at)]
      Position(tap) == InputPosition(c, Spatial(at), tap)
      Taken(tap, v) ==
        LET inOffset == Offset(InputOf(c, 1, {}).shape, <<Head(at)>> \o Position(tap) \o <<GroupStart(c, u)>>)
            weightOffset == Offset(WeightOf(c, 1, {}).shape, <<oc + v>> \o tap \o <<0>>) IN
        Loop(CeilDiv(PerGroup(c), c.lanes), LAMBDA step :
          [i \in 1 .. c.lanes |-> Product(Lane("input", inOffset + step * c.lanes, c.lanes, i),
                                          Lane("weight", weightOffset + step * c.lanes, c.lanes, i))])
      Sum(v) ==
        When(c.bias, <<Of(<<"bias", oc + v>>)>>)
          \o Loop(Taps(c), LAMBDA i :
               When(IsRead(c, Position(TapAt(c, i + 1))), Taken(TapAt(c, i + 1), v))) IN
  <<Do(u, [y \in {<<"output", u * c.vector + v>> : v \in 0 .. c.vector - 1} |-> Sum(y[2] - u * c.vector)])>>

Working(c) == Size(OutputOf(c, "output", 1, {}).shape) \div c.vector

DirectKernel(c) ==
  Kernel([u \in 0 .. Working(c) + c.spare - 1 |-> When(u < Working(c), DirectConv(c, u))],
         ContentsOf(InputOf(c, 1, {})) @@ ContentsOf(WeightOf(c, 1, {})) @@ ContentsOf(BiasOf(c, 1)),
         {"output"}, WantedForward(c), 1)
-----------------------------------------------------------------------------
(* Depthwise.                                                              *)

TileC(c) == c.plane * c.width * c.chans

\* The cubes along channels, columns, and rows within batches.
Grid(c) == <<CeilDiv(c.channels, TileC(c)), CeilDiv(c.out[2], c.cols), CeilDiv(c.out[1], c.rows) * c.batches>>

\* The axes a guard is on, whose tiles hang over the edge or whose taps do.
Ragged(c) ==
  [c |-> c.channels % TileC(c) # 0, oh |-> c.out[1] % c.rows # 0, ow |-> c.out[2] % c.cols # 0]
Overhangs(c, d) ==
  HasPadding([in |-> <<c.in[d]>>, out |-> <<c.out[d]>>, size |-> <<c.size[d]>>, stride |-> <<c.stride[d]>>,
              padding |-> <<c.padding[d]>>, dilation |-> <<c.dilation[d]>>])
Guard(axis, guarded) == {a \in {axis} : guarded}

\* The filter, the channel innermost: `channels_innermost` copies it.
FilterShape(c) == c.size \o <<c.channels>>
FilterContents(c) ==
  [x \in {<<"filter", i>> : i \in 0 .. Size(FilterShape(c)) - 1} |->
    LET at == DecomposeLinear(FilterShape(c), x[2]) IN
    Input(At(WeightOf(c, 1, {}), <<at[3], at[1], at[2], 0>>))]

\* A cell of an operand, or none where a guard stops it.
Guarded(name, shape, guards, at) ==
  When(\A a \in guards : at[a] \in 0 .. shape[a] - 1, <<<<name, Offset(shape, at)>>>>)

\* `depthwise_kernel`, a lane's line of channels at a time: every column of its
\* row takes in every tap.
DepthwiseConv(c, u) ==
  LET cube == DecomposeLinear(<<Grid(c)[3], Grid(c)[2], Grid(c)[1]>>, u \div (c.plane * c.rows))
      rowTiles == CeilDiv(c.out[1], c.rows)
      batch == cube[1] \div rowTiles
      row == (cube[1] % rowTiles) * c.rows + (u % (c.plane * c.rows)) \div c.plane
      in == InputOf(c, 1, {}).shape
      out == OutputOf(c, "output", 1, {}).shape
      channels == Guard(4, Ragged(c).c)
      inGuards == Guard(2, Overhangs(c, 1) \/ Ragged(c).oh) \union Guard(3, Overhangs(c, 2) \/ Ragged(c).ow) \union channels
      outGuards == Guard(2, Ragged(c).oh) \union Guard(3, Ragged(c).ow) \union channels
      Tap(position, i) ==
        LET tap == TapAt(c, i)
            channel == position[4]
            read == Guarded("input", in, inGuards,
                            <<batch>> \o InputPosition(c, <<row, position[3]>>, tap) \o <<channel>>)
            filter == Guarded("filter", FilterShape(c), Guard(3, Ragged(c).c), tap \o <<channel>>) IN
        When(read # <<>> /\ filter # <<>>, <<Product(Head(read), Head(filter))>>)
      Line(step) ==
        {<<batch, row, cube[2] * c.cols + j,
           cube[3] * TileC(c) + (step * c.plane + (u % c.plane)) * c.width + v>> : j \in 0 .. c.cols - 1, v \in 0 .. c.width - 1} IN
  Loop(c.chans, LAMBDA step :
    <<Do(u, Sets({<<Head(Guarded("output", out, {}, p)), Loop(Taps(c), LAMBDA i : Tap(p, i + 1))>> :
                    p \in {q \in Line(step) : Guarded("output", out, outGuards, q) # <<>>}}))>>)

DepthwiseKernel(c) ==
  Kernel([u \in 0 .. Size(Grid(c)) * c.plane * c.rows - 1 |-> DepthwiseConv(c, u)],
         ContentsOf(InputOf(c, 1, {})) @@ FilterContents(c), {"output"}, WantedForward(c), 1)
=============================================================================
