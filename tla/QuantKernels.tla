----------------------------- MODULE QuantKernels -----------------------------
(***************************************************************************)
(* A tensor quantized, with its scales and its global scale copied where   *)
(* the quantized tensor keeps them, then read back: two launches.          *)
(*                                                                         *)
(* A problem q has a `shape`, and `block`, the extents a scale is shared   *)
(* over, or none; `strides` of the scales; whether there is a `global`     *)
(* scale; `quants` values to a stored word, one unless packed; and the     *)
(* vector that quantizing and dequantizing read with.  Rounding a scale up *)
(* to its type, and snapping a value to the grid of its format, each       *)
(* multiply by an unknown of their own.                                    *)
(***************************************************************************)
EXTENDS NhwcTensors

Length(q) == Size(q.shape)
Words(q) == Length(q) \div q.quants

\* `ScalesLayout::to_source_pos`, `ScalesLayout::is_block_start`.
ScaleAt(q, pos) ==
  IF q.block = <<>> THEN 0
  ELSE FoldFunction(+, 0, [d \in DOMAIN q.shape |-> (DecomposeLinear(q.shape, pos)[d] \div q.block[d]) * q.strides[d]])
IsBlockStart(q, pos) ==
  IF q.block = <<>> THEN pos = 0
  ELSE \A d \in DOMAIN q.shape : DecomposeLinear(q.shape, pos)[d] % q.block[d] = 0

\* `check_block_size_compat`.
Compatible(q) == q.block = <<>> \/ Last(q.block) % (IF q.quants > 1 THEN q.quants ELSE q.vector) = 0

Global(q, name) == IF q.global THEN <<<<name>>>> ELSE <<>>

\* `write_scale`: the scale of the unit's values, which one unit of the block writes.
WriteScale(q, u, pos) ==
  LET rounded == <<Product(<<"scale", ScaleAt(q, pos)>>, <<"rounding">>)>> IN
  Do(u, (<<"inner", u>> :> rounded)
          @@ (IF IsBlockStart(q, pos) THEN <<"out_scale", ScaleAt(q, pos)>> :> rounded ELSE Zero)
          @@ (IF q.global /\ u = 0 THEN <<"out_global">> :> <<Of(<<"global">>)>> ELSE Zero))

\* `quantize_symmetric_q`, `quantize_packed_value`: of `count` values from pos.
WriteCodes(q, u, pos, count) ==
  Do(u, Sets({<<<<"code", pos + i>>,
                <<[Product(<<"input", pos + i>>, <<"snap">>) EXCEPT !.under = <<<<"inner", u>>>> \o Global(q, "global")]>>>> :
                i \in 0 .. count - 1}))

\* `quantize_symmetric_native_kernel`, `quantize_symmetric_packed_kernel`.
UnitValues(q) == IF q.quants > 1 THEN q.quants ELSE q.vector
Quantize(q, u) ==
  LET count == UnitValues(q) IN
  When(u < Length(q) \div count, <<WriteScale(q, u, u * count), WriteCodes(q, u, u * count, count)>>)

\* Values each written with the scale of the position given.
WriteValues(q, u, pos, count, scaleOf) ==
  Sets({<<<<"output", pos + i>>,
          <<[Of(<<"code", pos + i>>) EXCEPT !.by = <<<<"out_scale", ScaleAt(q, scaleOf)>>>> \o Global(q, "out_global")]>>>> :
          i \in 0 .. count - 1})

\* `dequantize_packed`, what it reads words with.
WordVector(q) == IF Last(q.shape) % q.quants = 0 THEN q.readVector ELSE 1

\* `dequantize_symmetric_packed_value`, a scale to each of the words read, and
\* `dequantize_symmetric_native_kernel`, one for the vector.
Dequantize(q, u) ==
  IF q.quants > 1
  THEN LET words == WordVector(q) IN
       When(u < Words(q) \div words,
            Loop(words, LAMBDA i :
                   LET pos == u * words * q.quants + i * q.quants IN
                   <<Do(u, WriteValues(q, u, pos, q.quants, pos))>>))
  ELSE When(u < Length(q) \div q.readVector,
            <<Do(u, WriteValues(q, u, u * q.readVector, q.readVector, u * q.readVector))>>)

\* The units of both launches, some of which find nothing to do: strided values
\* are packed by more units than there are words.
Units(q) == 0 .. Length(q) \div LowerOf(UnitValues(q), IF q.quants > 1 THEN UnitValues(q) ELSE q.readVector) - 1 + q.spare
-----------------------------------------------------------------------------
\* Every value comes back divided and multiplied by the same factor: its block's
\* scale as it was rounded, and the global one.
BlockOf(q, pos) ==
  IF q.block = <<>> THEN <<>> ELSE [d \in DOMAIN q.shape |-> DecomposeLinear(q.shape, pos)[d] \div q.block[d]]
Place(q, block) == FoldFunction(+, 0, [d \in DOMAIN block |-> block[d] * q.strides[d]])
Blocks(q) == {BlockOf(q, pos) : pos \in 0 .. Length(q) - 1}
Rounded(place) == <<<<<<"scale", place>>, <<"rounding">>>>, 0>> :> 1
Restored(q, pos) ==
  LET place == Place(q, BlockOf(q, pos))
      global == Global(q, "global")
      divisors == <<<<"over", Rounded(place)>>>> \o [i \in DOMAIN global |-> <<"over", Input(global[i])>>] IN
  <<<<<<"input", pos>>, <<"snap">>>> \o divisors \o <<<<"scale", place>>, <<"rounding">>>> \o global, 0>> :> 1

QuantKernel(q) ==
  LET places == {Place(q, block) : block \in Blocks(q)}
      given == {<<"input", pos>> : pos \in 0 .. Length(q) - 1} \union {<<"scale", place>> : place \in places}
                 \union {<<"rounding">>, <<"snap">>} \union ToSet(Global(q, "global")) IN
  Kernel([u \in Units(q) |-> Quantize(q, u) \o <<Sync(Units(q))>> \o Dequantize(q, u)],
         [c \in given |-> Input(c)], {"output", "out_scale", "out_global"},
         Sets({<<<<"output", pos>>, Restored(q, pos)>> : pos \in 0 .. Length(q) - 1}
                \union {<<<<"out_scale", place>>, Rounded(place)>> : place \in places}
                \union {<<c, Input(<<"global">>)>> : c \in ToSet(Global(q, "out_global"))}), 1)

QuantKernels(problems) == {QuantKernel(q) : q \in {p \in problems : Compatible(p)}}
=============================================================================
