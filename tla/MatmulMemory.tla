----------------------------- MODULE MatmulMemory -----------------------------
(***************************************************************************)
(* The matrices of a matmul in global memory: batches of them, broadcast   *)
(* where a batch dimension is 1, read and written a vector at a time at a  *)
(* batch, a row and a column.                                              *)
(***************************************************************************)
EXTENDS CubeCounts

Volume(shape) == FoldSeq(LAMBDA size, product : size * product, 1, shape)
Inner(shape, i) == Volume(SubSeq(shape, i + 1, Len(shape)))

\* `broadcast_batches`.
BroadcastBatches(lhs, rhs) == [i \in DOMAIN lhs |-> IF lhs[i] > rhs[i] THEN lhs[i] ELSE rhs[i]]

\* (wrong) a dimension of 1 keeps the stride of its axis.
UnbroadcastTensor(name, batches, rows, cols, colmajor, vector, checks) ==
  [name |-> name, rows |-> rows, cols |-> cols, vector |-> vector, colmajor |-> colmajor,
   checkRows |-> checks[1], checkCols |-> checks[2],
   strideRow |-> IF colmajor THEN 1 ELSE cols, strideCol |-> IF colmajor THEN rows ELSE 1,
   batchStrides |-> [i \in DOMAIN batches |-> rows * cols * Inner(batches, i)],
   size |-> rows * cols * Volume(batches)]

\* A tensor, its strides, and the axes its layout checks the bounds of: `GlobalLayoutLaunch`
\* and `BatchLayoutLaunch`, whose stride is 0 along what is broadcast.
Tensor(name, batches, rows, cols, colmajor, vector, checks) ==
  [name |-> name, rows |-> rows, cols |-> cols, vector |-> vector, colmajor |-> colmajor,
   checkRows |-> checks[1], checkCols |-> checks[2],
   strideRow |-> IF colmajor THEN 1 ELSE cols, strideCol |-> IF colmajor THEN rows ELSE 1,
   batchStrides |-> [i \in DOMAIN batches |-> IF batches[i] = 1 THEN 0 ELSE rows * cols * Inner(batches, i)],
   size |-> rows * cols * Volume(batches)]

\* `BatchLayout`: where batch `pos` of the output's is, wrapping past the last.
BatchLayout(t, outBatches, pos) ==
  FoldLeft(LAMBDA offset, i : offset + ((pos \div Inner(outBatches, i)) % outBatches[i]) * t.batchStrides[i],
           0, [i \in DOMAIN outBatches |-> i])

\* `GlobalLayout`: the cells of the vector at a row and a column of a batch.
GlobalLayout(t, outBatches, batch, row, col) ==
  LET at == BatchLayout(t, outBatches, batch) + row * t.strideRow + col * t.strideCol IN
  [i \in 1 .. t.vector |-> <<t.name, (at \div t.vector) * t.vector + i - 1>>]
InBounds(t, row, col) == (t.checkRows => row < t.rows) /\ (t.checkCols => col < t.cols)

\* What is read: per element of the vector its cell, or none for a zero.
ReadVector(t, outBatches, batch, row, col) ==
  [i \in 1 .. t.vector |->
     When(InBounds(t, row, col), <<GlobalLayout(t, outBatches, batch, row, col)[i]>>)]

\* Assigns terms to the elements of the vector, unless it is out of bounds.
WriteVector(t, outBatches, batch, row, col, terms) ==
  IF InBounds(t, row, col)
  THEN {<<GlobalLayout(t, outBatches, batch, row, col)[i], terms[i]>> : i \in DOMAIN terms}
  ELSE {}

\* The product of two elements read.
Both(a, b) == IF a = <<>> \/ b = <<>> THEN <<>> ELSE <<Product(Head(a), Head(b))>>

\* What a tensor holds before the launch, every element told from the others.
Contents(t) == [c \in {<<t.name, i>> : i \in 0 .. t.size - 1} |-> Input(c)]

\* lhs * rhs, batch by batch, over what the output starts from.
WantedProducts(lhs, rhs, output, outBatches, start) ==
  LET Element(t, b, i, j) == GlobalLayout([t EXCEPT !.vector = 1], outBatches, b, i, j)[1] IN
  Sets({<<Element(output, at[1], at[2], at[3]),
          SumOfBags(<<start[at]>> \o [l \in 1 .. lhs.cols |->
            ProductOfBags(Input(Element(lhs, at[1], at[2], l - 1)), Input(Element(rhs, at[1], l - 1, at[3])), 1)])>>
          : at \in (0 .. Volume(outBatches) - 1) \X (0 .. lhs.rows - 1) \X (0 .. rhs.cols - 1)})
=============================================================================
