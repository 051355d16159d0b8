----------------------------- MODULE FftKernels -----------------------------
(***************************************************************************)
(* The Fourier transforms of cubek-fft: a window per cube in shared memory,*)
(* the four-step transform of windows too long for that, and the packed    *)
(* real transforms built on either.                                        *)
(*                                                                         *)
(* A complex number is one cell.  What a unit does between two synchronisms*)
(* of its cube is one step: its accesses commute unless two units race.    *)
(*                                                                         *)
(* A problem r holds the length n of a window, the order of the root its   *)
(* bags are turned by, the windows before and after the transformed axis,  *)
(* the longest window a cube's shared memory holds (max), the units a cube *)
(* can have, the units of an elementwise cube (dim), and the cubes launched*)
(* to spare.                                                               *)
(***************************************************************************)
EXTENDS CubeSteps

Windows(r) == r.before * r.after
Log2(n) == CHOOSE b \in 0 .. n : 2^b = n
LowerOf(a, b) == IF a < b THEN a ELSE b

\* `BatchSignalLayout`: the place of sample k of a window, along an axis of
\* `len` samples; the axes before the transformed one vary fastest.
BatchSignalLayout(r, len, window, k) ==
  (window % r.before) * len * r.after + (window \div r.before) + k * r.after

Sample(r, name, len, window, k) == <<name, BatchSignalLayout(r, len, window, k)>>

\* One kernel of a sequence of launches: the first `units` units run it, and
\* all of it is done before the next.
Launch(all, u, units, steps) == When(u < units, steps) \o <<Sync(all)>>
-----------------------------------------------------------------------------
(* A window in shared memory.                                              *)

\* `bit_reverse`: the lowest bits of i, the other way round.
BitReverse(i, bits) ==
  LET reversed[b \in 0 .. bits] ==
        IF b = 0 THEN 0 ELSE 2 * reversed[b - 1] + ((i \div 2^(b - 1)) % 2) IN
  reversed[bits]

\* The unit of position `pos` in a cube of `dim` works on a window of n in the
\* shared memory `name`: c holds those.
Cell(c, k) == <<c.name, c.cube, k>>
Share(c, n) == ToSet(Strided(c.pos, c.dim, n))
SyncCube(c) == Sync({c.cube * c.dim + i : i \in 0 .. c.dim - 1})

\* (wrong) the second half of a group is not half of it away.
OverlappingStage(c, s) ==
  LET half == 2^s
      Low(b) == (b \div half) * 2 * half + (b % half)
      High(b) == Low(b) + 1
      Twiddled(b, times) ==
        Term(Cell(c, High(b)), c.sign * (b % half) * (c.order \div (2 * half)), times, 1, FALSE) IN
  Sets(UNION {{<<Cell(c, Low(b)), <<Of(Cell(c, Low(b))), Twiddled(b, 1)>>>>,
               <<Cell(c, High(b)), <<Of(Cell(c, Low(b))), Twiddled(b, -1)>>>>} : b \in Share(c, c.n \div 2)})

\* A stage of `fft_butterfly_parallel`: the butterflies of the unit's share,
\* each on two cells half a group apart.
ButterflyStage(c, s) ==
  LET half == 2^s
      Low(b) == (b \div half) * 2 * half + (b % half)
      High(b) == Low(b) + half
      Twiddled(b, times) ==
        Term(Cell(c, High(b)), c.sign * (b % half) * (c.order \div (2 * half)), times, 1, FALSE) IN
  Sets(UNION {{<<Cell(c, Low(b)), <<Of(Cell(c, Low(b))), Twiddled(b, 1)>>>>,
               <<Cell(c, High(b)), <<Of(Cell(c, Low(b))), Twiddled(b, -1)>>>>} : b \in Share(c, c.n \div 2)})

\* The kernels of one window per cube: the samples are loaded to their
\* reversed places, transformed, and the first `out` of them written.
InShared(c, u, out, Loaded(_), Stored(_)) ==
  <<Do(u, Sets({<<Cell(c, BitReverse(i, Log2(c.n))), Loaded(i)>> : i \in Share(c, c.n)})), SyncCube(c)>>
    \o Loop(Log2(c.n), LAMBDA s : <<Do(u, ButterflyStage(c, s)), SyncCube(c)>>)
    \o <<Do(u, Sets({Stored(k) : k \in Share(c, out)})), SyncCube(c)>>

Threads(r, n) == LowerOf(IF n \div 2 > 1 THEN n \div 2 ELSE 1, r.units)
Window(r, name, n, sign, u) ==
  LET dim == Threads(r, n) IN
  [name |-> name, cube |-> u \div dim, pos |-> u % dim, dim |-> dim, n |-> n, sign |-> sign,
   order |-> r.order]
-----------------------------------------------------------------------------
(* Complex transforms.                                                     *)

\* `cfft_shared_kernel`.
CfftShared(r, from, to, sign, u) ==
  LET c == Window(r, "window", r.n, sign, u) IN
  When(c.cube < Windows(r),
       InShared(c, u, r.n, LAMBDA i : <<Of(Sample(r, from, r.n, c.cube, i))>>,
                LAMBDA k : <<Sample(r, to, r.n, c.cube, k), <<Of(Cell(c, k))>>>>))

\* `factor_four_step`: the two factors of n, balanced unless that is too long.
FactorFourStep(r) ==
  LET n == Log2(r.n)
      max == Log2(r.max)
      n2 == n - n \div 2 IN
  IF n2 > max THEN <<2^(n - max), 2^max>> ELSE <<2^(n \div 2), 2^n2>>

\* `cfft_four_step_radix1_kernel`: down a column, twiddled on the way out.
Radix1(r, from, sign, u) ==
  LET n1 == FactorFourStep(r)[1]
      n2 == FactorFourStep(r)[2]
      c == Window(r, "columns", n1, sign, u)
      window == c.cube \div n2
      column == c.cube % n2 IN
  When(c.cube < Windows(r) * n2,
       InShared(c, u, n1, LAMBDA i : <<Of(Sample(r, from, r.n, window, i * n2 + column))>>,
                LAMBDA k : <<Sample(r, "scratch", r.n, window, k * n2 + column),
                             <<Term(Cell(c, k), sign * k * column * (r.order \div r.n), 1, 1, FALSE)>>>>))

\* `cfft_four_step_radix2_kernel`: along a row, in place.
Radix2(r, sign, u) ==
  LET n1 == FactorFourStep(r)[1]
      n2 == FactorFourStep(r)[2]
      c == Window(r, "rows", n2, sign, u)
      InRow(i) == Sample(r, "scratch", r.n, c.cube \div n1, (c.cube % n1) * n2 + i) IN
  When(c.cube < Windows(r) * n1,
       InShared(c, u, n2, LAMBDA i : <<Of(InRow(i))>>, LAMBDA k : <<InRow(k), <<Of(Cell(c, k))>>>>))

\* `cfft_four_step_transpose_kernel`: an element per unit, to its bin.
Transpose(r, to, u) ==
  LET n1 == FactorFourStep(r)[1]
      n2 == FactorFourStep(r)[2]
      bin == u % r.n
      Place(k) == (k % n1) * n2 + (k \div n1) IN
  When(u < Windows(r) * r.n,
       <<Do(u, Sample(r, to, r.n, u \div r.n, bin)
                 :> <<Of(Sample(r, "scratch", r.n, u \div r.n, Place(bin)))>>)>>)

\* The units of a launch of a cube per window, or of a unit per element.
PerCube(r, windows, n) == (windows + r.spare) * Threads(r, n)
PerUnit(r, total) == (CeilDiv(total, r.dim) + r.spare) * r.dim

\* `cfft_launch_any_size`.
CfftLaunches(r, all, from, to, sign, u) ==
  LET n1 == FactorFourStep(r)[1]
      n2 == FactorFourStep(r)[2] IN
  IF r.n <= r.max
  THEN Launch(all, u, PerCube(r, Windows(r), r.n), CfftShared(r, from, to, sign, u))
  ELSE Launch(all, u, PerCube(r, Windows(r) * n2, n1), Radix1(r, from, sign, u))
         \o Launch(all, u, PerCube(r, Windows(r) * n1, n2), Radix2(r, sign, u))
         \o Launch(all, u, PerUnit(r, Windows(r) * r.n), Transpose(r, to, u))
-----------------------------------------------------------------------------
(* Real transforms.  The root to the power order / 4 is the imaginary unit.*)

Imaginary(r) == r.order \div 4

\* times / over of the real part of a cell, and of its imaginary part,
\* multiplied by the root to the power turn.
RealPart(cell, turn, times, over) ==
  <<Term(cell, turn, times, 2 * over, FALSE), Term(cell, turn, times, 2 * over, TRUE)>>
ImaginaryPart(r, cell, turn, times, over) ==
  <<Term(cell, turn - Imaginary(r), times, 2 * over, FALSE),
    Term(cell, turn - Imaginary(r), -times, 2 * over, TRUE)>>

\* Of a cell that counts as zero unless it is used.
Masked(used, terms) == When(used, terms)

\* `rfft_kernel`: zero past the samples used, and the lower half of the bins.
RfftShared(r, u) ==
  LET c == Window(r, "window", r.n, -1, u) IN
  When(c.cube < Windows(r),
       InShared(c, u, r.n \div 2 + 1,
                LAMBDA i : Masked(i < r.used, <<Of(Sample(r, "signal", r.len, c.cube, i))>>),
                LAMBDA k : <<Sample(r, "spectrum", r.n \div 2 + 1, c.cube, k), <<Of(Cell(c, k))>>>>))

\* `irfft_kernel`: the upper half mirrored from the lower, the real part scaled.
IrfftShared(r, u) ==
  LET c == Window(r, "window", r.n, 1, u)
      Bin(k) == IF k <= r.n \div 2 THEN k ELSE r.n - k IN
  When(c.cube < Windows(r),
       InShared(c, u, r.n,
                LAMBDA k : Masked(Bin(k) < r.used,
                                  <<Term(Sample(r, "spectrum", r.len, c.cube, Bin(k)), 0, 1, 1, k > r.n \div 2)>>),
                LAMBDA i : <<Sample(r, "signal", r.n, c.cube, i), RealPart(Cell(c, i), 0, 1, r.n)>>))

\* The problem of the packed window: half as long, turned by the same root.
Packed(r) == [r EXCEPT !.n = r.n \div 2]

\* `rfft_pack_kernel`: two samples to a complex number.
Pack(r, u) ==
  LET m == r.n \div 2
      window == u \div m
      k == u % m
      Part(i, turn) ==
        Masked(i < r.used, <<Term(Sample(r, "signal", r.len, window, i), turn, 1, 1, FALSE)>>) IN
  When(u < Windows(r) * m,
       <<Do(u, Sample(r, "packed", m, window, k) :> (Part(2 * k, 0) \o Part(2 * k + 1, Imaginary(r))))>>)

\* (wrong) the mirrored bin is not conjugated.
UnmirroredPost(r, u) ==
  LET m == r.n \div 2
      window == u \div (m + 1)
      k == u % (m + 1)
      Y(i) == Sample(r, "packed", m, window, i)
      turn == Imaginary(r) - k
      bin == CASE k = 0 -> RealPart(Y(0), 0, 1, 1) \o ImaginaryPart(r, Y(0), 0, 1, 1)
               [] k = m -> RealPart(Y(0), 0, 1, 1) \o ImaginaryPart(r, Y(0), 0, -1, 1)
               [] OTHER -> <<Term(Y(k), 0, 1, 2, FALSE), Term(Y(k), turn, -1, 2, FALSE),
                             Term(Y(m - k), 0, 1, 2, FALSE), Term(Y(m - k), turn, 1, 2, FALSE)>> IN
  When(u < Windows(r) * (m + 1), <<Do(u, Sample(r, "spectrum", m + 1, window, k) :> bin)>>)

\* `rfft_post_kernel`: a bin from two packed ones, half of
\* Y[k] (1 - i w^-k) + conj(Y[m - k]) (1 + i w^-k).
Post(r, u) ==
  LET m == r.n \div 2
      window == u \div (m + 1)
      k == u % (m + 1)
      Y(i) == Sample(r, "packed", m, window, i)
      turn == Imaginary(r) - k
      bin == CASE k = 0 -> RealPart(Y(0), 0, 1, 1) \o ImaginaryPart(r, Y(0), 0, 1, 1)
               [] k = m -> RealPart(Y(0), 0, 1, 1) \o ImaginaryPart(r, Y(0), 0, -1, 1)
               [] OTHER -> <<Term(Y(k), 0, 1, 2, FALSE), Term(Y(k), turn, -1, 2, FALSE),
                             Term(Y(m - k), 0, 1, 2, TRUE), Term(Y(m - k), turn, 1, 2, TRUE)>> IN
  When(u < Windows(r) * (m + 1), <<Do(u, Sample(r, "spectrum", m + 1, window, k) :> bin)>>)

\* `irfft_pre_kernel`: the other way round, with the bins past those used zero.
Pre(r, u) ==
  LET m == r.n \div 2
      window == u \div m
      k == u % m
      X(i) == Sample(r, "spectrum", r.len, window, i)
      turn == Imaginary(r) + k
      first == RealPart(X(0), 0, 1, 2) \o RealPart(X(0), Imaginary(r), 1, 2)
                 \o Masked(m < r.used, RealPart(X(m), 0, 1, 2) \o RealPart(X(m), Imaginary(r), -1, 2))
      other == Masked(k < r.used, <<Term(X(k), 0, 1, 2, FALSE), Term(X(k), turn, 1, 2, FALSE)>>)
                 \o Masked(m - k < r.used, <<Term(X(m - k), 0, 1, 2, TRUE), Term(X(m - k), turn, -1, 2, TRUE)>>) IN
  When(u < Windows(r) * m,
       <<Do(u, Sample(r, "packed", m, window, k) :> (IF k = 0 THEN first ELSE other))>>)

\* `irfft_unpack_kernel`.
Unpack(r, u) ==
  LET m == r.n \div 2
      window == u \div m
      k == u % m
      y == Sample(r, "unpacked", m, window, k) IN
  When(u < Windows(r) * m,
       <<Do(u, (Sample(r, "signal", r.n, window, 2 * k) :> RealPart(y, 0, 1, m))
                 @@ (Sample(r, "signal", r.n, window, 2 * k + 1) :> ImaginaryPart(r, y, 0, 1, m)))>>)

\* `rfft_launch_padded` and `rfft_large_launch`, whose transform is in place.
RfftLaunches(r, all, u) ==
  LET m == r.n \div 2 IN
  IF r.n <= r.max THEN Launch(all, u, PerCube(r, Windows(r), r.n), RfftShared(r, u))
  ELSE Launch(all, u, PerUnit(r, Windows(r) * m), Pack(r, u))
         \o CfftLaunches(Packed(r), all, "packed", "packed", -1, u)
         \o Launch(all, u, PerUnit(r, Windows(r) * (m + 1)), Post(r, u))

\* `irfft_launch_padded` and `irfft_large_launch`.
IrfftLaunches(r, all, u) ==
  LET m == r.n \div 2 IN
  IF r.n <= r.max THEN Launch(all, u, PerCube(r, Windows(r), r.n), IrfftShared(r, u))
  ELSE Launch(all, u, PerUnit(r, Windows(r) * m), Pre(r, u))
         \o CfftLaunches(Packed(r), all, "packed", "unpacked", 1, u)
         \o Launch(all, u, PerUnit(r, Windows(r) * m), Unpack(r, u))
-----------------------------------------------------------------------------
(* The transforms by their definition.                                     *)

\* The tensor whose sample <<b, k, a>> is Value(b, k, a), in row-major order.
Tensor(r, name, len, Value(_, _, _)) ==
  Sets({<<<<name, (i[1] * len + i[2]) * r.after + i[3]>>, Value(i[1], i[2], i[3])>>
          : i \in (0 .. r.before - 1) \X (0 .. len - 1) \X (0 .. r.after - 1)})

\* The k-th bin of n samples, with the root of order n to the power sign.
Transform(r, n, sign, k, Value(_)) ==
  SumOfBags([i \in 1 .. n |-> Turned(Value(i - 1), sign * k * (i - 1), r.order \div 2)])

\* The sample, numbered in its tensor, as an input counted `scale` times.
Given(r, len, scale, b, k, a) == Times(Input(<<"sample", (b * len + k) * r.after + a>>), scale, 1)

\* Enough units for the largest launch.
AllUnits(r, Launches(_, _)) ==
  LET all == 0 .. r.launched - 1 IN [u \in all |-> Launches(all, u)]

CfftKernel(r, to, sign) ==
  Kernel(AllUnits(r, LAMBDA all, u : CfftLaunches(r, all, "input", to, sign, u)),
         Tensor(r, "input", r.n, LAMBDA b, k, a : Given(r, r.n, 1, b, k, a)), {to},
         Tensor(r, to, r.n, LAMBDA b, k, a :
                  Transform(r, r.n, sign, k, LAMBDA i : Given(r, r.n, 1, b, i, a))),
         r.order \div 2)

RfftKernel(r) ==
  Kernel(AllUnits(r, LAMBDA all, u : RfftLaunches(r, all, u)),
         Tensor(r, "signal", r.len, LAMBDA b, k, a : Given(r, r.len, 2, b, k, a)), {"spectrum"},
         Tensor(r, "spectrum", r.n \div 2 + 1, LAMBDA b, k, a :
                  Transform(r, r.used, -1, k, LAMBDA i : Given(r, r.len, 2, b, i, a))),
         r.order \div 2)

\* A bin is two inputs, its real part and its imaginary one.
Bin(r, scale, b, k, a) ==
  SumOfBags(<<Given(r, r.len, scale, 2 * b, 2 * k, a),
              Turned(Given(r, r.len, scale, 2 * b, 2 * k + 1, a), Imaginary(r), r.order \div 2)>>)

IrfftKernel(r) ==
  LET half == r.order \div 2
      Full(b, k, a) ==
        LET lower == IF k <= r.n \div 2 THEN k ELSE r.n - k IN
        IF lower >= r.used THEN Zero
        ELSE IF k = lower THEN Bin(r, 1, b, k, a) ELSE Conjugate(Bin(r, 1, b, lower, a), half) IN
  Kernel(AllUnits(r, LAMBDA all, u : IrfftLaunches(r, all, u)),
         Tensor(r, "spectrum", r.len, LAMBDA b, k, a : Bin(r, 4 * r.n, b, k, a)), {"signal"},
         Tensor(r, "signal", r.n, LAMBDA b, k, a :
                  LET x == Transform(r, r.n, 1, k, LAMBDA i : Full(b, i, a)) IN
                  Times(SumOfBags(<<x, Conjugate(x, half)>>), 2, 1)),
         half)
=============================================================================
