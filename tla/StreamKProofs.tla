---------------------------- MODULE StreamKProofs ----------------------------
(***************************************************************************)
(* A grid shared out by portions of its steps is contracted once, whatever *)
(* the grid, the cubes and the order they drain in.  The portions' bounds  *)
(* are multiples of the steps divided by the instances, rounded down       *)
(* (Bound): they abut and leave nothing out, so that a step has one owner  *)
(* (OneOwner, SomeOwner), and a cell gets a step from its owner alone.     *)
(***************************************************************************)
EXTENDS StreamK, TLAPS

USE WordAssumption, LaunchAssumption

LEMMA MulMonotone ==
  ASSUME NEW a \in Nat, NEW b \in Nat, NEW c \in Nat, a <= b
  PROVE  a * c <= b * c /\ a * c \in Nat /\ b * c \in Nat
<1>1. PICK d \in Nat : b = a + d
  <2>1. b - a \in Nat /\ b = a + (b - a)
    OBVIOUS
  <2> QED
    BY <2>1
<1>2. b * c = a * c + d * c
  BY <1>1
<1>3. a * c \in Nat /\ d * c \in Nat
  OBVIOUS
<1> QED
  BY <1>2, <1>3

\* A quotient, by the multiple below and the one above.
LEMMA Quotient ==
  ASSUME NEW a \in Nat, NEW n \in Nat \ {0}
  PROVE  /\ a \div n \in Nat
         /\ (a \div n) * n <= a
         /\ a < (a \div n + 1) * n
OBVIOUS

\* A quotient is at most x where a lies below the multiple of x + 1, and at
\* least x where a reaches the multiple of x.
LEMMA QuotientBounds ==
  ASSUME NEW a \in Nat, NEW n \in Nat \ {0}, NEW x \in Nat
  PROVE  /\ a < (x + 1) * n => a \div n <= x
         /\ x * n <= a => x <= a \div n
<1> DEFINE q == a \div n
<1>1. q \in Nat /\ q * n <= a /\ a < (q + 1) * n
  BY Quotient
<1>2. ASSUME a < (x + 1) * n, x < q PROVE FALSE
  <2>1. x + 1 <= q
    BY <1>1, <1>2
  <2>2. (x + 1) * n <= q * n
    BY <1>1, <2>1, MulMonotone
  <2>3. (x + 1) * n \in Nat /\ q * n \in Nat
    BY <1>1, <2>1, MulMonotone
  <2> HIDE DEF q
  <2> QED
    BY <1>1, <1>2, <2>2, <2>3
<1>3. ASSUME x * n <= a, q < x PROVE FALSE
  <2>1. q + 1 <= x
    BY <1>1, <1>3
  <2>2. (q + 1) * n <= x * n /\ (q + 1) * n \in Nat /\ x * n \in Nat
    BY <1>1, <2>1, MulMonotone
  <2> HIDE DEF q
  <2> QED
    BY <1>1, <1>3, <2>2
<1> QED
  BY <1>1, <1>2, <1>3

-----------------------------------------------------------------------------
\* The bound between portions p - 1 and p, over unbounded integers.
Bound(g, p) == (p * (g.total * g.stride)) \div g.instances

\* Where the products fit a word, the code's bounds are Bound's.
LEMMA BoundsFit ==
  ASSUME NEW g \in Grids, Fits(g), NEW p \in 0 .. g.instances - 1
  PROVE  /\ Steps(g) = g.total * g.stride
         /\ Start(g, p) = Bound(g, p)
         /\ End(g, p) = Bound(g, p + 1)
<1> DEFINE S == g.total * g.stride
           n == g.instances
<1>1. n \in Nat \ {0} /\ S \in Nat /\ n * S < Word /\ n * S \in Nat
  BY DEF Grids, Fits
<1> HIDE DEF S, n
<1>2. \A q \in 0 .. n : q * S \in Nat /\ q * S < Word
  BY <1>1, MulMonotone
<1>3. S = 1 * S /\ 1 \in 0 .. n
  BY <1>1
<1>4. S \in 0 .. Word - 1
  BY <1>1, <1>2, <1>3
<1>5. \A x \in 0 .. Word - 1 : x % Word = x
  OBVIOUS
<1>6. S % Word = S
  BY <1>4, <1>5
<1>7. p \in 0 .. n /\ p + 1 \in 0 .. n
  BY <1>1 DEF n
<1>8. (p * S) % Word = p * S /\ ((p + 1) * S) % Word = (p + 1) * S
  BY <1>2, <1>5, <1>7
<1> QED
  BY <1>6, <1>8 DEF Steps, Start, End, Bound, S, n

\* The first bound is the first step, the last one the end of the steps, and
\* the bounds never fall.
LEMMA BoundsAscend ==
  ASSUME NEW g \in Grids
  PROVE  /\ Bound(g, 0) = 0
         /\ Bound(g, g.instances) = g.total * g.stride
         /\ \A p \in Nat : Bound(g, p) \in Nat
         /\ \A p, q \in Nat : p <= q => Bound(g, p) <= Bound(g, q)
<1> DEFINE S == g.total * g.stride
           n == g.instances
           B(p) == (p * S) \div n
<1>1. n \in Nat \ {0} /\ S \in Nat
  BY DEF Grids
<1> HIDE DEF S, n
<1>2. ASSUME NEW p \in Nat, NEW q \in Nat, p <= q
      PROVE  B(p) \in Nat /\ B(q) \in Nat /\ B(p) <= B(q)
  <2>1. p * S \in Nat /\ q * S \in Nat /\ p * S <= q * S
    BY <1>1, <1>2, MulMonotone
  <2>2. B(p) \in Nat /\ B(p) * n <= p * S /\ B(q) \in Nat
    BY <1>1, <2>1, Quotient
  <2>3. B(p) * n <= q * S
    BY <1>1, <2>1, <2>2
  <2> QED
    BY <1>1, <2>1, <2>2, <2>3, QuotientBounds
<1>3. B(0) = 0
  BY <1>1
<1>4. B(n) = S
  <2>1. n * S \in Nat /\ n * S = S * n /\ n * S < (S + 1) * n
    BY <1>1
  <2>2. B(n) <= S /\ S <= B(n) /\ B(n) \in Nat
    BY <1>1, <2>1, QuotientBounds, Quotient
  <2> QED
    BY <1>1, <2>2
<1> QED
  BY <1>2, <1>3, <1>4 DEF Bound, S, n

\* A step is in one portion at most.
LEMMA OneOwner ==
  ASSUME NEW g \in Grids, Fits(g), NEW x \in Nat,
         NEW p \in 0 .. g.instances - 1, NEW q \in 0 .. g.instances - 1,
         Start(g, p) <= x, x < End(g, p), Start(g, q) <= x, x < End(g, q)
  PROVE  p = q
<1>1. /\ Bound(g, p) <= x /\ x < Bound(g, p + 1)
      /\ Bound(g, q) <= x /\ x < Bound(g, q + 1)
  BY BoundsFit
<1>2. g.instances \in Nat /\ p \in Nat /\ q \in Nat
  BY DEF Grids
<1>3. \A a, b \in Nat : a <= b => Bound(g, a) <= Bound(g, b)
  BY BoundsAscend
<1>4. \A a \in Nat : Bound(g, a) \in Nat
  BY BoundsAscend
<1>5. ~(p + 1 <= q)
  BY <1>1, <1>2, <1>3, <1>4
<1>6. ~(q + 1 <= p)
  BY <1>1, <1>2, <1>3, <1>4
<1> QED
  BY <1>2, <1>5, <1>6

\* Every step of the grid is in some portion: the owner is found by dividing back.
LEMMA SomeOwner ==
  ASSUME NEW g \in Grids, Fits(g), NEW x \in 0 .. g.total * g.stride - 1
  PROVE  \E p \in 0 .. g.instances - 1 : Start(g, p) <= x /\ x < End(g, p)
<1> DEFINE S == g.total * g.stride
           n == g.instances
           a == (x + 1) * n - 1
           p == a \div S
<1>1. n \in Nat \ {0} /\ S \in Nat \ {0} /\ x \in Nat /\ x + 1 <= S
  BY DEF Grids
<1> HIDE DEF S, n
<1>2. (x + 1) * n <= S * n /\ (x + 1) * n \in Nat /\ (x + 1) * n >= n
  BY <1>1, MulMonotone
<1>3. a \in Nat /\ a < n * S /\ a < (x + 1) * n
  BY <1>1, <1>2
<1> HIDE DEF a
<1>4. p \in Nat /\ p * S <= a /\ a < (p + 1) * S
  BY <1>1, <1>3, Quotient
<1>5. p <= n - 1
  BY <1>1, <1>3, QuotientBounds
<1> HIDE DEF p
<1>6. p * S \in Nat /\ (p + 1) * S \in Nat /\ p * S < (x + 1) * n
  BY <1>1, <1>2, <1>3, <1>4
<1>7. (p * S) \div n <= x
  BY <1>1, <1>6, QuotientBounds
<1>8. (x + 1) * n <= (p + 1) * S
  BY <1>1, <1>2, <1>4, <1>6 DEF a
<1>9. x + 1 <= ((p + 1) * S) \div n
  BY SMTT(30), <1>1, <1>6, <1>8, QuotientBounds
<1>10. p \in 0 .. n - 1
  BY <1>1, <1>4, <1>5
<1>11. Bound(g, p) <= x /\ x < Bound(g, p + 1)
  <2>1. ((p + 1) * S) \div n \in Nat
    BY <1>1, <1>6, Quotient
  <2> QED
    BY <1>1, <1>7, <1>9, <2>1 DEF Bound, S, n
<1> QED
  BY <1>10, <1>11, BoundsFit DEF n

\* The lengths of two portions differ by one step at most.
LEMMA LengthsBalance ==
  ASSUME NEW g \in Grids, Fits(g),
         NEW p \in 0 .. g.instances - 1, NEW q \in 0 .. g.instances - 1
  PROVE  End(g, p) - Start(g, p) <= End(g, q) - Start(g, q) + 1
<1> DEFINE S == g.total * g.stride
           n == g.instances
           a(r) == Bound(g, r)
           b(r) == Bound(g, r + 1)
<1>1. n \in Nat \ {0} /\ S \in Nat
  BY DEF Grids
<1> HIDE DEF S, n
<1>2. ASSUME NEW r \in Nat
      PROVE  /\ a(r) \in Nat /\ b(r) \in Nat
             /\ n * (b(r) - a(r)) < S + n
             /\ S < n * (b(r) - a(r)) + n
  <2>1. r * S \in Nat /\ (r + 1) * S = r * S + S /\ (r + 1) * S \in Nat
    BY <1>1
  <2>2. a(r) \in Nat /\ a(r) * n <= r * S /\ r * S < (a(r) + 1) * n
    BY <1>1, <2>1, Quotient DEF Bound, S, n
  <2>3. b(r) \in Nat /\ b(r) * n <= (r + 1) * S /\ (r + 1) * S < (b(r) + 1) * n
    BY <1>1, <2>1, Quotient DEF Bound, S, n
  <2> HIDE DEF a, b
  <2>4. n * (b(r) - a(r)) = b(r) * n - a(r) * n
    BY <1>1, <2>2, <2>3
  <2>5. (a(r) + 1) * n = a(r) * n + n /\ (b(r) + 1) * n = b(r) * n + n
    BY <1>1, <2>2, <2>3
  <2>6. a(r) * n \in Nat /\ b(r) * n \in Nat /\ n * (b(r) - a(r)) \in Int
    BY <1>1, <2>2, <2>3
  <2> QED
    BY <1>1, <2>1, <2>2, <2>3, <2>4, <2>5, <2>6
<1>3. p \in Nat /\ q \in Nat
  BY <1>1 DEF n
<1> DEFINE k == b(p) - a(p)
           l == b(q) - a(q)
<1>4. k \in Int /\ l \in Int /\ n * k < S + n /\ S < n * l + n
  BY <1>2, <1>3
<1> HIDE DEF k, l
<1>5. ASSUME k >= l + 2 PROVE FALSE
  <2>1. PICK d \in Nat : k = l + 2 + d
    <3>1. k - l - 2 \in Nat /\ k = l + 2 + (k - l - 2)
      BY <1>4, <1>5
    <3> QED
      BY <3>1
  <2>2. n * k = n * l + n + n + n * d /\ n * d \in Nat
    BY <1>1, <1>4, <2>1
  <2>3. n * k \in Int /\ n * l \in Int
    BY <1>1, <1>4
  <2> QED
    BY <1>1, <1>4, <2>2, <2>3
<1>6. k <= l + 1
  BY <1>4, <1>5
<1> QED
  BY <1>6, BoundsFit DEF k, l

-----------------------------------------------------------------------------
\* A portion's bounds are steps of the grid.
LEMMA PortionBounds ==
  ASSUME NEW g \in Grids, Fits(g), NEW p \in 0 .. g.instances - 1
  PROVE  /\ Start(g, p) \in Nat /\ End(g, p) \in Nat
         /\ Start(g, p) <= End(g, p) /\ End(g, p) <= g.total * g.stride
<1>1. g.instances \in Nat /\ p \in Nat /\ p + 1 <= g.instances
  BY DEF Grids
<1>2. Bound(g, p) <= Bound(g, p + 1) /\ Bound(g, p + 1) <= Bound(g, g.instances)
  BY <1>1, BoundsAscend
<1> QED
  BY <1>1, <1>2, BoundsAscend, BoundsFit

\* The regions a portion touches are those its steps are in.
LEMMA TouchedRegions ==
  ASSUME NEW g \in Grids, Fits(g), NEW p \in 0 .. g.instances - 1
  PROVE  /\ FirstTouched(g, p) \in Nat /\ Touched(g, p) \in Nat
         /\ \A i \in Nat : i < Touched(g, p) => FirstTouched(g, p) + i < g.total
         /\ \A r \in Nat, s \in 0 .. g.stride - 1 :
              Start(g, p) <= r * g.stride + s /\ r * g.stride + s < End(g, p)
                => FirstTouched(g, p) <= r /\ r < FirstTouched(g, p) + Touched(g, p)
<1> DEFINE t == g.stride
           a == Start(g, p)
           b == End(g, p)
           f == a \div t
           z == (b - 1) \div t
<1>1. t \in Nat \ {0} /\ g.total \in Nat
  BY DEF Grids
<1>2. a \in Nat /\ b \in Nat /\ a <= b /\ b <= g.total * t
  BY PortionBounds
<1>3. FirstTouched(g, p) = f /\ Touched(g, p) = IF a < b THEN z + 1 - f ELSE 0
  BY DEF FirstTouched, Touched
<1> HIDE DEF t, a, b
<1>4. f \in Nat /\ f * t <= a
  BY <1>1, <1>2, Quotient
<1>5. ASSUME a < b PROVE z \in Nat /\ f <= z /\ z < g.total
  <2>1. b - 1 \in Nat /\ a <= b - 1 /\ f * t \in Nat
    BY <1>1, <1>2, <1>4, <1>5
  <2>2. z \in Nat
    BY <1>1, <2>1, Quotient
  <2>3. f * t <= b - 1
    BY <1>2, <1>4, <2>1
  <2>4. f <= z
    BY <1>1, <1>4, <2>1, <2>3, QuotientBounds
  <2>5. g.total # 0
    BY <1>1, <1>2, <1>5
  <2>6. b - 1 < (g.total - 1 + 1) * t /\ g.total - 1 \in Nat
    BY <1>1, <1>2, <2>1, <2>5
  <2>7. z <= g.total - 1
    BY <1>1, <2>1, <2>6, QuotientBounds
  <2> HIDE DEF f, z
  <2> QED
    BY <1>1, <2>2, <2>4, <2>7
<1>6. ASSUME NEW r \in Nat, NEW s \in 0 .. t - 1, a <= r * t + s, r * t + s < b
      PROVE  a < b /\ f <= r /\ r <= z
  <2>1. r * t \in Nat /\ (r + 1) * t = r * t + t /\ s \in Nat /\ s < t
    BY <1>1, <1>6
  <2>2. a < b /\ b - 1 \in Nat
    BY <1>1, <1>2, <1>6, <2>1
  <2>3. a < (r + 1) * t
    BY <1>1, <1>2, <1>6, <2>1
  <2>4. r * t <= b - 1
    BY <1>1, <1>2, <1>6, <2>1
  <2> QED
    BY <1>1, <1>2, <2>2, <2>3, <2>4, QuotientBounds
<1> HIDE DEF f, z
<1> QED
  BY <1>1, <1>3, <1>4, <1>5, <1>6 DEF t, a, b

\* Of a region it touches an instance walks the steps of its portion.
LEMMA PartOfRegion ==
  ASSUME NEW g \in Grids, Fits(g), NEW p \in 0 .. g.instances - 1,
         NEW i \in Nat, i < Touched(g, p)
  PROVE  LET r == FirstTouched(g, p) + i IN
         /\ r \in 0 .. g.total - 1
         /\ From(g, p, i) .. To(g, p, i) - 1
              = {s \in 0 .. g.stride - 1 :
                   Start(g, p) <= r * g.stride + s /\ r * g.stride + s < End(g, p)}
<1> DEFINE r == FirstTouched(g, p) + i
           t == g.stride
           a == Start(g, p)
           b == End(g, p)
           base == r * t
<1>1. t \in Nat \ {0} /\ g.total \in Nat
  BY DEF Grids
<1>2. FirstTouched(g, p) \in Nat /\ r \in Nat /\ r < g.total
  BY TouchedRegions
<1>3. base \in Nat
  BY <1>1, <1>2
<1>4. a \in Nat /\ b \in Nat
  BY PortionBounds
<1>5. /\ From(g, p, i) = IF base < a THEN a - base ELSE 0
      /\ To(g, p, i) = IF b < base + t THEN b - base ELSE t
  BY DEF From, To, Base
<1> HIDE DEF r, t, a, b, base
<1>6. From(g, p, i) .. To(g, p, i) - 1 = {s \in 0 .. t - 1 : a <= base + s /\ base + s < b}
  BY <1>1, <1>3, <1>4, <1>5
<1> QED
  BY <1>1, <1>2, <1>6 DEF r, t, a, b, base

-----------------------------------------------------------------------------
\* What every step may count on of the launch and of an open accumulator.
LEMMA OpenPart ==
  ASSUME IInv, NEW c \in Cubes
  PROVE  /\ grid \in Grids /\ Fits(grid)
         /\ acc[c] # Closed =>
              /\ RegionOf(c) \in Regions
              /\ acc[c] = {s \in RegionSteps :
                             /\ Start(grid, c) <= RegionOf(c) * grid.stride + s
                             /\ RegionOf(c) * grid.stride + s < End(grid, c)}
<1>1. grid \in Grids /\ Fits(grid)
  BY DEF IInv, TypeOK
<1>2. at[c] \in Nat
  BY DEF IInv, TypeOK
<1>3. acc[c] # Closed => /\ at[c] < Touched(grid, c)
                         /\ acc[c] = From(grid, c, at[c]) .. To(grid, c, at[c]) - 1
  BY DEF IInv
<1>4. ASSUME acc[c] # Closed
      PROVE  /\ RegionOf(c) \in Regions
             /\ acc[c] = {s \in RegionSteps :
                            /\ Start(grid, c) <= RegionOf(c) * grid.stride + s
                            /\ RegionOf(c) * grid.stride + s < End(grid, c)}
  <2>1. c \in 0 .. grid.instances - 1 /\ at[c] < Touched(grid, c)
    BY <1>3, <1>4 DEF Cubes
  <2>2. LET r == FirstTouched(grid, c) + at[c] IN
          /\ r \in 0 .. grid.total - 1
          /\ acc[c] = {s \in 0 .. grid.stride - 1 :
                         Start(grid, c) <= r * grid.stride + s /\ r * grid.stride + s < End(grid, c)}
    BY ZenonT(30), <1>1, <1>2, <1>3, <1>4, <2>1, PartOfRegion
  <2> QED
    BY <2>2 DEF Regions, RegionSteps, RegionOf
<1> QED
  BY <1>1, <1>4

\* A step of a region is drained by its owner alone.
LEMMA AddedByOne ==
  ASSUME IInv, NEW c \in Cubes, NEW d \in Cubes,
         NEW r \in Regions, NEW k, NEW s \in RegionSteps,
         Start(grid, c) <= r * grid.stride + s, r * grid.stride + s < End(grid, c),
         Added(d, r, k, s)
  PROVE  d = c
<1>1. grid \in Grids /\ Fits(grid)
  BY OpenPart
<1>2. r * grid.stride + s \in Nat
  BY <1>1 DEF Regions, RegionSteps, Grids
<1> QED
  BY <1>1, <1>2, OneOwner DEF Added, Cubes

LEMMA InitInv == Init => IInv
<1> SUFFICES ASSUME Init PROVE IInv
  OBVIOUS
<1>1. grid \in Grids /\ Fits(grid)
  BY DEF Init
<1>2. \A c \in Cubes : FirstTouched(grid, c) \in Nat /\ Touched(grid, c) \in Nat
  BY <1>1, TouchedRegions DEF Cubes
<1>3. TypeOK
  BY <1>2 DEF Init, TypeOK
<1>4. ASSUME NEW c \in Cubes, NEW r \in Regions, NEW k \in Cells, NEW s \in RegionSteps
      PROVE  ~Added(c, r, k, s)
  <2>1. r \in Nat /\ s \in 0 .. grid.stride - 1 /\ RegionOf(c) = FirstTouched(grid, c)
    BY <1>1, <1>2 DEF Init, RegionOf, Regions, RegionSteps, Grids
  <2>2. SUFFICES ASSUME r < RegionOf(c), Added(c, r, k, s) PROVE FALSE
    BY DEF Added, Init
  <2>3. FirstTouched(grid, c) <= r
    BY <1>1, <2>1, <2>2, TouchedRegions DEF Added, Cubes
  <2> QED
    BY <1>2, <2>1, <2>2, <2>3
<1> QED
  BY <1>3, <1>4 DEF IInv, Init

LEMMA ContractStep ==
  ASSUME IInv, NEW c \in Cubes, Contract(c)
  PROVE  IInv'
<1>1. grid \in Grids /\ Fits(grid) /\ grid' = grid /\ at' = at /\ drained' = drained /\ cell' = cell
  BY OpenPart DEF Contract
<1>2. at[c] \in Nat /\ at[c] < Touched(grid, c)
  BY DEF IInv, TypeOK, Contract
<1>3. /\ RegionOf(c) \in Regions
      /\ From(grid, c, at[c]) .. To(grid, c, at[c]) - 1 \subseteq RegionSteps
  BY <1>1, <1>2, PartOfRegion DEF Cubes, Regions, RegionSteps, RegionOf
<1>4. acc' = [acc EXCEPT ![c] = From(grid, c, at[c]) .. To(grid, c, at[c]) - 1]
  BY DEF Contract
<1>5. Cubes' = Cubes /\ Regions' = Regions /\ RegionSteps' = RegionSteps
      /\ \A d : RegionOf(d)' = RegionOf(d)
  BY <1>1 DEF Cubes, Regions, RegionSteps, RegionOf
<1>6. TypeOK'
  BY <1>1, <1>3, <1>4, <1>5 DEF IInv, TypeOK
<1>7. ASSUME NEW d \in Cubes
      PROVE  \/ acc'[d] = Closed /\ drained[d] = {}
             \/ at[d] < Touched(grid, d) /\ acc'[d] = From(grid, d, at[d]) .. To(grid, d, at[d]) - 1
  BY <1>2, <1>4 DEF IInv, TypeOK
<1>8. \A d, r, k, s : Added(d, r, k, s)' <=> Added(d, r, k, s)
  BY <1>1, <1>5 DEF Added
<1> QED
  BY <1>1, <1>5, <1>6, <1>7, <1>8 DEF IInv

\* A cell takes in a cube's part of a region once: nobody else has those steps
\* (AddedByOne), and the cube has not added into this cell before.
LEMMA DrainStep ==
  ASSUME IInv, NEW c \in Cubes, NEW k \in Cells, DrainCell(c, k)
  PROVE  IInv'
<1> DEFINE r == RegionOf(c)
<1>1. /\ r \in Regions /\ acc[c] # Closed /\ k \notin drained[c]
      /\ acc[c] = {s \in RegionSteps : /\ Start(grid, c) <= r * grid.stride + s
                                       /\ r * grid.stride + s < End(grid, c)}
  BY OpenPart DEF DrainCell
<1>2. grid' = grid /\ at' = at /\ acc' = acc
  BY DEF DrainCell
<1>3. Cubes' = Cubes /\ Regions' = Regions /\ RegionSteps' = RegionSteps
      /\ \A d : RegionOf(d)' = RegionOf(d)
  BY <1>2 DEF Cubes, Regions, RegionSteps, RegionOf
<1>4. drained' = [drained EXCEPT ![c] = drained[c] \cup {k}]
  BY DEF DrainCell
<1>5. \A q \in Regions, j \in Cells, s \in RegionSteps :
        cell'[q][j][s] = IF q = r /\ j = k /\ s \in acc[c] THEN cell[q][j][s] + 1 ELSE cell[q][j][s]
  BY SMTT(30), <1>1 DEF DrainCell, IInv, TypeOK
<1>6. cell' \in [Regions -> [Cells -> [RegionSteps -> Nat]]]
  <2>1. [s \in RegionSteps |-> cell[r][k][s] + IF s \in acc[c] THEN 1 ELSE 0] \in [RegionSteps -> Nat]
    BY <1>1 DEF IInv, TypeOK
  <2> QED
    BY <1>1, <2>1 DEF DrainCell, IInv, TypeOK
<1>7. TypeOK'
  BY <1>2, <1>3, <1>4, <1>6 DEF IInv, TypeOK
<1>8. ASSUME NEW d \in Cubes
      PROVE  \/ acc[d] = Closed /\ drained'[d] = {}
             \/ at[d] < Touched(grid, d) /\ acc[d] = From(grid, d, at[d]) .. To(grid, d, at[d]) - 1
  BY <1>1, <1>4 DEF IInv, TypeOK
<1>9. ASSUME NEW d \in Cubes, NEW q \in Regions, NEW j \in Cells, NEW s \in RegionSteps
      PROVE  Added(d, q, j, s)' <=> Added(d, q, j, s) \/ (d = c /\ q = r /\ j = k /\ s \in acc[c])
  BY <1>1, <1>2, <1>3, <1>4, <1>9 DEF Added, IInv, TypeOK
<1>10. ASSUME NEW q \in Regions, NEW j \in Cells, NEW s \in RegionSteps
       PROVE  cell'[q][j][s] = IF \E d \in Cubes : Added(d, q, j, s)' THEN 1 ELSE 0
  <2>1. cell[q][j][s] = IF \E d \in Cubes : Added(d, q, j, s) THEN 1 ELSE 0
    BY DEF IInv
  <2>2. CASE q = r /\ j = k /\ s \in acc[c]
    <3>1. \A d \in Cubes : Added(d, q, j, s) => d = c
      BY <1>1, <2>2, AddedByOne
    <3>2. ~Added(c, q, j, s)
      <4>1. r \in Nat
        BY <1>1 DEF Regions
      <4> QED
        BY <1>1, <2>2, <4>1 DEF Added
    <3> QED
      BY <1>5, <1>9, <2>1, <2>2, <3>1, <3>2
  <2>3. CASE ~(q = r /\ j = k /\ s \in acc[c])
    BY <1>5, <1>9, <2>1, <2>3
  <2> QED
    BY <2>2, <2>3
<1> QED
  BY <1>2, <1>3, <1>7, <1>8, <1>10 DEF IInv

LEMMA NextRegionStep ==
  ASSUME IInv, NEW c \in Cubes, NextRegion(c)
  PROVE  IInv'
<1>1. grid' = grid /\ cell' = cell
  BY DEF NextRegion
<1>2. Cubes' = Cubes /\ Regions' = Regions /\ RegionSteps' = RegionSteps
  BY <1>1 DEF Cubes, Regions, RegionSteps
<1>3. /\ acc[c] # Closed /\ drained[c] = Cells /\ at[c] < Touched(grid, c)
      /\ RegionOf(c) \in Regions
  BY OpenPart DEF NextRegion, IInv
<1>4. /\ at' = [at EXCEPT ![c] = at[c] + 1] /\ acc' = [acc EXCEPT ![c] = Closed]
      /\ drained' = [drained EXCEPT ![c] = {}]
  BY DEF NextRegion
<1>5. \A d \in Cubes : at[d] \in Nat /\ Touched(grid, d) \in Nat /\ FirstTouched(grid, d) \in Nat
  BY OpenPart, TouchedRegions DEF IInv, TypeOK, Cubes
<1>6. \A d \in Cubes : RegionOf(d)' = IF d = c THEN RegionOf(c) + 1 ELSE RegionOf(d)
  BY <1>1, <1>4, <1>5 DEF RegionOf, IInv, TypeOK
<1>7. TypeOK'
  <2>1. at' \in [Cubes -> Nat] /\ acc' \in [Cubes -> {Closed} \cup SUBSET RegionSteps]
        /\ drained' \in [Cubes -> SUBSET Cells]
    BY <1>4, <1>5 DEF IInv, TypeOK
  <2>2. ASSUME NEW d \in Cubes
        PROVE  at'[d] <= Touched(grid, d) /\ (acc'[d] # Closed => RegionOf(d)' \in Regions)
    BY <1>3, <1>4, <1>5, <1>6 DEF IInv, TypeOK
  <2> QED
    BY <1>1, <1>2, <2>1, <2>2 DEF IInv, TypeOK
<1>8. ASSUME NEW d \in Cubes
      PROVE  \/ acc'[d] = Closed /\ drained'[d] = {}
             \/ at'[d] < Touched(grid, d) /\ acc'[d] = From(grid, d, at'[d]) .. To(grid, d, at'[d]) - 1
  BY <1>4 DEF IInv, TypeOK
<1>9. ASSUME NEW d \in Cubes, NEW q \in Regions, NEW j \in Cells, NEW s \in RegionSteps
      PROVE  Added(d, q, j, s)' <=> Added(d, q, j, s)
  <2>1. q \in Int /\ RegionOf(d) \in Int
    BY <1>5 DEF Regions, RegionOf
  <2>2. CASE d = c
    BY <1>1, <1>3, <1>4, <1>6, <2>1, <2>2 DEF Added, IInv, TypeOK
  <2>3. CASE d # c
    BY <1>1, <1>4, <1>6, <2>3 DEF Added, IInv, TypeOK
  <2> QED
    BY <2>2, <2>3
<1> QED
  BY <1>1, <1>2, <1>7, <1>8, <1>9 DEF IInv

\* IInv holds in every reachable state of every launch.
THEOREM StreamInvariance == Spec => []IInv
<1>1. Init => IInv
  BY InitInv
<1>2. IInv /\ [Next]_vars => IInv'
  <2> SUFFICES ASSUME IInv, [Next]_vars PROVE IInv'
    OBVIOUS
  <2>1. CASE \E c \in Cubes : Contract(c) \/ NextRegion(c) \/ \E k \in Cells : DrainCell(c, k)
    BY <2>1, ContractStep, NextRegionStep, DrainStep
  <2>2. CASE UNCHANGED vars
    BY <2>2 DEF vars, IInv, TypeOK, Added, Cubes, Regions, RegionSteps, RegionOf
  <2> QED
    BY <2>1, <2>2 DEF Next, Returned
<1> QED
  BY <1>1, <1>2, PTL DEF Spec

\* No step lands twice in a cell, however many cubes share its region.
THEOREM NoStepLandsTwice == Spec => []NoStepTwice
<1>1. IInv => NoStepTwice
  BY DEF IInv, NoStepTwice
<1> QED
  BY <1>1, StreamInvariance, PTL

\* When every cube has returned, every cell holds every step of its region once.
THEOREM EveryStepLands == Spec => []EveryStepOnce
<1>1. IInv => EveryStepOnce
  <2> SUFFICES ASSUME IInv, Done, NEW r \in Regions, NEW k \in Cells, NEW s \in RegionSteps
               PROVE  cell[r][k][s] = 1
    BY DEF EveryStepOnce
  <2> DEFINE x == r * grid.stride + s
  <2>1. grid \in Grids /\ Fits(grid)
    BY DEF IInv, TypeOK
  <2>2. r \in Nat /\ s \in 0 .. grid.stride - 1 /\ x \in 0 .. grid.total * grid.stride - 1
    <3>1. grid.total \in Nat /\ grid.stride \in Nat \ {0} /\ r \in Nat /\ r + 1 <= grid.total
          /\ s \in Nat /\ s < grid.stride
      BY <2>1 DEF Grids, Regions, RegionSteps
    <3>2. (r + 1) * grid.stride <= grid.total * grid.stride
      BY <3>1, MulMonotone
    <3>3. (r + 1) * grid.stride = r * grid.stride + grid.stride /\ r * grid.stride \in Nat
          /\ grid.total * grid.stride \in Nat
      BY <3>1
    <3> QED
      BY <3>1, <3>2, <3>3
  <2>3. PICK c \in Cubes : Start(grid, c) <= x /\ x < End(grid, c)
    BY <2>1, <2>2, SomeOwner DEF Cubes
  <2>4. r < FirstTouched(grid, c) + Touched(grid, c)
    BY <2>1, <2>2, <2>3, TouchedRegions DEF Cubes
  <2>5. r < RegionOf(c)
    BY <2>4 DEF Done, RegionOf
  <2>6. Added(c, r, k, s)
    BY <2>3, <2>5 DEF Added
  <2> QED
    BY <2>6 DEF IInv
<1> QED
  BY <1>1, StreamInvariance, PTL

\* The work is shared evenly: portions differ by one step at most, and who has
\* none opens no region.
THEOREM PortionsBalance == Spec => []Balanced
<1>1. IInv => Balanced
  <2> SUFFICES ASSUME IInv, NEW c \in Cubes, NEW d \in Cubes
               PROVE  /\ End(grid, c) - Start(grid, c) <= End(grid, d) - Start(grid, d) + 1
                      /\ End(grid, c) - Start(grid, c) = 0 => Touched(grid, c) = 0
    BY DEF Balanced
  <2>1. grid \in Grids /\ Fits(grid)
    BY DEF IInv, TypeOK
  <2>2. Start(grid, c) \in Nat /\ End(grid, c) \in Nat
    BY <2>1, PortionBounds DEF Cubes
  <2> QED
    BY <2>1, <2>2, LengthsBalance DEF Cubes, Touched
<1> QED
  BY <1>1, StreamInvariance, PTL
=============================================================================
