-------------------------- MODULE WalkOdometerProofs --------------------------
(***************************************************************************)
(* A level hands each tile of its grid to one instance, whatever the       *)
(* distribution, the spread, the axes that share a dimension and the order *)
(* of the boxes.  An odometer counts in a mixed radix: every digit string  *)
(* is the digits of one number (SameDigits, SomeNumber), be they a walk's  *)
(* steps or the instances of a dimension.  Along an axis, a position and a *)
(* step of its share make each tile once (AxisCovers, AxisParts); a        *)
(* swizzle permutes the boxes (PlaneParts, PlaneCovers, PlaneOff).  So     *)
(* position and step make each tile once (RegionDiffers, RegionCovers),    *)
(* and `taken` counts the steps that name a tile.                          *)
(***************************************************************************)
EXTENDS WalkOdometer, Unrolling, FiniteSetTheorems, FunctionTheorems

USE WordAssumption

\* Up and down the positions of a sequence.
LEMMA InductUp ==
  ASSUME NEW n \in Nat, NEW S, 1 \in S, \A p \in 1 .. n : p \in S => p + 1 \in S
  PROVE  1 .. n + 1 \subseteq S
<1> DEFINE T == {k \in Nat : k <= n => k + 1 \in S}
<1>1. 0 \in T
  OBVIOUS
<1>2. ASSUME NEW k \in Nat, k \in T PROVE k + 1 \in T
  <2>1. CASE k + 1 <= n
    <3>1. k + 1 \in 1 .. n /\ k + 1 \in S
      BY <1>2, <2>1
    <3> QED
      BY <3>1
  <2>2. CASE ~(k + 1 <= n)
    BY <2>2
  <2> QED
    BY <2>1, <2>2
<1>3. Nat \subseteq T
  <2> HIDE DEF T
  <2> QED
    BY <1>1, <1>2, Induct
<1>4. ASSUME NEW p \in 1 .. n + 1 PROVE p \in S
  <2>1. p - 1 \in T
    <3> HIDE DEF T
    <3> QED
      BY <1>3
  <2>2. p - 1 <= n /\ (p - 1) + 1 = p
    OBVIOUS
  <2> QED
    BY <2>1, <2>2
<1> QED
  BY <1>4

LEMMA InductDown ==
  ASSUME NEW n \in Nat, NEW S, n + 1 \in S, \A p \in 1 .. n : p + 1 \in S => p \in S
  PROVE  1 .. n + 1 \subseteq S
<1> DEFINE T == {k \in Nat : k <= n => (n + 1) - k \in S}
<1>1. 0 \in T
  OBVIOUS
<1>2. ASSUME NEW k \in Nat, k \in T PROVE k + 1 \in T
  <2> SUFFICES ASSUME k + 1 <= n PROVE (n + 1) - (k + 1) \in S
    OBVIOUS
  <2>1. (n + 1) - (k + 1) \in 1 .. n /\ ((n + 1) - (k + 1)) + 1 = (n + 1) - k
    OBVIOUS
  <2>2. (n + 1) - k \in S
    BY <1>2
  <2> QED
    BY <2>1, <2>2
<1>3. Nat \subseteq T
  <2> HIDE DEF T
  <2> QED
    BY <1>1, <1>2, Induct
<1>4. ASSUME NEW p \in 1 .. n + 1 PROVE p \in S
  <2>1. (n + 1) - p \in T
    <3> HIDE DEF T
    <3> QED
      BY <1>3
  <2>2. (n + 1) - p <= n /\ (n + 1) - ((n + 1) - p) = p
    OBVIOUS
  <2> QED
    BY <2>1, <2>2
<1> QED
  BY <1>4

-----------------------------------------------------------------------------
\* Division.

LEMMA Products ==
  ASSUME NEW a \in Nat, NEW b \in Nat
  PROVE  a * b \in Nat /\ (a * b = 0 <=> a = 0 \/ b = 0) /\ a * b = b * a
OBVIOUS

LEMMA Monotone ==
  ASSUME NEW a \in Nat, NEW b \in Nat, NEW c \in Nat, a <= b
  PROVE  a * c <= b * c /\ a * c \in Nat /\ b * c \in Nat
<1>1. PICK d \in Nat : b = a + d
  <2>1. b - a \in Nat /\ b = a + (b - a)
    OBVIOUS
  <2> QED
    BY <2>1
<1>2. b * c = a * c + d * c
  BY <1>1
<1>3. a * c \in Nat /\ d * c \in Nat
  OBVIOUS
<1> QED
  BY <1>2, <1>3

\* A number by its quotient and its remainder.
LEMMA Division ==
  ASSUME NEW a \in Nat, NEW n \in Nat \ {0}
  PROVE  a \div n \in Nat /\ a % n \in 0 .. n - 1 /\ a = (a \div n) * n + (a % n)
OBVIOUS

\* Which quotient and remainder they are.
LEMMA Divides ==
  ASSUME NEW n \in Nat \ {0}, NEW q \in Nat, NEW r \in 0 .. n - 1
  PROVE  (q * n + r) \div n = q /\ (q * n + r) % n = r
<1> DEFINE a == q * n + r
<1>1. q * n \in Nat /\ a \in Nat
  BY Products
<1>2. PICK k \in Nat, s \in 0 .. n - 1 : k = a \div n /\ s = a % n /\ a = k * n + s
  <2> HIDE DEF a
  <2> QED
    BY <1>1, Division
<1>3. k = q
  <2>1. ASSUME k < q PROVE FALSE
    <3>1. (k + 1) * n <= q * n /\ (k + 1) * n = k * n + n /\ k * n \in Nat
      <4>1. k + 1 <= q /\ k + 1 \in Nat
        BY <2>1
      <4>2. (k + 1) * n = k * n + n
        OBVIOUS
      <4> QED
        BY <4>1, <4>2, Monotone
    <3> QED
      BY <1>1, <1>2, <3>1
  <2>2. ASSUME q < k PROVE FALSE
    <3>1. (q + 1) * n <= k * n /\ (q + 1) * n = q * n + n /\ k * n \in Nat
      <4>1. q + 1 <= k /\ q + 1 \in Nat
        BY <2>2
      <4>2. (q + 1) * n = q * n + n
        OBVIOUS
      <4> QED
        BY <4>1, <4>2, Monotone
    <3> QED
      BY <1>1, <1>2, <3>1
  <2> QED
    BY <2>1, <2>2
<1>4. s = r
  BY <1>1, <1>2, <1>3
<1> QED
  BY <1>2, <1>3, <1>4

\* A quotient is below b where the number is below b times the divisor.
LEMMA QuotientBelow ==
  ASSUME NEW a \in Nat, NEW n \in Nat \ {0}, NEW b \in Nat, a < b * n
  PROVE  a \div n < b
<1>1. PICK k \in Nat, s \in 0 .. n - 1 : k = a \div n /\ a = k * n + s
  BY Division
<1>2. ASSUME b <= k PROVE FALSE
  <2>1. b * n <= k * n /\ b * n \in Nat /\ k * n \in Nat
    BY <1>2, Monotone
  <2> QED
    BY <1>1, <2>1
<1> QED
  BY <1>1, <1>2

\* A quotient below b and a remainder make less than b times the divisor.
LEMMA ProductAbove ==
  ASSUME NEW b \in Nat, NEW q \in Nat, q < b, NEW n \in Nat \ {0}, NEW r \in 0 .. n - 1
  PROVE  q * n + r \in Nat /\ q * n + r < b * n
<1>1. (q + 1) * n <= b * n /\ b * n \in Nat /\ q * n \in Nat
  BY Monotone, Products
<1>2. (q + 1) * n = q * n + n
  OBVIOUS
<1> QED
  BY <1>1, <1>2

-----------------------------------------------------------------------------
\* An odometer.

\* The products of the counts from each axis on.
IsProduct(counts, k, f) ==
  f = [q \in k .. Len(counts) + 1 |-> IF q > Len(counts) THEN 1 ELSE counts[q] * f[q + 1]]

LEMMA ProductExists ==
  ASSUME NEW counts, Len(counts) \in Nat
  PROVE  \E f : IsProduct(counts, 1, f)
<1> DEFINE n == Len(counts)
           S == {k \in 1 .. n + 1 : \E f : IsProduct(counts, k, f)}
<1>1. n + 1 \in S
  <2> DEFINE f == [q \in n + 1 .. n + 1 |-> 1]
  <2>1. \A q \in n + 1 .. n + 1 : q > n
    OBVIOUS
  <2>2. f = [q \in n + 1 .. n + 1 |-> IF q > n THEN 1 ELSE counts[q] * f[q + 1]]
    BY <2>1
  <2>3. IsProduct(counts, n + 1, f)
    BY <2>2 DEF IsProduct
  <2> QED
    BY <2>3
<1>2. ASSUME NEW p \in 1 .. n, p + 1 \in S PROVE p \in S
  <2>1. PICK g : IsProduct(counts, p + 1, g)
    BY <1>2
  <2> DEFINE f == [q \in p .. n + 1 |-> IF q = p THEN counts[p] * g[p + 1] ELSE g[q]]
  <2>2. ASSUME NEW q \in p .. n + 1
        PROVE  f[q] = IF q > n THEN 1 ELSE counts[q] * f[q + 1]
    <3>1. CASE q = p
      BY <3>1
    <3>2. CASE q # p
      <4>1. q \in p + 1 .. n + 1 /\ f[q] = g[q]
        BY <3>2
      <4>2. g[q] = IF q > n THEN 1 ELSE counts[q] * g[q + 1]
        BY <2>1, <4>1 DEF IsProduct
      <4>3. q <= n => f[q + 1] = g[q + 1]
        BY <4>1
      <4> QED
        BY <4>1, <4>2, <4>3
    <3> QED
      BY <3>1, <3>2
  <2>3. f = [q \in p .. n + 1 |-> f[q]]
    OBVIOUS
  <2>4. IsProduct(counts, p, f)
    <3> HIDE DEF f
    <3> QED
      BY <2>2, <2>3 DEF IsProduct
  <2> QED
    BY <2>4
<1>3. 1 .. n + 1 \subseteq S
  <2> HIDE DEF S
  <2> QED
    BY <1>1, <1>2, InductDown
<1> QED
  BY <1>3

\* The product of no counts is 1, that of counts the first times that of the rest.
LEMMA ProductSteps ==
  ASSUME NEW counts, Len(counts) \in Nat
  PROVE  /\ ProductFrom(counts, Len(counts) + 1) = 1
         /\ \A p \in 1 .. Len(counts) :
              ProductFrom(counts, p) = counts[p] * ProductFrom(counts, p + 1)
<1> DEFINE n == Len(counts)
           chosen == CHOOSE f : f = [q \in 1 .. n + 1 |-> IF q > n THEN 1 ELSE counts[q] * f[q + 1]]
<1>1. \E f : f = [q \in 1 .. n + 1 |-> IF q > n THEN 1 ELSE counts[q] * f[q + 1]]
  BY ProductExists DEF IsProduct
<1>2. chosen = [q \in 1 .. n + 1 |-> IF q > n THEN 1 ELSE counts[q] * chosen[q + 1]]
  BY <1>1
<1>3. \A p : ProductFrom(counts, p) = chosen[p]
  BY DEF ProductFrom
<1> HIDE DEF chosen
<1>4. \A p \in 1 .. n + 1 : chosen[p] = IF p > n THEN 1 ELSE counts[p] * chosen[p + 1]
  BY <1>2
<1>5. n + 1 > n /\ n + 1 \in 1 .. n + 1 /\ \A p \in 1 .. n : p \in 1 .. n + 1 /\ ~(p > n)
  OBVIOUS
<1> QED
  BY <1>3, <1>4, <1>5

LEMMA ProductType ==
  ASSUME NEW counts \in Seq(Nat)
  PROVE  \A p \in 1 .. Len(counts) + 1 : ProductFrom(counts, p) \in Nat
<1> DEFINE S == {p \in 1 .. Len(counts) + 1 : ProductFrom(counts, p) \in Nat}
<1>1. Len(counts) \in Nat /\ \A p \in 1 .. Len(counts) : counts[p] \in Nat
  OBVIOUS
<1>2. Len(counts) + 1 \in S
  BY <1>1, ProductSteps
<1>3. ASSUME NEW p \in 1 .. Len(counts), p + 1 \in S PROVE p \in S
  <2>1. ProductFrom(counts, p) = counts[p] * ProductFrom(counts, p + 1)
    BY <1>1, ProductSteps
  <2> QED
    BY <1>1, <1>3, <2>1, Products
<1>4. 1 .. Len(counts) + 1 \subseteq S
  <2> HIDE DEF S
  <2> QED
    BY <1>1, <1>2, <1>3, InductDown
<1> QED
  BY <1>4

\* A product is positive where every count is, and only there.
LEMMA ProductPositive ==
  ASSUME NEW counts \in Seq(Nat)
  PROVE  ProductFrom(counts, 1) > 0 <=> \A p \in 1 .. Len(counts) : counts[p] > 0
<1> DEFINE n == Len(counts)
           P(p) == ProductFrom(counts, p)
<1>1. n \in Nat /\ \A p \in 1 .. n : counts[p] \in Nat
  OBVIOUS
<1>2. P(n + 1) = 1 /\ \A p \in 1 .. n : P(p) = counts[p] * P(p + 1)
  BY <1>1, ProductSteps
<1>3. \A p \in 1 .. n + 1 : P(p) \in Nat
  BY ProductType
<1> HIDE DEF P
<1>4. ASSUME \A p \in 1 .. n : counts[p] > 0 PROVE P(1) > 0
  <2> DEFINE S == {p \in 1 .. n + 1 : P(p) > 0}
  <2>1. n + 1 \in S
    BY <1>1, <1>2
  <2>2. ASSUME NEW p \in 1 .. n, p + 1 \in S PROVE p \in S
    <3>1. P(p + 1) \in Nat /\ P(p + 1) > 0 /\ counts[p] \in Nat /\ counts[p] > 0
      BY <1>1, <1>3, <1>4, <2>2
    <3>2. counts[p] * P(p + 1) # 0 /\ counts[p] * P(p + 1) \in Nat
      BY <3>1, Products
    <3> QED
      BY <1>2, <3>2
  <2>3. 1 .. n + 1 \subseteq S
    <3> HIDE DEF S
    <3> QED
      BY <1>1, <2>1, <2>2, InductDown
  <2> QED
    BY <1>1, <2>3
<1>5. ASSUME P(1) > 0 PROVE \A p \in 1 .. n : counts[p] > 0
  <2> DEFINE S == {p \in 1 .. n + 1 : P(p) > 0}
  <2>1. 1 \in S
    BY <1>1, <1>5
  <2>2. ASSUME NEW p \in 1 .. n, P(p) > 0 PROVE counts[p] > 0 /\ P(p + 1) > 0
    <3>1. P(p + 1) \in Nat /\ counts[p] \in Nat /\ P(p) = counts[p] * P(p + 1)
      BY <1>1, <1>2, <1>3
    <3>2. counts[p] # 0 /\ P(p + 1) # 0
      BY <2>2, <3>1, Products
    <3> QED
      BY <3>1, <3>2
  <2>3. \A p \in 1 .. n : p \in S => p + 1 \in S
    BY <1>1, <2>2
  <2>4. 1 .. n + 1 \subseteq S
    <3> HIDE DEF S
    <3> QED
      BY <1>1, <2>1, <2>3, InductUp
  <2> QED
    BY <2>2, <2>4
<1> QED
  BY <1>4, <1>5 DEF P

\* The digit of x along axis p.
DigitOf(counts, x, p) == (x \div ProductFrom(counts, p + 1)) % counts[p]

\* Counts which are all positive, their products with them.
LEMMA Radix ==
  ASSUME NEW counts \in Seq(Nat \ {0})
  PROVE  /\ Len(counts) \in Nat /\ \A p \in 1 .. Len(counts) : counts[p] \in Nat \ {0}
         /\ \A p \in 1 .. Len(counts) + 1 : ProductFrom(counts, p) \in Nat \ {0}
         /\ ProductFrom(counts, Len(counts) + 1) = 1
         /\ \A p \in 1 .. Len(counts) :
              ProductFrom(counts, p) = counts[p] * ProductFrom(counts, p + 1)
<1>1. Len(counts) \in Nat /\ \A p \in 1 .. Len(counts) : counts[p] \in Nat \ {0}
  OBVIOUS
<1>2. /\ ProductFrom(counts, Len(counts) + 1) = 1
      /\ \A p \in 1 .. Len(counts) :
           ProductFrom(counts, p) = counts[p] * ProductFrom(counts, p + 1)
  BY <1>1, ProductSteps
<1> DEFINE S == {p \in 1 .. Len(counts) + 1 : ProductFrom(counts, p) \in Nat \ {0}}
<1>3. Len(counts) + 1 \in S
  BY <1>1, <1>2
<1>4. ASSUME NEW p \in 1 .. Len(counts), p + 1 \in S PROVE p \in S
  <2>1. counts[p] * ProductFrom(counts, p + 1) \in Nat \ {0}
    BY <1>1, <1>4, Products
  <2> QED
    BY <1>1, <1>2, <2>1
<1>5. 1 .. Len(counts) + 1 \subseteq S
  <2> HIDE DEF S
  <2> QED
    BY <1>1, <1>3, <1>4, InductDown
<1> QED
  BY <1>1, <1>2, <1>5

\* A digit is below its count.
LEMMA DigitBelow ==
  ASSUME NEW counts \in Seq(Nat \ {0}), NEW x \in Nat, NEW p \in 1 .. Len(counts)
  PROVE  DigitOf(counts, x, p) \in 0 .. counts[p] - 1
<1>1. ProductFrom(counts, p + 1) \in Nat \ {0} /\ counts[p] \in Nat \ {0}
  BY Radix
<1>2. x \div ProductFrom(counts, p + 1) \in Nat
  BY <1>1, Division
<1> QED
  BY <1>1, <1>2, Division DEF DigitOf

LEMMA RemainderOfProduct ==
  ASSUME NEW a \in Nat, NEW c \in Nat \ {0}, NEW b \in Nat \ {0}
  PROVE  a % (c * b) = ((a \div b) % c) * b + (a % b)
<1>1. PICK q \in Nat, r \in 0 .. b - 1 : q = a \div b /\ r = a % b /\ a = q * b + r
  BY Division
<1>2. PICK k \in Nat, d \in 0 .. c - 1 : k = q \div c /\ d = q % c /\ q = k * c + d
  BY Division
<1>3. a = k * (c * b) + (d * b + r)
  <2>1. (k * c + d) * b = k * (c * b) + d * b
    OBVIOUS
  <2>2. q * b = k * (c * b) + d * b
    BY <1>2, <2>1
  <2>3. k * (c * b) \in Nat /\ d * b \in Nat
    BY Products
  <2> QED
    BY <1>1, <2>2, <2>3
<1>4. d * b + r \in 0 .. c * b - 1 /\ c * b \in Nat \ {0}
  BY ProductAbove, Products
<1>5. a % (c * b) = d * b + r
  <2>1. \A m \in Nat \ {0} : \A s \in 0 .. m - 1 : (k * m + s) % m = s
    BY Divides
  <2> QED
    BY <1>3, <1>4, <2>1
<1> QED
  BY <1>1, <1>2, <1>5

\* Two numbers of an odometer that have the same digits are the same.
LEMMA SameDigits ==
  ASSUME NEW counts \in Seq(Nat \ {0}),
         NEW x \in 0 .. ProductFrom(counts, 1) - 1, NEW y \in 0 .. ProductFrom(counts, 1) - 1,
         \A p \in 1 .. Len(counts) : DigitOf(counts, x, p) = DigitOf(counts, y, p)
  PROVE  x = y
<1> DEFINE n == Len(counts)
           P(p) == ProductFrom(counts, p)
           S == {p \in 1 .. n + 1 : x % P(p) = y % P(p)}
<1>1. n \in Nat /\ \A p \in 1 .. n : counts[p] \in Nat \ {0}
  BY Radix
<1>2. P(n + 1) = 1 /\ \A p \in 1 .. n : P(p) = counts[p] * P(p + 1)
  BY Radix
<1>3. \A p \in 1 .. n + 1 : P(p) \in Nat \ {0}
  BY Radix
<1>4. \A p \in 1 .. n : (x \div P(p + 1)) % counts[p] = (y \div P(p + 1)) % counts[p]
  BY DEF DigitOf
<1>5. x \in 0 .. P(1) - 1 /\ y \in 0 .. P(1) - 1
  OBVIOUS
<1>6. x \in Nat /\ y \in Nat
  <2>1. P(1) \in Nat
    BY <1>1, <1>3
  <2> QED
    BY <1>5, <2>1
<1> HIDE DEF P
<1>7. n + 1 \in S
  <2>1. x % 1 = 0 /\ y % 1 = 0
    BY <1>6
  <2> QED
    BY <1>1, <1>2, <2>1
<1>8. ASSUME NEW p \in 1 .. n, p + 1 \in S PROVE p \in S
  <2>1. PICK c \in Nat \ {0}, b \in Nat \ {0} : c = counts[p] /\ b = P(p + 1)
    <3>1. p + 1 \in 1 .. n + 1
      BY <1>1
    <3> QED
      BY <1>1, <1>3, <3>1
  <2>2. x % (c * b) = ((x \div b) % c) * b + (x % b)
    BY <1>6, RemainderOfProduct
  <2>3. y % (c * b) = ((y \div b) % c) * b + (y % b)
    BY <1>6, RemainderOfProduct
  <2>4. (x \div b) % c = (y \div b) % c /\ x % b = y % b
    BY <1>4, <1>8, <2>1
  <2>5. x % (c * b) = y % (c * b) /\ P(p) = c * b
    BY <1>2, <2>1, <2>2, <2>3, <2>4
  <2> QED
    BY <1>1, <2>5
<1>9. 1 .. n + 1 \subseteq S
  <2> HIDE DEF S
  <2> QED
    BY <1>1, <1>7, <1>8, InductDown
<1>10. x % P(1) = y % P(1) /\ P(1) \in Nat \ {0}
  <2>1. 1 \in 1 .. n + 1
    BY <1>1
  <2>2. 1 \in S
    <3> HIDE DEF S
    <3> QED
      BY <1>9, <2>1
  <2> QED
    BY <1>3, <2>1, <2>2
<1>11. \A m \in Nat \ {0} : \A a \in 0 .. m - 1 : a % m = a
  OBVIOUS
<1> QED
  BY <1>5, <1>10, <1>11

\* Every string of digits is that of a number of the odometer.
LEMMA SomeNumber ==
  ASSUME NEW counts \in Seq(Nat \ {0}), NEW digits,
         \A p \in 1 .. Len(counts) : digits[p] \in 0 .. counts[p] - 1
  PROVE  \E x \in 0 .. ProductFrom(counts, 1) - 1 :
           \A p \in 1 .. Len(counts) : DigitOf(counts, x, p) = digits[p]
<1> DEFINE n == Len(counts)
           P(p) == ProductFrom(counts, p)
           Makes(x, k) == \A m \in Nat : \A p \in k .. n :
                            ((x + m * P(k)) \div P(p + 1)) % counts[p] = digits[p]
           S == {k \in 1 .. n + 1 : \E x \in 0 .. P(k) - 1 : Makes(x, k)}
<1>1. n \in Nat /\ \A p \in 1 .. n : counts[p] \in Nat \ {0}
  BY Radix
<1>2. P(n + 1) = 1 /\ \A p \in 1 .. n : P(p) = counts[p] * P(p + 1)
  BY Radix
<1>3. \A p \in 1 .. n + 1 : P(p) \in Nat \ {0}
  BY Radix
<1>4. \A x, p : DigitOf(counts, x, p) = (x \div P(p + 1)) % counts[p]
  BY DEF DigitOf
<1> HIDE DEF P
<1>5. n + 1 \in S
  <2>1. Makes(0, n + 1)
    BY <1>1
  <2>2. 0 \in 0 .. P(n + 1) - 1
    BY <1>2
  <2> HIDE DEF Makes
  <2> QED
    BY <1>1, <2>1, <2>2
<1>6. ASSUME NEW k \in 1 .. n, k + 1 \in S PROVE k \in S
  <2>1. PICK x \in 0 .. P(k + 1) - 1 : Makes(x, k + 1)
    BY <1>6
  <2>2. PICK c \in Nat \ {0}, b \in Nat \ {0}, v \in Nat : c = counts[k] /\ b = P(k + 1) /\ v = digits[k] /\ v < c
    <3>1. k + 1 \in 1 .. n + 1
      BY <1>1
    <3>2. digits[k] \in Nat /\ digits[k] < counts[k]
      BY <1>1
    <3>3. counts[k] \in Nat \ {0} /\ P(k + 1) \in Nat \ {0}
      BY <1>1, <1>3, <3>1
    <3> QED
      BY <3>2, <3>3
  <2>3. x \in 0 .. b - 1 /\ P(k) = c * b
    BY <1>2, <2>2
  <2>4. v * b + x \in Nat /\ v * b + x < c * b
    BY <2>2, <2>3, ProductAbove
  <2>5. ASSUME NEW m \in Nat, NEW p \in k .. n
        PROVE  (((v * b + x) + m * P(k)) \div P(p + 1)) % counts[p] = digits[p]
    <3>1. (v * b + x) + m * (c * b) = (v + m * c) * b + x
      OBVIOUS
    <3>2. m * c \in Nat /\ v + m * c \in Nat
      <4>1. m * c \in Nat
        BY Products
      <4>2. \A w \in Nat : v + w \in Nat
        OBVIOUS
      <4> QED
        BY <4>1, <4>2
    <3>3. PICK u \in Nat : u = v + m * c
      BY <3>2
    <3>4. (v * b + x) + m * (c * b) = u * b + x
      BY <3>1, <3>3
    <3>5. CASE p = k
      <4>1. (u * b + x) \div b = u
        BY <2>3, Divides
      <4>2. (m * c + v) % c = v
        BY <2>2, Divides
      <4>3. u = m * c + v
        BY <3>2, <3>3
      <4> QED
        BY <2>2, <2>3, <3>4, <3>5, <4>1, <4>2, <4>3
    <3>6. CASE p # k
      <4>1. p \in k + 1 .. n
        BY <3>6
      <4>2. ((x + u * P(k + 1)) \div P(p + 1)) % counts[p] = digits[p]
        BY <2>1, <4>1
      <4>3. x + u * b = u * b + x
        BY <2>3, Products
      <4> QED
        BY <2>2, <2>3, <3>4, <4>2, <4>3
    <3> QED
      BY <3>5, <3>6
  <2>6. Makes(v * b + x, k)
    BY <2>5
  <2>7. v * b + x \in 0 .. P(k) - 1
    BY <2>3, <2>4, Products
  <2> HIDE DEF Makes
  <2> QED
    BY <1>1, <2>6, <2>7
<1>7. 1 \in S
  <2>1. 1 .. n + 1 \subseteq S
    <3> HIDE DEF S
    <3> QED
      BY <1>1, <1>5, <1>6, InductDown
  <2>2. 1 \in 1 .. n + 1
    BY <1>1
  <2> HIDE DEF S
  <2> QED
    BY <2>1, <2>2
<1>8. PICK x \in 0 .. P(1) - 1 : Makes(x, 1)
  BY <1>7
<1>9. x + 0 * P(1) = x
  <2>1. P(1) \in Nat
    BY <1>1, <1>3
  <2> QED
    BY <1>8, <2>1
<1>10. \A p \in 1 .. n : (x \div P(p + 1)) % counts[p] = digits[p]
  BY <1>8, <1>9
<1> QED
  BY <1>4, <1>8, <1>10 DEF P

-----------------------------------------------------------------------------
\* An axis.

LEMMA Ceiling ==
  ASSUME NEW x \in Nat, NEW w \in Nat \ {0}, NEW j \in Nat
  PROVE  /\ (x + w - 1) \div w \in Nat
         /\ j < (x + w - 1) \div w <=> j * w < x
<1>1. x + w - 1 \in Nat /\ j * w \in Nat
  BY Products
<1>2. PICK q \in Nat, r \in 0 .. w - 1 : q = (x + w - 1) \div w /\ x + w - 1 = q * w + r
  BY <1>1, Division
<1>3. ASSUME j < q PROVE j * w < x
  <2>1. (j + 1) * w <= q * w /\ q * w \in Nat
    <3>1. j + 1 <= q /\ j + 1 \in Nat
      BY <1>3
    <3> QED
      BY <3>1, Monotone
  <2>2. (j + 1) * w = j * w + w
    OBVIOUS
  <2> QED
    BY <1>1, <1>2, <2>1, <2>2
<1>4. ASSUME q <= j PROVE x <= j * w
  <2>1. q * w <= j * w /\ q * w \in Nat
    BY <1>4, Monotone
  <2> QED
    BY <1>1, <1>2, <2>1
<1> QED
  BY <1>1, <1>2, <1>3, <1>4

\* What an instance takes of an axis, and the tile its step makes there.
Share(p, a) == IF Distributes(p) THEN Tiles(p, a) ELSE Axis(p).grid
Placed(p, a, j) ==
  IF ~Distributes(p) THEN j
  ELSE IF Axis(p).spread = "contiguous" THEN j + a * Run(p) ELSE j * Instances(p) + a

\* The instances take runs of some length, cut where the grid ends, or turns.
InRuns(p, length) ==
  /\ length \in Nat /\ Axis(p).grid <= Instances(p) * length
  /\ \A a \in 0 .. Instances(p) - 1 :
       /\ Share(p, a) \in Nat
       /\ \A j \in Nat : /\ j < Share(p, a) <=> j < length /\ j + a * length < Axis(p).grid
                         /\ Placed(p, a, j) = j + a * length
InTurns(p) ==
  \A a \in 0 .. Instances(p) - 1 :
    /\ Share(p, a) \in Nat
    /\ \A j \in Nat : /\ j < Share(p, a) <=> j * Instances(p) + a < Axis(p).grid
                      /\ Placed(p, a, j) = j * Instances(p) + a

LEMMA AxisKinds ==
  ASSUME NEW p, Axis(p) \in Cut, Settled(Axis(p))
  PROVE  Instances(p) \in Nat /\ (InTurns(p) \/ \E length : InRuns(p, length))
<1>1. PICK g \in Nat, w \in Nat \ {0} : g = Axis(p).grid /\ w = Axis(p).workers
  BY DEF Cut
<1>2. Axis(p).takes \in {"walked", "each", "across", "turns"}
      /\ Axis(p).spread \in {"contiguous", "interleaved"} /\ Axis(p).divides \in BOOLEAN
  BY DEF Cut
<1>3. CASE Axis(p).takes = "walked"
  <2>1. Instances(p) = 1 /\ \A a : Share(p, a) = g
    BY <1>1, <1>3 DEF Instances, InstancesOf, Share, Distributes
  <2>2. \A a, j : Placed(p, a, j) = j
    BY <1>3 DEF Placed, Distributes
  <2>3. \A a \in 0 .. 1 - 1 : a = 0
    OBVIOUS
  <2>4. \A j \in Nat : j * 1 + 0 = j
    OBVIOUS
  <2>5. InTurns(p)
    BY <1>1, <2>1, <2>2, <2>3, <2>4 DEF InTurns
  <2> QED
    BY <2>1, <2>5
<1>4. CASE Axis(p).takes = "each"
  <2>1. Instances(p) = g /\ Distributes(p) /\ Run(p) = 1 /\ \A a : Share(p, a) = 1
    BY <1>1, <1>4 DEF Instances, InstancesOf, Share, Distributes, Run, Tiles
  <2>2. CASE Axis(p).spread = "contiguous"
    <3>1. \A a, j : Placed(p, a, j) = j + a * 1
      BY <2>1, <2>2 DEF Placed
    <3>2. \A a \in 0 .. g - 1 : \A j \in Nat : j < 1 <=> j < 1 /\ j + a * 1 < g
      OBVIOUS
    <3>3. g <= g * 1
      OBVIOUS
    <3>4. InRuns(p, 1)
      BY <1>1, <2>1, <3>1, <3>2, <3>3 DEF InRuns
    <3> QED
      BY <2>1, <3>4
  <2>3. CASE Axis(p).spread = "interleaved"
    <3>1. \A a, j : Placed(p, a, j) = j * g + a
      BY <2>1, <2>3 DEF Placed
    <3>2. ASSUME NEW a \in 0 .. g - 1, NEW j \in Nat PROVE j < 1 <=> j * g + a < g
      <4>1. j # 0 => 1 * g <= j * g /\ j * g \in Nat
        BY Monotone
      <4>2. 1 * g = g /\ 0 * g = 0
        OBVIOUS
      <4> QED
        BY <4>1, <4>2
    <3>3. InTurns(p)
      BY <1>1, <2>1, <3>1, <3>2 DEF InTurns
    <3> QED
      BY <2>1, <3>3
  <2> QED
    BY <1>2, <2>2, <2>3
<1>5. CASE Axis(p).takes \in {"across", "turns"} /\ Axis(p).spread = "interleaved"
  <2>1. Instances(p) = w /\ Distributes(p)
    BY <1>1, <1>5 DEF Instances, InstancesOf, Distributes
  <2>2. \A a, j : Placed(p, a, j) = j * w + a
    BY <1>5, <2>1 DEF Placed
  <2>3. ASSUME NEW a \in 0 .. w - 1
        PROVE  Share(p, a) \in Nat /\ \A j \in Nat : j < Share(p, a) <=> j * w + a < g
    <3>1. CASE Axis(p).takes = "across" /\ Axis(p).divides
      <4>1. g % w = 0
        BY <1>1, <3>1 DEF Settled
      <4>2. PICK k \in Nat : g = k * w
        <5>1. PICK k \in Nat, r \in 0 .. w - 1 : r = g % w /\ g = k * w + r
          BY Division
        <5>2. k * w \in Nat
          BY Products
        <5> QED
          BY <4>1, <5>1, <5>2
      <4>3. Share(p, a) = (g + w - 1) \div w
        BY <1>1, <2>1, <3>1 DEF Share, Tiles, Run
      <4>4. Share(p, a) = k
        <5>1. (k * w + (w - 1)) \div w = k
          BY Divides
        <5>2. g + w - 1 = k * w + (w - 1)
          BY <4>2, Products
        <5> QED
          BY <4>3, <5>1, <5>2
      <4>5. ASSUME NEW j \in Nat PROVE j < k <=> j * w + a < k * w
        <5>1. j < k => j * w + a < k * w
          BY ProductAbove
        <5>2. k <= j => k * w <= j * w /\ j * w \in Nat /\ k * w \in Nat
          BY Monotone
        <5>3. k <= j => ~(j * w + a < k * w)
          BY <5>2
        <5> QED
          BY <5>1, <5>3
      <4> QED
        BY <4>2, <4>4, <4>5
    <3>2. CASE ~(Axis(p).takes = "across" /\ Axis(p).divides)
      <4>1. PICK x \in Nat : x = Saturating(g, a) /\ x = (IF g > a THEN g - a ELSE 0)
        <5>1. (IF g > a THEN g - a ELSE 0) \in Nat
          OBVIOUS
        <5> QED
          BY <5>1 DEF Saturating
      <4>2. Share(p, a) = (x + w - 1) \div w
        BY <1>1, <1>5, <2>1, <3>2, <4>1 DEF Share, Tiles
      <4>3. \A j \in Nat : Share(p, a) \in Nat /\ (j < Share(p, a) <=> j * w < x)
        BY <4>2, Ceiling
      <4>4. ASSUME NEW j \in Nat PROVE j * w < x <=> j * w + a < g
        <5>1. \A m \in Nat : m < x <=> m + a < g
          BY <4>1
        <5>2. j * w \in Nat
          BY Products
        <5> QED
          BY <5>1, <5>2
      <4> QED
        BY <4>3, <4>4
    <3> QED
      BY <3>1, <3>2
  <2>4. InTurns(p)
    BY <1>1, <2>1, <2>2, <2>3 DEF InTurns
  <2> QED
    BY <2>1, <2>4
<1>6. CASE Axis(p).takes = "across" /\ Axis(p).spread = "contiguous"
  <2>1. Instances(p) = w /\ Distributes(p) /\ Run(p) = (g + w - 1) \div w
    BY <1>1, <1>6 DEF Instances, InstancesOf, Distributes, Run
  <2>2. PICK R \in Nat : R = Run(p)
    BY <2>1, Ceiling
  <2>3. \A a, j : Placed(p, a, j) = j + a * R
    BY <1>6, <2>1, <2>2 DEF Placed
  <2>4. g <= w * R
    <3>1. ~(R < R)
      BY <2>2
    <3>2. ~(R * w < g)
      BY <2>1, <2>2, <3>1, Ceiling
    <3>3. R * w = w * R /\ R * w \in Nat
      BY Products
    <3> QED
      BY <3>2, <3>3
  <2>5. ASSUME NEW a \in 0 .. w - 1
        PROVE  /\ Share(p, a) \in Nat
               /\ \A j \in Nat : j < Share(p, a) <=> j < R /\ j + a * R < g
    <3>1. a * R \in Nat
      BY Products
    <3>2. CASE Axis(p).divides
      <4>1. g % w = 0 /\ Share(p, a) = R
        BY <1>1, <1>6, <2>1, <2>2, <3>2 DEF Settled, Share, Tiles
      <4>2. PICK k \in Nat : g = k * w
        <5>1. PICK k \in Nat, r \in 0 .. w - 1 : r = g % w /\ g = k * w + r
          BY Division
        <5>2. k * w \in Nat
          BY Products
        <5> QED
          BY <4>1, <5>1, <5>2
      <4>3. R = k
        <5>1. (k * w + (w - 1)) \div w = k
          BY Divides
        <5>2. g + w - 1 = k * w + (w - 1)
          BY <4>2, Products
        <5> QED
          BY <2>1, <2>2, <5>1, <5>2
      <4>4. (a + 1) * R <= g
        <5>1. (a + 1) * R <= w * R
          BY Monotone
        <5>2. w * R = k * w
          BY <4>3, Products
        <5> QED
          BY <4>2, <5>1, <5>2
      <4>5. (a + 1) * R = a * R + R
        OBVIOUS
      <4>6. \A j \in Nat : j < R => j + a * R < g
        BY <3>1, <4>4, <4>5
      <4> QED
        BY <4>1, <4>6
    <3>3. CASE ~Axis(p).divides
      <4>1. Share(p, a) = Least(R, Saturating(g, a * R))
        BY <1>1, <1>6, <2>1, <2>2, <3>3 DEF Share, Tiles
      <4>2. \A m \in Nat : /\ Least(R, Saturating(g, m)) \in Nat
                           /\ \A j \in Nat : j < Least(R, Saturating(g, m)) <=> j < R /\ j + m < g
        BY DEF Least, Saturating
      <4> QED
        BY <3>1, <4>1, <4>2
    <3> QED
      BY <3>2, <3>3
  <2>6. InRuns(p, R)
    BY <1>1, <2>1, <2>3, <2>4, <2>5 DEF InRuns
  <2> QED
    BY <2>1, <2>6
<1>7. CASE Axis(p).takes = "turns"
  BY <1>5, <1>7 DEF Settled
<1> QED
  BY <1>2, <1>3, <1>4, <1>5, <1>6, <1>7

LEMMA InstancesType ==
  ASSUME NEW p, Axis(p) \in Cut
  PROVE  Instances(p) \in Nat /\ Axis(p).grid \in Nat /\ (Axis(p).grid > 0 => Instances(p) > 0)
<1>1. PICK g \in Nat, w \in Nat \ {0} : g = Axis(p).grid /\ w = Axis(p).workers
  BY DEF Cut
<1>2. Axis(p).takes \in {"walked", "each", "across", "turns"}
  BY DEF Cut
<1> QED
  BY <1>1, <1>2 DEF Instances, InstancesOf

\* What an instance's step makes is a tile of the axis.
LEMMA AxisStays ==
  ASSUME NEW p, Axis(p) \in Cut, Settled(Axis(p)),
         NEW a \in 0 .. Instances(p) - 1, NEW j \in Nat, j < Share(p, a)
  PROVE  Placed(p, a, j) \in 0 .. Axis(p).grid - 1
<1>1. PICK I \in Nat, g \in Nat : I = Instances(p) /\ g = Axis(p).grid
  BY InstancesType
<1>2. a \in 0 .. I - 1 /\ a \in Nat
  BY <1>1
<1>3. CASE InTurns(p)
  <2>1. j * I + a < g /\ Placed(p, a, j) = j * I + a
    BY <1>1, <1>3 DEF InTurns
  <2>2. j * I \in Nat
    BY Products
  <2> QED
    BY <1>1, <1>2, <2>1, <2>2
<1>4. CASE \E length : InRuns(p, length)
  <2>1. PICK R : InRuns(p, R)
    BY <1>4
  <2>2. R \in Nat /\ j + a * R < g /\ Placed(p, a, j) = j + a * R
    BY <1>1, <2>1 DEF InRuns
  <2>3. a * R \in Nat
    BY <1>2, <2>2, Products
  <2> QED
    BY <1>1, <1>2, <2>2, <2>3
<1> QED
  BY <1>3, <1>4, AxisKinds

\* Each tile of the axis is some instance's step's.
LEMMA AxisCovers ==
  ASSUME NEW p, Axis(p) \in Cut, Settled(Axis(p)), NEW t \in 0 .. Axis(p).grid - 1
  PROVE  \E a \in 0 .. Instances(p) - 1, j \in Nat : j < Share(p, a) /\ Placed(p, a, j) = t
<1>1. PICK I \in Nat, g \in Nat : I = Instances(p) /\ g = Axis(p).grid
  BY InstancesType
<1>2. t \in Nat /\ t < g /\ I \in Nat \ {0}
  BY <1>1, InstancesType
<1>3. CASE InTurns(p)
  <2>1. PICK j \in Nat, a \in 0 .. I - 1 : t = j * I + a
    BY <1>2, Division
  <2>2. j < Share(p, a) /\ Placed(p, a, j) = t
    BY <1>1, <1>2, <1>3, <2>1 DEF InTurns
  <2> QED
    BY <1>1, <2>1, <2>2
<1>4. CASE \E length : InRuns(p, length)
  <2>1. PICK R : InRuns(p, R)
    BY <1>4
  <2>2. R \in Nat /\ g <= I * R
    BY <1>1, <2>1 DEF InRuns
  <2>3. R # 0
    <3>1. I * 0 = 0
      BY <1>1
    <3> QED
      BY <1>2, <2>2, <3>1
  <2>4. PICK a \in Nat, j \in 0 .. R - 1 : a = t \div R /\ t = a * R + j
    BY <1>2, <2>2, <2>3, Division
  <2>5. a < I
    <3>1. I * R \in Nat
      BY <2>2, Products
    <3> QED
      BY <1>1, <1>2, <2>2, <2>3, <2>4, <3>1, QuotientBelow
  <2>6. a \in 0 .. Instances(p) - 1 /\ j \in Nat
    BY <1>1, <2>2, <2>4, <2>5
  <2>7. a * R + j = j + a * R
    <3>1. a * R \in Nat
      BY <2>2, Products
    <3> QED
      BY <2>6, <3>1
  <2>8. j < Share(p, a) /\ Placed(p, a, j) = t
    <3>1. /\ j < Share(p, a) <=> j < R /\ j + a * R < Axis(p).grid
          /\ Placed(p, a, j) = j + a * R
      BY <2>1, <2>6 DEF InRuns
    <3>2. j < R /\ j + a * R = t
      BY <2>2, <2>4, <2>7
    <3> QED
      BY <1>1, <1>2, <3>1, <3>2
  <2> QED
    BY <2>6, <2>8
<1> QED
  BY <1>3, <1>4, AxisKinds

\* No tile of the axis is two's.
LEMMA AxisParts ==
  ASSUME NEW p, Axis(p) \in Cut, Settled(Axis(p)),
         NEW a \in 0 .. Instances(p) - 1, NEW j \in Nat, j < Share(p, a),
         NEW b \in 0 .. Instances(p) - 1, NEW k \in Nat, k < Share(p, b),
         Placed(p, a, j) = Placed(p, b, k)
  PROVE  a = b /\ j = k
<1>1. PICK I \in Nat : I = Instances(p)
  BY InstancesType
<1>2. I \in Nat \ {0} /\ a \in 0 .. I - 1 /\ b \in 0 .. I - 1
  BY <1>1
<1>3. CASE InTurns(p)
  <2>1. j * I + a = k * I + b
    <3>1. Placed(p, a, j) = j * I + a
      BY <1>1, <1>3 DEF InTurns
    <3>2. Placed(p, b, k) = k * I + b
      BY <1>1, <1>3 DEF InTurns
    <3> QED
      BY <3>1, <3>2
  <2>2. /\ (j * I + a) \div I = j /\ (j * I + a) % I = a
        /\ (k * I + b) \div I = k /\ (k * I + b) % I = b
    BY <1>2, Divides
  <2> QED
    BY <2>1, <2>2
<1>4. CASE \E length : InRuns(p, length)
  <2>1. PICK R : InRuns(p, R)
    BY <1>4
  <2>2. R \in Nat /\ j < R /\ k < R /\ j + a * R = k + b * R
    <3>1. R \in Nat /\ j < R /\ Placed(p, a, j) = j + a * R
      BY <1>1, <2>1 DEF InRuns
    <3>2. k < R /\ Placed(p, b, k) = k + b * R
      BY <1>1, <2>1 DEF InRuns
    <3> QED
      BY <3>1, <3>2
  <2>3. R \in Nat \ {0} /\ j \in 0 .. R - 1 /\ k \in 0 .. R - 1 /\ a \in Nat /\ b \in Nat
    BY <1>2, <2>2
  <2>4. a * R + j = b * R + k
    <3>1. a * R \in Nat /\ b * R \in Nat
      BY <2>3, Products
    <3> QED
      BY <2>2, <2>3, <3>1
  <2>5. (a * R + j) \div R = a /\ (a * R + j) % R = j /\ (b * R + k) \div R = b /\ (b * R + k) % R = k
    BY <2>3, Divides
  <2> QED
    BY <2>4, <2>5
<1> QED
  BY <1>3, <1>4, AxisKinds

-----------------------------------------------------------------------------
\* A swizzle.

\* The width of a strip, and a step of a length taken one way or the other.
WidthAt(S, L, strip) == IF S - L * strip < L THEN S - L * strip ELSE L
Turned(odd, length, k) == IF odd THEN length - k - 1 ELSE k

LEMMA Turning ==
  ASSUME NEW odd \in BOOLEAN, NEW length \in Nat, NEW k \in 0 .. length - 1
  PROVE  /\ Turned(odd, length, k) \in 0 .. length - 1
         /\ Turned(odd, length, Turned(odd, length, k)) = k
BY DEF Turned

LEMMA MinusFits ==
  ASSUME NEW a \in Nat, a < Word, NEW b \in 0 .. a
  PROVE  Minus(a, b) = a - b
<1>1. a - b \in 0 .. Word - 1
  OBVIOUS
<1>2. \A x \in 0 .. Word - 1 : x % Word = x
  OBVIOUS
<1> QED
  BY <1>1, <1>2 DEF Minus

LEMMA Widths ==
  ASSUME NEW S \in Nat, NEW L \in Nat \ {0}, NEW strip \in Nat, L * strip < S
  PROVE  /\ WidthAt(S, L, strip) \in 1 .. L
         /\ L * strip + WidthAt(S, L, strip) <= S
         /\ WidthAt(S, L, strip) = L \/ L * strip + WidthAt(S, L, strip) = S
<1>1. L * strip \in Nat
  BY Products
<1>2. \A o \in Nat : o < S => LET w == IF S - o < L THEN S - o ELSE L IN
        w \in 1 .. L /\ o + w <= S /\ (w = L \/ o + w = S)
  OBVIOUS
<1> QED
  BY <1>1, <1>2 DEF WidthAt

\* Where step k of a strip, and the place r along it, are.
LEMMA StripAt ==
  ASSUME NEW N \in Nat \ {0}, N < Word, NEW S \in Nat, S < Word, NEW L \in Nat \ {0},
         NEW strip \in Nat, L * strip < S, NEW k \in 0 .. N - 1,
         NEW W, W = WidthAt(S, L, strip), NEW r \in 0 .. W - 1
  PROVE  LET index == strip * (N * L) + (k * W + r)
             place == SwizzleRagged(index, N, L, S) IN
         /\ index \in Nat /\ index < N * S
         /\ place.step = Turned(strip % 2 = 1, N, k)
         /\ place.along = Turned(k % 2 = 1, W, r) + L * strip
<1> DEFINE index == strip * (N * L) + (k * W + r)
           place == SwizzleRagged(index, N, L, S)
<1>1. W \in 1 .. L /\ L * strip + W <= S /\ L * strip \in Nat /\ W \in Nat \ {0}
  BY Widths, Products
<1>2. k * W + r \in Nat /\ k * W + r < N * W
  <2>1. k \in Nat /\ k < N /\ r \in 0 .. W - 1
    OBVIOUS
  <2> QED
    BY <1>1, <2>1, ProductAbove
<1>3. N * W <= N * L /\ N * W \in Nat /\ N * L \in Nat \ {0}
  <2>1. W * N <= L * N /\ W * N \in Nat /\ L * N \in Nat
    <3>1. W \in Nat /\ L \in Nat /\ N \in Nat /\ W <= L
      BY <1>1
    <3> QED
      BY <3>1, Monotone
  <2>2. W * N = N * W /\ L * N = N * L /\ N * L # 0
    BY <1>1, Products
  <2> QED
    BY <2>1, <2>2
<1>4. k * W + r \in 0 .. N * L - 1
  <2>1. \A a, b, c \in Nat : a < b /\ b <= c => a \in 0 .. c - 1
    OBVIOUS
  <2> QED
    BY <1>2, <1>3, <2>1
<1>5. index \div (N * L) = strip
  BY <1>3, <1>4, Divides
<1>6. index - (strip * N) * L = k * W + r
  <2>1. (strip * N) * L = strip * (N * L)
    OBVIOUS
  <2>2. strip * (N * L) \in Nat
    BY <1>3, Products
  <2> QED
    BY <1>2, <2>1, <2>2
<1>7. (k * W + r) \div W = k /\ (k * W + r) % W = r
  <2>1. k \in Nat /\ W \in Nat \ {0} /\ r \in 0 .. W - 1
    BY <1>1
  <2> QED
    BY <2>1, Divides, ZenonT(30)
<1>8. index \in Nat /\ index < N * S
  <2>1. strip * (N * L) + N * W = N * (L * strip + W)
    BY <1>1
  <2>2. N * (L * strip + W) <= N * S
    <3>1. (L * strip + W) * N <= S * N
      <4>1. L * strip + W \in Nat
        BY <1>1
      <4> QED
        BY <1>1, <4>1, Monotone
    <3>2. (L * strip + W) * N = N * (L * strip + W) /\ S * N = N * S
      BY <1>1, Products
    <3> QED
      BY <3>1, <3>2
  <2>3. strip * (N * L) \in Nat /\ N * S \in Nat
    BY <1>3, Products
  <2>4. \A a, b, c, d \in Nat : b < c /\ a + c <= d => a + b \in Nat /\ a + b < d
    OBVIOUS
  <2>5. strip * (N * L) + N * W <= N * S
    BY <2>1, <2>2
  <2> HIDE DEF place
  <2> QED
    BY <1>2, <1>3, <2>3, <2>4, <2>5
<1>9. /\ Minus(Minus(N, k), 1) = N - k - 1
      /\ Minus(Minus(W, r), 1) = W - r - 1
  <2>1. Minus(N, k) = N - k
    BY MinusFits
  <2>2. Minus(N - k, 1) = (N - k) - 1
    <3>1. N - k \in Nat /\ N - k < Word /\ 1 \in 0 .. N - k
      OBVIOUS
    <3> QED
      BY <3>1, MinusFits
  <2>3. W \in Nat /\ W < Word /\ r \in 0 .. W
    BY <1>1
  <2>4. Minus(W, r) = W - r
    BY <2>3, MinusFits
  <2>5. W - r \in Nat /\ W - r < Word /\ 1 \in 0 .. W - r
    BY <2>3
  <2>6. Minus(W - r, 1) = (W - r) - 1
    BY <2>5, MinusFits
  <2> QED
    BY <2>1, <2>2, <2>4, <2>6
<1> DEFINE left == IF S > L * strip THEN S - L * strip ELSE 0
<1>10. (IF left < L /\ left > 0 THEN left ELSE L) = W
  BY <1>1 DEF WidthAt
<1>11. place = Snake(strip, k * W + r, N, W, L * strip)
  <2> HIDE DEF index
  <2> QED
    BY <1>5, <1>6, <1>10 DEF SwizzleRagged
<1> HIDE DEF place, index, left
<1>12. place.step = Turned(strip % 2 = 1, N, k)
  BY <1>7, <1>9, <1>11 DEF Snake, Turned
<1>13. place.along = Turned(k % 2 = 1, W, r) + L * strip
  BY <1>7, <1>9, <1>11 DEF Snake, Turned
<1> QED
  BY <1>8, <1>12, <1>13 DEF place, index

\* That index is r places along step k of a strip.
IsIn(N, S, L, index, strip, k, r) ==
  /\ strip \in Nat /\ L * strip < S
  /\ k \in 0 .. N - 1 /\ r \in 0 .. WidthAt(S, L, strip) - 1
  /\ index = strip * (N * L) + (k * WidthAt(S, L, strip) + r)

\* An index of the grid is some step of some strip.
LEMMA StripOf ==
  ASSUME NEW N \in Nat \ {0}, NEW S \in Nat, NEW L \in Nat \ {0},
         NEW index \in Nat, index < N * S
  PROVE  \E strip, k, r : IsIn(N, S, L, index, strip, k, r)
<1>1. N * L \in Nat \ {0}
  BY Products
<1>2. PICK strip \in Nat, rest \in 0 .. N * L - 1 : index = strip * (N * L) + rest
  <2>1. PICK m \in Nat \ {0} : m = N * L
    BY <1>1
  <2>2. index \div m \in Nat /\ index % m \in 0 .. m - 1 /\ index = (index \div m) * m + (index % m)
    BY Division, ZenonT(30)
  <2> QED
    BY <2>1, <2>2
<1>3. strip * (N * L) \in Nat /\ L * strip \in Nat /\ N * (L * strip) \in Nat /\ N * S \in Nat
      /\ strip * (N * L) = N * (L * strip) /\ rest \in Nat
  <2>1. strip * (N * L) \in Nat /\ L * strip \in Nat
    BY <1>1, Products
  <2>2. N * (L * strip) \in Nat /\ N * S \in Nat
    BY <2>1, Products
  <2>3. strip * (N * L) = N * (L * strip)
    OBVIOUS
  <2> QED
    BY <1>1, <1>2, <2>1, <2>2, <2>3
<1>4. L * strip < S
  <2>1. ASSUME S <= L * strip PROVE FALSE
    <3>1. S * N <= (L * strip) * N
      BY <1>3, <2>1, Monotone
    <3>2. S * N = N * S /\ (L * strip) * N = N * (L * strip)
      BY <1>3, Products
    <3> QED
      BY <1>2, <1>3, <3>1, <3>2
  <2> QED
    BY <1>3, <2>1
<1> DEFINE W == WidthAt(S, L, strip)
<1>5. W \in 1 .. L /\ L * strip + W <= S /\ (W = L \/ L * strip + W = S)
  BY <1>4, Widths
<1> HIDE DEF W
<1>6. rest < N * W
  <2>1. CASE W = L
    BY <1>1, <1>2, <2>1
  <2>2. CASE L * strip + W = S
    <3>1. N * (L * strip + W) = N * (L * strip) + N * W
      BY <1>3, <1>5
    <3>2. N * W \in Nat
      BY <1>5, Products
    <3>3. N * (L * strip) + rest < N * (L * strip) + N * W
      BY <1>2, <1>3, <2>2, <3>1
    <3> QED
      BY <1>3, <3>2, <3>3
  <2> QED
    BY <1>5, <2>1, <2>2
<1>7. PICK k \in Nat, r \in 0 .. W - 1 : k = rest \div W /\ rest = k * W + r
  BY <1>3, <1>5, Division
<1>8. k \in 0 .. N - 1
  <2>1. k < N
    BY <1>3, <1>5, <1>6, <1>7, QuotientBelow
  <2> QED
    BY <2>1
<1>9. IsIn(N, S, L, index, strip, k, r)
  BY <1>2, <1>4, <1>7, <1>8 DEF W, IsIn
<1> QED
  BY <1>9

\* Within its grid a swizzle stays on it.
LEMMA StripStays ==
  ASSUME NEW N \in Nat \ {0}, N < Word, NEW S \in Nat, S < Word, NEW L \in Nat \ {0},
         NEW index \in Nat, index < N * S
  PROVE  /\ SwizzleRagged(index, N, L, S).step \in 0 .. N - 1
         /\ SwizzleRagged(index, N, L, S).along \in 0 .. S - 1
<1>1. PICK strip, k, r : IsIn(N, S, L, index, strip, k, r)
  BY StripOf
<1>2. PICK W : W = WidthAt(S, L, strip)
  OBVIOUS
<1>3. /\ strip \in Nat /\ L * strip < S /\ k \in 0 .. N - 1 /\ r \in 0 .. W - 1
      /\ index = strip * (N * L) + (k * W + r)
  BY <1>1, <1>2 DEF IsIn
<1> DEFINE place == SwizzleRagged(index, N, L, S)
<1>4. /\ place.step = Turned(strip % 2 = 1, N, k)
      /\ place.along = Turned(k % 2 = 1, W, r) + L * strip
  BY <1>2, <1>3, StripAt
<1> HIDE DEF place
<1>5. W \in Nat /\ L * strip + W <= S /\ L * strip \in Nat
  BY <1>2, <1>3, Widths, Products
<1>6. Turned(strip % 2 = 1, N, k) \in 0 .. N - 1
  BY <1>3, Turning
<1>7. Turned(k % 2 = 1, W, r) \in 0 .. W - 1
  BY <1>3, <1>5, Turning
<1> QED
  BY <1>4, <1>5, <1>6, <1>7 DEF place

\* No two indices of the grid are at one place.
LEMMA StripParts ==
  ASSUME NEW N \in Nat \ {0}, N < Word, NEW S \in Nat, S < Word, NEW L \in Nat \ {0},
         NEW x \in Nat, x < N * S, NEW y \in Nat, y < N * S,
         SwizzleRagged(x, N, L, S).step = SwizzleRagged(y, N, L, S).step,
         SwizzleRagged(x, N, L, S).along = SwizzleRagged(y, N, L, S).along
  PROVE  x = y
<1> DEFINE there(z) == SwizzleRagged(z, N, L, S)
           IsAt(z, strip, W, k, r) ==
             /\ W = WidthAt(S, L, strip) /\ L * strip < S
             /\ k \in 0 .. N - 1 /\ r \in 0 .. W - 1
             /\ z = strip * (N * L) + (k * W + r)
             /\ there(z).step = Turned(strip % 2 = 1, N, k)
             /\ there(z).along = Turned(k % 2 = 1, W, r) + L * strip
<1>1. ASSUME NEW z \in Nat, z < N * S PROVE \E strip \in Nat : \E W, k, r : IsAt(z, strip, W, k, r)
  <2>1. PICK strip, k, r : IsIn(N, S, L, z, strip, k, r)
    BY <1>1, StripOf
  <2>2. PICK W : W = WidthAt(S, L, strip)
    OBVIOUS
  <2>3. /\ strip \in Nat /\ L * strip < S /\ k \in 0 .. N - 1 /\ r \in 0 .. W - 1
        /\ z = strip * (N * L) + (k * W + r)
    BY <2>1, <2>2 DEF IsIn
  <2>4. IsAt(z, strip, W, k, r)
    BY <2>2, <2>3, StripAt
  <2> HIDE DEF IsAt
  <2> QED
    BY <2>3, <2>4
<1>2. there(x).step = there(y).step /\ there(x).along = there(y).along
  OBVIOUS
<1> HIDE DEF IsAt
<1>a. PICK s \in Nat : \E W, k, r : IsAt(x, s, W, k, r)
  BY <1>1
<1>b. PICK t \in Nat : \E V, l, q : IsAt(y, t, V, l, q)
  BY <1>1
<1>3. PICK W, k, r : IsAt(x, s, W, k, r)
  BY <1>a
<1>4. PICK V, l, q : IsAt(y, t, V, l, q)
  BY <1>b
<1> USE DEF IsAt
<1> HIDE DEF there
<1>5. W \in 1 .. L /\ V \in 1 .. L
  BY <1>3, <1>4, Widths
<1>6. PICK b \in 0 .. W - 1, c \in 0 .. V - 1 :
        b = Turned(k % 2 = 1, W, r) /\ c = Turned(l % 2 = 1, V, q)
  <2>1. W \in Nat /\ V \in Nat /\ r \in 0 .. W - 1 /\ q \in 0 .. V - 1
    BY <1>3, <1>4, <1>5
  <2>2. Turned(k % 2 = 1, W, r) \in 0 .. W - 1 /\ Turned(l % 2 = 1, V, q) \in 0 .. V - 1
    BY <2>1, Turning
  <2> QED
    BY <2>2
<1>7. s = t /\ b = c
  <2>1. b + L * s = c + L * t
    BY <1>2, <1>3, <1>4, <1>6
  <2>2. b \in 0 .. L - 1 /\ c \in 0 .. L - 1
    BY <1>5, <1>6
  <2>3. L * s = s * L /\ L * t = t * L /\ s * L \in Nat /\ t * L \in Nat
    BY Products
  <2>4. s * L + b = t * L + c
    BY <2>1, <2>2, <2>3
  <2>5. (s * L + b) \div L = s /\ (s * L + b) % L = b
    BY <2>2, Divides, ZenonT(30)
  <2>6. (t * L + c) \div L = t /\ (t * L + c) % L = c
    BY <2>2, Divides, ZenonT(30)
  <2> QED
    BY <2>4, <2>5, <2>6
<1>8. W = V
  BY <1>3, <1>4, <1>7
<1>9. k = l
  <2>1. Turned(s % 2 = 1, N, k) = Turned(s % 2 = 1, N, l)
    BY <1>2, <1>3, <1>4, <1>7
  <2>2. k \in 0 .. N - 1 /\ l \in 0 .. N - 1
    BY <1>3, <1>4
  <2>3. /\ Turned(s % 2 = 1, N, Turned(s % 2 = 1, N, k)) = k
        /\ Turned(s % 2 = 1, N, Turned(s % 2 = 1, N, l)) = l
    BY <2>2, Turning
  <2> QED
    BY <2>1, <2>3
<1>10. r = q
  <2>1. Turned(k % 2 = 1, W, r) = Turned(k % 2 = 1, W, q)
    BY <1>6, <1>7, <1>8, <1>9
  <2>2. W \in Nat /\ r \in 0 .. W - 1 /\ q \in 0 .. W - 1
    BY <1>3, <1>4, <1>5, <1>8
  <2>3. /\ Turned(k % 2 = 1, W, Turned(k % 2 = 1, W, r)) = r
        /\ Turned(k % 2 = 1, W, Turned(k % 2 = 1, W, q)) = q
    BY <2>2, Turning
  <2> QED
    BY <2>1, <2>3
<1>11. x = s * (N * L) + (k * W + r) /\ y = t * (N * L) + (l * V + q)
  BY <1>3, <1>4
<1> HIDE DEF IsAt
<1> QED
  BY <1>7, <1>8, <1>9, <1>10, <1>11

\* Some index of the grid is at a place.
IsReached(N, S, L, step, along) ==
  \E x \in Nat : /\ x < N * S
                 /\ SwizzleRagged(x, N, L, S).step = step
                 /\ SwizzleRagged(x, N, L, S).along = along

\* Every place of the grid is some index's.
LEMMA StripCovers ==
  ASSUME NEW N \in Nat \ {0}, N < Word, NEW S \in Nat, S < Word, NEW L \in Nat \ {0},
         NEW step \in 0 .. N - 1, NEW along \in 0 .. S - 1
  PROVE  IsReached(N, S, L, step, along)
<1>1. PICK s \in Nat, z \in 0 .. L - 1 : along = s * L + z
  <2>1. along \in Nat
    OBVIOUS
  <2> QED
    BY <2>1, Division
<1>2. L * s = s * L /\ s * L \in Nat /\ L * s < S
  BY <1>1, Products
<1>3. PICK W : W = WidthAt(S, L, s)
  OBVIOUS
<1>4. W \in 1 .. L /\ (W = L \/ L * s + W = S)
  BY <1>2, <1>3, Widths
<1>5. z \in 0 .. W - 1
  BY <1>1, <1>2, <1>4
<1>6. PICK k \in 0 .. N - 1 : k = Turned(s % 2 = 1, N, step)
  BY Turning
<1>7. Turned(s % 2 = 1, N, k) = step
  BY <1>6, Turning
<1>8. W \in Nat
  BY <1>4
<1>9. PICK r \in 0 .. W - 1 : r = Turned(k % 2 = 1, W, z)
  BY <1>5, <1>8, Turning
<1>10. Turned(k % 2 = 1, W, r) = z
  BY <1>5, <1>8, <1>9, Turning
<1>x. PICK x : x = s * (N * L) + (k * W + r)
  OBVIOUS
<1>11. /\ x \in Nat /\ x < N * S
       /\ SwizzleRagged(x, N, L, S).step = Turned(s % 2 = 1, N, k)
       /\ SwizzleRagged(x, N, L, S).along = Turned(k % 2 = 1, W, r) + L * s
  <2>1. s \in Nat /\ L * s < S /\ k \in 0 .. N - 1 /\ r \in 0 .. W - 1
    BY <1>1, <1>2, <1>6, <1>9
  <2> QED
    BY <1>3, <1>x, <2>1, StripAt
<1>12. z + L * s = along
  BY <1>1, <1>2
<1> QED
  BY <1>7, <1>10, <1>11, <1>12 DEF IsReached

\* Past its grid a swizzle is off it.
LEMMA StripOff ==
  ASSUME NEW N \in Nat \ {0}, N < Word, NEW S \in Nat, S < Word, NEW L \in Nat \ {0},
         NEW index \in Nat, index < Word, N * S <= index
  PROVE  \/ SwizzleRagged(index, N, L, S).step >= N
         \/ SwizzleRagged(index, N, L, S).along >= S
<1>1. N * L \in Nat \ {0} /\ N * S \in Nat
  BY Products
<1>2. PICK strip \in Nat, rest \in 0 .. N * L - 1 :
        strip = index \div (N * L) /\ index = strip * (N * L) + rest
  BY <1>1, Division
<1>3. /\ strip * (N * L) \in Nat /\ L * strip \in Nat /\ N * (L * strip) \in Nat
      /\ strip * (N * L) = N * (L * strip) /\ rest \in Nat
  <2>1. strip * (N * L) \in Nat /\ L * strip \in Nat
    BY <1>1, Products
  <2>2. N * (L * strip) \in Nat
    BY <2>1, Products
  <2>3. strip * (N * L) = N * (L * strip)
    OBVIOUS
  <2> QED
    BY <1>1, <1>2, <2>1, <2>2, <2>3
<1>4. index - (strip * N) * L = rest /\ rest < Word
  <2>1. (strip * N) * L = strip * (N * L)
    OBVIOUS
  <2> QED
    BY <1>2, <1>3, <2>1
<1> DEFINE left == IF S > L * strip THEN S - L * strip ELSE 0
           W == IF left < L /\ left > 0 THEN left ELSE L
           place == SwizzleRagged(index, N, L, S)
<1>5. place = Snake(strip, rest, N, W, L * strip)
  BY <1>2, <1>4 DEF SwizzleRagged
<1>6. W \in Nat \ {0}
  BY <1>3
<1>7. CASE S <= L * strip
  <2>1. place.along = (IF (rest \div W) % 2 = 1 THEN Minus(Minus(W, rest % W), 1) ELSE rest % W) + L * strip
    <3> HIDE DEF place, W
    <3> QED
      BY <1>5 DEF Snake
  <2>2. rest % W \in Nat
    <3> HIDE DEF W
    <3> QED
      BY <1>3, <1>6, Division
  <2>3. \A a \in Int : Minus(a, 1) \in Nat
    BY DEF Minus
  <2>4. Minus(W, rest % W) \in Int
    BY <1>6, <2>2 DEF Minus
  <2>5. Minus(Minus(W, rest % W), 1) \in Nat
    BY <2>3, <2>4
  <2> HIDE DEF place, W
  <2> QED
    BY <1>3, <1>7, <2>1, <2>2, <2>5 DEF place
<1>8. CASE L * strip < S
  <2>1. PICK d \in Nat : d = S - L * strip /\ d > 0
    BY <1>3, <1>8
  <2>2. N * d <= rest
    <3>1. N * S = N * (L * strip) + N * d
      <4>1. S = L * strip + d
        BY <1>3, <2>1
      <4>2. N * (L * strip + d) = N * (L * strip) + N * d
        BY <1>3
      <4> QED
        BY <4>1, <4>2
    <3>2. N * d \in Nat
      BY Products
    <3> QED
      BY <1>2, <1>3, <3>1, <3>2
  <2>3. d < L
    <3>1. ASSUME L <= d PROVE FALSE
      <4>1. L * N <= d * N /\ L * N = N * L /\ d * N = N * d
        BY <3>1, Monotone, Products
      <4>2. N * d \in Nat
        BY Products
      <4> QED
        BY <1>1, <1>2, <2>2, <4>1, <4>2
    <3> QED
      BY <2>1, <3>1
  <2>4. W = d
    BY <1>8, <2>1, <2>3
  <2> HIDE DEF W
  <2>5. PICK k \in Nat, r \in 0 .. d - 1 : k = rest \div d /\ rest = k * d + r
    BY <1>3, <2>1, Division
  <2>6. N <= k
    <3>1. ASSUME k < N PROVE FALSE
      <4>1. k * d + r < N * d
        BY <2>1, <2>5, <3>1, ProductAbove
      <4>2. N * d \in Nat
        BY Products
      <4> QED
        BY <1>3, <2>2, <2>5, <4>1, <4>2
    <3> QED
      BY <3>1
  <2>7. k < Word
    <3>1. k * 1 <= k * d
      <4>1. 1 * k <= d * k /\ 1 * k = k * 1 /\ d * k = k * d
        BY <2>1, Monotone, Products
      <4> QED
        BY <4>1
    <3>2. k * d \in Nat
      BY Products
    <3> QED
      BY <1>3, <1>4, <2>5, <3>1, <3>2
  <2>8. Minus(Minus(N, k), 1) >= N
    <3>1. CASE k = N
      <4>1. (N - k) % Word = 0
        BY <3>1
      <4>2. (0 - 1) % Word = Word - 1
        OBVIOUS
      <4> QED
        BY <4>1, <4>2 DEF Minus
    <3>2. CASE N < k
      <4>1. (N - k) % Word = (N - k) + Word
        BY <2>7, <3>2
      <4>2. (((N - k) + Word) - 1) % Word = (N - k) + Word - 1
        <5>1. ((N - k) + Word) - 1 \in 0 .. Word - 1
          BY <2>7, <3>2
        <5>2. \A x \in 0 .. Word - 1 : x % Word = x
          OBVIOUS
        <5> QED
          BY <5>1, <5>2
      <4> QED
        BY <2>7, <4>1, <4>2 DEF Minus
    <3> QED
      BY <2>6, <3>1, <3>2
  <2>9. place.step = IF strip % 2 = 1 THEN Minus(Minus(N, k), 1) ELSE k
    <3> HIDE DEF place
    <3> QED
      BY <1>5, <2>4, <2>5 DEF Snake
  <2> HIDE DEF place
  <2> QED
    BY <2>6, <2>8, <2>9 DEF place
<1> QED
  BY <1>3, <1>7, <1>8

\* How a swizzled order reads its place: across the strips and along the steps.
ByRows(order) ==
  \A flat, x, y : /\ CubePositions(flat, x, y, order).x = SwizzleRagged(flat, y, order.width, x).along
                  /\ CubePositions(flat, x, y, order).y = SwizzleRagged(flat, y, order.width, x).step
ByColumns(order) ==
  \A flat, x, y : /\ CubePositions(flat, x, y, order).x = SwizzleRagged(flat, x, order.width, y).step
                  /\ CubePositions(flat, x, y, order).y = SwizzleRagged(flat, x, order.width, y).along

Orders == {RowMajor} \cup [strips : {"row", "col"}, width : Nat \ {0}]

LEMMA OrderKinds ==
  ASSUME NEW order \in Orders, Swizzles(order)
  PROVE  order.width \in Nat \ {0} /\ (ByRows(order) \/ ByColumns(order))
<1>1. Canonical(order) # RowMajor
  BY DEF Swizzles
<1>2. order \in [strips : {"row", "col"}, width : Nat \ {0}]
  BY <1>1 DEF Orders, Canonical
<1>3. ASSUME order.strips = "row", NEW flat, NEW x, NEW y
      PROVE  CubePositions(flat, x, y, order) =
               LET place == SwizzleRagged(flat, y, order.width, x) IN
               [x |-> place.along, y |-> place.step, wraps |-> place.wraps]
  BY <1>1, <1>3, Zenon DEF CubePositions
<1>4. ASSUME order.strips = "col", NEW flat, NEW x, NEW y
      PROVE  CubePositions(flat, x, y, order) =
               LET place == SwizzleRagged(flat, x, order.width, y) IN
               [x |-> place.step, y |-> place.along, wraps |-> place.wraps]
  <2>1. order.strips # "row"
    BY <1>4
  <2> QED
    BY <1>1, <1>4, <2>1, Zenon DEF CubePositions
<1>5. order.strips = "row" => ByRows(order)
  BY <1>3 DEF ByRows
<1>6. order.strips = "col" => ByColumns(order)
  BY <1>4 DEF ByColumns
<1> QED
  BY <1>2, <1>5, <1>6

\* A swizzled plane: every cube of the grid is on it, at a place of its own, every
\* place is some cube's, and a cube past the grid is off the plane.
LEMMA PlaneStays ==
  ASSUME NEW order \in Orders, Swizzles(order),
         NEW x \in Nat \ {0}, x < Word, NEW y \in Nat \ {0}, y < Word,
         NEW flat \in Nat, flat < x * y
  PROVE  /\ CubePositions(flat, x, y, order).x \in 0 .. x - 1
         /\ CubePositions(flat, x, y, order).y \in 0 .. y - 1
<1>1. PICK L \in Nat \ {0} : L = order.width
  BY OrderKinds
<1>2. x * y = y * x
  OBVIOUS
<1>3. CASE ByRows(order)
  <2>1. /\ SwizzleRagged(flat, y, L, x).step \in 0 .. y - 1
        /\ SwizzleRagged(flat, y, L, x).along \in 0 .. x - 1
    BY <1>2, StripStays
  <2> QED
    BY <1>1, <1>3, <2>1 DEF ByRows
<1>4. CASE ByColumns(order)
  <2>1. /\ SwizzleRagged(flat, x, L, y).step \in 0 .. x - 1
        /\ SwizzleRagged(flat, x, L, y).along \in 0 .. y - 1
    BY StripStays
  <2> QED
    BY <1>1, <1>4, <2>1 DEF ByColumns
<1> QED
  BY <1>3, <1>4, OrderKinds

LEMMA PlaneParts ==
  ASSUME NEW order \in Orders, Swizzles(order),
         NEW x \in Nat \ {0}, x < Word, NEW y \in Nat \ {0}, y < Word,
         NEW a \in Nat, a < x * y, NEW b \in Nat, b < x * y,
         CubePositions(a, x, y, order).x = CubePositions(b, x, y, order).x,
         CubePositions(a, x, y, order).y = CubePositions(b, x, y, order).y
  PROVE  a = b
<1>1. PICK L \in Nat \ {0} : L = order.width
  BY OrderKinds
<1>2. x * y = y * x
  OBVIOUS
<1>3. CASE ByRows(order)
  <2>1. /\ SwizzleRagged(a, y, L, x).step = SwizzleRagged(b, y, L, x).step
        /\ SwizzleRagged(a, y, L, x).along = SwizzleRagged(b, y, L, x).along
    BY <1>1, <1>3 DEF ByRows
  <2>2. a < y * x /\ b < y * x
    BY <1>2
  <2> QED
    BY <2>1, <2>2, StripParts
<1>4. CASE ByColumns(order)
  <2>1. /\ SwizzleRagged(a, x, L, y).step = SwizzleRagged(b, x, L, y).step
        /\ SwizzleRagged(a, x, L, y).along = SwizzleRagged(b, x, L, y).along
    BY <1>1, <1>4 DEF ByColumns
  <2> QED
    BY <2>1, StripParts
<1> QED
  BY <1>3, <1>4, OrderKinds

LEMMA PlaneCovers ==
  ASSUME NEW order \in Orders, Swizzles(order),
         NEW x \in Nat \ {0}, x < Word, NEW y \in Nat \ {0}, y < Word,
         NEW a \in 0 .. x - 1, NEW b \in 0 .. y - 1
  PROVE  \E flat \in Nat : /\ flat < x * y
                           /\ CubePositions(flat, x, y, order).x = a
                           /\ CubePositions(flat, x, y, order).y = b
<1>1. PICK L \in Nat \ {0} : L = order.width
  BY OrderKinds
<1>2. x * y = y * x
  OBVIOUS
<1>3. CASE ByRows(order)
  <2>1. IsReached(y, x, L, b, a)
    BY StripCovers
  <2>2. PICK flat \in Nat : /\ flat < y * x
                            /\ SwizzleRagged(flat, y, L, x).step = b
                            /\ SwizzleRagged(flat, y, L, x).along = a
    BY <2>1 DEF IsReached
  <2> QED
    BY <1>1, <1>2, <1>3, <2>2 DEF ByRows
<1>4. CASE ByColumns(order)
  <2>1. IsReached(x, y, L, a, b)
    BY StripCovers
  <2>2. PICK flat \in Nat : /\ flat < x * y
                            /\ SwizzleRagged(flat, x, L, y).step = a
                            /\ SwizzleRagged(flat, x, L, y).along = b
    BY <2>1 DEF IsReached
  <2> QED
    BY <1>1, <1>4, <2>2 DEF ByColumns
<1> QED
  BY <1>3, <1>4, OrderKinds

LEMMA PlaneOff ==
  ASSUME NEW order \in Orders, Swizzles(order),
         NEW x \in Nat \ {0}, x < Word, NEW y \in Nat \ {0}, y < Word,
         NEW flat \in Nat, flat < Word, x * y <= flat
  PROVE  \/ CubePositions(flat, x, y, order).x >= x
         \/ CubePositions(flat, x, y, order).y >= y
<1>1. PICK L \in Nat \ {0} : L = order.width
  BY OrderKinds
<1>2. x * y = y * x
  OBVIOUS
<1>3. CASE ByRows(order)
  BY <1>1, <1>2, <1>3, StripOff DEF ByRows
<1>4. CASE ByColumns(order)
  BY <1>1, <1>4, StripOff DEF ByColumns
<1> QED
  BY <1>3, <1>4, OrderKinds

\* The level as a launch gives it.
Shape ==
  /\ level.axes \in Seq(Cut) /\ \A p \in Axes : Settled(Axis(p))
  /\ level.reversed \in BOOLEAN /\ level.order \in Orders
  /\ Swizzles(level.order) => PutsBack(level.axes, level.order)
  /\ route # None => route \in Nat /\ Axes # {} /\ Axis(1).grid > 0

LEMMA LevelShape ==
  ASSUME IInv
  PROVE  Shape
<1>1. PICK launch \in Launches : level = launch.level /\ route = launch.route
  BY DEF IInv
<1>2. /\ launch.level.axes \in Seq(Cut)
      /\ \A p \in DOMAIN launch.level.axes : Settled(launch.level.axes[p])
      /\ launch.level.reversed \in BOOLEAN
      /\ launch.level.order \in Orders
      /\ Swizzles(launch.level.order) => PutsBack(launch.level.axes, launch.level.order)
  BY LaunchesAssumption DEF Orders
<1>3. launch.route # None =>
        launch.route \in Nat /\ launch.level.axes # << >> /\ launch.level.axes[1].grid > 0
  BY LaunchesAssumption
<1>4. level.axes # << >> => Axes # {}
  BY <1>1, <1>2 DEF Axes
<1> QED
  BY <1>1, <1>2, <1>3, <1>4 DEF Shape, Axes, Axis

LEMMA AxesType ==
  ASSUME Shape
  PROVE  /\ Len(level.axes) \in Nat /\ Axes = 1 .. Len(level.axes)
         /\ \A p \in Axes : Axis(p) \in Cut /\ Settled(Axis(p))
         /\ \A p \in Axes : Instances(p) \in Nat /\ Axis(p).grid \in Nat
<1>1. Len(level.axes) \in Nat /\ Axes = 1 .. Len(level.axes)
      /\ \A p \in Axes : Axis(p) \in Cut /\ Settled(Axis(p))
  BY DEF Shape, Axes, Axis
<1> QED
  BY <1>1, InstancesType

LEMMA WeightsType ==
  ASSUME Shape, NEW d
  PROVE  /\ WeightsOn(d) \in Seq(Nat) /\ Len(WeightsOn(d)) = Len(level.axes)
         /\ DOMAIN WeightsOn(d) = 1 .. Len(level.axes)
         /\ \A p \in Axes : WeightsOn(d)[p] = IF Rides(Axis(p), d) THEN Instances(p) ELSE 1
<1>1. PICK n \in Nat : n = Len(level.axes) /\ Axes = 1 .. n
  BY AxesType
<1>2. \A p \in 1 .. n : (IF Rides(Axis(p), d) THEN Instances(p) ELSE 1) \in Nat
  BY <1>1, AxesType
<1>3. WeightsOn(d) = [p \in 1 .. n |-> IF Rides(Axis(p), d) THEN Instances(p) ELSE 1]
  BY <1>1 DEF WeightsOn
<1> QED
  BY <1>1, <1>2, <1>3

\* A dimension some instance is on: every axis that rides it has instances.
LEMMA WeightsPositive ==
  ASSUME Shape, NEW d, DimCount(d) > 0
  PROVE  /\ WeightsOn(d) \in Seq(Nat \ {0})
         /\ \A p \in Axes : Rides(Axis(p), d) => Instances(p) \in Nat \ {0}
<1>1. PICK n \in Nat : n = Len(level.axes) /\ Axes = 1 .. n
  BY AxesType
<1>2. /\ WeightsOn(d) \in Seq(Nat) /\ Len(WeightsOn(d)) = n /\ DOMAIN WeightsOn(d) = 1 .. n
      /\ \A p \in 1 .. n : WeightsOn(d)[p] = IF Rides(Axis(p), d) THEN Instances(p) ELSE 1
  BY <1>1, WeightsType
<1>3. \A p \in 1 .. n : WeightsOn(d)[p] > 0
  BY <1>2, ProductPositive DEF DimCount
<1>4. \A p \in 1 .. n : WeightsOn(d)[p] \in Nat \ {0}
  BY <1>2, <1>3
<1>5. WeightsOn(d) \in Seq(Nat \ {0})
  BY <1>2, <1>4
<1> QED
  BY <1>1, <1>2, <1>4, <1>5

\* A dimension one axis has to itself is as large as that axis.
LEMMA SingleAxis ==
  ASSUME Shape, NEW d, NEW p \in Axes, \A r \in Axes : Rides(Axis(r), d) <=> r = p
  PROVE  DimCount(d) = Instances(p)
<1>1. PICK n \in Nat : n = Len(level.axes) /\ Axes = 1 .. n
  BY AxesType
<1>2. PICK W : W = WeightsOn(d)
  OBVIOUS
<1>3. Len(W) = n /\ \A r \in 1 .. n : W[r] = IF r = p THEN Instances(p) ELSE 1
  BY <1>1, <1>2, WeightsType
<1>4. ProductFrom(W, n + 1) = 1 /\ \A r \in 1 .. n : ProductFrom(W, r) = W[r] * ProductFrom(W, r + 1)
  BY <1>3, ProductSteps
<1>5. PICK c \in Nat : c = Instances(p)
  BY AxesType
<1> DEFINE S == {r \in 1 .. n + 1 : ProductFrom(W, r) = IF r <= p THEN c ELSE 1}
<1>6. n + 1 \in S
  BY <1>1, <1>4
<1>7. ASSUME NEW r \in 1 .. n, r + 1 \in S PROVE r \in S
  <2>1. ProductFrom(W, r) = W[r] * (IF r + 1 <= p THEN c ELSE 1)
    BY <1>4, <1>7
  <2>2. W[r] = IF r = p THEN c ELSE 1
    BY <1>3, <1>5
  <2>3. c * 1 = c /\ 1 * c = c /\ 1 * 1 = 1
    OBVIOUS
  <2>4. (r + 1 <= p <=> r < p) /\ (r <= p <=> r < p \/ r = p) /\ (r = p => ~(r < p))
    BY <1>1
  <2> QED
    BY <2>1, <2>2, <2>3, <2>4
<1> HIDE DEF S
<1>8. 1 .. n + 1 \subseteq S
  BY <1>6, <1>7, InductDown
<1>9. 1 \in S
  BY <1>8
<1> QED
  BY <1>1, <1>2, <1>5, <1>9 DEF S, DimCount

\* The two axes of a swizzled plane, p on X and q on Y, and their instances.
IsPlane(p, q, x, y) ==
  /\ p \in Axes /\ q \in Axes /\ x = Instances(p) /\ y = Instances(q)
  /\ \A r \in Axes : (Rides(Axis(r), "X") <=> r = p) /\ (Rides(Axis(r), "Y") <=> r = q)
  /\ OnDim("X") = p /\ OnDim("Y") = q
  /\ DimCount("X") = x /\ DimCount("Y") = y /\ "X" \in Dims /\ "Y" \in Dims
  /\ x * y \in Nat /\ x < Word /\ y < Word /\ 2 * (x * y) + 8 < Word

LEMMA PlaneExists ==
  ASSUME Shape, Swizzles(level.order)
  PROVE  \E p, q : \E x, y \in Nat \ {0} : IsPlane(p, q, x, y)
<1>1. PutsBack(level.axes, level.order)
  BY DEF Shape
<1>2. PICK p, q \in Axes :
        /\ \A r \in Axes : (Rides(Axis(r), "X") <=> r = p) /\ (Rides(Axis(r), "Y") <=> r = q)
        /\ Instances(p) > 0 /\ Instances(q) > 0
        /\ 2 * Instances(p) * Instances(q) + 8 < Word
  BY <1>1 DEF PutsBack, Axes, Axis, Instances
<1>3. PICK x \in Nat \ {0}, y \in Nat \ {0} : x = Instances(p) /\ y = Instances(q)
  BY <1>2, AxesType
<1>4. (2 * x) * y + 8 < Word
  BY <1>2, <1>3
<1>5. x * y \in Nat /\ 2 * (x * y) + 8 < Word /\ x <= x * y /\ y <= x * y
  <2>1. (2 * x) * y = 2 * (x * y) /\ x * y \in Nat
    BY Products
  <2>2. 1 * x <= y * x /\ 1 * y <= x * y /\ 1 * x = x /\ 1 * y = y /\ y * x = x * y
    BY Monotone, Products
  <2> QED
    BY <1>4, <2>1, <2>2
<1>6. x < Word /\ y < Word
  BY <1>5, WordAssumption
<1>7. DimCount("X") = x /\ DimCount("Y") = y
  BY <1>2, <1>3, SingleAxis
<1>8. OnDim("X") = p
  BY <1>2, Zenon DEF OnDim
<1>9. OnDim("Y") = q
  BY <1>2, Zenon DEF OnDim
<1>10. "X" \in Dims /\ "Y" \in Dims
  BY <1>2 DEF Dims, Rides, Distributes
<1>11. IsPlane(p, q, x, y)
  BY <1>2, <1>3, <1>5, <1>6, <1>7, <1>8, <1>9, <1>10 DEF IsPlane
<1> QED
  BY <1>11

\* Where an instance's own position on X and Y puts it in the plane.
LEMMA PlaneIndex ==
  ASSUME NEW x \in Nat \ {0}, NEW y \in Nat \ {0}
  PROVE  /\ \A a \in 0 .. x - 1, b \in 0 .. y - 1 :
              /\ a + b * x \in Nat /\ a + b * x < x * y
              /\ (a + b * x) % x = a /\ (a + b * x) \div x = b
         /\ \A flat \in Nat : flat < x * y =>
              /\ flat % x \in 0 .. x - 1 /\ flat \div x \in 0 .. y - 1
              /\ (flat % x) + (flat \div x) * x = flat
<1>1. x * y = y * x /\ x * y \in Nat
  BY Products
<1>2. ASSUME NEW a \in 0 .. x - 1, NEW b \in 0 .. y - 1
      PROVE  /\ a + b * x \in Nat /\ a + b * x < x * y
             /\ (a + b * x) % x = a /\ (a + b * x) \div x = b
  <2>1. b \in Nat /\ b < y
    OBVIOUS
  <2>2. b * x + a \in Nat /\ b * x + a < y * x
    BY <2>1, ProductAbove
  <2>3. (b * x + a) \div x = b /\ (b * x + a) % x = a
    BY <2>1, Divides
  <2>4. b * x + a = a + b * x
    OBVIOUS
  <2> QED
    BY <1>1, <2>2, <2>3, <2>4
<1>3. ASSUME NEW flat \in Nat, flat < x * y
      PROVE  /\ flat % x \in 0 .. x - 1 /\ flat \div x \in 0 .. y - 1
             /\ (flat % x) + (flat \div x) * x = flat
  <2>1. PICK q \in Nat, r \in 0 .. x - 1 : q = flat \div x /\ r = flat % x /\ flat = q * x + r
    BY Division
  <2>2. q < y
    BY <1>1, <1>3, <2>1, QuotientBelow
  <2>3. q * x \in Nat
    BY Products
  <2>4. r + q * x = flat
    BY <2>1, <2>3
  <2> QED
    BY <2>1, <2>2, <2>4
<1> QED
  BY <1>2, <1>3

\* The instance's digit along an axis is one of the axis's instances.
LEMMA InstancePlace ==
  ASSUME Shape, NEW pos \in Positions, NEW d \in Dims
  PROVE  /\ DimCount(d) \in Nat /\ pos[d] \in 0 .. DimCount(d) - 1
         /\ DimCount(d) > 0
<1>1. DimCount(d) \in Nat
  BY WeightsType, ProductType DEF DimCount
<1>2. pos[d] \in UNION {0 .. DimCount(e) - 1 : e \in Dims} /\ pos[d] < DimCount(d)
  BY DEF Positions
<1>3. pos[d] \in Nat
  <2>1. PICK e \in Dims : pos[d] \in 0 .. DimCount(e) - 1
    BY <1>2
  <2>2. DimCount(e) \in Nat
    BY WeightsType, ProductType DEF DimCount
  <2> QED
    BY <2>1, <2>2
<1> QED
  BY <1>1, <1>2, <1>3

LEMMA PositionBelow ==
  ASSUME Shape, NEW pos \in Positions, NEW p \in Axes
  PROVE  Position(pos, p) \in 0 .. Instances(p) - 1
<1>1. CASE ~Distributes(p)
  BY <1>1 DEF Position, Instances, InstancesOf, Distributes
<1>2. CASE Distributes(p) /\ ~Swizzled(p)
  <2>1. PICK d : d = Axis(p).dim
    OBVIOUS
  <2>2. d \in Dims /\ Rides(Axis(p), d)
    BY <1>2, <2>1 DEF Dims, Rides, Distributes
  <2>3. pos[d] \in Nat /\ WeightsOn(d) \in Seq(Nat \ {0})
    BY <2>2, InstancePlace, WeightsPositive
  <2>4. p \in 1 .. Len(WeightsOn(d)) /\ WeightsOn(d)[p] = Instances(p)
    BY <2>2, AxesType, WeightsType
  <2>5. DigitOf(WeightsOn(d), pos[d], p) \in 0 .. Instances(p) - 1
    BY <2>3, <2>4, DigitBelow
  <2>6. Position(pos, p) = DigitOf(WeightsOn(d), pos[d], p)
    BY <1>2, <2>1, <2>4 DEF Position, Inner, DigitOf
  <2> QED
    BY <2>5, <2>6
<1>3. CASE Swizzled(p)
  <2>1. Swizzles(level.order) /\ Distributes(p) /\ Axis(p).dim \in {"X", "Y"}
    BY <1>3 DEF Swizzled
  <2>2. PICK u, v : \E x, y \in Nat \ {0} : IsPlane(u, v, x, y)
    BY <2>1, PlaneExists
  <2>3. PICK x \in Nat \ {0}, y \in Nat \ {0} : IsPlane(u, v, x, y)
    BY <2>2
  <2>4. pos["X"] \in 0 .. x - 1 /\ pos["Y"] \in 0 .. y - 1
    BY <2>3, InstancePlace DEF IsPlane
  <2>5. PICK flat \in Nat : flat = pos["X"] + pos["Y"] * x /\ flat < x * y
    BY <2>4, PlaneIndex
  <2>6. InPlane(pos) = CubePositions(flat, x, y, level.order)
    BY <2>3, <2>5 DEF InPlane, IsPlane
  <2>7. InPlane(pos).x \in 0 .. x - 1 /\ InPlane(pos).y \in 0 .. y - 1
    BY <2>1, <2>3, <2>5, <2>6, PlaneStays DEF IsPlane, Shape
  <2>8. (Axis(p).dim = "X" => Instances(p) = x) /\ (Axis(p).dim = "Y" => Instances(p) = y)
    BY <2>1, <2>3 DEF IsPlane, Rides, Distributes
  <2>9. Position(pos, p) = IF Axis(p).dim = "X" THEN InPlane(pos).x ELSE InPlane(pos).y
    BY <1>3, <2>1 DEF Position
  <2> QED
    BY <2>1, <2>7, <2>8, <2>9
<1> QED
  BY <1>1, <1>2, <1>3 DEF Swizzled

\* Off the plane, the position along a dimension is the axis's digit.
LEMMA PlainPosition ==
  ASSUME Shape, NEW d \in Dims, NEW pos, ~(Swizzles(level.order) /\ d \in {"X", "Y"}),
         NEW p \in Axes, Rides(Axis(p), d)
  PROVE  Position(pos, p) = DigitOf(WeightsOn(d), pos[d], p)
<1>1. Distributes(p) /\ Axis(p).dim = d /\ ~Swizzled(p)
  BY DEF Rides, Distributes, Swizzled
<1>2. WeightsOn(d)[p] = Instances(p)
  BY WeightsType
<1> QED
  BY <1>1, <1>2 DEF Position, Inner, DigitOf

\* On it, the two positions are those of the flat index.
LEMMA PlanePosition ==
  ASSUME Shape, Swizzles(level.order), NEW p, NEW q, NEW x, NEW y, IsPlane(p, q, x, y), NEW pos
  PROVE  LET there == CubePositions(pos["X"] + pos["Y"] * x, x, y, level.order) IN
         Position(pos, p) = there.x /\ Position(pos, q) = there.y
<1>1. InPlane(pos) = CubePositions(pos["X"] + pos["Y"] * x, x, y, level.order)
  BY DEF InPlane, IsPlane
<1>2. Distributes(p) /\ Axis(p).dim = "X" /\ Distributes(q) /\ Axis(q).dim = "Y"
  BY DEF IsPlane, Rides, Distributes
<1>3. Swizzled(p) /\ Swizzled(q) /\ Axis(q).dim # "X"
  BY <1>2 DEF Swizzled
<1>4. Position(pos, p) = InPlane(pos).x
  BY <1>2, <1>3 DEF Position
<1>5. Position(pos, q) = InPlane(pos).y
  BY <1>2, <1>3 DEF Position
<1> QED
  BY <1>1, <1>4, <1>5

\* No two instances are at one position along every axis.
LEMMA PositionsDiffer ==
  ASSUME Shape, NEW a \in Positions, NEW b \in Positions,
         \A p \in Axes : Position(a, p) = Position(b, p)
  PROVE  a = b
<1>1. ASSUME NEW d \in Dims, ~(Swizzles(level.order) /\ d \in {"X", "Y"}) PROVE a[d] = b[d]
  <2>1. PICK W : W = WeightsOn(d)
    OBVIOUS
  <2>2. DimCount(d) > 0
    BY InstancePlace
  <2>3. W \in Seq(Nat \ {0}) /\ 1 .. Len(W) = Axes
        /\ \A p \in Axes : W[p] = IF Rides(Axis(p), d) THEN Instances(p) ELSE 1
    BY <2>1, <2>2, WeightsPositive, WeightsType, AxesType
  <2>4. a[d] \in 0 .. ProductFrom(W, 1) - 1 /\ b[d] \in 0 .. ProductFrom(W, 1) - 1
    BY <2>1, InstancePlace DEF DimCount
  <2>5. ASSUME NEW p \in Axes PROVE DigitOf(W, a[d], p) = DigitOf(W, b[d], p)
    <3>1. CASE Rides(Axis(p), d)
      <4>1. Position(a, p) = DigitOf(W, a[d], p)
        BY <1>1, <2>1, <3>1, PlainPosition
      <4>2. Position(b, p) = DigitOf(W, b[d], p)
        BY <1>1, <2>1, <3>1, PlainPosition
      <4> QED
        BY <4>1, <4>2
    <3>2. CASE ~Rides(Axis(p), d)
      <4>1. W[p] = 1 /\ p \in 1 .. Len(W) /\ a[d] \in Nat /\ b[d] \in Nat
        BY <2>3, <2>4, <3>2
      <4>2. DigitOf(W, a[d], p) \in 0 .. 1 - 1 /\ DigitOf(W, b[d], p) \in 0 .. 1 - 1
        BY <2>3, <4>1, DigitBelow
      <4> QED
        BY <4>2
    <3> QED
      BY <3>1, <3>2
  <2> QED
    BY <2>3, <2>4, <2>5, SameDigits
<1>2. ASSUME Swizzles(level.order) PROVE a["X"] = b["X"] /\ a["Y"] = b["Y"]
  <2>1. PICK p, q : \E x, y \in Nat \ {0} : IsPlane(p, q, x, y)
    BY <1>2, PlaneExists
  <2>2. PICK x \in Nat \ {0}, y \in Nat \ {0} : IsPlane(p, q, x, y)
    BY <2>1
  <2>3. /\ a["X"] \in 0 .. x - 1 /\ a["Y"] \in 0 .. y - 1
        /\ b["X"] \in 0 .. x - 1 /\ b["Y"] \in 0 .. y - 1
    BY <2>2, InstancePlace DEF IsPlane
  <2>4. PICK f, g \in Nat : /\ f = a["X"] + a["Y"] * x /\ f < x * y
                            /\ g = b["X"] + b["Y"] * x /\ g < x * y
    BY <2>3, PlaneIndex
  <2>5. Position(a, p) = Position(b, p) /\ Position(a, q) = Position(b, q)
    BY <2>2 DEF IsPlane
  <2>6. /\ CubePositions(f, x, y, level.order).x = CubePositions(g, x, y, level.order).x
        /\ CubePositions(f, x, y, level.order).y = CubePositions(g, x, y, level.order).y
    BY <1>2, <2>2, <2>4, <2>5, PlanePosition
  <2>7. f = g
    BY <1>2, <2>2, <2>4, <2>6, PlaneParts DEF IsPlane, Shape
  <2>8. f % x = a["X"] /\ f \div x = a["Y"] /\ g % x = b["X"] /\ g \div x = b["Y"]
    <3>1. PICK a1 \in 0 .. x - 1, a2 \in 0 .. y - 1, b1 \in 0 .. x - 1, b2 \in 0 .. y - 1 :
            a1 = a["X"] /\ a2 = a["Y"] /\ b1 = b["X"] /\ b2 = b["Y"]
      BY <2>3
    <3>2. (a1 + a2 * x) % x = a1 /\ (a1 + a2 * x) \div x = a2
      BY PlaneIndex
    <3>3. (b1 + b2 * x) % x = b1 /\ (b1 + b2 * x) \div x = b2
      BY PlaneIndex
    <3> QED
      BY <2>4, <3>1, <3>2, <3>3
  <2> QED
    BY <2>7, <2>8
<1>3. \A d \in Dims : a[d] = b[d]
  BY <1>1, <1>2
<1>4. a \in [Dims -> UNION {0 .. DimCount(d) - 1 : d \in Dims}]
      /\ b \in [Dims -> UNION {0 .. DimCount(d) - 1 : d \in Dims}]
  BY DEF Positions
<1> QED
  BY <1>3, <1>4

\* Whatever the position asked for along every axis, some instance is there.
LEMMA PositionsCover ==
  ASSUME Shape, NEW wanted, \A p \in Axes : wanted[p] \in 0 .. Instances(p) - 1
  PROVE  \E pos \in Positions : \A p \in Axes : Position(pos, p) = wanted[p]
<1> DEFINE InTheWay(d) == Swizzles(level.order) /\ d \in {"X", "Y"}
           Found(d, v) ==
             /\ v \in 0 .. DimCount(d) - 1
             /\ \A p \in Axes : Rides(Axis(p), d) => DigitOf(WeightsOn(d), v, p) = wanted[p]
<1>1. \A p \in Axes : Instances(p) \in Nat \ {0}
  BY AxesType
<1>2. ASSUME NEW d \in Dims PROVE \E v : Found(d, v)
  <2>1. PICK W : W = WeightsOn(d)
    OBVIOUS
  <2>2. W \in Seq(Nat) /\ 1 .. Len(W) = Axes /\ Len(W) \in Nat
        /\ \A p \in Axes : W[p] = IF Rides(Axis(p), d) THEN Instances(p) ELSE 1
    BY <2>1, WeightsType, AxesType
  <2>3. \A p \in Axes : W[p] \in Nat \ {0}
    BY <1>1, <2>2
  <2>4. W \in Seq(Nat \ {0})
    BY <2>2, <2>3
  <2>5. PICK digits : digits = [p \in Axes |-> IF Rides(Axis(p), d) THEN wanted[p] ELSE 0]
    OBVIOUS
  <2>6. \A p \in 1 .. Len(W) : digits[p] \in 0 .. W[p] - 1
    BY <2>2, <2>3, <2>5
  <2>7. PICK v \in 0 .. ProductFrom(W, 1) - 1 : \A p \in 1 .. Len(W) : DigitOf(W, v, p) = digits[p]
    BY <2>4, <2>6, SomeNumber
  <2>8. Found(d, v)
    BY <2>1, <2>2, <2>5, <2>7 DEF DimCount
  <2> QED
    BY <2>8
<1>3. ASSUME Swizzles(level.order)
      PROVE  \E u, v : /\ u \in 0 .. DimCount("X") - 1 /\ v \in 0 .. DimCount("Y") - 1
                       /\ \A pos : pos["X"] = u /\ pos["Y"] = v =>
                            \A p \in Axes : Rides(Axis(p), "X") \/ Rides(Axis(p), "Y") =>
                              Position(pos, p) = wanted[p]
  <2>1. PICK p, q : \E x, y \in Nat \ {0} : IsPlane(p, q, x, y)
    BY <1>3, PlaneExists
  <2>2. PICK x \in Nat \ {0}, y \in Nat \ {0} : IsPlane(p, q, x, y)
    BY <2>1
  <2>3. wanted[p] \in 0 .. x - 1 /\ wanted[q] \in 0 .. y - 1
    BY <2>2 DEF IsPlane
  <2>4. PICK flat \in Nat : /\ flat < x * y
                            /\ CubePositions(flat, x, y, level.order).x = wanted[p]
                            /\ CubePositions(flat, x, y, level.order).y = wanted[q]
    <3>1. PICK w1 \in 0 .. x - 1, w2 \in 0 .. y - 1 : w1 = wanted[p] /\ w2 = wanted[q]
      BY <2>3
    <3>2. x < Word /\ y < Word /\ level.order \in Orders
      BY <2>2 DEF IsPlane, Shape
    <3>3. \E flat \in Nat : /\ flat < x * y
                            /\ CubePositions(flat, x, y, level.order).x = w1
                            /\ CubePositions(flat, x, y, level.order).y = w2
      BY <1>3, <3>2, PlaneCovers
    <3> QED
      BY <3>1, <3>3
  <2>5. PICK u \in 0 .. x - 1, v \in 0 .. y - 1 : u + v * x = flat
    BY <2>4, PlaneIndex
  <2>6. ASSUME NEW pos, pos["X"] = u, pos["Y"] = v
        PROVE  Position(pos, p) = wanted[p] /\ Position(pos, q) = wanted[q]
    BY <1>3, <2>2, <2>4, <2>5, <2>6, PlanePosition
  <2>7. u \in 0 .. DimCount("X") - 1 /\ v \in 0 .. DimCount("Y") - 1
    BY <2>2, <2>5 DEF IsPlane
  <2>8. \A r \in Axes : Rides(Axis(r), "X") \/ Rides(Axis(r), "Y") => r = p \/ r = q
    BY <2>2 DEF IsPlane
  <2> QED
    BY <2>6, <2>7, <2>8
<1>4. PICK u, v :
        Swizzles(level.order) =>
          /\ u \in 0 .. DimCount("X") - 1 /\ v \in 0 .. DimCount("Y") - 1
          /\ \A pos : pos["X"] = u /\ pos["Y"] = v =>
               \A p \in Axes : Rides(Axis(p), "X") \/ Rides(Axis(p), "Y") =>
                 Position(pos, p) = wanted[p]
  BY <1>3
<1> DEFINE Value(d) == IF InTheWay(d) THEN IF d = "X" THEN u ELSE v ELSE CHOOSE w : Found(d, w)
           pos == [d \in Dims |-> Value(d)]
<1>5. \A d \in Dims : ~InTheWay(d) => Found(d, Value(d))
  BY <1>2
<1>6. \A d \in Dims : Value(d) \in 0 .. DimCount(d) - 1
  BY <1>4, <1>5
<1>7. \A d \in Dims : DimCount(d) \in Nat
  BY WeightsType, ProductType DEF DimCount
<1>8. pos \in Positions
  <2> HIDE DEF Value
  <2>1. \A d \in Dims : Value(d) < DimCount(d)
    BY <1>6, <1>7
  <2>2. \A d \in Dims : Value(d) \in UNION {0 .. DimCount(e) - 1 : e \in Dims}
    BY <1>6
  <2> QED
    BY <2>1, <2>2 DEF Positions
<1>9. ASSUME NEW p \in Axes PROVE Position(pos, p) = wanted[p]
  <2>1. CASE ~Distributes(p)
    <3>1. Instances(p) = 1 /\ Position(pos, p) = 0
      BY <2>1 DEF Instances, InstancesOf, Distributes, Position
    <3> QED
      BY <3>1
  <2>2. CASE Distributes(p) /\ InTheWay(Axis(p).dim)
    <3>1. PICK p1, q1 : \E x, y \in Nat \ {0} : IsPlane(p1, q1, x, y)
      BY <2>2, PlaneExists
    <3>2. "X" \in Dims /\ "Y" \in Dims
      BY <3>1 DEF IsPlane
    <3>3. pos["X"] = u /\ pos["Y"] = v
      BY <2>2, <3>2
    <3>4. Rides(Axis(p), "X") \/ Rides(Axis(p), "Y")
      BY <2>2 DEF Rides, Distributes
    <3> HIDE DEF pos
    <3> QED
      BY <1>4, <2>2, <3>3, <3>4
  <2>3. CASE Distributes(p) /\ ~InTheWay(Axis(p).dim)
    <3>1. PICK d : d = Axis(p).dim
      OBVIOUS
    <3>2. d \in Dims /\ Rides(Axis(p), d) /\ ~InTheWay(d)
      BY <2>3, <3>1 DEF Dims, Rides, Distributes
    <3>3. Found(d, pos[d])
      BY <1>5, <3>2
    <3> HIDE DEF pos
    <3>4. Position(pos, p) = DigitOf(WeightsOn(d), pos[d], p)
      BY <3>2, PlainPosition
    <3> QED
      BY <3>2, <3>3, <3>4
  <2> QED
    BY <2>1, <2>2, <2>3
<1> HIDE DEF pos
<1> QED
  BY <1>8, <1>9

\* The axes a kernel routes: the first, if any.
IsRouted(p) == route # None /\ p = 1

LEMMA ShareType ==
  ASSUME NEW p, Axis(p) \in Cut, Settled(Axis(p)), NEW a \in 0 .. Instances(p) - 1
  PROVE  Share(p, a) \in Nat
<1>1. CASE InTurns(p)
  BY <1>1 DEF InTurns
<1>2. ASSUME NEW length, InRuns(p, length) PROVE Share(p, a) \in Nat
  BY <1>2 DEF InRuns
<1> QED
  BY <1>1, <1>2, AxisKinds

LEMMA CountsType ==
  ASSUME Shape, NEW pos \in Positions
  PROVE  /\ Counts(pos) \in Seq(Nat) /\ 1 .. Len(Counts(pos)) = Axes
         /\ \A p \in Axes : Counts(pos)[p] = IF IsRouted(p) THEN 1 ELSE Share(p, Position(pos, p))
         /\ Total(pos) \in Nat
<1>1. PICK n \in Nat : n = Len(level.axes) /\ Axes = 1 .. n
  BY AxesType
<1>2. \A p \in Axes : (IF IsRouted(p) THEN 1 ELSE Share(p, Position(pos, p))) \in Nat
  BY AxesType, PositionBelow, ShareType
<1>3. Counts(pos) = [p \in 1 .. n |-> IF IsRouted(p) THEN 1 ELSE Share(p, Position(pos, p))]
  BY <1>1 DEF Counts, IsRouted, Share
<1>4. Counts(pos) \in Seq(Nat) /\ Len(Counts(pos)) = n
      /\ \A p \in Axes : Counts(pos)[p] = IF IsRouted(p) THEN 1 ELSE Share(p, Position(pos, p))
  BY <1>1, <1>2, <1>3
<1>5. 1 \in 1 .. Len(Counts(pos)) + 1
  BY <1>1, <1>4
<1>6. Total(pos) \in Nat
  BY <1>4, <1>5, ProductType DEF Total
<1> QED
  BY <1>1, <1>4, <1>6

\* Either order of the steps passes every index once.
LEMMA Stepping ==
  ASSUME Shape, NEW total \in Nat, NEW n \in Nat, n < total
  PROVE  /\ Step(n, total) \in 0 .. total - 1
         /\ Step(Step(n, total), total) = n
BY DEF Step

\* A step of a walk: its index, the digits of that index, and the tile they make.
LEMMA RegionAt ==
  ASSUME Shape, NEW pos \in Positions, NEW n \in Nat, n < Total(pos)
  PROVE  LET idx == Step(n, Total(pos)) IN
         /\ idx \in 0 .. ProductFrom(Counts(pos), 1) - 1
         /\ Counts(pos) \in Seq(Nat \ {0}) /\ 1 .. Len(Counts(pos)) = Axes
         /\ DOMAIN Region(pos, n) = Axes
         /\ Region(pos, n) = [p \in Axes |-> Region(pos, n)[p]]
         /\ \A p \in Axes : IsRouted(p) => Region(pos, n)[p] = Routed(p)
         /\ \A p \in Axes : ~IsRouted(p) =>
              LET digit == DigitOf(Counts(pos), idx, p) IN
              /\ Region(pos, n)[p] = Placed(p, Position(pos, p), digit)
              /\ digit \in Nat /\ digit < Share(p, Position(pos, p))
<1>1. PICK C : C = Counts(pos)
  OBVIOUS
<1>2. PICK total \in Nat : total = Total(pos)
  BY CountsType
<1>3. PICK idx \in 0 .. total - 1 : idx = Step(n, Total(pos))
  BY <1>2, Stepping
<1>4. /\ C \in Seq(Nat) /\ 1 .. Len(C) = Axes /\ Len(C) \in Nat
      /\ \A p \in Axes : C[p] = IF IsRouted(p) THEN 1 ELSE Share(p, Position(pos, p))
  BY <1>1, CountsType, AxesType
<1>5. total = ProductFrom(C, 1)
  BY <1>1, <1>2 DEF Total
<1>6. \A p \in 1 .. Len(C) : C[p] > 0
  BY <1>2, <1>4, <1>5, ProductPositive
<1>7. \A p \in 1 .. Len(C) : C[p] \in Nat \ {0}
  BY <1>4, <1>6
<1>8. C \in Seq(Nat \ {0})
  BY <1>4, <1>7
<1>9. ASSUME NEW p \in Axes
      PROVE  /\ DigitOf(C, idx, p) \in 0 .. C[p] - 1
             /\ DigitOf(C, idx, p) = Digit(pos, idx, p)
  <2>1. idx \in Nat /\ p \in 1 .. Len(C)
    BY <1>4
  <2>2. DigitOf(C, idx, p) \in 0 .. C[p] - 1
    BY <1>8, <2>1, DigitBelow
  <2> QED
    BY <1>1, <2>2 DEF DigitOf, Digit
<1>10. Region(pos, n) = [p \in Axes |-> IF IsRouted(p) THEN Routed(p)
                                        ELSE Placed(p, Position(pos, p), Digit(pos, idx, p))]
  BY <1>3 DEF Region, IsRouted, Fold, Placed
<1>11. \A p \in Axes : ~IsRouted(p) =>
         DigitOf(C, idx, p) \in Nat /\ DigitOf(C, idx, p) < Share(p, Position(pos, p))
  BY <1>4, <1>7, <1>9
<1> QED
  BY <1>1, <1>2, <1>3, <1>4, <1>5, <1>8, <1>9, <1>10, <1>11

\* A walk stays in the grid.
LEMMA RegionStays ==
  ASSUME Shape, NEW pos \in Positions, NEW n \in Nat, n < Total(pos)
  PROVE  Region(pos, n) \in Grid
<1>1. ASSUME NEW p \in Axes PROVE Region(pos, n)[p] \in 0 .. Axis(p).grid - 1
  <2>1. CASE IsRouted(p)
    <3>1. route \in Nat /\ Axis(p).grid > 0 /\ Axis(p).grid \in Nat
      BY <2>1, AxesType DEF IsRouted, Shape
    <3>2. Region(pos, n)[p] = Least(route, Axis(p).grid - 1)
      BY <2>1, RegionAt DEF Routed
    <3> QED
      BY <3>1, <3>2 DEF Least
  <2>2. CASE ~IsRouted(p)
    <3>1. PICK digit \in Nat : /\ Region(pos, n)[p] = Placed(p, Position(pos, p), digit)
                               /\ digit < Share(p, Position(pos, p))
      BY <2>2, RegionAt
    <3>2. Placed(p, Position(pos, p), digit) \in 0 .. Axis(p).grid - 1
      BY <3>1, AxesType, PositionBelow, AxisStays
    <3> QED
      BY <3>1, <3>2
  <2> QED
    BY <2>1, <2>2
<1>2. \A p \in Axes : Region(pos, n)[p] < Axis(p).grid
  BY <1>1, AxesType
<1>3. Region(pos, n) = [p \in Axes |-> Region(pos, n)[p]]
  BY RegionAt
<1> QED
  BY <1>1, <1>2, <1>3 DEF Grid

\* Unrouted, no two steps of any two instances take one tile.
LEMMA RegionDiffers ==
  ASSUME Shape, route = None,
         NEW a \in Positions, NEW n \in Nat, n < Total(a),
         NEW b \in Positions, NEW k \in Nat, k < Total(b),
         Region(a, n) = Region(b, k)
  PROVE  a = b /\ n = k
<1>1. PICK f, g : f = Step(n, Total(a)) /\ g = Step(k, Total(b))
  OBVIOUS
<1>2. /\ f \in 0 .. ProductFrom(Counts(a), 1) - 1 /\ g \in 0 .. ProductFrom(Counts(b), 1) - 1
      /\ Counts(a) \in Seq(Nat \ {0}) /\ 1 .. Len(Counts(a)) = Axes
  BY <1>1, RegionAt
<1>3. ASSUME NEW p \in Axes
      PROVE  /\ Position(a, p) = Position(b, p)
             /\ DigitOf(Counts(a), f, p) = DigitOf(Counts(b), g, p)
  <2>1. ~IsRouted(p)
    BY DEF IsRouted
  <2>2. PICK x \in Nat : /\ x = DigitOf(Counts(a), f, p)
                         /\ Region(a, n)[p] = Placed(p, Position(a, p), x)
                         /\ x < Share(p, Position(a, p))
    BY <1>1, <2>1, RegionAt
  <2>3. PICK y \in Nat : /\ y = DigitOf(Counts(b), g, p)
                         /\ Region(b, k)[p] = Placed(p, Position(b, p), y)
                         /\ y < Share(p, Position(b, p))
    BY <1>1, <2>1, RegionAt
  <2>4. Position(a, p) \in 0 .. Instances(p) - 1 /\ Position(b, p) \in 0 .. Instances(p) - 1
    BY PositionBelow
  <2>5. Placed(p, Position(a, p), x) = Placed(p, Position(b, p), y)
    BY <2>2, <2>3
  <2>6. Axis(p) \in Cut /\ Settled(Axis(p))
    BY AxesType
  <2>7. Position(a, p) = Position(b, p) /\ x = y
    BY <2>2, <2>3, <2>4, <2>5, <2>6, AxisParts
  <2> QED
    BY <2>2, <2>3, <2>7
<1>4. a = b
  BY <1>3, PositionsDiffer
<1>5. f = g
  BY <1>2, <1>3, <1>4, SameDigits
<1>6. Total(a) \in Nat /\ Step(f, Total(a)) = n /\ Step(g, Total(a)) = k
  BY <1>1, <1>4, CountsType, Stepping
<1> QED
  BY <1>4, <1>5, <1>6

\* Every tile of the grid, or of the slice a walk is routed to, is some step's.
LEMMA RegionCovers ==
  ASSUME Shape, NEW t \in Grid, \A p \in Axes : IsRouted(p) => t[p] = Routed(p)
  PROVE  \E pos \in Positions : \E n \in Nat : n < Total(pos) /\ Region(pos, n) = t
<1>1. ASSUME NEW p \in Axes PROVE Axis(p).grid \in Nat /\ t[p] \in 0 .. Axis(p).grid - 1
  <2>1. Axis(p).grid \in Nat /\ t[p] < Axis(p).grid
    BY AxesType DEF Grid
  <2>2. PICK q \in Axes : t[p] \in 0 .. Axis(q).grid - 1
    BY DEF Grid
  <2> QED
    BY <2>1, <2>2, AxesType
<1> DEFINE Works(p, a, j) ==
             /\ a \in 0 .. Instances(p) - 1 /\ j \in Nat
             /\ IF IsRouted(p) THEN j = 0 ELSE j < Share(p, a) /\ Placed(p, a, j) = t[p]
<1>2. ASSUME NEW p \in Axes PROVE \E a, j : Works(p, a, j)
  <2>1. CASE IsRouted(p)
    <3>1. Axis(p).grid > 0 /\ Instances(p) > 0 /\ Instances(p) \in Nat
      BY <2>1, AxesType, InstancesType DEF IsRouted, Shape
    <3>2. Works(p, 0, 0)
      BY <2>1, <3>1
    <3> QED
      BY <3>2
  <2>2. CASE ~IsRouted(p)
    <3>1. PICK a \in 0 .. Instances(p) - 1, j \in Nat : j < Share(p, a) /\ Placed(p, a, j) = t[p]
      BY <1>1, AxesType, AxisCovers
    <3>2. Works(p, a, j)
      BY <2>2, <3>1
    <3> QED
      BY <3>2
  <2> QED
    BY <2>1, <2>2
<1> DEFINE wanted == [p \in Axes |-> CHOOSE a : \E j : Works(p, a, j)]
           digits == [p \in Axes |-> CHOOSE j : Works(p, wanted[p], j)]
<1>3. \A p \in Axes : Works(p, wanted[p], digits[p])
  <2> HIDE DEF Works
  <2>1. \A p \in Axes : \E j : Works(p, wanted[p], j)
    BY <1>2
  <2> HIDE DEF wanted
  <2> QED
    BY <2>1
<1> HIDE DEF wanted, digits
<1>4. \A p \in Axes : wanted[p] \in 0 .. Instances(p) - 1
  BY <1>3
<1>5. PICK pos \in Positions : \A p \in Axes : Position(pos, p) = wanted[p]
  BY <1>4, PositionsCover
<1>6. PICK C : C = Counts(pos)
  OBVIOUS
<1>7. /\ C \in Seq(Nat) /\ 1 .. Len(C) = Axes /\ Len(C) \in Nat
      /\ \A p \in Axes : C[p] = IF IsRouted(p) THEN 1 ELSE Share(p, wanted[p])
  BY <1>5, <1>6, CountsType, AxesType
<1>8. \A p \in 1 .. Len(C) : C[p] \in Nat \ {0} /\ digits[p] \in 0 .. C[p] - 1
  BY <1>3, <1>7
<1>9. C \in Seq(Nat \ {0})
  BY <1>7, <1>8
<1>10. PICK idx \in 0 .. ProductFrom(C, 1) - 1 : \A p \in 1 .. Len(C) : DigitOf(C, idx, p) = digits[p]
  BY <1>8, <1>9, SomeNumber
<1>11. Total(pos) \in Nat /\ Total(pos) = ProductFrom(C, 1)
  BY <1>6, CountsType DEF Total
<1>12. PICK n \in 0 .. Total(pos) - 1 : n = Step(idx, Total(pos))
  BY <1>10, <1>11, Stepping
<1>13. n \in Nat /\ n < Total(pos) /\ Step(n, Total(pos)) = idx
  BY <1>10, <1>11, <1>12, Stepping
<1>14. ASSUME NEW p \in Axes PROVE Region(pos, n)[p] = t[p]
  <2>1. CASE IsRouted(p)
    BY <1>13, <2>1, RegionAt
  <2>2. CASE ~IsRouted(p)
    <3>1. Region(pos, n)[p] = Placed(p, Position(pos, p), DigitOf(C, idx, p))
      BY <1>6, <1>13, <2>2, RegionAt
    <3> QED
      BY <1>3, <1>5, <1>7, <1>10, <2>2, <3>1
  <2> QED
    BY <2>1, <2>2
<1>15. Region(pos, n) = [p \in Axes |-> Region(pos, n)[p]]
  BY <1>13, RegionAt
<1>16. t = [p \in Axes |-> t[p]]
  BY DEF Grid
<1>17. Region(pos, n) = t
  BY <1>14, <1>15, <1>16
<1> QED
  BY <1>13, <1>17

\* Finitely many positions, hence finitely many steps of them.
LEMMA FunctionsFinite ==
  ASSUME NEW S, NEW T, IsFiniteSet(S), IsFiniteSet(T)
  PROVE  IsFiniteSet([S -> T])
<1> DEFINE graph == [f \in [S -> T] |-> {<<x, f[x]>> : x \in S}]
<1>1. graph \in [[S -> T] -> SUBSET (S \X T)]
  OBVIOUS
<1>2. ASSUME NEW f \in [S -> T], NEW g \in [S -> T], graph[f] = graph[g] PROVE f = g
  <2>1. ASSUME NEW x \in S PROVE f[x] = g[x]
    <3>1. <<x, f[x]>> \in graph[g]
      BY <1>2
    <3>2. PICK y \in S : <<x, f[x]>> = <<y, g[y]>>
      BY <3>1
    <3> QED
      BY <3>2
  <2> QED
    BY <2>1
<1> HIDE DEF graph
<1>3. graph \in Injection([S -> T], SUBSET (S \X T))
  BY <1>1, <1>2, Fun_IsInj
<1>4. IsFiniteSet(SUBSET (S \X T))
  BY FS_Product, FS_SUBSET
<1> QED
  BY <1>3, <1>4, FS_Injection

LEMMA PositionsFinite ==
  ASSUME Shape
  PROVE  IsFiniteSet(Positions)
<1> DEFINE A == {q \in Axes : Distributes(q)}
           dim == [p \in A |-> Axis(p).dim]
           Row(d) == 0 .. DimCount(d) - 1
           Rows == {Row(d) : d \in Dims}
           row == [d \in Dims |-> Row(d)]
<1>1. IsFiniteSet(A)
  <2>1. IsFiniteSet(Axes)
    BY AxesType, FS_Interval
  <2>2. A \in SUBSET Axes
    OBVIOUS
  <2> QED
    BY <2>1, <2>2, FS_Subset
<1>2. IsFiniteSet(Dims)
  <2>1. dim \in [A -> Dims] /\ \A d \in Dims : \E p \in A : dim[p] = d
    BY DEF Dims
  <2> HIDE DEF dim, A
  <2>2. dim \in Surjection(A, Dims)
    BY <2>1, Fun_IsSurj
  <2> QED
    BY <1>1, <2>2, FS_Surjection
<1>3. IsFiniteSet(Rows)
  <2>1. row \in [Dims -> Rows] /\ \A r \in Rows : \E d \in Dims : row[d] = r
    OBVIOUS
  <2> HIDE DEF row, Rows
  <2>2. row \in Surjection(Dims, Rows)
    BY <2>1, Fun_IsSurj
  <2> QED
    BY <1>2, <2>2, FS_Surjection
<1>4. \A r \in Rows : IsFiniteSet(r)
  <2>1. ASSUME NEW d \in Dims PROVE IsFiniteSet(Row(d))
    <3>1. DimCount(d) \in Nat
      BY WeightsType, ProductType DEF DimCount
    <3>2. 0 \in Int /\ DimCount(d) - 1 \in Int
      BY <3>1
    <3> QED
      BY <3>2, FS_Interval
  <2> HIDE DEF Row
  <2> QED
    BY <2>1
<1>5. IsFiniteSet([Dims -> UNION Rows])
  <2> HIDE DEF Rows
  <2>1. IsFiniteSet(UNION Rows)
    BY <1>3, <1>4, FS_UNION
  <2> QED
    BY <1>2, <2>1, FunctionsFinite
<1>6. Positions \in SUBSET [Dims -> UNION Rows]
  BY DEF Positions
<1> HIDE DEF Rows
<1> QED
  BY <1>5, <1>6, FS_Subset

\* The steps that took a tile among the first n of every walk.
Took(t, n) == {x \in Visits(n) : Region(x[1], x[2]) = t}

LEMMA TookFinite ==
  ASSUME Shape, NEW n \in Nat, NEW t
  PROVE  IsFiniteSet(Took(t, n)) /\ Cardinality(Took(t, n)) \in Nat
<1>1. IsFiniteSet(0 .. n - 1)
  BY FS_Interval
<1>2. IsFiniteSet(Positions \X (0 .. n - 1))
  BY <1>1, PositionsFinite, FS_Product
<1>3. Took(t, n) \in SUBSET (Positions \X (0 .. n - 1))
  BY DEF Took, Visits
<1> QED
  BY <1>2, <1>3, FS_Subset, FS_CardinalityType

\* A step of every walk that is not over adds those that take the tile.
LEMMA TookMore ==
  ASSUME Shape, NEW n \in Nat, NEW t,
         NEW now, now = {pos \in Positions : n < Total(pos) /\ Region(pos, n) = t}
  PROVE  Cardinality(Took(t, n + 1)) = Cardinality(Took(t, n)) + Cardinality(now)
<1> DEFINE new == {<<pos, n>> : pos \in now}
           mark == [pos \in now |-> <<pos, n>>]
<1>1. IsFiniteSet(now)
  <2>1. now \in SUBSET Positions
    OBVIOUS
  <2> QED
    BY <2>1, PositionsFinite, FS_Subset
<1>2. IsFiniteSet(new) /\ Cardinality(new) = Cardinality(now)
  <2>1. mark \in [now -> new] /\ \A x \in new : \E pos \in now : mark[pos] = x
    OBVIOUS
  <2>2. \A a, b \in now : mark[a] = mark[b] => a = b
    OBVIOUS
  <2> HIDE DEF mark, new
  <2>3. mark \in Injection(now, new) /\ mark \in Surjection(now, new)
    BY <2>1, <2>2, Fun_IsInj, Fun_IsSurj
  <2> QED
    BY <1>1, <2>3, FS_Surjection
<1>3. Took(t, n + 1) = Took(t, n) \cup new
  <2>1. ASSUME NEW x PROVE x \in Took(t, n + 1) => x \in Took(t, n) \cup new
    <3>1. SUFFICES ASSUME x \in Took(t, n + 1) PROVE x \in Took(t, n) \cup new
      OBVIOUS
    <3>2. /\ x \in Positions \X (0 .. n) /\ x[2] < Total(x[1])
          /\ Region(x[1], x[2]) = t /\ x = <<x[1], x[2]>>
      BY <3>1 DEF Took, Visits
    <3>3. CASE x[2] = n
      BY <3>2, <3>3
    <3>4. CASE x[2] # n
      BY <3>2, <3>4 DEF Took, Visits
    <3> QED
      BY <3>3, <3>4
  <2>2. Took(t, n) \subseteq Took(t, n + 1)
    BY DEF Took, Visits
  <2>3. new \subseteq Took(t, n + 1)
    BY DEF Took, Visits
  <2> HIDE DEF new
  <2> QED
    BY <2>1, <2>2, <2>3
<1>4. Took(t, n) \cap new = {}
  BY DEF Took, Visits
<1> HIDE DEF new
<1>5. Cardinality(Took(t, n) \cap new) = 0
  BY <1>4, FS_EmptySet
<1>6. IsFiniteSet(Took(t, n)) /\ Cardinality(Took(t, n)) \in Nat /\ Cardinality(now) \in Nat
  BY <1>1, TookFinite, FS_CardinalityType
<1>7. Cardinality(Took(t, n) \cup new) = Cardinality(Took(t, n)) + Cardinality(new) - 0
  BY <1>2, <1>5, <1>6, FS_Union
<1>8. PICK a, b \in Nat : a = Cardinality(Took(t, n)) /\ b = Cardinality(now)
  BY <1>6
<1>9. a + b - 0 = a + b
  OBVIOUS
<1> QED
  BY <1>2, <1>3, <1>7, <1>8, <1>9

\* The walk of a level does not change while it is walked.
LEMMA Unmoved ==
  ASSUME level' = level, route' = route
  PROVE  /\ Grid' = Grid /\ Positions' = Positions
         /\ \A pos : Total(pos)' = Total(pos)
         /\ \A pos, n : Region(pos, n)' = Region(pos, n)
<1>1. Axes' = Axes /\ \A p : Axis(p)' = Axis(p)
  BY DEF Axes, Axis
<1>2. \A p : Distributes(p)' = Distributes(p) /\ Instances(p)' = Instances(p)
  BY <1>1 DEF Distributes, Instances
<1>3. \A d : WeightsOn(d)' = WeightsOn(d) /\ DimCount(d)' = DimCount(d)
  BY <1>1, <1>2 DEF WeightsOn, DimCount
<1>4. Dims' = Dims /\ Grid' = Grid
  BY <1>1, <1>2 DEF Dims, Grid
<1>5. Positions' = Positions
  BY <1>3, <1>4 DEF Positions
<1>6. \A p : Inner(p)' = Inner(p) /\ Run(p)' = Run(p) /\ Swizzled(p)' = Swizzled(p)
  BY <1>1, <1>2, <1>3 DEF Inner, Run, Swizzled
<1>7. \A d : OnDim(d)' = OnDim(d)
  BY <1>1 DEF OnDim
<1>8. \A pos : InPlane(pos)' = InPlane(pos)
  BY <1>2, <1>7 DEF InPlane
<1>9. \A pos, p : Position(pos, p)' = Position(pos, p)
  BY <1>1, <1>2, <1>6, <1>8 DEF Position
<1>10. \A p, a : Tiles(p, a)' = Tiles(p, a)
  BY <1>1, <1>2, <1>6 DEF Tiles
<1>11. \A pos : Counts(pos)' = Counts(pos)
  BY <1>1, <1>2, <1>9, <1>10 DEF Counts
<1>12. \A pos : Total(pos)' = Total(pos)
  BY <1>11 DEF Total
<1>13. \A pos, idx, p : Digit(pos, idx, p)' = Digit(pos, idx, p)
  BY <1>11 DEF Digit
<1>14. \A pos, digit, p : Fold(pos, digit, p)' = Fold(pos, digit, p)
  BY <1>1, <1>2, <1>6, <1>9 DEF Fold
<1>15. \A p : Routed(p)' = Routed(p)
  BY <1>1 DEF Routed
<1>16. \A n, total : Step(n, total)' = Step(n, total)
  BY DEF Step
<1>17. \A pos, n : Region(pos, n)' = Region(pos, n)
  BY <1>1, <1>12, <1>13, <1>14, <1>15, <1>16 DEF Region
<1> QED
  BY <1>4, <1>5, <1>12, <1>17

LEMMA Starts ==
  ASSUME Init
  PROVE  IInv
<1>1. i = 0 /\ taken = [t \in Grid |-> 0]
      /\ \E launch \in Launches : level = launch.level /\ route = launch.route
  BY DEF Init
<1>2. \A t : Took(t, 0) = {}
  <2>1. 0 .. 0 - 1 = {}
    OBVIOUS
  <2> QED
    BY <2>1 DEF Took, Visits
<1>3. \A t : Cardinality(Took(t, 0)) = 0
  BY <1>2, FS_EmptySet
<1>4. taken = [t \in Grid |-> Cardinality(Took(t, i))]
  BY <1>1, <1>3
<1> QED
  BY <1>1, <1>4 DEF IInv, Took

LEMMA RegionTaken ==
  ASSUME IInv, TakeRegion
  PROVE  IInv'
<1>1. Shape /\ i \in Nat
  BY LevelShape DEF IInv
<1>2. taken = [t \in Grid |-> Cardinality(Took(t, i))]
  BY DEF IInv, Took
<1>3. i' = i + 1 /\ level' = level /\ route' = route
  BY DEF TakeRegion
<1>4. \A pos \in Walking : pos \in Positions /\ i < Total(pos) /\ Region(pos, i) \in Grid
  BY <1>1, RegionStays DEF Walking
<1>5. PICK tiles : tiles = [pos \in Walking |-> Region(pos, i)]
  OBVIOUS
<1>6. taken' = [t \in DOMAIN taken \cup {tiles[pos] : pos \in Walking} |->
                 (IF t \in DOMAIN taken THEN taken[t] ELSE 0)
                 + Cardinality({pos \in Walking : tiles[pos] = t})]
  BY <1>5 DEF TakeRegion
<1>7. DOMAIN taken = Grid /\ DOMAIN taken \cup {tiles[pos] : pos \in Walking} = Grid
  BY <1>2, <1>4, <1>5
<1>8. ASSUME NEW t \in Grid
      PROVE  (IF t \in DOMAIN taken THEN taken[t] ELSE 0)
             + Cardinality({pos \in Walking : tiles[pos] = t}) = Cardinality(Took(t, i + 1))
  <2>1. {pos \in Walking : tiles[pos] = t} = {pos \in Positions : i < Total(pos) /\ Region(pos, i) = t}
    BY <1>5 DEF Walking
  <2>2. taken[t] = Cardinality(Took(t, i)) /\ t \in DOMAIN taken
    BY <1>2
  <2> QED
    BY <1>1, <2>1, <2>2, TookMore
<1>9. taken' = [t \in Grid |-> Cardinality(Took(t, i + 1))]
  BY <1>6, <1>7, <1>8
<1>10. /\ Grid' = Grid /\ Positions' = Positions
       /\ \A pos : Total(pos)' = Total(pos)
       /\ \A pos, n : Region(pos, n)' = Region(pos, n)
  BY <1>3, Unmoved
<1>11. \A t, n : Took(t, n)' = Took(t, n)
  BY <1>10 DEF Took, Visits
<1>12. taken' = [t \in Grid' |-> Cardinality(Took(t, i)')]
  <2>1. \A t : Took(t, i)' = Took(t, i + 1)
    BY <1>3, <1>10 DEF Took, Visits
  <2> QED
    BY <1>9, <1>10, <2>1
<1>13. (\E launch \in Launches : level = launch.level /\ route = launch.route)'
  BY <1>3 DEF IInv
<1> QED
  BY <1>1, <1>3, <1>12, <1>13 DEF IInv, Took

LEMMA WalkStands ==
  ASSUME IInv, UNCHANGED vars
  PROVE  IInv'
<1>1. level' = level /\ route' = route /\ i' = i /\ taken' = taken
  BY DEF vars
<1>2. /\ Grid' = Grid /\ Positions' = Positions
      /\ \A pos : Total(pos)' = Total(pos)
      /\ \A pos, n : Region(pos, n)' = Region(pos, n)
  BY <1>1, Unmoved
<1>3. Visits(i)' = Visits(i)
  BY <1>1, <1>2 DEF Visits
<1>4. \A t : {x \in Visits(i) : Region(x[1], x[2]) = t}' = {x \in Visits(i) : Region(x[1], x[2]) = t}
  BY <1>2, <1>3
<1> QED
  BY <1>1, <1>2, <1>4 DEF IInv

\* Each tile has been taken as often as the steps so far that name it, in every
\* launch and whatever its walks look like.
THEOREM TilesAreCounted == Spec => []IInv
<1>1. Init => IInv
  BY Starts
<1>2. IInv /\ [Next]_vars => IInv'
  BY RegionTaken, WalkStands DEF Next, WalksEnd
<1> QED
  BY <1>1, <1>2, PTL DEF Spec

\* No walk leaves the grid, at a routed coordinate or not.
THEOREM WalksStayInGrid == Spec => []StaysInGrid
<1>1. IInv => StaysInGrid
  BY DEF IInv, StaysInGrid
<1> QED
  BY <1>1, TilesAreCounted, PTL

\* How often a tile was taken, and by which steps.
LEMMA TakenIs ==
  ASSUME IInv
  PROVE  /\ Shape /\ i \in Nat /\ DOMAIN taken = Grid
         /\ \A t \in Grid : /\ taken[t] = Cardinality(Took(t, i)) /\ taken[t] \in Nat
                            /\ taken[t] > 0 <=> \E x : x \in Took(t, i)
<1>1. Shape /\ i \in Nat
  BY LevelShape DEF IInv
<1>2. taken = [t \in Grid |-> Cardinality(Took(t, i))]
  BY DEF IInv, Took
<1>3. ASSUME NEW t \in Grid
      PROVE  taken[t] \in Nat /\ (taken[t] > 0 <=> \E x : x \in Took(t, i))
  <2>1. taken[t] = Cardinality(Took(t, i)) /\ IsFiniteSet(Took(t, i)) /\ taken[t] \in Nat
    BY <1>1, <1>2, TookFinite
  <2>2. taken[t] = 0 <=> Took(t, i) = {}
    BY <2>1, FS_EmptySet
  <2> QED
    BY <2>1, <2>2
<1> QED
  BY <1>1, <1>2, <1>3

\* When every walk is over, a step of one has been taken.
LEMMA WalksAreOver ==
  ASSUME IInv, Walking = {}, NEW t, NEW pos \in Positions, NEW n \in Nat,
         n < Total(pos), Region(pos, n) = t
  PROVE  <<pos, n>> \in Took(t, i)
<1>1. i \in Nat /\ Total(pos) \in Nat
  BY TakenIs, CountsType
<1>2. ~(i < Total(pos))
  BY DEF Walking
<1>3. n \in 0 .. i - 1
  BY <1>1, <1>2
<1> QED
  BY <1>3 DEF Took, Visits

\* Unrouted, the instances take every tile of the grid once: for any level, any
\* number of axes, any grid, any workers and any order of the boxes.
THEOREM TilesAreTakenOnce == Spec => []EveryTileOnce
<1>1. ASSUME IInv PROVE EveryTileOnce
  <2>1. SUFFICES ASSUME route = None
                 PROVE  /\ \A t \in DOMAIN taken : taken[t] <= 1
                        /\ Walking = {} => \A t \in Grid : taken[t] = 1
    BY DEF EveryTileOnce
  <2>2. Shape /\ i \in Nat /\ DOMAIN taken = Grid
    BY <1>1, TakenIs
  <2>3. ASSUME NEW t \in Grid PROVE taken[t] \in Nat /\ taken[t] <= 1
    <3>1. taken[t] \in Nat /\ taken[t] = Cardinality(Took(t, i)) /\ IsFiniteSet(Took(t, i))
      BY <1>1, <2>2, TakenIs, TookFinite
    <3>2. ASSUME NEW x \in Took(t, i), NEW y \in Took(t, i) PROVE x = y
      <4>1. /\ x[1] \in Positions /\ x[2] \in Nat /\ x[2] < Total(x[1])
            /\ Region(x[1], x[2]) = t /\ x = <<x[1], x[2]>>
        BY <2>2 DEF Took, Visits
      <4>2. /\ y[1] \in Positions /\ y[2] \in Nat /\ y[2] < Total(y[1])
            /\ Region(y[1], y[2]) = t /\ y = <<y[1], y[2]>>
        BY <2>2 DEF Took, Visits
      <4>3. x[1] = y[1] /\ x[2] = y[2]
        BY <2>1, <2>2, <4>1, <4>2, RegionDiffers
      <4> QED
        BY <4>1, <4>2, <4>3
    <3>3. CASE Took(t, i) = {}
      BY <3>1, <3>3, FS_EmptySet
    <3>4. CASE Took(t, i) # {}
      <4>1. PICK x : Took(t, i) = {x}
        BY <3>2, <3>4
      <4>2. Cardinality(Took(t, i)) = 1
        BY <4>1, FS_Singleton
      <4> QED
        BY <3>1, <4>2
    <3> QED
      BY <3>3, <3>4
  <2>4. ASSUME Walking = {}, NEW t \in Grid PROVE taken[t] = 1
    <3>1. \A p \in Axes : IsRouted(p) => t[p] = Routed(p)
      BY <2>1 DEF IsRouted
    <3>2. PICK pos \in Positions : \E n \in Nat : n < Total(pos) /\ Region(pos, n) = t
      BY <2>2, <3>1, RegionCovers
    <3>3. PICK n \in Nat : n < Total(pos) /\ Region(pos, n) = t
      BY <3>2
    <3>4. <<pos, n>> \in Took(t, i)
      BY <1>1, <2>4, <3>3, WalksAreOver
    <3>5. taken[t] > 0
      BY <1>1, <3>4, TakenIs
    <3> QED
      BY <2>3, <3>5
  <2> QED
    BY <2>2, <2>3, <2>4
<1>2. IInv => EveryTileOnce
  BY <1>1
<1> QED
  BY <1>2, TilesAreCounted, PTL

\* Routed, the walks visit all of the rest of the grid at the clamped coordinate,
\* and nothing else.
THEOREM RoutedWalksVisitTheSlice == Spec => []RoutedVisitsTheSlice
<1>1. ASSUME IInv PROVE RoutedVisitsTheSlice
  <2>1. SUFFICES ASSUME route # None, Walking = {}, NEW t \in Grid
                 PROVE  taken[t] > 0 <=> t[1] = Least(route, Axis(1).grid - 1)
    BY DEF RoutedVisitsTheSlice
  <2>2. Shape /\ i \in Nat /\ (taken[t] > 0 <=> \E x : x \in Took(t, i))
    BY <1>1, TakenIs
  <2>3. 1 \in Axes /\ \A p : IsRouted(p) <=> p = 1
    BY <2>1, <2>2, AxesType DEF Shape, IsRouted
  <2>4. ASSUME NEW x \in Took(t, i) PROVE t[1] = Routed(1)
    <3>1. /\ x[1] \in Positions /\ x[2] \in Nat /\ x[2] < Total(x[1])
          /\ Region(x[1], x[2]) = t
      BY <2>2 DEF Took, Visits
    <3> QED
      BY <2>2, <2>3, <3>1, RegionAt
  <2>5. ASSUME t[1] = Routed(1) PROVE \E x : x \in Took(t, i)
    <3>1. PICK pos \in Positions : \E n \in Nat : n < Total(pos) /\ Region(pos, n) = t
      BY <2>2, <2>3, <2>5, RegionCovers
    <3>2. PICK n \in Nat : n < Total(pos) /\ Region(pos, n) = t
      BY <3>1
    <3>3. <<pos, n>> \in Took(t, i)
      BY <1>1, <2>1, <3>2, WalksAreOver
    <3> QED
      BY <3>3
  <2> QED
    BY <2>2, <2>4, <2>5 DEF Routed
<1>2. IInv => RoutedVisitsTheSlice
  BY <1>1
<1> QED
  BY <1>2, TilesAreCounted, PTL

\* A cube dispatched past a swizzled grid knows it, for any two axes whose grid,
\* and as much again, the device's word holds.
THEOREM PastTheGridIsOff == Spec => []OffGrid
<1>1. ASSUME IInv PROVE OffGrid
  <2>1. SUFFICES ASSUME Swizzles(level.order)
                 PROVE  LET x == Instances(OnDim("X"))  y == Instances(OnDim("Y")) IN
                        \A flat \in x * y .. 2 * x * y + 8 :
                          \/ CubePositions(flat, x, y, level.order).x >= x
                          \/ CubePositions(flat, x, y, level.order).y >= y
    BY DEF OffGrid
  <2>2. Shape
    BY <1>1, LevelShape
  <2>3. PICK p, q : \E x, y \in Nat \ {0} : IsPlane(p, q, x, y)
    BY <2>1, <2>2, PlaneExists
  <2>4. PICK x \in Nat \ {0}, y \in Nat \ {0} : IsPlane(p, q, x, y)
    BY <2>3
  <2>5. /\ Instances(OnDim("X")) = x /\ Instances(OnDim("Y")) = y
        /\ x < Word /\ y < Word /\ 2 * (x * y) + 8 < Word /\ x * y \in Nat
        /\ level.order \in Orders
    BY <2>2, <2>4 DEF IsPlane, Shape
  <2>6. ASSUME NEW flat \in x * y .. 2 * x * y + 8
        PROVE  \/ CubePositions(flat, x, y, level.order).x >= x
               \/ CubePositions(flat, x, y, level.order).y >= y
    <3>1. (2 * x) * y = 2 * (x * y)
      OBVIOUS
    <3>2. flat \in Nat /\ flat < Word /\ x * y <= flat
      BY <2>5, <3>1
    <3> QED
      BY <2>1, <2>5, <3>2, PlaneOff
  <2> QED
    BY <2>5, <2>6
<1>2. IInv => OffGrid
  BY <1>1
<1> QED
  BY <1>2, TilesAreCounted, PTL

=============================================================================
