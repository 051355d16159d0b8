------------------------------ MODULE CubeSteps ------------------------------
(***************************************************************************)
(* What a kernel leaves to the units of a launch, when its control flow    *)
(* does not depend on the data: to each, a sequence of steps.              *)
(*                                                                         *)
(* A step is taken by some units together and assigns cells: a unit alone  *)
(* moves data, all the units of a cube with no assignment are a            *)
(* `sync_cube`, the units of a plane that read one another's registers are *)
(* a plane operation, and all the units of the launch are the end of one   *)
(* kernel and the start of the next.                                       *)
(*                                                                         *)
(* A cell holds a bag of inputs: how many times each input is in it, turned*)
(* by which root of unity.  Addition and multiplication by a constant are  *)
(* exact on bags, so what is lost, added twice, taken from a stale or an   *)
(* unwritten cell shows in the bag.                                        *)
(***************************************************************************)
EXTENDS Integers, SequencesExt

(* Bags: <<inputs, turn>> to a non-zero count, where inputs is the sequence *)
(* of the inputs multiplied, none for a number.  With `half` turns to minus *)
(* one, the turns 0 .. half - 1 are independent: half is 1 for plain sums,  *)
(* half the order of the root for Fourier transforms, and for attention     *)
(* larger than any difference of scores, a turn being a factor of e.        *)

Zero == [x \in {} |-> 0]
Input(cell) == <<<<cell>>, 0>> :> 1
Number(n) == IF n = 0 THEN Zero ELSE <<<<>>, 0>> :> n
ToNumber(bag) == IF <<<<>>, 0>> \in DOMAIN bag THEN bag[<<<<>>, 0>>] ELSE 0

\* The sum of a sequence of bags, without what cancels out.
SumOfBags(bags) ==
  LET inputs == UNION {DOMAIN bags[i] : i \in DOMAIN bags}
      CountIn(x, i) == IF x \in DOMAIN bags[i] THEN bags[i][x] ELSE 0
      Total(x) == LET upTo[i \in 0 .. Len(bags)] ==
                        IF i = 0 THEN 0 ELSE upTo[i - 1] + CountIn(x, i)
                  IN upTo[Len(bags)] IN
  [x \in {y \in inputs : Total(y) # 0} |-> Total(x)]

\* bag times n / over, which the inputs are scaled for to be whole.
Times(bag, n, over) ==
  IF n = over THEN bag ELSE [x \in DOMAIN bag |-> (n * bag[x]) \div over]

\* bag times the root to the power turn.
Turned(bag, turn, half) ==
  LET t == turn % (2 * half)
      Origin(x) == <<x[1], (x[2] - t) % half>>
      Sign(x) == IF ((Origin(x)[2] + t) \div half) % 2 = 0 THEN 1 ELSE -1 IN
  IF t = 0 THEN bag
  ELSE [x \in {<<y[1], (y[2] + t) % half>> : y \in DOMAIN bag} |-> Sign(x) * bag[Origin(x)]]

\* The product of two bags.
ProductOfBags(left, right, half) ==
  LET PartOf(f) == Turned([x \in {<<f[1] \o y[1], y[2]>> : y \in DOMAIN right} |->
                             left[f] * right[<<SubSeq(x[1], Len(f[1]) + 1, Len(x[1])), x[2]>>]],
                          f[2], half) IN
  FoldSet(LAMBDA f, sum : SumOfBags(<<PartOf(f), sum>>), Zero, DOMAIN left)

\* What a bag is divided by appears as one more input.
Reciprocal(bag) == IF bag = Zero THEN Zero ELSE Input(<<"over", bag>>)

\* The conjugate of a bag of reals: the root to the power e becomes - e.
Conjugate(bag, half) ==
  [x \in {<<y[1], (-y[2]) % half>> : y \in DOMAIN bag} |->
     IF x[2] = 0 THEN bag[x] ELSE -bag[<<x[1], half - x[2]>>]]
-----------------------------------------------------------------------------
(* Steps.                                                                  *)

\* A term of an assignment: times / over * root^turn * cell, or its conjugate,
\* by the cells of `by`, by e to the power of a cell less the largest of others,
\* and under a cell; or, when there are entries to choose from, what is chosen.
Term(cell, turn, times, over, conj) ==
  [cell |-> cell, turn |-> turn, times |-> times, over |-> over, conj |-> conj,
   by |-> <<>>, power |-> <<>>, under |-> <<>>, how |-> <<>>, among |-> <<>>]
Of(cell) == Term(cell, 0, 1, 1, FALSE)
Product(a, b) == [Of(a) EXCEPT !.by = <<b>>]
Exponential(cell, a, others) == [Of(cell) EXCEPT !.power = <<a>> \o others]
Over(term, cell) == [term EXCEPT !.under = <<cell>>]
CellsOf(term) ==
  {term.cell} \union ToSet(term.by \o term.power \o term.under \o [i \in DOMAIN term.among |-> term.among[i].cell])

\* An entry of a choice, the number in a cell times one less another, and a
\* choice: its rule, and the place in what it gives.
Entry(cell, times, less) == [cell |-> cell, times |-> times, less |-> less]
Chosen(rule, place, entries) ==
  [Of(Head(entries).cell) EXCEPT !.how = <<rule, place>>, !.among = entries]
LargestOf(cells) == Chosen([op |-> "largest"], 1, [i \in DOMAIN cells |-> Entry(cells[i], 1, 0)])

\* The units of `with` take this step together; `sets` gives, per cell this
\* unit assigns, the terms of its new value, added to the old one by "add".
Step(with, mode, sets) ==
  [with |-> with, mode |-> mode, sets |-> sets,
   reads |-> UNION {UNION {CellsOf(sets[c][i]) : i \in DOMAIN sets[c]} : c \in DOMAIN sets}]

Sync(units) == Step(units, "put", Zero)
Do(u, sets) == Step({u}, "put", sets)
AtomicAdd(u, cell, terms) == Step({u}, "add", cell :> terms)
PlaneStep(plane, sets) == Step(plane, "put", sets)

\* No step, when a condition known before the launch leaves it out.
When(condition, steps) == IF condition THEN steps ELSE <<>>

\* The steps of `for i in 0..n`.
Loop(n, Body(_)) == FlattenSeq([i \in 1 .. n |-> Body(i - 1)])

CeilDiv(a, b) == (a + b - 1) \div b

\* The positions below n a unit visits that starts at first and strides by
\* `stride`, in order.
Strided(first, stride, n) ==
  [i \in 1 .. IF first >= n THEN 0 ELSE CeilDiv(n - first, stride) |-> first + (i - 1) * stride]

\* Assignments, pairs of a cell and its terms, as one function.
Sets(assignments) ==
  [c \in {a[1] : a \in assignments} |-> (CHOOSE a \in assignments : a[1] = c)[2]]

\* A kernel: its units' steps, what global memory holds before it, the names
\* of the memories it answers in, and what they hold after it.
Kernel(steps, start, answers, wanted, half) ==
  [steps |-> steps, start |-> start, answers |-> answers, wanted |-> wanted, half |-> half]
=============================================================================
