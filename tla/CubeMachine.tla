----------------------------- MODULE CubeMachine -----------------------------
(***************************************************************************)
(* The units of a launch, each at its own pace through its steps of a      *)
(* kernel.                                                                 *)
(***************************************************************************)
EXTENDS CubeSteps

Rules == INSTANCE Selections

CONSTANT Kernels  \* the kernels that may be launched, per family

\* A score far enough below any other that e to its power is nothing.
Negligible == -500

VARIABLES
  kernel,  \* the kernel launched
  at,      \* per unit, how many of its steps it has taken
  memory   \* the cells written so far: registers, shared and global memory

vars == <<kernel, at, memory>>

Units == DOMAIN at

\* A cell nobody wrote holds what was there before.
Stale == Input(<<"stale">>)

Written(c) == c \in DOMAIN memory \/ c \in DOMAIN kernel.start
Held(c) ==
  IF c \in DOMAIN memory THEN memory[c]
  ELSE IF c \in DOMAIN kernel.start THEN kernel.start[c] ELSE Stale

\* What a sequence of bags multiplies to.
Multiplied(bags) ==
  LET upTo[i \in 1 .. Len(bags)] ==
        IF i = 1 THEN bags[1] ELSE ProductOfBags(upTo[i - 1], bags[i], kernel.half) IN
  upTo[Len(bags)]

\* The number in a cell, and the largest of those in others.
NumberIn(c) == ToNumber(Held(c))
LargestIn(cells) ==
  LET upTo[i \in 1 .. Len(cells)] ==
        IF i = 1 \/ NumberIn(cells[i]) > upTo[i - 1] THEN NumberIn(cells[i]) ELSE upTo[i - 1] IN
  upTo[Len(cells)]

EntryIn(e) == NumberIn(e.cell) * e.times - e.less

\* e to the power of a score less the row's maximum: nothing when that is far
\* below any other.
Exponent(power) ==
  IF power = <<>> THEN 0 ELSE NumberIn(Head(power)) - LargestIn(Tail(power))

TermValue(t) ==
  LET first == IF t.conj THEN Conjugate(Held(t.cell), kernel.half) ELSE Held(t.cell)
      bags == <<first>> \o [i \in DOMAIN t.by |-> Held(t.by[i])]
                \o [i \in DOMAIN t.under |-> Reciprocal(Held(t.under[i]))]
      exponent == Exponent(t.power) IN
  IF t.how # <<>> THEN Number(Rules!Selected(t.how[1], [i \in DOMAIN t.among |-> EntryIn(t.among[i])])[t.how[2]])
  ELSE IF exponent < Negligible THEN Zero
  ELSE Times(Turned(Multiplied(bags), t.turn + exponent, kernel.half), t.times, t.over)

SumOf(terms) == SumOfBags([i \in DOMAIN terms |-> TermValue(terms[i])])

Init ==
  /\ \E family \in DOMAIN Kernels : kernel \in Kernels[family]
  /\ at = [u \in DOMAIN kernel.steps |-> 0]
  /\ memory = Zero

Finished(u) == at[u] = Len(kernel.steps[u])
Now(u) == kernel.steps[u][at[u] + 1]

\* Everybody the step is taken with is at such a step.
Ready(u) ==
  /\ ~Finished(u)
  /\ \A v \in Now(u).with : ~Finished(v) /\ Now(v).with = Now(u).with

\* The values u's step gives to the cells it assigns.
NewValues(u) ==
  [c \in DOMAIN Now(u).sets |->
    SumOf(IF Now(u).mode = "add" THEN <<Of(c)>> \o Now(u).sets[c] ELSE Now(u).sets[c])]

\* The step u is at, by all who take it together.
Advance(u) ==
  /\ Ready(u)
  /\ at' = [v \in Units |-> IF v \in Now(u).with THEN at[v] + 1 ELSE at[v]]
Take(u) ==
  /\ Advance(u)
  /\ memory' = FoldSet(LAMBDA v, m : NewValues(v) @@ m, memory, Now(u).with)
  /\ UNCHANGED kernel

AllFinished == (\A u \in Units : Finished(u)) /\ UNCHANGED vars

Next == (\E u \in Units : Take(u)) \/ AllFinished

Spec == Init /\ [][Next]_vars

\* As long as a unit can go on, one does.
FairSpec == Spec /\ WF_at(\E u \in Units : Advance(u))
-----------------------------------------------------------------------------
\* Two units may be at c at once, and not only to read it, to add to it
\* atomically, or to put the same value there.
Collide(u, v, c) ==
  \/ c \in Now(v).reads
  \/ /\ c \in DOMAIN Now(v).sets
     /\ ~(Now(u).mode = "add" /\ Now(v).mode = "add")
     /\ ~(Now(u).mode = "put" /\ Now(v).mode = "put" /\ NewValues(u)[c] = NewValues(v)[c])

\* No unit writes a cell while another may read or write it: every shared
\* tile, accumulator and scratch is covered by a synchronism on both sides.
NoDataRace ==
  LET ready == {u \in Units : Ready(u)} IN
  \A u \in ready : Now(u).sets # Zero =>
    \A v \in ready \ Now(u).with : \A c \in DOMAIN Now(u).sets : ~Collide(u, v, c)

\* A unit reads only what was there before the launch or what it was given:
\* no share is past the end of its tensor, no slot is read before it is filled.
ReadsWhatIsThere ==
  \A u \in Units : Ready(u) => \A c \in Now(u).reads : Written(c)

\* When every unit is through, every cell of the answer holds what the
\* operation is defined to put there, each input as often as it should be, and
\* nothing was written beside it.
AnswerIsWhole ==
  (\A u \in Units : Finished(u)) =>
    [c \in {d \in DOMAIN memory : d[1] \in kernel.answers} |-> memory[c]] = kernel.wanted

\* Every launch ends: no unit waits for units that returned or wait elsewhere.
EveryUnitFinishes == <>(\A u \in Units : Finished(u))
=============================================================================
