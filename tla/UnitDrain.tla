------------------------------ MODULE UnitDrain ------------------------------
(***************************************************************************)
(* How an accumulation reaches memory when the units of a plane, and the   *)
(* planes themselves, each hold a part of its cells (`UnitShare`,          *)
(* `CellRead`, `Drain`, `AccumulateView` of cubek-tile).                   *)
(*                                                                         *)
(* A value is the bag of what was added into it: the cell's content before *)
(* the kernel, and one contribution per pass and slice of the contraction. *)
(* The units of a plane run in step; the planes run on their own.          *)
(***************************************************************************)
EXTENDS Integers, SequencesExt

CONSTANTS
  PlaneDim,     \* units of a plane
  Planes,       \* planes that run the kernel
  UnitsLevels,  \* the axes a units level may cut, outermost first: the units
                \* of each, whether the output spans it, and whether its tiles
                \* are taken in turns by however many units the launch runs
  Rounds        \* accumulations each plane makes, as a walk above makes one a region

Units == 0 .. PlaneDim - 1
Axis == [units : Nat \ {0}, spanned : BOOLEAN, turns : BOOLEAN]
UnitsOf(axes) == FoldLeft(LAMBDA n, axis : n * axis.units, 1, axes)

ASSUME PlaneAssumption == PlaneDim \in Nat \ {0} /\ Rounds \in Nat /\ IsFiniteSet(Planes)
\* A launch runs the units the level states, a power of two along each axis; an
\* axis taken in turns is the level's only one.
ASSUME LevelsAssumption ==
  \A axes \in UnitsLevels :
    /\ axes \in Seq(Axis) /\ UnitsOf(axes) \in {1, PlaneDim}
    /\ \A i \in DOMAIN axes : (\E n \in 0 .. PlaneDim : axes[i].units = 2 ^ n) \/ axes[i].turns
    /\ \A i \in DOMAIN axes : axes[i].turns => Len(axes) = 1

VARIABLES
  level, split, write, from,  \* what is accumulated: the units level, whether the planes
                              \* split the contraction, the destination, what it starts from
  pc, round, bit, held,       \* per plane: its step, pass, fold bit and its units' values
  cells                       \* the destination

config == <<level, split, write, from>>
vars == <<config, pc, round, bit, held, cells>>

\* (wrong) the strides of an index whose first axis is the least significant.
FirstFastest(i) == UnitsOf(SubSeq(level, 1, i - 1))

\* The units inside axis i: its stride in the unit index.
Weight(i) == UnitsOf(SubSeq(level, i + 1, Len(level)))

Digit(u, i) == (u \div UnitsOf(SubSeq(level, i + 1, Len(level)))) % level[i].units
Spanned == {i \in DOMAIN level : level[i].spanned}
SliceOf(u) == [i \in DOMAIN level \ Spanned |-> Digit(u, i)]
CellOf(p, u) == <<IF split THEN Planes ELSE {p}, [i \in Spanned |-> Digit(u, i)]>>
Cells == {CellOf(p, u) : p \in Planes, u \in Units}

HasBit(n, b) == (n \div 2 ^ b) % 2 = 1
FlipBit(n, b) == IF HasBit(n, b) THEN n - 2 ^ b ELSE n + 2 ^ b

Stated == {i \in DOMAIN level : ~level[i].turns}
FoldMask ==
  MapThenSumSet(LAMBDA i : (level[i].units - 1) * Weight(i), Stated \ Spanned)

\* `UnitShare::new`.
Share ==
  LET weight == UnitsOf(SelectSeq(level, LAMBDA axis : ~axis.turns))
  IN CASE DOMAIN level \ (Stated \cup Spanned) # {} -> "plane"
       [] FoldMask = 0 /\ weight = 1 -> "repeated"
       [] FoldMask = 0 /\ weight # 1 -> "whole"
       [] FoldMask # 0 /\ FoldMask = weight - 1 -> "plane"
       [] OTHER -> "group"

Folds == Share \in {"plane", "group"}

\* What a pass starts from: the later ones fold onto what the first one left.
InitFrom(p) == IF round[p] = 1 THEN from ELSE "cell"

\* (wrong) the cell is read whatever a write does to it.
ReadsAFoldedCell(p) ==
  IF InitFrom(p) = "identity" THEN "never" ELSE IF Folds THEN "at_commit" ELSE "at_seed"

CellRead(p) ==
  IF write = "accumulate" \/ InitFrom(p) = "identity" THEN "never"
  ELSE IF Folds THEN "at_commit" ELSE "at_seed"

\* `Drain::of` and who writes in each of its cases.
Writes(u) ==
  CASE Share = "plane" \/ (Share = "repeated" /\ write = "accumulate") -> u = 0
    [] Share = "group" -> \A b \in 0 .. PlaneDim : HasBit(FoldMask, b) => ~HasBit(u, b)
    [] Share = "whole" \/ (Share = "repeated" /\ write = "replace") -> TRUE

BagOver(S, bag(_)) == MapThenFoldSet(LAMBDA a, b : a (+) b, EmptyBag, bag, LAMBDA T : CHOOSE x \in T : TRUE, S)
Before == SetToBag({<<"before">>})

\* `Write::admits`: a split contraction is refused a destination that replaces.
Admitted == split => write = "accumulate"

Init ==
  /\ level \in UnitsLevels /\ split \in BOOLEAN
  /\ write \in {"replace", "accumulate"} /\ from \in {"cell", "identity"}
  /\ Admitted
  /\ pc = [p \in Planes |-> "seed"] /\ round = [p \in Planes |-> 1]
  /\ bit = [p \in Planes |-> 0]
  /\ held = [p \in Planes |-> [u \in Units |-> EmptyBag]]
  /\ cells = [c \in Cells |-> Before]

\* Each unit seeds its block and contracts its slice into it.
Seed(p) ==
  /\ pc[p] = "seed"
  /\ held' = [held EXCEPT ![p] = [u \in Units |->
       (IF CellRead(p) = "at_seed" THEN cells[CellOf(p, u)] ELSE EmptyBag)
         (+) SetToBag({<<p, round[p], SliceOf(u)>>})]]
  /\ pc' = [pc EXCEPT ![p] = IF Folds THEN "fold" ELSE "commit"]
  /\ UNCHANGED <<config, round, bit, cells>>

\* The plane's own reduction: every unit is left with the total.
PlaneFold(p) ==
  /\ pc[p] = "fold" /\ Share = "plane"
  /\ held' = [held EXCEPT ![p] = [u \in Units |-> BagOver(Units, LAMBDA v : held[p][v])]]
  /\ pc' = [pc EXCEPT ![p] = "commit"]
  /\ UNCHANGED <<config, round, bit, cells>>

\* One butterfly step, over the bit where the mask has it.
GroupFold(p) ==
  /\ pc[p] = "fold" /\ Share = "group"
  /\ held' = [held EXCEPT ![p] = [u \in Units |->
       IF HasBit(FoldMask, bit[p]) THEN held[p][u] (+) held[p][FlipBit(u, bit[p])] ELSE held[p][u]]]
  /\ LET more == FoldMask \div 2 ^ (bit[p] + 1) > 0
     IN /\ bit' = [bit EXCEPT ![p] = IF more THEN @ + 1 ELSE 0]
        /\ pc' = [pc EXCEPT ![p] = IF more THEN "fold" ELSE "commit"]
  /\ UNCHANGED <<config, round, cells>>

\* `AccumulateView::commit`: the elected units write; units that repeat a cell
\* replace it with the same value.
Commit(p) ==
  /\ pc[p] = "commit"
  /\ LET writers(c) == {u \in Units : Writes(u) /\ CellOf(p, u) = c}
         whole(u) == IF CellRead(p) = "at_commit" THEN cells[CellOf(p, u)] (+) held[p][u] ELSE held[p][u]
     IN cells' = [c \in Cells |->
          IF write = "accumulate" THEN cells[c] (+) BagOver(writers(c), LAMBDA u : held[p][u])
          ELSE IF writers(c) = {} THEN cells[c] ELSE whole(CHOOSE u \in writers(c) : TRUE)]
  /\ round' = [round EXCEPT ![p] = @ + 1]
  /\ pc' = [pc EXCEPT ![p] = IF round[p] < Rounds THEN "seed" ELSE "done"]
  /\ UNCHANGED <<config, bit, held>>

Done == \A p \in Planes : pc[p] = "done"
Next ==
  \/ \E p \in Planes : Seed(p) \/ PlaneFold(p) \/ GroupFold(p) \/ Commit(p)
  \/ Done /\ UNCHANGED vars
Spec == Init /\ [][Next]_vars
-----------------------------------------------------------------------------
\* Nothing is ever counted twice into a cell: not the cell's own content by
\* units that each start from it, not a slice by units that repeat it, not
\* another plane's sum by a read beside an atomic add.
NothingTwice ==
  \A c \in Cells : \A x \in DOMAIN cells[c] : cells[c][x] = 1

\* What a finished accumulation left in a cell: what was there, unless it was
\* to count for nothing, and each slice of its contraction once, by whichever
\* units and planes held them.
Contributions(c) ==
  {<<p, r, SliceOf(u)>> : p \in c[1], r \in 1 .. Rounds, u \in Units}

EveryContributionOnce ==
  Done => \A c \in Cells :
    cells[c] = SetToBag(Contributions(c))
      (+) (IF from = "cell" \/ write = "accumulate" THEN Before ELSE EmptyBag)
=============================================================================
