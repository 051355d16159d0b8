------------------------------ MODULE StreamK ------------------------------
(***************************************************************************)
(* A contraction streamed over cubes that share one grid: each takes its   *)
(* portion of the steps, accumulates the part of a region that is its own  *)
(* in registers, and drains it into the region's cells, which other cubes  *)
(* add into as well (`AccumulateArg`).                                     *)
(*                                                                         *)
(* A portion is the share of a grid one instance takes when the grid is    *)
(* distributed as one flat index (`Walk::portion`).  The index counts      *)
(* steps: each of the grid's total regions is stride steps of the level    *)
(* below, and a portion may begin and end inside a region.  The arithmetic *)
(* is usize's.                                                             *)
(*                                                                         *)
(* A cell holds which steps were added into it, and how often; so does a   *)
(* cube's accumulator.  The cells are added to one by one, each atomically. *)
(***************************************************************************)
EXTENDS Integers

CONSTANTS
  Word,      \* one past the greatest usize of the device
  Launches,  \* the grids a launch may share out
  Cells      \* cells of one region

ASSUME WordAssumption == Word \in Nat \ {0}

\* A grid distributed as one: how many take it, its regions, and the steps of each.
Grids == [instances : Nat \ {0}, total : Nat, stride : Nat \ {0}]

Steps(g) == (g.total * g.stride) % Word

\* No product the division is taken of reaches past a word.
Fits(g) == g.instances * (g.total * g.stride) < Word

\* (wrong) a length each, the remainder taken by nobody.
LengthEach(g, pos) == pos * (Steps(g) \div g.instances)

Start(g, pos) == ((pos * Steps(g)) % Word) \div g.instances

End(g, pos) == (((pos + 1) * Steps(g)) % Word) \div g.instances

FirstTouched(g, pos) == Start(g, pos) \div g.stride

\* Through the region the portion's last step falls in.
Touched(g, pos) ==
  IF Start(g, pos) < End(g, pos)
  THEN (End(g, pos) - 1) \div g.stride + 1 - FirstTouched(g, pos) ELSE 0

\* `Portion::steps`: of the n-th region touched, the first step of its walk
\* that is the portion's and the one past the last.
Base(g, pos, n) == (FirstTouched(g, pos) + n) * g.stride

From(g, pos, n) ==
  IF Base(g, pos, n) < Start(g, pos) THEN Start(g, pos) - Base(g, pos, n) ELSE 0

\* (wrong) every region walked to its end.
WholeRegion(g, pos, n) == g.stride

To(g, pos, n) ==
  IF End(g, pos) < Base(g, pos, n) + g.stride
  THEN End(g, pos) - Base(g, pos, n) ELSE g.stride
-----------------------------------------------------------------------------
ASSUME LaunchAssumption == Launches \subseteq Grids /\ \A g \in Launches : Fits(g)

VARIABLES
  grid,
  at,       \* per cube, the region of its portion it is at
  acc,      \* per cube, the steps its open accumulator holds, or Closed
  drained,  \* per cube, the cells of the region it has added into
  cell      \* per region and cell, how often each step was added

vars == <<grid, at, acc, drained, cell>>

Closed == {-1}

Cubes == 0 .. grid.instances - 1
Regions == 0 .. grid.total - 1
RegionSteps == 0 .. grid.stride - 1

\* The launch zeroes the output: no cube may seed a cell others add into.
Init ==
  /\ grid \in Launches
  /\ at = [c \in Cubes |-> 0]
  /\ acc = [c \in Cubes |-> Closed]
  /\ drained = [c \in Cubes |-> {}]
  /\ cell = [r \in Regions |-> [k \in Cells |-> [s \in RegionSteps |-> 0]]]

RegionOf(c) == FirstTouched(grid, c) + at[c]

\* (wrong) the region walked from its first step, whoever has it.
FromTheFirst(c) ==
  /\ at[c] < Touched(grid, c) /\ acc[c] = Closed
  /\ acc' = [acc EXCEPT ![c] = 0 .. To(grid, c, at[c]) - 1]
  /\ UNCHANGED <<grid, at, drained, cell>>

\* Open a zeroed accumulator and fold the cube's part of the region into it.
Contract(c) ==
  /\ at[c] < Touched(grid, c) /\ acc[c] = Closed
  /\ acc' = [acc EXCEPT ![c] = From(grid, c, at[c]) .. To(grid, c, at[c]) - 1]
  /\ UNCHANGED <<grid, at, drained, cell>>

\* (wrong) a drain that stores where it should add.
DrainStores(c, k) ==
  /\ acc[c] # Closed /\ k \notin drained[c]
  /\ cell' = [cell EXCEPT ![RegionOf(c)][k] = [s \in RegionSteps |-> IF s \in acc[c] THEN 1 ELSE 0]]
  /\ drained' = [drained EXCEPT ![c] = @ \cup {k}]
  /\ UNCHANGED <<grid, at, acc>>

\* One cell of the drain: `accumulate_line`'s atomic add.
DrainCell(c, k) ==
  /\ acc[c] # Closed /\ k \notin drained[c]
  /\ cell' = [cell EXCEPT ![RegionOf(c)][k] =
                [s \in RegionSteps |-> @[s] + IF s \in acc[c] THEN 1 ELSE 0]]
  /\ drained' = [drained EXCEPT ![c] = @ \cup {k}]
  /\ UNCHANGED <<grid, at, acc>>

NextRegion(c) ==
  /\ acc[c] # Closed /\ drained[c] = Cells
  /\ at' = [at EXCEPT ![c] = @ + 1]
  /\ acc' = [acc EXCEPT ![c] = Closed]
  /\ drained' = [drained EXCEPT ![c] = {}]
  /\ UNCHANGED <<grid, cell>>

Done == \A c \in Cubes : at[c] = Touched(grid, c)
Returned == Done /\ UNCHANGED vars

Next ==
  \/ \E c \in Cubes : Contract(c) \/ NextRegion(c) \/ \E k \in Cells : DrainCell(c, k)
  \/ Returned

Spec == Init /\ [][Next]_vars
-----------------------------------------------------------------------------
\* The type invariant: no cube opens a region outside the grid or a step
\* outside the region.
TypeOK ==
  /\ grid \in Launches
  /\ at \in [Cubes -> Nat]
  /\ acc \in [Cubes -> {Closed} \cup SUBSET RegionSteps]
  /\ drained \in [Cubes -> SUBSET Cells]
  /\ \A c \in Cubes : /\ at[c] <= Touched(grid, c)
                      /\ acc[c] # Closed => RegionOf(c) \in Regions
  /\ cell \in [Regions -> [Cells -> [RegionSteps -> Nat]]]

\* What a cube has drained: the regions before the one it is at, and of that
\* one the cells it has added into.
Added(c, r, k, s) ==
  /\ Start(grid, c) <= r * grid.stride + s /\ r * grid.stride + s < End(grid, c)
  /\ r < RegionOf(c) \/ (r = RegionOf(c) /\ k \in drained[c])

\* The inductive invariant: an open accumulator holds the cube's part of the
\* region it is at, and a cell holds what the cubes have drained, once.
IInv ==
  /\ TypeOK
  /\ \A c \in Cubes :
       \/ acc[c] = Closed /\ drained[c] = {}
       \/ at[c] < Touched(grid, c) /\ acc[c] = From(grid, c, at[c]) .. To(grid, c, at[c]) - 1
  /\ \A r \in Regions, k \in Cells, s \in RegionSteps :
       cell[r][k][s] = IF \E c \in Cubes : Added(c, r, k, s) THEN 1 ELSE 0

\* No step is added into a cell twice, whichever cubes share the region.
NoStepTwice ==
  \A r \in Regions, k \in Cells, s \in RegionSteps : cell[r][k][s] <= 1

\* Once every cube returned, every cell holds its whole contraction.
EveryStepOnce ==
  Done => \A r \in Regions, k \in Cells, s \in RegionSteps : cell[r][k][s] = 1

\* The portions differ in length by at most one, and an instance with no work
\* opens no region.
Balanced ==
  \A c, d \in Cubes :
    LET length(x) == End(grid, x) - Start(grid, x) IN
    /\ length(c) <= length(d) + 1
    /\ length(c) = 0 => Touched(grid, c) = 0
=============================================================================
