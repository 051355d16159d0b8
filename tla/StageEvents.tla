----------------------------- MODULE StageEvents -----------------------------
(***************************************************************************)
(* What a unit of a double-buffered matmul executes, unrolled as the       *)
(* kernel's expansion unrolls it: the reads of a stage matmul, the loading *)
(* tasks its events launch (`DoubleBufferingEventListener`), the loops     *)
(* that pair the stage computed with the one loaded, and the synchronisms  *)
(* between them.                                                           *)
(*                                                                         *)
(* A case c says the partition's tiles (c.m, c.n, c.k), how many rhs       *)
(* fragments it holds (c.fragments), the tasks of a job (c.tasks), the     *)
(* stages the range of k takes (c.needed), what the planes of the main     *)
(* flow and those that only load are to load (c.main, c.loadOnly), whether *)
(* the lhs is ordered, on one stage (c.ordered), and whether copies land   *)
(* later, by the barrier the cube waits on (c.async).                      *)
(***************************************************************************)
EXTENDS Integers, SequencesExt

\* Whether the program spells out the tile matmuls, which touch nothing but registers.
CONSTANT Registers

Operands == {"lhs", "rhs"}
A == 0
B == 1

Read(of, at, stage, tile) == [op |-> "read", of |-> of, at |-> at, stage |-> stage, tile |-> tile]
Multiply(m, n) == IF Registers THEN <<[op |-> "mma", tile |-> <<m, n>>]>> ELSE << >>
LoadTask(of, at, task) == [op |-> "load", of |-> of, at |-> at, task |-> task]
AdvanceView(of) == [op |-> "advance", of |-> of]
SyncPlane == [op |-> "sync_plane"]
SyncCube == [op |-> "sync_cube"]

Repeat(n, step(_)) == FlattenSeq([i \in 1 .. n |-> step(i - 1)])

\* The lhs has one stage when it is ordered, whichever buffer is meant.
BufferOf(c, of, at) == IF c.ordered /\ of = "lhs" THEN A ELSE at

-----------------------------------------------------------------------------
(* `DoubleBufferingEventListener` *)

TasksOf(c, sides, of) == IF of \in sides THEN c.tasks[of] ELSE 0
Events(c) == c.m * c.n * c.k

\* The events left when the first task is due: zero when there are more tasks than events.
Start(c, sides) ==
  LET tasks == TasksOf(c, sides, "lhs") + TasksOf(c, sides, "rhs")
  IN IF tasks > Events(c) THEN 0 ELSE Events(c) - tasks

\* (wrong) an ordered load may start with the last k's first fragment still to come.
AnOrderEarly(c, of, event) ==
  c.ordered /\ of = "lhs" => event >= Events(c) - 2 * c.m * c.n

\* Ordered tasks wait until every fragment was loaded out of the stage.
CanStart(c, of, event) ==
  c.ordered /\ of = "lhs" => event >= Events(c) - c.m * c.n

\* The event the next task of an operand is for, after `done` of them.
Counter(c, sides, of, done) ==
  done + Start(c, sides) + (IF of = "rhs" THEN TasksOf(c, sides, "lhs") ELSE 0)

ShouldExecute(c, sides, of, done, event) ==
  /\ of \in sides /\ done < TasksOf(c, sides, of)
  /\ Counter(c, sides, of, done) = event /\ CanStart(c, of, event)

\* The tasks an operand ran before each event.
Ran(c, sides, of) ==
  LET ran[event \in 0 .. Events(c)] ==
        IF event = 0 THEN 0
        ELSE ran[event - 1]
               + (IF ShouldExecute(c, sides, of, ran[event - 1], event - 1) THEN 1 ELSE 0)
  IN ran

\* (wrong) a task launched with no regard to the plane's other units.
NoPlaneSync(c) == << >>

PlaneSync(c) == IF c.ordered THEN <<SyncPlane>> ELSE << >>

\* `on_event(TileMatmulCompleted)`.
OnEvent(c, sides, at, event) ==
  LET task(of) ==
        LET done == Ran(c, sides, of)[event]
        IN IF ShouldExecute(c, sides, of, done, event)
           THEN PlaneSync(c) \o <<LoadTask(of, BufferOf(c, of, at), done)>> ELSE << >>
  IN task("lhs") \o task("rhs")

Job(c, sides, of, at, done) ==
  Repeat(TasksOf(c, sides, of) - done,
         LAMBDA i : <<LoadTask(of, BufferOf(c, of, at), done + i)>>)

\* (wrong) the tasks no event was left for are forgotten.
NothingLeft(c, sides, at) == << >>

\* `on_event(Finish)`: what remains of both jobs.
OnFinish(c, sides, at) ==
  LET done(of) == Ran(c, sides, of)[Events(c)]
      rest == Job(c, sides, "lhs", at, done("lhs")) \o Job(c, sides, "rhs", at, done("rhs"))
  IN IF rest = << >> THEN << >> ELSE PlaneSync(c) \o rest

-----------------------------------------------------------------------------
(* `execute_single` and `execute_double`: a stage matmul on the partition *)

\* The tile matmuls of column n at depth k, with the events they raise.
Column(c, k, n, listen) == Repeat(c.m, LAMBDA m : Multiply(m, n) \o listen[(k * c.n + n) * c.m + m])

StageMatmul(c, stage, at, listen, finish) ==
  LET lhs(m, k) == Read("lhs", BufferOf(c, "lhs", at), stage, <<m, k>>)
      rhs(k, n) == Read("rhs", at, stage, <<k, n>>)
      single(k) == Repeat(c.n, LAMBDA n : <<rhs(k, n)>> \o Column(c, k, n, listen))
      \* The next column's fragment is read before this one's matmuls.
      double(k) == <<rhs(k, 0)>> \o Repeat(c.n - 1, LAMBDA n : <<rhs(k, n + 1)>> \o Column(c, k, n, listen))
                     \o Column(c, k, c.n - 1, listen)
  IN Repeat(c.k, LAMBDA k : Repeat(c.m, LAMBDA m : <<lhs(m, k)>>)
                              \o (IF c.fragments = 1 THEN single(k) ELSE double(k)))
       \o finish

-----------------------------------------------------------------------------
(* The schedule of the two matmuls, by role *)

Sides(c, role) == IF role = "main" THEN c.main ELSE c.loadOnly

WholeJobs(c, sides, at) == Job(c, sides, "lhs", at, 0) \o Job(c, sides, "rhs", at, 0)

\* `execute_current_and_read_next`.
ExecuteAndRead(c, role, stage, at) ==
  IF role = "main"
  THEN StageMatmul(c, stage, at, [e \in 0 .. Events(c) - 1 |-> OnEvent(c, c.main, 1 - at, e)],
                   OnFinish(c, c.main, 1 - at))
  ELSE WholeJobs(c, c.loadOnly, 1 - at)

\* `execute_last_and_write_results`.
ExecuteLast(c, role, stage) ==
  IF role = "main" THEN StageMatmul(c, stage, B, [e \in 0 .. Events(c) - 1 |-> << >>], << >>) ELSE << >>

Advances(c, both) ==
  IF c.ordered
  THEN <<AdvanceView("lhs")>> \o (IF both THEN <<AdvanceView("rhs")>> ELSE << >>)
  ELSE IF both THEN <<AdvanceView("lhs"), AdvanceView("rhs")>> ELSE << >>

\* (wrong) the planes that only load skip the synchronism they load nothing before.
LoadersSkip(c, role, i) ==
  ExecuteAndRead(c, role, 2 * i, A) \o Advances(c, TRUE) \o <<SyncCube>>
    \o ExecuteAndRead(c, role, 2 * i + 1, B) \o Advances(c, FALSE)
    \o (IF role = "main" THEN <<SyncCube>> ELSE << >>)

Loop(c, role, i) ==
  ExecuteAndRead(c, role, 2 * i, A) \o Advances(c, TRUE) \o <<SyncCube>>
    \o ExecuteAndRead(c, role, 2 * i + 1, B) \o Advances(c, FALSE) \o <<SyncCube>>

\* The algorithm assumes an even number of stages, at least two.
NumLoops(c) == (c.needed + (c.needed % 2) - 2) \div 2

Program(c, role) ==
  WholeJobs(c, Sides(c, role), A) \o Advances(c, FALSE) \o <<SyncCube>>
    \o Repeat(NumLoops(c), LAMBDA i : Loop(c, role, i))
    \o ExecuteAndRead(c, role, 2 * NumLoops(c), A) \o <<SyncCube>>
    \o ExecuteLast(c, role, 2 * NumLoops(c) + 1)
=============================================================================
