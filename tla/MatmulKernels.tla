---------------------------- MODULE MatmulKernels ----------------------------
(***************************************************************************)
(* The matmuls of stages: the simple one, a stage of lhs and of rhs at a   *)
(* time; and those that load a stage while they compute the last.          *)
(***************************************************************************)
EXTENDS StageMatmuls

-----------------------------------------------------------------------------
(* The simple matmul.                                                      *)

\* `execute_single` and `execute_double`: with two fragments of rhs, the next
\* tile is loaded before the last is multiplied.
MmaPartition(r, u) ==
  LET Row(k) ==
        Together(r, u, FoldSet(LAMBDA m, f : f @@ CopyIn(r, u, "a", m, LhsStage(r), <<MapM(r, u, m), MapK(r, u, k)>>),
                         Zero, 0 .. r.pm - 1))
      Column(k, n, slot) ==
        Together(r, u, CopyIn(r, u, "b", slot, RhsStage(r), <<MapK(r, u, k), MapN(r, u, n)>>))
      Single(k) ==
        Loop(r.pn, LAMBDA n : <<Column(k, n, 0), Together(r, u, Multiply(r, u, 0 .. r.pm - 1, n, 0))>>)
      Double(k) ==
        <<Column(k, 0, 0)>>
          \o Loop(r.pn - 1, LAMBDA n : <<Column(k, n + 1, (n + 1) % 2), Together(r, u, Multiply(r, u, 0 .. r.pm - 1, n, n % 2))>>)
          \o <<Together(r, u, Multiply(r, u, 0 .. r.pm - 1, r.pn - 1, (r.pn - 1) % 2))>> IN
  Loop(r.pk, LAMBDA k : <<Row(k)>> \o IF r.double THEN Double(k) ELSE Single(k))

\* (wrong) the output's stage is written while planes still read the inputs'.
EarlyOutput(r, u, at) ==
  When(r.fused, <<LoadAcc(r, u, at), Sync(CubeUnits(r, u))>>)
    \o LoadPartition(r, u, AccStage(r))
    \o Loop(CeilDiv(r.k, StageK(r)), LAMBDA i :
         <<Sync(CubeUnits(r, u)), LoadLhs(r, u, at, i), LoadRhs(r, u, at, i), Sync(CubeUnits(r, u))>>
           \o MmaPartition(r, u))
    \o WritePartition(r, u, at, OutStage(r, 0))

\* `SimpleMatmul::execute`, for the stage of the output with its corner at `at`.
SimpleMatmul(r, u, at) ==
  When(r.fused, <<LoadAcc(r, u, at), Sync(CubeUnits(r, u))>>)
    \o LoadPartition(r, u, AccStage(r))
    \o Loop(CeilDiv(r.k, StageK(r)), LAMBDA i :
         <<Sync(CubeUnits(r, u)), LoadLhs(r, u, at, i), LoadRhs(r, u, at, i), Sync(CubeUnits(r, u))>>
           \o MmaPartition(r, u))
    \o <<Sync(CubeUnits(r, u))>>
    \o WritePartition(r, u, at, OutStage(r, 0))

-----------------------------------------------------------------------------
(* Two stages of an operand, one loaded while the other is computed: the   *)
(* events and the schedule are those of StageEvents, and lhs, when it is   *)
(* ordered, has one stage.                                                 *)

Ahead == INSTANCE StageEvents WITH Registers <- TRUE

Ordered(r) == r.kernel = "ordered"

\* The buffers of both operands follow one another, and nothing is freed before
\* the output's stage is there.
BufferedStage(r, of, buffer) ==
  LET lhs == LhsStage(r)
      rhs == RhsStage(r)
      ofLhs == IF Ordered(r) THEN 1 ELSE 2 IN
  IF of = "lhs" THEN [lhs EXCEPT !.base = buffer * StageSize(lhs)]
  ELSE [rhs EXCEPT !.base = ofLhs * StageSize(lhs) + buffer * StageSize(rhs)]
BufferedAcc(r) == [AccStage(r) EXCEPT !.base = 2 * @]
BufferedOut(r) == OutStage(r, BufferedAcc(r).base + StageSize(AccStage(r)))

\* The loading strategies of one stage of two.
PartialCyclicShare(r, s, pos) == CyclicShare(r, s, pos)
PartialTilewiseShare(r, s, pos) == TilewiseShare(r, s, pos)
AsyncPartialCyclicShare(r, s, pos) == CyclicShare(r, s, pos)
AsyncPartialStridedShare(r, s, pos) == StridedShare(r, s, pos)
PartialTmaShare(s, pos) == TmaShare(s, pos)

PartialShare(r, s, pos) ==
  CASE s.strategy = "cyclic" -> PartialCyclicShare(r, s, pos)
    [] s.strategy = "tilewise" -> PartialTilewiseShare(r, s, pos)
    [] s.strategy = "async_cyclic" -> AsyncPartialCyclicShare(r, s, pos)
    [] s.strategy = "async_strided" -> AsyncPartialStridedShare(r, s, pos)
    [] s.strategy = "tma" -> PartialTmaShare(s, pos)
    [] s.strategy = "ordered" -> OrderedShare(r, s, pos)

\* What the buffered matmuls are validated for: tiles of a plane that follow one
\* another across k, and lhs tiles that no other plane reads.
ValidBuffers(r) ==
  /\ r.lhs.strategy = "tilewise" => r.lhs.order = "rows"
  /\ r.rhs.strategy = "tilewise" => r.rhs.order = "columns"
  /\ Ordered(r) => r.sn = 1 /\ r.lhs.strategy = "ordered" /\ ~r.unitwise

\* The matmul's case of StageEvents: a task to each copy of the share of the unit
\* that has most.
EventsOf(r) ==
  LET Tasks(of) == Len(PartialShare(r, BufferedStage(r, of, Ahead!A), 0)) IN
  [m |-> r.pm, n |-> r.pn, k |-> r.pk, fragments |-> IF r.double THEN 2 ELSE 1,
   tasks |-> [of \in Ahead!Operands |-> Tasks(of)], needed |-> CeilDiv(r.k, StageK(r)),
   main |-> Ahead!Operands, loadOnly |-> {}, ordered |-> Ordered(r), async |-> FALSE]

\* (wrong) both buffers are loaded from where the view is.
SameSlice(r, of, buffer, views) == views * 2 * StageK(r)

\* Where along k a load starts: a view steps over both stages, and the second is
\* a stage further.
SliceStart(r, of, buffer, views) ==
  views * (IF Ordered(r) /\ of = "lhs" THEN 1 ELSE 2) * StageK(r) + buffer * StageK(r)

\* A task of a job, of a unit whose share has one left.
LoadTask(r, u, at, i, views) ==
  LET s == BufferedStage(r, i.of, i.at)
      share == PartialShare(r, s, PosOf(r, u))
      k == SliceStart(r, i.of, i.at, views[i.of])
      corner == IF i.of = "lhs" THEN <<at[1], k>> ELSE <<k, at[2]>> IN
  When(i.task < Len(share),
       <<Do(u, Sets(Copied(r, u, s, r.views[i.of], corner[1], corner[2], at[3], share[i.task + 1])))>>)

\* A fragment read: of lhs one to each row, of rhs one or two in turn.
Slot(r, n) == IF r.double THEN n % 2 ELSE 0
ReadFragment(r, u, i) ==
  LET s == BufferedStage(r, i.of, i.at) IN
  IF i.of = "lhs" THEN CopyIn(r, u, "a", i.tile[1], s, <<MapM(r, u, i.tile[1]), MapK(r, u, i.tile[2])>>)
  ELSE CopyIn(r, u, "b", Slot(r, i.tile[2]), s, <<MapK(r, u, i.tile[1]), MapN(r, u, i.tile[2])>>)

Instruction(r, u, at, i, views) ==
  CASE i.op = "load" -> LoadTask(r, u, at, i, views)
    [] i.op = "read" -> <<Together(r, u, ReadFragment(r, u, i))>>
    [] i.op = "mma" -> <<Together(r, u, Multiply(r, u, {i.tile[1]}, i.tile[2], Slot(r, i.tile[2])))>>
    [] i.op = "sync_plane" -> <<Sync(Team(r, u))>>
    [] i.op = "sync_cube" -> <<Sync(CubeUnits(r, u))>>

\* `DoubleBufferingMatmul::execute` and `OrderedDoubleBufferingMatmul::execute`.
BufferedMatmul(r, u, at) ==
  LET program == Ahead!Program(EventsOf(r), "main")
      Views(i) ==
        [of \in Ahead!Operands |-> Cardinality({j \in 1 .. i - 1 : program[j].op = "advance" /\ program[j].of = of})] IN
  When(r.fused, <<LoadStage(r, u, BufferedAcc(r), r.views.acc, at[1], at[2], at[3]), Sync(CubeUnits(r, u))>>)
    \o LoadPartition(r, u, BufferedAcc(r))
    \o FlattenSeq([i \in DOMAIN program |->
         When(program[i].op # "advance", Instruction(r, u, at, program[i], Views(i)))])
    \o WritePartition(r, u, at, BufferedOut(r))
-----------------------------------------------------------------------------
(* The kernels.                                                            *)

ValidMatmul(r) == ValidLoads(r) /\ (r.kernel # "simple" => ValidBuffers(r))

Execute(r, u, at) == IF r.kernel = "simple" THEN SimpleMatmul(r, u, at) ELSE BufferedMatmul(r, u, at)

\* `PartitionRangeDim`: the i-th start, of as many stages as a cube has along an axis.
PartitionRange(cube, stage, stages, i) == cube * stages * stage + i * stage

\* The stages of a cube, by rows or by columns within a batch.
GlobalPartition(r, u) ==
  LET cube == CubePosToXyz(CubeLaunchInfo(r), CubeOf(r, u))
      Corner(batch, m, n) ==
        <<PartitionRange(cube[1], StageM(r), r.gm, m), PartitionRange(cube[2], StageN(r), r.gn, n),
          PartitionRange(cube[3], 1, r.gb, batch)>> IN
  Loop(r.gb, LAMBDA b :
    IF r.byRows THEN Loop(r.gm, LAMBDA m : Loop(r.gn, LAMBDA n : Execute(r, u, Corner(b, m, n))))
    ELSE Loop(r.gn, LAMBDA n : Loop(r.gm, LAMBDA m : Execute(r, u, Corner(b, m, n)))))

\* The entry point: cubes to spare terminate.
PartitionedMatmul(r, u) ==
  IF Spare(CubeLaunchInfo(r), CubeOf(r, u)) THEN <<>> ELSE GlobalPartition(r, u)

\* The launch: the units' steps.
Launch(r) == [u \in 0 .. Total(CubeLaunchInfo(r).grid) * CubeDim(r) - 1 |-> PartitionedMatmul(r, u)]
=============================================================================
