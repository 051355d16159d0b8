---------------------------- MODULE DoubleBuffer ----------------------------
(***************************************************************************)
(* The units of a cube running a double-buffered matmul of cubek-matmul    *)
(* (`DoubleBufferingMatmul`, `OrderedDoubleBufferingMatmul`) over shared   *)
(* stages: the program of StageEvents, one instruction at a time, in every *)
(* interleaving its synchronisms leave.                                    *)
(*                                                                         *)
(* A stage's operand is the pieces its tasks bring, one per task of each   *)
(* unit that loads it; a piece holds the slice of k it was brought for.    *)
(***************************************************************************)
EXTENDS Integers, SequencesExt, FiniteSets

CONSTANTS
  Cases,        \* the matmuls that may be launched
  MainPlanes,   \* planes of the main flow
  LoadPlanes,   \* planes that only load, where a matmul sets any aside
  Lanes         \* units of a plane

INSTANCE StageEvents WITH Registers <- FALSE

Planes == MainPlanes \cup LoadPlanes
Units == Planes \X Lanes

ASSUME PlanesAssumption ==
  IsFiniteSet(Units) /\ MainPlanes # {} /\ MainPlanes \cap LoadPlanes = {}
\* Whatever is not the main flow's to load is the others'; ordered, the lhs is
\* the main flow's.
ASSUME CasesAssumption ==
  \A c \in Cases :
    /\ {c.m, c.n, c.k, c.needed} \subseteq Nat \ {0} /\ c.fragments \in {1, 2}
    /\ c.tasks \in [Operands -> Nat] /\ c.ordered \in BOOLEAN /\ c.async \in BOOLEAN
    /\ c.main \cup c.loadOnly = Operands
    /\ c.loadOnly # {} => LoadPlanes # {}
    /\ c.ordered => "lhs" \in c.main \ c.loadOnly /\ ~c.async

Roles == {"main", "load"}

VARIABLES
  case,     \* the matmul launched
  text,     \* per role, its program as the expansion unrolled it
  at,       \* per unit, the instruction it is at
  view,     \* per unit and operand, the slices its view was advanced by
  flying,   \* asynchronous copies issued and not landed
  memory    \* per operand, buffer and piece, the slice it holds

launch == <<case, text>>
vars == <<launch, at, view, flying, memory>>

Role(u) == IF u[1] \in LoadPlanes /\ case.loadOnly # {} THEN "load" ELSE "main"
Text(u) == text[Role(u)]
Runs(u) == at[u] <= Len(Text(u))
Instr(u) == Text(u)[at[u]]
IsAt(u, op) == Runs(u) /\ Instr(u).op = op

Loaders(of) == {u \in Units : of \in Sides(case, Role(u))}
Pieces(of) == Loaders(of) \X (0 .. case.tasks[of] - 1)
Nothing == -1

Init ==
  /\ case \in Cases
  /\ text = [role \in Roles |-> Program(case, role)]
  /\ at = [u \in Units |-> 1]
  /\ view = [u \in Units |-> [of \in Operands |-> 0]]
  /\ flying = {}
  /\ memory = [of \in Operands |-> [buffer \in {A, B} |-> [piece \in Pieces(of) |-> Nothing]]]

Step(u) == at' = [at EXCEPT ![u] = @ + 1]

\* The slice a load brings: stage B is a stage's worth past the view.
SliceOf(u) == view[u][Instr(u).of] + Instr(u).at

PieceOf(u) == <<u, Instr(u).task>>

Load(u) ==
  /\ IsAt(u, "load") /\ ~case.async
  /\ memory' = [memory EXCEPT ![Instr(u).of][Instr(u).at][PieceOf(u)] = SliceOf(u)]
  /\ Step(u) /\ UNCHANGED <<launch, view, flying>>

Issue(u) ==
  /\ IsAt(u, "load") /\ case.async
  /\ flying' = flying \cup {[of |-> Instr(u).of, into |-> Instr(u).at, piece |-> PieceOf(u), slice |-> SliceOf(u)]}
  /\ Step(u) /\ UNCHANGED <<launch, view, memory>>

Lands(f) ==
  /\ memory' = [memory EXCEPT ![f.of][f.into][f.piece] = f.slice]
  /\ flying' = flying \ {f}
  /\ UNCHANGED <<launch, at, view>>

ReadTile(u) == IsAt(u, "read") /\ Step(u) /\ UNCHANGED <<launch, view, flying, memory>>

\* An ordered lhs has one stage, and its view steps by one; a view over two steps by both.
Stride(c, of) == IF c.ordered /\ of = "lhs" THEN 1 ELSE 2

Advance(u) ==
  /\ IsAt(u, "advance")
  /\ view' = [view EXCEPT ![u][Instr(u).of] = @ + Stride(case, Instr(u).of)]
  /\ Step(u) /\ UNCHANGED <<launch, flying, memory>>

Meet(units) ==
  /\ at' = [u \in Units |-> IF u \in units THEN at[u] + 1 ELSE at[u]]
  /\ UNCHANGED <<launch, view, flying, memory>>

PlaneMeets(p) ==
  /\ \A lane \in Lanes : IsAt(<<p, lane>>, "sync_plane")
  /\ Meet({p} \X Lanes)

\* `SyncStrategy::sync`: `sync_cube`, or a barrier every unit arrives on and
\* whose phase waits for what was committed to it or expected by it.
CubeMeets ==
  /\ \A u \in Units : IsAt(u, "sync_cube")
  /\ flying = {}
  /\ Meet(Units)

Finished == \A u \in Units : ~Runs(u)

UnitStep(u) == Load(u) \/ Issue(u) \/ ReadTile(u) \/ Advance(u)
Meets == (\E p \in Planes : PlaneMeets(p)) \/ CubeMeets
CopiesLand == \E f \in flying : Lands(f)

Next ==
  \/ \E u \in Units : UnitStep(u)
  \/ Meets
  \/ CopiesLand
  \/ Finished /\ UNCHANGED vars

Spec == Init /\ [][Next]_vars
FairSpec == Spec /\ WF_vars(Meets) /\ WF_vars(CopiesLand) /\ \A u \in Units : WF_vars(UnitStep(u))
-----------------------------------------------------------------------------
\* What a read takes: every piece of the stage, and of an ordered lhs the
\* pieces of the unit's own plane.
ReadBy(u) ==
  {piece \in Pieces(Instr(u).of) :
     case.ordered /\ Instr(u).of = "lhs" => piece[1][1] = u[1]}

\* A unit reading a stage finds the slice of that stage matmul in every piece
\* it takes: none that is yet to come and none loaded ahead for the next.
ReadsItsSlice ==
  \A u \in Units : IsAt(u, "read") =>
    \A piece \in ReadBy(u) : memory[Instr(u).of][Instr(u).at][piece] = Instr(u).stage

\* No unit writes a piece while another reads it, itself or by a copy in flight.
NoDataRace ==
  \A u \in Units : IsAt(u, "read") =>
    /\ \A v \in Units : IsAt(v, "load") =>
         ~(Instr(v).of = Instr(u).of /\ Instr(v).at = Instr(u).at /\ PieceOf(v) \in ReadBy(u))
    /\ \A f \in flying :
         ~(f.of = Instr(u).of /\ f.into = Instr(u).at /\ f.piece \in ReadBy(u))

LoadsAt(program, i, of, task) ==
  program[i].op = "load" /\ program[i].of = of /\ program[i].task = task

\* How often a program loads a task.
Loads(program, of, task) == Cardinality({k \in 1 .. Len(program) : LoadsAt(program, k, of, task)})

\* A cube that finished has loaded and contracted every stage of the range,
\* each of its tasks once, whether or not the tasks divided among the events.
EveryTaskOnce ==
  Finished =>
    /\ 0 .. case.needed - 1 \subseteq {i.stage : i \in {j \in Range(text["main"]) : j.op = "read"}}
    /\ \A role \in Roles : \A of \in Sides(case, role) : \A task \in 0 .. case.tasks[of] - 1 :
         Loads(text[role], of, task) = case.needed + (case.needed % 2)

\* Every unit gets through, whatever its role.
AllFinish == <>Finished
-----------------------------------------------------------------------------
(***************************************************************************)
(* The inductive invariant behind the first two.  The synchronisms of the  *)
(* cube cut a program into epochs: in epoch e slice e is loaded, and slice *)
(* e - 1 read.                                                             *)
(***************************************************************************)
\* How often an instruction comes before the i-th of a program.
Before(program, i, instr) == Cardinality({k \in 1 .. i - 1 : program[k] = instr})

Epoch(program, i) == Before(program, i, SyncCube)
Viewed(c, program, i, of) == Stride(c, of) * Before(program, i, AdvanceView(of))

\* A load is of the slice of its epoch, into the stage of that slice.
LoadIsDue(c, role, program, i) ==
  LET l == program[i]
      e == Epoch(program, i) IN
  /\ l.of \in Sides(c, role) /\ l.task \in 0 .. c.tasks[l.of] - 1
  /\ l.at = BufferOf(c, l.of, e % 2) /\ Viewed(c, program, i, l.of) + l.at = e

\* A read is of the slice of the epoch before.
ReadIsDue(c, program, i) ==
  LET r == program[i] IN
  r.stage + 1 = Epoch(program, i) /\ r.at = BufferOf(c, r.of, r.stage % 2)

\* No epoch ends before every task of both jobs was loaded in it; where both
\* are on one stage, the lhs is loaded only once the plane has read it.
Scheduled(c, role, program) ==
  /\ \A i \in 1 .. Len(program) :
       /\ program[i].op = "load" => LoadIsDue(c, role, program, i)
       /\ program[i].op = "read" => ReadIsDue(c, program, i)
  /\ \A i \in 1 .. Len(program) : program[i].op = "sync_cube" =>
       \A of \in Sides(c, role) : \A task \in 0 .. c.tasks[of] - 1 :
         \E k \in 1 .. i - 1 : LoadsAt(program, k, of, task) /\ Epoch(program, k) = Epoch(program, i)
  /\ c.ordered => \A i, j \in 1 .. Len(program) :
       /\ program[i].op = "read" /\ program[i].of = "lhs"
       /\ program[j].op = "load" /\ program[j].of = "lhs"
       /\ Epoch(program, i) = Epoch(program, j)
       => \E k \in i + 1 .. j - 1 : program[k] = SyncPlane

Now(u) == Epoch(Text(u), at[u])

\* All units are in one epoch, and those of a plane past the same synchronisms of it.
InStep ==
  \A u, v \in Units :
    /\ Now(u) = Now(v)
    /\ u[1] = v[1] => Before(Text(u), at[u], SyncPlane) = Before(Text(v), at[v], SyncPlane)

ViewsFollow ==
  \A u \in Units, of \in Operands : view[u][of] = Viewed(case, Text(u), at[u], of)

\* What flies was issued in this epoch.
CopiesAreDue ==
  \A f \in flying : \A u \in Units :
    case.async /\ f.slice = Now(u) /\ f.into = BufferOf(case, f.of, f.slice % 2)

\* What a unit has loaded in this epoch is there or flies, and what it loaded
\* in the one before is there unless loaded over.
LoadedInto(u, of, into, task, e) ==
  \E i \in 1 .. at[u] - 1 :
    LoadsAt(Text(u), i, of, task) /\ Text(u)[i].at = into /\ Epoch(Text(u), i) = e

LoadsAreThere ==
  \A u \in Units, of \in Operands, into \in {A, B} : \A task \in 0 .. case.tasks[of] - 1 :
    LET piece == <<u, task>>
        holds == memory[of][into][piece] IN
    /\ LoadedInto(u, of, into, task, Now(u)) =>
         holds = Now(u) \/ [of |-> of, into |-> into, piece |-> piece, slice |-> Now(u)] \in flying
    /\ LoadedInto(u, of, into, task, Now(u) - 1) /\ ~LoadedInto(u, of, into, task, Now(u)) =>
         holds = Now(u) - 1

TypeOK ==
  /\ case \in Cases /\ text = [role \in Roles |-> Program(case, role)]
  /\ at \in [Units -> Nat \ {0}] /\ \A u \in Units : at[u] <= Len(Text(u)) + 1
  /\ view \in [Units -> [Operands -> Nat]]
  /\ flying \subseteq [of : Operands, into : {A, B}, piece : Units \X Nat, slice : Nat]
  /\ DOMAIN memory = Operands /\ \A of \in Operands : DOMAIN memory[of] = {A, B}
  /\ \A of \in Operands, into \in {A, B} : memory[of][into] \in [Pieces(of) -> Nat \cup {Nothing}]

IInv == TypeOK /\ InStep /\ ViewsFollow /\ CopiesAreDue /\ LoadsAreThere

ProgramsAreScheduled == \A role \in Roles : Scheduled(case, role, text[role])
=============================================================================
