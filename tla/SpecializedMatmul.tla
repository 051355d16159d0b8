-------------------------- MODULE SpecializedMatmul --------------------------
(***************************************************************************)
(* The specialized matmul of cubek-matmul: planes set aside to load fill   *)
(* two stages while the others compute on them (`SpecializedMatmul`).      *)
(*                                                                         *)
(* A stage is loaded by asynchronous copies, one per loading unit and      *)
(* operand; it holds, per copy, the slice of k it was loaded with.  The    *)
(* barriers are mbarriers: a phase bit, the arrivals that are pending and  *)
(* the bytes that are expected, counted in copies.  A unit waits for a     *)
(* parity, which is over as soon as the phase bit is the other one.        *)
(***************************************************************************)
EXTENDS Integers, FiniteSets, Sequences

CONSTANTS
  LoadUnits,      \* units of the load-only planes
  ComputeUnits,   \* units of the planes of the main flow
  Leader,         \* the elected unit of the first plane
  Needs           \* the numbers of stages the range of k may take

ASSUME RolesAssumption ==
  /\ IsFiniteSet(LoadUnits) /\ IsFiniteSet(ComputeUnits)
  /\ LoadUnits \cap ComputeUnits = {} /\ Leader \in LoadUnits /\ ComputeUnits # {}
ASSUME RangeAssumption == Needs \subseteq Nat

VARIABLES
  tma,               \* whether the TMA engine delivers, or each unit's async copies
  needed,            \* the stages the cube's range of k takes: its input
  pc, loop, phase,   \* per unit: where it is, loops done, its phase bit
  buffer,            \* per unit, the stage of the loop it is at: 0 is A, 1 is B
  full, empty, done, \* the barriers, full and empty per stage
  flying,            \* copies issued and not landed
  commits,           \* async copies committed to a barrier, which their landing arrives on
  stage,             \* per stage and copy, the slice it holds
  acc                \* per computing unit, the slices of each stage it multiplied

launch == <<tma, needed>>
vars == <<launch, pc, loop, phase, buffer, full, empty, done, flying, commits, stage, acc>>

Units == LoadUnits \cup ComputeUnits
Buffers == {0, 1}
Operands == {"lhs", "rhs"}
Nothing == -1
Output == -2    \* what a writer leaves in a stage it was freed

\* (wrong) the loops of an even number of stages for any number.
HalfOfNeeded == needed \div 2

\* The algorithm assumes an even number of stages: an odd one is rounded up.
Loops == (needed + (needed % 2)) \div 2

Elected == IF tma THEN {Leader} ELSE LoadUnits
Copies == Elected \X Operands

ArrivalCount == IF tma THEN 1 ELSE Cardinality(LoadUnits)

\* (wrong) every unit of the cube, the loading ones too.
EveryUnit == Cardinality(Units)

\* `compute_units`.
ReleaseCount == Cardinality(ComputeUnits)

Armed(count) == [bit |-> 0, pending |-> count, copies |-> 0]

\* A phase is over when nobody is pending and every expected copy landed.
Settled(b, count) ==
  IF b.pending = 0 /\ b.copies = 0
  THEN [bit |-> 1 - b.bit, pending |-> count, copies |-> 0] ELSE b

Arrived(b, arrivals, expected, count) ==
  Settled([bit |-> b.bit, pending |-> b.pending - arrivals, copies |-> b.copies + expected],
          count)

\* `wait_parity(parity)` returns.
Over(b, parity) == b.bit # parity

Init ==
  /\ tma \in BOOLEAN /\ needed \in Needs
  /\ pc = [u \in Units |-> IF u \in ComputeUnits THEN "wait_full"
                           ELSE IF u \in Elected THEN "wait_empty" ELSE "returned"]
  /\ loop = [u \in Units |-> 0] /\ phase = [u \in Units |-> 0]
  /\ buffer = [u \in Units |-> 0]
  /\ full = [b \in Buffers |-> Armed(ArrivalCount)]
  /\ empty = [b \in Buffers |-> Armed(ReleaseCount)]
  /\ done = Armed(ReleaseCount)
  /\ flying = {} /\ commits = {}
  /\ stage = [b \in Buffers |-> [c \in Copies |-> Nothing]]
  /\ acc = [u \in ComputeUnits |-> << >>]

\* The slice a unit loads into the stage it is at, or expects in it: its view
\* is two slices a loop ahead, and B's slice is one past A's.
SliceOf(u) == 2 * loop[u] + buffer[u]

\* (wrong) the loops counted where their parity is meant.
CountsLoops(u, label, after) ==
  IF buffer[u] = 0
  THEN /\ buffer' = [buffer EXCEPT ![u] = 1] /\ pc' = [pc EXCEPT ![u] = label]
       /\ UNCHANGED <<loop, phase>>
  ELSE /\ buffer' = [buffer EXCEPT ![u] = 0]
       /\ phase' = [phase EXCEPT ![u] = @ + 1] /\ loop' = [loop EXCEPT ![u] = @ + 1]
       /\ pc' = [pc EXCEPT ![u] = IF loop[u] + 1 < Loops THEN label ELSE after]

\* On to stage B, or to the next loop; past the last, the label after the loops.
Advance(u, label, after) ==
  IF buffer[u] = 0
  THEN /\ buffer' = [buffer EXCEPT ![u] = 1] /\ pc' = [pc EXCEPT ![u] = label]
       /\ UNCHANGED <<loop, phase>>
  ELSE /\ buffer' = [buffer EXCEPT ![u] = 0]
       /\ phase' = [phase EXCEPT ![u] = 1 - @] /\ loop' = [loop EXCEPT ![u] = @ + 1]
       /\ pc' = [pc EXCEPT ![u] = IF loop[u] + 1 < Loops THEN label ELSE after]

\* No loop is entered when there is nothing to contract.
Skip(u) ==
  /\ Loops = 0 /\ pc[u] \in {"wait_empty", "wait_full"}
  /\ pc' = [pc EXCEPT ![u] = IF u \in ComputeUnits THEN "done" ELSE "returned"]
  /\ UNCHANGED <<launch, loop, phase, buffer, full, empty, done, flying, commits, stage, acc>>

\* Wait until the stage is free, the other parity first; issue both operands' copies.
Load(u) ==
  /\ pc[u] = "wait_empty" /\ Loops > 0 /\ Over(empty[buffer[u]], 1 - phase[u])
  /\ flying' = flying \cup {[copy |-> <<u, o>>, into |-> buffer[u], slice |-> SliceOf(u)] : o \in Operands}
  /\ pc' = [pc EXCEPT ![u] = "arrive"]
  /\ UNCHANGED <<launch, loop, phase, buffer, full, empty, done, commits, stage, acc>>

\* `AsyncPartialTmaLoading::arrive`: expect what both operands' copies bring.
ArriveTma(u) ==
  /\ pc[u] = "arrive" /\ tma
  /\ full' = [full EXCEPT ![buffer[u]] = Arrived(@, 1, Cardinality(Operands), ArrivalCount)]
  /\ Advance(u, "wait_empty", "returned")
  /\ UNCHANGED <<launch, empty, done, flying, commits, stage, acc>>

\* (wrong) an arrival that commits no copies.
Uncommitted(u) ==
  /\ pc[u] = "arrive" /\ ~tma
  /\ full' = [full EXCEPT ![buffer[u]] = Arrived(@, 1, 0, ArrivalCount)]
  /\ Advance(u, "wait_empty", "returned")
  /\ UNCHANGED <<launch, empty, done, flying, commits, stage, acc>>

\* `AsyncPartialCyclicLoading::arrive`: commit the unit's copies, which holds
\* the phase until they landed, and arrive.
ArriveCopies(u) ==
  /\ pc[u] = "arrive" /\ ~tma
  /\ LET mine == {f \in flying : f.copy[1] = u}
         held == IF mine = {} THEN 0 ELSE 1
     IN /\ commits' = commits \cup {[on |-> buffer[u], waits |-> mine] : x \in 1 .. held}
        /\ full' = [full EXCEPT ![buffer[u]] = Arrived(@, 1 - held, 0, ArrivalCount)]
  /\ Advance(u, "wait_empty", "returned")
  /\ UNCHANGED <<launch, empty, done, flying, stage, acc>>

\* A copy lands: the engine counts its bytes off, or the commits that waited
\* for it alone arrive.
Lands(f) ==
  /\ flying' = flying \ {f}
  /\ stage' = [stage EXCEPT ![f.into][f.copy] = f.slice]
  /\ commits' = {[m EXCEPT !.waits = @ \ {f}] : m \in {n \in commits : n.waits # {f}}}
  /\ LET over(b) == Cardinality({m \in commits : m.waits = {f} /\ m.on = b})
     IN full' = [b \in Buffers |->
          Arrived(full[b], over(b), IF tma /\ b = f.into THEN -1 ELSE 0, ArrivalCount)]
  /\ UNCHANGED <<launch, pc, loop, phase, buffer, empty, done, acc>>

\* A computing unit finds the stage whole and begins to read it.
WaitFull(u) ==
  /\ pc[u] = "wait_full" /\ Loops > 0 /\ Over(full[buffer[u]], phase[u])
  /\ pc' = [pc EXCEPT ![u] = "compute"]
  /\ UNCHANGED <<launch, loop, phase, buffer, full, empty, done, flying, commits, stage, acc>>

\* `mma_partition` is through with the stage; the unit gives it back.
Compute(u) ==
  /\ pc[u] = "compute"
  /\ acc' = [acc EXCEPT ![u] = Append(@, {stage[buffer[u]][c] : c \in Copies})]
  /\ empty' = [empty EXCEPT ![buffer[u]] = Arrived(@, 1, 0, ReleaseCount)]
  /\ Advance(u, "wait_full", "done")
  /\ UNCHANGED <<launch, full, done, flying, commits, stage>>

\* `barrier_done.arrive_and_wait`.
ArriveDone(u) ==
  /\ pc[u] = "done"
  /\ done' = Arrived(done, 1, 0, ReleaseCount)
  /\ pc' = [pc EXCEPT ![u] = "wait_done"]
  /\ UNCHANGED <<launch, loop, phase, buffer, full, empty, flying, commits, stage, acc>>

\* (wrong) a unit that writes without waiting for the others.
WriteAtOnce(u) ==
  /\ pc[u] = "wait_done"
  /\ pc' = [pc EXCEPT ![u] = "returned"]
  /\ stage' = [b \in Buffers |-> [c \in Copies |-> Output]]
  /\ UNCHANGED <<launch, loop, phase, buffer, full, empty, done, flying, commits, acc>>

\* The stages are freed and the output staged into their memory.
WriteOut(u) ==
  /\ pc[u] = "wait_done" /\ Over(done, 0)
  /\ pc' = [pc EXCEPT ![u] = "returned"]
  /\ stage' = [b \in Buffers |-> [c \in Copies |-> Output]]
  /\ UNCHANGED <<launch, loop, phase, buffer, full, empty, done, flying, commits, acc>>

AllReturned == \A u \in Units : pc[u] = "returned"

LoadStep(u) == Load(u) \/ ArriveTma(u) \/ ArriveCopies(u) \/ Skip(u)
ComputeStep(u) == WaitFull(u) \/ Compute(u) \/ ArriveDone(u) \/ WriteOut(u) \/ Skip(u)
CopiesLand == \E f \in flying : Lands(f)

Next ==
  \/ \E u \in LoadUnits : LoadStep(u)
  \/ \E u \in ComputeUnits : ComputeStep(u)
  \/ CopiesLand
  \/ AllReturned /\ UNCHANGED vars

Spec == Init /\ [][Next]_vars
FairSpec ==
  /\ Spec /\ WF_vars(CopiesLand)
  /\ \A u \in LoadUnits : WF_vars(LoadStep(u))
  /\ \A u \in ComputeUnits : WF_vars(ComputeStep(u))
-----------------------------------------------------------------------------
Barriers == [bit : {0, 1}, pending : Nat, copies : Int]

\* The type invariant: no barrier takes more arrivals than it is armed with.
TypeOK ==
  /\ tma \in BOOLEAN /\ needed \in Needs
  /\ pc \in [Units -> {"wait_empty", "arrive", "wait_full", "compute", "done", "wait_done", "returned"}]
  /\ loop \in [Units -> 0 .. Loops] /\ phase \in [Units -> {0, 1}] /\ buffer \in [Units -> Buffers]
  /\ full \in [Buffers -> Barriers] /\ empty \in [Buffers -> Barriers] /\ done \in Barriers
  /\ \A b \in Buffers : full[b].copies \in (IF tma THEN -2 .. 2 ELSE {0})
  /\ \A f \in flying : f.copy \in Copies /\ f.into \in Buffers
  /\ stage \in [Buffers -> [Copies -> Nat \cup {Nothing, Output}]]
  /\ acc \in [ComputeUnits -> Seq(SUBSET (Nat \cup {Nothing, Output}))]

\* A unit computing on a stage finds the slice of its loop there, every copy
\* of it, for as long as it reads: no copy is late, none is early, and no
\* output is staged over it.
ReadsItsSlice ==
  \A u \in ComputeUnits : pc[u] = "compute" =>
    \A c \in Copies : stage[buffer[u]][c] = SliceOf(u)

\* When a unit stages its output over the inputs' memory no copy is in flight
\* and nobody reads a stage.
FreedStagesAreQuiet ==
  (\E u \in ComputeUnits : stage[0][<<Leader, "lhs">>] = Output) =>
    flying = {} /\ \A v \in ComputeUnits : pc[v] \in {"wait_done", "returned"}

\* Whoever returns has contracted every slice of the range once, in order, and
\* at most the one past it that makes the stages even.
WholeContraction ==
  \A u \in ComputeUnits : pc[u] = "returned" =>
    /\ Len(acc[u]) \in {needed, needed + 1}
    /\ \A i \in 1 .. Len(acc[u]) : acc[u][i] = {i - 1}

\* Every unit returns: no role waits for an arrival the other owes it.
AllReturn == <>AllReturned
-----------------------------------------------------------------------------
(***************************************************************************)
(* The inductive invariant.  A barrier keeps one bit of the number of      *)
(* phases it went through; `filled` and `freed` are those numbers for the  *)
(* full and the empty barrier of a stage, recovered from the units' loops. *)
(***************************************************************************)

\* How often a unit has been through a stage.
Passed(u, b) == loop[u] + (IF b < buffer[u] THEN 1 ELSE 0)

\* A unit between issuing a stage's copies and arriving for them.
ArrivingAt(u, b) == pc[u] = "arrive" /\ buffer[u] = b

FlyingInto(b) == {f \in flying : f.into = b}
Owns(u, m) == \E f \in m.waits : f.copy[1] = u
HasCommitted(u, b) == \E m \in commits : m.on = b /\ Owns(u, m)

\* The loading units whose arrival the stage's phase still misses: they are a
\* pass behind, or committed copies that fly.
Owing(b, filled) == {u \in Elected : Passed(u, b) = filled \/ HasCommitted(u, b)}

\* The computing units still to give the stage back.
Holding(b, freed) == {u \in ComputeUnits : Passed(u, b) = freed}

LoadUnitInv(u) ==
  /\ pc[u] \in {"wait_empty", "arrive", "returned"}
  /\ pc[u] = "arrive" => loop[u] < Loops
  /\ pc[u] = "wait_empty" => loop[u] < Loops \/ Loops = 0
  /\ pc[u] # "returned" => u \in Elected
  /\ pc[u] = "returned" /\ u \in Elected => loop[u] = Loops
  /\ loop[u] = Loops => buffer[u] = 0

\* What a computing unit accumulated are the slices of the stages it was through.
ComputeUnitInv(u) ==
  /\ pc[u] \in {"wait_full", "compute", "done", "wait_done", "returned"}
  /\ pc[u] = "compute" => loop[u] < Loops
  /\ pc[u] = "wait_full" => loop[u] < Loops \/ Loops = 0
  /\ pc[u] \in {"done", "wait_done", "returned"} => loop[u] = Loops
  /\ loop[u] = Loops => buffer[u] = 0
  /\ Len(acc[u]) = SliceOf(u)
  /\ \A i \in 1 .. Len(acc[u]) : acc[u][i] = {i - 1}

\* A copy in flight is one of a unit about to arrive for it, or a commit waits
\* for it; a unit has one commit at a time on a barrier.
CopiesInv ==
  /\ IsFiniteSet(flying)
  /\ flying \subseteq [copy : Copies, into : Buffers, slice : Nat]
  /\ tma => commits = {}
  /\ commits \subseteq [on : Buffers, waits : SUBSET flying]
  /\ \A m \in commits : \E u \in LoadUnits : Owns(u, m) /\ \A f \in m.waits : f.copy[1] = u
  /\ \A m \in commits, n \in commits, u \in LoadUnits :
       m.on = n.on /\ Owns(u, m) /\ Owns(u, n) => m = n
  /\ ~tma => \A f \in flying :
       \/ ArrivingAt(f.copy[1], f.into)
       \/ \E m \in commits : m.on = f.into /\ f \in m.waits

\* The full barrier of a stage counts the loading units it misses, each at most
\* one pass ahead of its phase, and with TMA the copies that fly.
FullInv(b, filled, freed) ==
  /\ full[b].bit = filled % 2
  /\ freed <= filled /\ filled <= freed + 1
  /\ \A u \in Elected :
       /\ filled <= Passed(u, b) /\ Passed(u, b) <= filled + 1 /\ Passed(u, b) <= freed + 1
       /\ ArrivingAt(u, b) => Passed(u, b) = filled /\ freed = filled
       /\ HasCommitted(u, b) => Passed(u, b) = filled + 1
  /\ full[b].pending = Cardinality(Owing(b, filled))
  /\ full[b].copies = IF ~tma THEN 0
                      ELSE Cardinality(FlyingInto(b)) - (IF ArrivingAt(Leader, b) THEN 2 ELSE 0)
  /\ full[b].pending # 0 \/ full[b].copies # 0

\* The empty barrier counts the computing units that hold the stage.
EmptyInv(b, filled, freed) ==
  /\ empty[b].bit = freed % 2
  /\ empty[b].pending = Cardinality(Holding(b, freed))
  /\ empty[b].pending # 0 /\ empty[b].copies = 0
  /\ \A u \in ComputeUnits :
       /\ freed <= Passed(u, b) /\ Passed(u, b) <= filled
       /\ pc[u] = "compute" /\ buffer[u] = b => filled = Passed(u, b) + 1

\* A full stage holds the slice the units that hold it expect; one being filled
\* holds what landed of the next.
ContentInv(b, filled, freed) ==
  /\ filled = freed + 1 => \A c \in Copies : stage[b][c] = 2 * freed + b
  /\ \A f \in FlyingInto(b) :
       /\ f.slice = 2 * filled + b
       /\ Passed(f.copy[1], b) = filled + 1 \/ ArrivingAt(f.copy[1], b)
  /\ \A c \in Copies :
       Passed(c[1], b) = filled + 1 \/ ArrivingAt(c[1], b) =>
         \/ stage[b][c] = 2 * filled + b
         \/ \E f \in FlyingInto(b) : f.copy = c

StageInv(b) ==
  \E filled \in 0 .. Loops, freed \in 0 .. Loops :
    FullInv(b, filled, freed) /\ EmptyInv(b, filled, freed) /\ ContentInv(b, filled, freed)

\* The last barrier opens when every computing unit is past its loops.
DoneInv ==
  LET arrived == {u \in ComputeUnits : pc[u] \in {"wait_done", "returned"}} IN
  /\ done.copies = 0
  /\ done.bit = 0 => done.pending = Cardinality(ComputeUnits \ arrived) /\ done.pending # 0
  /\ done.bit = 1 => arrived = ComputeUnits
  /\ (\E b \in Buffers, c \in Copies : stage[b][c] = Output) => done.bit = 1

IInv ==
  /\ TypeOK
  /\ \A u \in Units : phase[u] = loop[u] % 2
  /\ \A u \in LoadUnits : LoadUnitInv(u)
  /\ \A u \in ComputeUnits : ComputeUnitInv(u)
  /\ CopiesInv /\ DoneInv
  /\ \A b \in Buffers : StageInv(b)
=============================================================================
