------------------------------ MODULE CubeSlots ------------------------------
(***************************************************************************)
(* The units of one cube walking slots that rendezvous on `sync_cube`.     *)
(*                                                                         *)
(* The same slots are walked several times over, as a kernel does that     *)
(* opens them once and walks them in a loop, each walk with a total of its *)
(* own.  Every unit runs the schedule at its own pace between two syncs.   *)
(* A unit writes its share of a buffer, and reads the whole of it.         *)
(***************************************************************************)
EXTENDS WalkSchedule, FiniteSets

CONSTANTS
  Units,     \* the units of the cube
  Plans,     \* the plans a kernel may build
  MaxTotal,  \* the longest walk
  Walks      \* how many walks run over the same slots

ASSUME PlansAssumption ==
  \A p \in Plans :
    /\ p.depth \in Nat /\ p.entry \in {"pipelined", "prefetched"}
    /\ p.refills \in [DOMAIN p.refills -> {"EveryRegion", "Once"}]
    /\ Supported(p)
ASSUME BoundsAssumption == MaxTotal \in Nat \ {0} /\ Walks \in Nat \ {0}

VARIABLES
  plan,      \* fixed at comptime
  totals,    \* per walk, its regions
  program,   \* per walk, the operations the expansion leaves to every unit
  walk,      \* per unit, the walk it is in
  pc,        \* per unit, how many operations of that walk it is through
  share,     \* per operand and slot's buffer, per unit: what the unit wrote
             \* of it last, as the walk and the region it is of
  fetched    \* per unit, the region its registers hold

vars == <<plan, totals, program, walk, pc, share, fetched>>

Nothing == <<0, 0>>

OperandsOf(p) == DOMAIN p.refills
BuffersOf(p) == {b \in OperandsOf(p) \X (0 .. p.depth - 1) :
                   p.refills[b[1]] = "Once" => b[2] = FirstSlot}

\* The buffer slot s reads operand o from (`Stages::new`).
BufferOf(p, o, s) == <<o, IF p.refills[o] = "Once" THEN FirstSlot ELSE s>>

\* The buffers an operation writes, and reads: a refill those of the operands
\* it is for, a store every operand's of its slot, the kernel every one.
WrittenBy(p, op) ==
  IF op.do = "bring"
  THEN {BufferOf(p, o, op.slot) : o \in {x \in OperandsOf(p) : RefillsOf(p, op.slot)[x] = op.only}}
  ELSE IF op.do = "store" THEN {b \in BuffersOf(p) : b[2] = op.slot} ELSE {}
ReadBy(p, op) ==
  IF op.do = "read" THEN {BufferOf(p, o, op.slot) : o \in OperandsOf(p)} ELSE {}

Operands == OperandsOf(plan)
Buffers == BuffersOf(plan)

Init ==
  /\ plan \in Plans
  /\ totals \in [1 .. Walks -> 0 .. MaxTotal]
  /\ program = [w \in 1 .. Walks |-> Schedule(plan, totals[w])]
  /\ walk = [u \in Units |-> 1]
  /\ pc = [u \in Units |-> 0]
  /\ share = [b \in Buffers |-> [u \in Units |-> Nothing]]
  /\ fetched = [u \in Units |-> Nothing]

Finished(u) == walk[u] > Walks

\* The operation unit u comes to next.
Current(u) == program[walk[u]][pc[u] + 1]
Runs(u) == ~Finished(u) /\ pc[u] < Len(program[walk[u]])
AtOp(u, do) == Runs(u) /\ Current(u).do = do

\* (wrong) a unit with no share of a refill leaves the walk there.
LeavesEarly(u) ==
  pc' = [pc EXCEPT ![u] = IF AtOp(u, "bring") /\ u = CHOOSE v \in Units : TRUE
                          THEN Len(program[walk[u]]) ELSE @ + 1]

Advance(u) == pc' = [pc EXCEPT ![u] = @ + 1]

\* `sync_cube`: nobody leaves it before everybody is there.
SyncCube ==
  /\ \A u \in Units : AtOp(u, "sync")
  /\ pc' = [u \in Units |-> pc[u] + 1]
  /\ UNCHANGED <<plan, totals, program, walk, share, fetched>>

\* `Payload::bring`: u's share of every operand this refill is for.
Bring(u) ==
  /\ AtOp(u, "bring")
  /\ share' = [b \in Buffers |->
                 IF b \in WrittenBy(plan, Current(u))
                 THEN [share[b] EXCEPT ![u] = <<walk[u], Current(u).region>>] ELSE share[b]]
  /\ Advance(u)
  /\ UNCHANGED <<plan, totals, program, walk, fetched>>

\* `Stages::fetch`: u's share of the next region, into its registers.
Fetch(u) ==
  /\ AtOp(u, "fetch")
  /\ fetched' = [fetched EXCEPT ![u] = <<walk[u], Current(u).region>>]
  /\ Advance(u)
  /\ UNCHANGED <<plan, totals, program, walk, share>>

\* `Stages::store`: the registers, into every operand of the slot.
Store(u) ==
  /\ AtOp(u, "store")
  /\ share' = [b \in Buffers |->
                 IF b \in WrittenBy(plan, Current(u))
                 THEN [share[b] EXCEPT ![u] = fetched[u]] ELSE share[b]]
  /\ Advance(u)
  /\ UNCHANGED <<plan, totals, program, walk, fetched>>

\* The kernel's contraction over the slot's tiles.
Compute(u) ==
  /\ AtOp(u, "read")
  /\ Advance(u)
  /\ UNCHANGED <<plan, totals, program, walk, share, fetched>>

\* The walk is over for u, which goes on to the next over the same slots.
NextWalk(u) ==
  /\ ~Finished(u) /\ pc[u] = Len(program[walk[u]])
  /\ walk' = [walk EXCEPT ![u] = @ + 1]
  /\ pc' = [pc EXCEPT ![u] = 0]
  /\ UNCHANGED <<plan, totals, program, share, fetched>>

AllFinished == (\A u \in Units : Finished(u)) /\ UNCHANGED vars

UnitStep(u) == Bring(u) \/ Fetch(u) \/ Store(u) \/ Compute(u) \/ NextWalk(u)

Next == SyncCube \/ (\E u \in Units : UnitStep(u)) \/ AllFinished

Spec == Init /\ [][Next]_vars

\* A unit not waiting at a sync goes on, and a sync everybody reached opens.
FairSpec == Spec /\ WF_vars(SyncCube) /\ \A u \in Units : WF_vars(UnitStep(u))
-----------------------------------------------------------------------------
\* The buffers unit u is about to write, and about to read.
Writing(u) == IF Runs(u) THEN WrittenBy(plan, Current(u)) ELSE {}
Reading(u) == IF Runs(u) THEN ReadBy(plan, Current(u)) ELSE {}

\* Between two syncs no unit writes a buffer another reads, over every walk
\* and across the end of one walk and the start of the next: `sync_cube`
\* covers the fill before the read and the read before the refill.
NoDataRace ==
  \A u, v \in Units : u # v => Writing(u) \cap Reading(v) = {}

\* The region a read needs of operand o: a fixed one is brought once a walk.
RegionWanted(p, o, op) == IF p.refills[o] = "Once" THEN 0 ELSE op.region

\* A unit reads a region whole: every unit's share of every streamed operand
\* is of the region and the walk it reads, and of every fixed one of the walk.
ReadsItsRegion ==
  \A u \in Units : AtOp(u, "read") =>
    \A o \in Operands, v \in Units :
      share[BufferOf(plan, o, Current(u).slot)][v] = <<walk[u], RegionWanted(plan, o, Current(u))>>

\* Every unit gets through all the walks: no sync is left waiting for a unit
\* that took another branch.
WalksComplete == <>(\A u \in Units : Finished(u))
-----------------------------------------------------------------------------
(***************************************************************************)
(* The order the loops of `schedule::run` spell out, against the rule they *)
(* stand for: fill the next region while it is in the walk and fewer than  *)
(* depth regions ahead of the next read, and read otherwise.  The barrier  *)
(* slots are modelled over the rule.                                       *)
(***************************************************************************)
\* How many streamed fills, and how many reads, are among the first i.
IsFill(op) == op.do = "bring" /\ op.only = "EveryRegion"
IsRead(op) == op.do = "read"
Fills(text, i) == Cardinality({k \in 1 .. i : IsFill(text[k])})
Reads(text, i) == Cardinality({k \in 1 .. i : IsRead(text[k])})

\* What comes after so many fills and reads of a walk.
FillsFirst(depth, total, fills, reads) ==
  IF fills < total /\ fills < reads + depth
  THEN <<"bring", fills % depth, fills>> ELSE <<"read", reads % depth, reads>>

\* The unrolled schedule fills and reads the regions of the walk, each once,
\* each in its slot, in the order of the rule.
FollowsTheRule(p, total, text) ==
  /\ Fills(text, Len(text)) = total /\ Reads(text, Len(text)) = total
  /\ \A i \in 1 .. Len(text) : IsFill(text[i]) \/ IsRead(text[i]) =>
       <<text[i].do, text[i].slot, text[i].region>>
         = FillsFirst(p.depth, total, Fills(text, i - 1), Reads(text, i - 1))
LoopsFollowTheRule ==
  \A w \in 1 .. Walks :
    plan.entry = "pipelined" \/ HasFixed(plan) => FollowsTheRule(plan, totals[w], program[w])
-----------------------------------------------------------------------------
(***************************************************************************)
(* The inductive invariant behind the first two: what one text of          *)
(* operations has to be, and what the units have of it.                    *)
(***************************************************************************)
\* Some sync of the text lies between two of its operations, and before one.
SyncBetween(text, i, j) == \E k \in i + 1 .. j - 1 : text[k].do = "sync"
SyncBefore(text, j) == SyncBetween(text, 0, j)

\* A buffer that is written is not written again before operation j.
StaysUntil(p, text, b, i, j) == \A k \in i + 1 .. j - 1 : b \notin WrittenBy(p, text[k])

\* Every operation is of a slot there is, whatever touches a buffer comes
\* after a sync, the writes and the reads of one buffer have a sync between
\* them, a read comes after a write of what it needs with no other since, and
\* a store after the fetch of what it stores.
Rendezvoused(p, text) ==
  /\ \A i \in 1 .. Len(text) : text[i].slot < p.depth
  /\ \A i \in 1 .. Len(text) : text[i].do \in {"bring", "store", "read"} => SyncBefore(text, i)
  /\ \A i, j \in 1 .. Len(text) :
       WrittenBy(p, text[i]) \cap ReadBy(p, text[j]) # {} =>
         SyncBetween(text, i, j) \/ SyncBetween(text, j, i)
  /\ \A j \in 1 .. Len(text) : text[j].do = "read" =>
       \A o \in OperandsOf(p) : \E i \in 1 .. j - 1 :
         LET b == BufferOf(p, o, text[j].slot) IN
         /\ b \in WrittenBy(p, text[i]) /\ text[i].region = RegionWanted(p, o, text[j])
         /\ StaysUntil(p, text, b, i, j)
  /\ \A j \in 1 .. Len(text) : text[j].do = "store" =>
       \E i \in 1 .. j - 1 :
         /\ text[i].do = "fetch" /\ text[i].region = text[j].region
         /\ \A k \in i + 1 .. j - 1 : text[k].do # "fetch"

\* Unit u is past operation i of walk w.
Past(u, w, i) == w < walk[u] \/ (w = walk[u] /\ i <= pc[u])

\* No unit is past a sync another has yet to reach.
InTheSameEpoch ==
  \A u, v \in Units, w \in 1 .. Walks : \A i \in 1 .. Len(program[w]) :
    program[w][i].do = "sync" /\ Past(u, w, i) => Past(v, w, i)

\* A unit's share of a buffer is what its last write left there.
LastWrite(u, b, w, i) ==
  /\ Past(u, w, i) /\ b \in WrittenBy(plan, program[w][i])
  /\ \A x \in 1 .. Walks : \A k \in 1 .. Len(program[x]) :
       Past(u, x, k) /\ (w < x \/ (w = x /\ i < k)) => b \notin WrittenBy(plan, program[x][k])
SharesAreWritten ==
  \A u \in Units, b \in Buffers, w \in 1 .. Walks : \A i \in 1 .. Len(program[w]) :
    LastWrite(u, b, w, i) => share[b][u] = <<w, program[w][i].region>>

\* A unit's registers hold what it fetched last.
FetchesAreHeld ==
  \A u \in Units : ~Finished(u) => \A i \in 1 .. pc[u] :
    /\ program[walk[u]][i].do = "fetch"
    /\ \A k \in i + 1 .. pc[u] : program[walk[u]][k].do # "fetch"
    => fetched[u] = <<walk[u], program[walk[u]][i].region>>

TypeOK ==
  /\ plan \in Plans
  /\ totals \in [1 .. Walks -> 0 .. MaxTotal]
  /\ program = [w \in 1 .. Walks |-> Schedule(plan, totals[w])]
  /\ walk \in [Units -> 1 .. Walks + 1]
  /\ pc \in [Units -> Nat]
  /\ \A u \in Units : pc[u] <= IF Finished(u) THEN 0 ELSE Len(program[walk[u]])
  /\ share \in [Buffers -> [Units -> Nat \X Nat]]
  /\ fetched \in [Units -> Nat \X Nat]

IInv == TypeOK /\ InTheSameEpoch /\ SharesAreWritten /\ FetchesAreHeld

TextsRendezvous == \A w \in 1 .. Walks : Rendezvoused(plan, program[w])
=============================================================================
