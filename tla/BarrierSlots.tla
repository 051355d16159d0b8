---------------------------- MODULE BarrierSlots ----------------------------
(***************************************************************************)
(* One buffered walk of cubek-tile whose slots rendezvous on a full/empty  *)
(* pair of mbarriers (`Meeting::Barrier`).                                 *)
(*                                                                         *)
(* The units of one cube walk the same Total regions over Depth slots.     *)
(* With no plane set aside to fill, every unit fills and reads, in the     *)
(* order `schedule::run` interleaves the two.  With FillPlanes planes set  *)
(* aside, their units only fill and the units below them only read.        *)
(*                                                                         *)
(* Nothing but the parities of the two barriers tells a unit where the     *)
(* others are.  The phase of a barrier and the number of times a unit      *)
(* flipped its own parity are kept here as naturals; the code keeps their  *)
(* last bit, and every guard below looks at that bit and at nothing else.  *)
(***************************************************************************)
EXTENDS Integers, FiniteSets

CONSTANTS
  CubeDim,        \* CUBE_DIM, the units of the cube
  PlaneDim,       \* CUBE_DIM_X, the units of a plane
  FillPlanes,     \* planes set aside to fill (`fillers`)
  Depth,          \* slots
  Total,          \* regions of the walk
  BulkOperands,   \* operands the TMA engine delivers
  CopiedOperands  \* operands the units copy into the same slot

FillUnits == FillPlanes * PlaneDim

ASSUME CubeAssumption ==
  /\ CubeDim \in Nat /\ PlaneDim \in Nat \ {0} /\ FillPlanes \in Nat
  /\ FillUnits \in Nat /\ FillUnits < CubeDim
  /\ FillPlanes > 0 => FillUnits > 0

ASSUME WalkAssumption ==
  /\ Depth \in Nat \ {0} /\ Total \in Nat
  /\ IsFiniteSet(BulkOperands) /\ IsFiniteSet(CopiedOperands)

\* A slot is a barrier slot because an operand of it is delivered by the TMA
\* engine, and planes may be set aside only when every operand is
\* (`StagePlan::new` refuses the mix).
ASSUME PlanAssumption ==
  /\ BulkOperands # {}
  /\ FillPlanes > 0 => CopiedOperands = {}

Units == 0 .. CubeDim - 1
Slots == 0 .. Depth - 1

CollectiveFull == CopiedOperands # {}

(***************************************************************************)
(* Who takes part: `Meeting::producers`, `consumers` and `elected` give    *)
(* the counts and the issuer; `Stages::role` gives each unit its side.     *)
(***************************************************************************)
ReadCount == IF FillPlanes = 0 THEN CubeDim ELSE CubeDim - FillUnits

\* (wrong) `full` armed for the issuer alone, whoever else writes the slot.
LoneArrival == 1

PublishCount ==
  IF CollectiveFull THEN CubeDim ELSE IF FillPlanes > 0 THEN FillUnits ELSE 1

Elected == IF FillPlanes = 0 THEN 0 ELSE ReadCount

AllPublish == CollectiveFull \/ FillPlanes > 0

Fills(u) == FillPlanes = 0 \/ u >= ReadCount
Reads(u) == FillPlanes = 0 \/ u < ReadCount
\* (wrong) only the issuer arrives, whatever `full` was armed with.
ElectedPublishes(u) == u = Elected

Publishes(u) == Fills(u) /\ (AllPublish \/ u = Elected)

(***************************************************************************)
(* An mbarrier: the arrivals of the phase in progress, the bulk copies it  *)
(* still expects, and the phases completed so far.                         *)
(***************************************************************************)
Fresh == [arrived |-> 0, pending |-> 0, phase |-> 0]

\* (wrong) a phase that completes on its arrivals, bytes or no bytes.
ArrivalsOnly(b, count) ==
  IF b.arrived = count THEN [b EXCEPT !.arrived = 0, !.phase = @ + 1] ELSE b

Settle(b, count) ==
  IF b.arrived = count /\ b.pending = 0
  THEN [arrived |-> 0, pending |-> 0, phase |-> b.phase + 1]
  ELSE b

Arrive(b, count) == Settle([b EXCEPT !.arrived = @ + 1], count)
\* (wrong) a copy issued with no bytes declared for it.
ForgottenBytes(b, n) == b

ExpectCopies(b, n) == [b EXCEPT !.pending = @ + n]
CopyLands(b, count) == Settle([b EXCEPT !.pending = @ - 1], count)

\* A wait on the parity in progress blocks, and on the other one passes.
Passes(b, parity) == b.phase % 2 # parity

(***************************************************************************)
(* Places in the walk.  A place is a lap of the slots and a slot, as the   *)
(* two loops of `schedule::run` count them.                                *)
(***************************************************************************)
Region(at) == at.lap * Depth + at.slot
InWalk(at) == Region(at) < Total
First == [lap |-> 0, slot |-> 0]
After(at) == IF at.slot + 1 = Depth THEN [lap |-> at.lap + 1, slot |-> 0]
                                    ELSE [at EXCEPT !.slot = @ + 1]
Before(p, q) == p.lap < q.lap \/ (p.lap = q.lap /\ p.slot < q.slot)

VARIABLES
  full,     \* per slot, the producer -> consumer barrier
  empty,    \* per slot, the consumer -> producer barrier
  writes,   \* per unit and slot, how often the unit released a write
  reads,    \* per unit and slot, how often the unit released a read
  fillAt,   \* per unit, the place it fills next
  readAt,   \* per unit, the place it reads next
  step,     \* per unit, where it is inside the slot's acquire/release
  bulk,     \* per slot and bulk operand: the lap its window is of, and
            \* whether the engine has landed it
  share     \* per slot and unit: the lap the unit's share of the copied
            \* operands is of

vars == <<full, empty, writes, reads, fillAt, readAt, step, bulk, share>>

Nothing == -1

\* The barriers are armed by unit 0 and the cube synchronized before any
\* unit takes a role.
Init ==
  /\ full = [s \in Slots |-> Fresh]
  /\ empty = [s \in Slots |-> Fresh]
  /\ writes = [u \in Units |-> [s \in Slots |-> 0]]
  /\ reads = [u \in Units |-> [s \in Slots |-> 0]]
  /\ fillAt = [u \in Units |-> First]
  /\ readAt = [u \in Units |-> First]
  /\ step = [u \in Units |-> "ready"]
  /\ bulk = [s \in Slots |-> [o \in BulkOperands |-> [lap |-> Nothing, landed |-> TRUE]]]
  /\ share = [s \in Slots |-> [u \in Units |-> Nothing]]

(***************************************************************************)
(* The schedule.  A unit of a filling plane fills every region; a unit of  *)
(* a computing plane reads every region; a unit that does both runs        *)
(* Depth - 1 regions ahead of its reads for as long as the walk lasts.     *)
(***************************************************************************)
\* (wrong) the prefetch one region too far: a whole ring ahead and one more.
FillsTooFar(u) ==
  /\ Fills(u) /\ InWalk(fillAt[u])
  /\ Reads(u) => ~Before([readAt[u] EXCEPT !.lap = @ + 1], fillAt[u])

FillsNext(u) ==
  /\ Fills(u) /\ InWalk(fillAt[u])
  /\ Reads(u) => Before(fillAt[u], [readAt[u] EXCEPT !.lap = @ + 1])

\* (wrong) the drain leaves the last region unread.
StopsShort(u) == Reads(u) /\ Region(readAt[u]) + 1 < Total /\ ~FillsNext(u)

ReadsNext(u) == Reads(u) /\ InWalk(readAt[u]) /\ ~FillsNext(u)

Finished(u) == step[u] = "ready" /\ ~FillsNext(u) /\ ~ReadsNext(u)

\* (wrong) a fill that does not wait for its slot to be freed.
RefillsAtOnce(u) ==
  /\ step[u] = "ready" /\ FillsNext(u)
  /\ step' = [step EXCEPT ![u] = "filling"]
  /\ UNCHANGED <<full, empty, writes, reads, fillAt, readAt, bulk, share>>

\* `Slot::acquire_write`: wait on the parity `writes` was not born at.
AcquireWrite(u) ==
  LET s == fillAt[u].slot IN
  /\ step[u] = "ready" /\ FillsNext(u)
  /\ Passes(empty[s], (writes[u][s] + 1) % 2)
  /\ step' = [step EXCEPT ![u] = "filling"]
  /\ UNCHANGED <<full, empty, writes, reads, fillAt, readAt, bulk, share>>

\* `Payload::bring` a bulk operand, through `Meeting::fill`: the elected unit
\* declares its bytes on `full` and issues the copy.  The operands come one at
\* a time, so a copy may land before the next is declared.
IssueCopy(u, o) ==
  LET s == fillAt[u].slot
      lap == fillAt[u].lap IN
  /\ step[u] = "filling" /\ u = Elected
  /\ bulk[s][o].lap # lap
  /\ full' = [full EXCEPT ![s] = ExpectCopies(@, 1)]
  /\ bulk' = [bulk EXCEPT ![s][o] = [lap |-> lap, landed |-> FALSE]]
  /\ UNCHANGED <<empty, writes, reads, fillAt, readAt, step, share>>

\* The rest of `Payload::bring`: a unit writes its share of the copied
\* operands, and is done once every bulk copy of its own is issued.
Bring(u) ==
  LET s == fillAt[u].slot
      lap == fillAt[u].lap IN
  /\ step[u] = "filling"
  /\ u = Elected => \A o \in BulkOperands : bulk[s][o].lap = lap
  /\ step' = [step EXCEPT ![u] = "filled"]
  /\ share' = IF CollectiveFull THEN [share EXCEPT ![s][u] = lap] ELSE share
  /\ UNCHANGED <<full, empty, writes, reads, fillAt, readAt, bulk>>

\* `Slot::release_write`.
ReleaseWrite(u) ==
  LET s == fillAt[u].slot IN
  /\ step[u] = "filled"
  /\ full' = IF Publishes(u) THEN [full EXCEPT ![s] = Arrive(@, PublishCount)] ELSE full
  /\ writes' = [writes EXCEPT ![u][s] = @ + 1]
  /\ fillAt' = [fillAt EXCEPT ![u] = After(@)]
  /\ step' = [step EXCEPT ![u] = "ready"]
  /\ UNCHANGED <<empty, reads, readAt, bulk, share>>

\* `Slot::acquire_read`: wait the slot's fill.
AcquireRead(u) ==
  LET s == readAt[u].slot IN
  /\ step[u] = "ready" /\ ReadsNext(u)
  /\ Passes(full[s], reads[u][s] % 2)
  /\ step' = [step EXCEPT ![u] = "reading"]
  /\ UNCHANGED <<full, empty, writes, reads, fillAt, readAt, bulk, share>>

\* `Slot::release_read`: the unit frees the slot.
ReleaseRead(u) ==
  LET s == readAt[u].slot IN
  /\ step[u] = "reading"
  /\ empty' = [empty EXCEPT ![s] = Arrive(@, ReadCount)]
  /\ reads' = [reads EXCEPT ![u][s] = @ + 1]
  /\ readAt' = [readAt EXCEPT ![u] = After(@)]
  /\ step' = [step EXCEPT ![u] = "ready"]
  /\ UNCHANGED <<full, writes, fillAt, bulk, share>>

\* The engine lands one bulk copy, at any time and in any order.
BulkLands(s, o) ==
  /\ ~bulk[s][o].landed
  /\ bulk' = [bulk EXCEPT ![s][o].landed = TRUE]
  /\ full' = [full EXCEPT ![s] = CopyLands(@, PublishCount)]
  /\ UNCHANGED <<empty, writes, reads, fillAt, readAt, step, share>>

\* The walk is over: every unit took its last step and nothing is in flight.
WalkEnds ==
  /\ \A u \in Units : Finished(u)
  /\ \A s \in Slots, o \in BulkOperands : bulk[s][o].landed
  /\ UNCHANGED vars

UnitStep(u) ==
  \/ AcquireWrite(u) \/ Bring(u) \/ ReleaseWrite(u)
  \/ \E o \in BulkOperands : IssueCopy(u, o)
  \/ AcquireRead(u) \/ ReleaseRead(u)

Engine == \E s \in Slots, o \in BulkOperands : BulkLands(s, o)

Next == (\E u \in Units : UnitStep(u)) \/ Engine \/ WalkEnds

Spec == Init /\ [][Next]_vars

\* A unit that may proceed eventually does (the units of a cube are resident
\* together and a wait spins on the barrier), and the engine lands every copy.
Fairness ==
  /\ \A u \in Units : WF_vars(UnitStep(u))
  /\ \A s \in Slots, o \in BulkOperands : WF_vars(BulkLands(s, o))

FairSpec == Spec /\ Fairness
-----------------------------------------------------------------------------
Place == [lap : Nat, slot : Slots]
Mbarrier == [arrived : Nat, pending : Nat, phase : Nat]

\* The type invariant.
TypeOK ==
  /\ full \in [Slots -> Mbarrier]
  /\ empty \in [Slots -> Mbarrier]
  /\ writes \in [Units -> [Slots -> Nat]]
  /\ reads \in [Units -> [Slots -> Nat]]
  /\ fillAt \in [Units -> Place]
  /\ readAt \in [Units -> Place]
  /\ step \in [Units -> {"ready", "filling", "filled", "reading"}]
  /\ bulk \in [Slots -> [BulkOperands -> [lap : Nat \cup {Nothing}, landed : BOOLEAN]]]
  /\ share \in [Slots -> [Units -> Nat \cup {Nothing}]]

\* A unit reading a slot reads the region it walks, all of it: every bulk
\* operand has landed and is of this lap, and so is every unit's share of the
\* copied ones (what `acquire_read`'s wait on a single parity bit has to mean).
ReadsItsRegion ==
  \A u \in Units : step[u] = "reading" =>
    LET at == readAt[u] IN
    /\ \A o \in BulkOperands : bulk[at.slot][o] = [lap |-> at.lap, landed |-> TRUE]
    /\ CollectiveFull => \A v \in Units : share[at.slot][v] = at.lap

\* No slot is refilled while a unit reads it or while a copy of an earlier
\* fill is still landing in it (what `acquire_write`'s wait on `empty` means).
NoRefillUnderReader ==
  \A u \in Units : step[u] = "filling" /\ Publishes(u) =>
    LET s == fillAt[u].slot IN
    /\ \A v \in Units : ~(step[v] = "reading" /\ readAt[v].slot = s)
    /\ \A o \in BulkOperands : bulk[s][o].lap # fillAt[u].lap => bulk[s][o].landed

\* One parity bit is enough: a barrier is never two phases away from the one a
\* unit waits for, so a wait that passes on the bit passes on the phase.
ParityNeverAliases ==
  \A u \in Units : step[u] = "ready" =>
    /\ FillsNext(u) =>
         LET s == fillAt[u].slot IN
         Passes(empty[s], (writes[u][s] + 1) % 2) <=> empty[s].phase = writes[u][s]
    /\ ReadsNext(u) =>
         LET s == readAt[u].slot IN
         Passes(full[s], reads[u][s] % 2) <=> full[s].phase = reads[u][s] + 1

\* When the walk is over both barriers of every slot made the same number of
\* phases and neither is left part way through one, so the slots can be walked
\* again: the parities end where a second walk takes them up.
SidesAgreeAtTheEnd ==
  (\A u \in Units : Finished(u)) =>
    \A s \in Slots :
      /\ full[s].arrived = 0 /\ empty[s].arrived = 0
      /\ full[s].phase = empty[s].phase
      /\ \A u \in Units : /\ Fills(u) => writes[u][s] = full[s].phase
                          /\ Reads(u) => reads[u][s] = full[s].phase

\* Every unit gets through the walk.
WalkCompletes == <>(\A u \in Units : Finished(u))
-----------------------------------------------------------------------------
(***************************************************************************)
(* The protocol implements the feed its readers are written over: a region *)
(* is fed when the phase of its slot's `full` barrier completes.           *)
(***************************************************************************)
Publishers == {u \in Units : Publishes(u)}
Readers == {u \in Units : Reads(u)}

Fed == {r \in 0 .. Total - 1 : full[r % Depth].phase > r \div Depth}

Feed == INSTANCE RegionFeed WITH
  fed <- Fed,
  at <- [u \in Readers |-> Region(readAt[u])],
  inside <- [u \in Readers |-> step[u] = "reading"]

\* Every behaviour of the slots is one of the feed: regions come in order to
\* every reader, and none is fed over one a reader still needs.
FeedSpec == Feed!Spec
-----------------------------------------------------------------------------
(***************************************************************************)
(* The inductive invariant behind the safety properties.  What a unit      *)
(* knows is how often it passed a slot; what the barriers add up to is how *)
(* often everybody did.                                                    *)
(***************************************************************************)
\* How often a unit whose next place is `at` has been through slot s.
Passed(at, s) == at.lap + IF s < at.slot THEN 1 ELSE 0

FillingAt(u, s) == step[u] \in {"filling", "filled"} /\ fillAt[u].slot = s
ReadingAt(u, s) == step[u] = "reading" /\ readAt[u].slot = s

\* u wrote into slot s the fill the phase in progress is about.
HasBrought(u, s) ==
  \/ step[u] = "filled" /\ fillAt[u].slot = s
  \/ writes[u][s] = full[s].phase + 1

\* The publishers one fill ahead of the phase of `full`, the readers one read
\* ahead of the phase of `empty`, and the copies still in flight.
Ahead(s) == {u \in Publishers : writes[u][s] = full[s].phase + 1}
Freed(s) == {u \in Readers : reads[u][s] = empty[s].phase + 1}
InFlight(s) == {o \in BulkOperands : ~bulk[s][o].landed}

\* A unit's own program order: its counters are its places, a unit that is
\* inside a slot is there because the schedule sent it, and a unit that both
\* fills and reads fills at most one ring ahead of itself.
UnitInv(u) ==
  /\ \A s \in Slots : /\ writes[u][s] = Passed(fillAt[u], s)
                      /\ reads[u][s] = Passed(readAt[u], s)
  /\ step[u] \in {"filling", "filled"} => FillsNext(u)
  /\ step[u] = "reading" => ReadsNext(u)
  /\ Fills(u) /\ Reads(u) =>
       /\ ~Before(fillAt[u], readAt[u])
       /\ ~Before([readAt[u] EXCEPT !.lap = @ + 1], fillAt[u])

\* The `full` barrier counts the publishers one fill ahead of its phase, and
\* a publisher is ahead only of a phase every reader has freed.
FullInv(s) ==
  LET f == full[s]  e == empty[s] IN
  /\ e.phase <= f.phase /\ f.phase <= e.phase + 1
  /\ f.arrived = Cardinality(Ahead(s))
  /\ f.pending = Cardinality(InFlight(s))
  /\ ~(f.arrived = PublishCount /\ f.pending = 0)
  /\ \A u \in Publishers :
       /\ f.phase <= writes[u][s] /\ writes[u][s] <= f.phase + 1
       /\ writes[u][s] = f.phase + 1 => e.phase = f.phase
       /\ FillingAt(u, s) => writes[u][s] = e.phase /\ f.phase = e.phase

\* The `empty` barrier counts the readers one read ahead of its phase.
EmptyInv(s) ==
  LET f == full[s]  e == empty[s] IN
  /\ e.arrived = Cardinality(Freed(s))
  /\ e.pending = 0 /\ e.arrived # ReadCount
  /\ \A u \in Readers :
       /\ e.phase <= reads[u][s] /\ reads[u][s] <= e.phase + 1
       /\ reads[u][s] <= f.phase
       /\ ReadingAt(u, s) => f.phase = reads[u][s] + 1

\* What the slot holds: the region of the phase that is full, or what has been
\* brought so far of the one being filled.
ContentInv(s) ==
  LET f == full[s]  e == empty[s] IN
  /\ f.phase = e.phase + 1 =>
       /\ \A o \in BulkOperands : bulk[s][o] = [lap |-> e.phase, landed |-> TRUE]
       /\ CollectiveFull => \A v \in Units : share[s][v] = e.phase
  /\ HasBrought(Elected, s) =>
       \A o \in BulkOperands : bulk[s][o].lap = f.phase
  /\ \A o \in BulkOperands : ~bulk[s][o].landed =>
       /\ bulk[s][o].lap = f.phase
       /\ HasBrought(Elected, s) \/ FillingAt(Elected, s)
  /\ CollectiveFull =>
       \A v \in Units : HasBrought(v, s) => share[s][v] = f.phase

\* A place is one of the walk or the first past it.
PlacesInWalk ==
  \A u \in Units : Region(fillAt[u]) <= Total /\ Region(readAt[u]) <= Total

IInv ==
  /\ TypeOK
  /\ \A u \in Units : UnitInv(u)
  /\ \A s \in Slots : FullInv(s) /\ EmptyInv(s) /\ ContentInv(s)
=============================================================================
