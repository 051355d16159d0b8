---------------------------- MODULE WalkSchedule ----------------------------
(***************************************************************************)
(* The two schedules of a buffered walk, `Stages::pipelined` and           *)
(* `Stages::prefetched`, as the sequence of operations every unit of the   *)
(* cube executes over slots that rendezvous on `sync_cube`                 *)
(* (`Meeting::Cube`).  No operation depends on the unit: the loops run on  *)
(* `depth` and on the walk's total, which the whole cube shares.           *)
(*                                                                         *)
(* A plan is what `StagePlan::new` and the kernel fix at comptime: how     *)
(* many slots, which operands the walk leaves fixed, and the schedule.     *)
(***************************************************************************)
EXTENDS Integers, Sequences, SequencesExt

FirstSlot == 0

HasFixed(plan) == \E o \in DOMAIN plan.refills : plan.refills[o] = "Once"

\* When each operand of a slot is filled: a later slot shares the first one's
\* buffer for an operand the walk leaves fixed.
RefillsOf(plan, slot) ==
  [o \in DOMAIN plan.refills |->
    IF slot # FirstSlot /\ plan.refills[o] = "Once" THEN "Shared" ELSE plan.refills[o]]

Op(do, slot, region) == [do |-> do, slot |-> slot, region |-> region, only |-> "EveryRegion"]
Sync == Op("sync", FirstSlot, 0)

When(condition, ops) == IF condition THEN ops ELSE <<>>
Loop(n, Body(_)) == FlattenSeq([i \in 1 .. n |-> Body(i - 1)])

\* `Slot::acquire_write` and `Slot::publish` of a `Cube` slot.
Acquire == <<Sync>>
Publish == <<Sync>>

\* (wrong) a fixed operand written above the loop with no rendezvous.
QuietRefill(plan, slot, region, only) ==
  When(only = "EveryRegion", Acquire)
    \o <<[Op("bring", slot, region) EXCEPT !.only = only]>>

\* `Slot::refill`: a streamed refill always rendezvouses, a fixed one only
\* where the slot owns a fixed operand.
Refill(plan, slot, region, only) ==
  When(only = "EveryRegion" \/ \E o \in DOMAIN plan.refills : RefillsOf(plan, slot)[o] = only,
       Acquire \o <<[Op("bring", slot, region) EXCEPT !.only = only]>>)

FillFixed(plan, slot, region) == Refill(plan, slot, region, "Once")
FillStreamed(plan, slot, region) == Refill(plan, slot, region, "EveryRegion")
Consume(slot, region) == <<Op("read", slot, region)>>

\* (wrong) rounded down: the regions past the last whole lap are dropped.
WholeLaps(plan, total) == total \div plan.depth

\* As many laps of the slots as hold the walk's regions.
Laps(plan, total) == (total + plan.depth - 1) \div plan.depth

(***************************************************************************)
(* `schedule::run`: the fixed operands, the prologue, and laps that fill   *)
(* depth - 1 regions ahead of the one they read.                           *)
(***************************************************************************)
Prologue(plan, total) ==
  Loop(plan.depth - 1, LAMBDA slot : When(slot < total, FillStreamed(plan, slot, slot)))

\* (wrong) the drain publishes nothing: no fill follows, and no sync either.
SilentDrain(plan, total, r) ==
  LET j == r % plan.depth  ahead == r + plan.depth - 1 IN
  IF plan.depth = 1
  THEN FillStreamed(plan, FirstSlot, r) \o Publish \o Consume(FirstSlot, r)
  ELSE When(ahead < total, FillStreamed(plan, (j + plan.depth - 1) % plan.depth, ahead))
       \o When(r < total, Consume(j, r))

PipelinedLap(plan, total, r) ==
  LET j == r % plan.depth  ahead == r + plan.depth - 1 IN
  IF plan.depth = 1
  THEN FillStreamed(plan, FirstSlot, r) \o Publish \o Consume(FirstSlot, r)
  ELSE (IF ahead < total
        THEN FillStreamed(plan, (j + plan.depth - 1) % plan.depth, ahead)
        ELSE When(r < total, Publish))
       \o When(r < total, Consume(j, r))

Pipelined(plan, total) ==
  When(HasFixed(plan), Loop(plan.depth, LAMBDA slot : FillFixed(plan, slot, 0)))
  \o Prologue(plan, total)
  \o Loop(Laps(plan, total) * plan.depth, LAMBDA r : PipelinedLap(plan, total, r))

(***************************************************************************)
(* `prime` and `prefetching_laps`: the next region is fetched into         *)
(* registers before the slot is read, and stored after.                    *)
(***************************************************************************)
Prime(plan, total) ==
  When(0 < total, FillStreamed(plan, FirstSlot, 0) \o Publish)

PrefetchingLap(plan, total, r) ==
  LET j == r % plan.depth  target == (j + 1) % plan.depth IN
  When(r < total,
    When(r + 1 < total, <<Op("fetch", target, r + 1)>>)
    \o Consume(j, r)
    \o When(r + 1 < total,
         When(plan.depth = 1, Publish) \o <<Op("store", target, r + 1)>> \o Publish))

Prefetched(plan, total) ==
  IF HasFixed(plan) THEN Pipelined(plan, total)
  ELSE Prime(plan, total)
       \o Loop(Laps(plan, total) * plan.depth, LAMBDA r : PrefetchingLap(plan, total, r))

Schedule(plan, total) ==
  IF plan.entry = "pipelined" THEN Pipelined(plan, total) ELSE Prefetched(plan, total)

\* `prefetched` refuses more than two slots, `wrap` none at all.
Supported(plan) ==
  /\ plan.depth > 0
  /\ plan.entry = "prefetched" /\ ~HasFixed(plan) => plan.depth <= 2
=============================================================================
