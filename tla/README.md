# A verification of cubek's kernel protocols

cubek is a library of GPU kernels written in Rust with CubeCL: matrix
multiplication, convolution, attention, reduction, FFT, interpolation, pooling,
quantization and random generation.  A kernel is one program run by every *unit*
(thread) of a *cube* (block); units meet in shared memory, on a cube-wide
`sync_cube`, on hardware *mbarriers* and on global atomics.  Most of what the
repository computes is arithmetic a test compares with a reference.  What a test
hardly reaches is how the units agree on *when* a piece of memory holds *what*:
a wrong arrival count hangs a device or reads stale bytes on one interleaving in
a million; a share rounded the wrong way loses a column at the one size nobody
tried.  This directory models those protocols, and the kernels themselves down to
the cell each unit reads and writes, checks them with TLC, and proves seven of
the protocols with TLAPS for every size.

## 1. Inventory

### cubek-tile (`src/crates/cubek-tile`)

| Part | State | Operations | What is hard | What makes it correct |
|---|---|---|---|---|
| Slot rendezvous, `load/rendezvous`, `load/pipeline/slot.rs` | per slot a `full`/`empty` mbarrier pair, per unit and slot two parities | acquire/release of a write and of a read, bulk copies landing | units a lap apart, one parity bit, late bytes | a reader meets its region whole; no refill under a reader; nobody waits forever |
| Buffered walk, `load/pipeline/base.rs`, `fill.rs`, `plan.rs` | `depth` slots, the walk | `pipelined`, `prefetched`, a kernel's own split walk (`role`) | the same slots under `sync_cube`: races between a fill, a read, a refill and a second walk | no race on a slot; every unit syncs the same number of times |
| Walk portions, `space/walk/portion.rs` | none | `Walk::portion`, `touched`, `region`, `steps` | rounding at the edges, a split inside a region, more instances than steps | the portions partition the walk's steps |
| Last cube in, `ops/reduce/arrival.rs` | a global counter | `Arrival::count_in` | the cubes' order; visibility of what the others stored | exactly one cube is last, and it sees every partial |
| Drain and seeding, `tile/accumulator/drain.rs`, `launch/arg/accumulate.rs`, `space/share.rs` | the output buffer | seed, commit, shared commit, unit shares and folds | several cubes and units draining into one cell | each contribution lands once |
| Shared-memory accumulation, `tile/accumulator/smem_accumulation.rs` | a shared array of atomics | zero, add, read | the zero racing an add | the sum is every unit's |
| Split attention merge, `ops/attention/splits.rs`, `stream.rs` | shared state of a team | publish, merge, fold | phases of one scratch buffer | the merged state is that of the whole row |
| Spaces, levels, projections, layouts, `space/`, `layout/` | none (compile time) | coordinate algebra | div/mod composition | a coordinate maps to one cell |
| Leaves, `ops/matmul/leaf`, `tile/kind` | registers, fragments | arithmetic | numerics | left to the repository's tests |

### cubek-matmul (`src/crates/cubek-matmul`)

| Part | State | Operations | What is hard | What makes it correct |
|---|---|---|---|---|
| Specialized matmul, `multi_level/components/global/multi_stage/specialized` | `empty`/`full` barriers for two stages, `done` | load planes and compute planes | roles, phases, the last loads | as the slots above |
| Double buffering and ordered double buffering | two stages, an event listener | loads spread over the compute of the other stage | job counts that do not divide, an odd number of stages | every load job runs, once, before its stage is read |
| Simple matmul, sync/async/TMA readers | one stage, a barrier | load, wait, compute | reload under a reader | a stage is read whole and not refilled while read |
| Tiled matmul, `tiled/` | as cubek-tile | users of the buffered walk, split-k | | |
| Cube counts, planes, selection heuristics | none | pure functions | coverage of the problem | every tile is one cube's |

### The other crates

| Crate | What it holds | What is hard |
|---|---|---|
| cubek-attention | flash attention, forward: a cube per stage of queries, blocks of keys and values reloaded into one stage; backward: four kernels in a row | reloads, rows that belong to a plane's fragments, masks and overhanging rows |
| cubek-reduce | a unit, a plane or a cube per result; the sum of a tensor over cubes | shared trees of any size, idle units, tails of vectors, lists of the k largest |
| cubek-std | cube counts and the map of a cube to its place ("hypercube"), tiles, test oracles | limits of the device, cubes to spare, swizzled orders |
| cubek-convolution | convolutions and gradients as matmuls of unfolded operands; direct and depthwise kernels | padding, dilation, groups, what hangs over a stage |
| cubek-pool, cubek-interpolate | windowed kernels and their gradients | windows past the edge, inverse windows |
| cubek-fft | complex and real transforms, in a window or by four steps | in-place butterflies, packed halves |
| cubek-quant | quantize and dequantize, per tensor or block | which unit stores a scale, vectors against blocks |
| cubek-random | random fills | streams of draws, pairs, checked tails |
| cubek-test-utils, benchmarks, xtask, cubek | registry, progress files, CLI, facade | nothing that runs concurrently with a kernel |

### How the parts interact

A kernel cuts its problem into *regions* with a `Walk`, takes its `portion` of
them, opens `Stages` (slots) in shared memory and drives the slots with
`pipelined`, `prefetched` or a role split.  Inside, `Meeting` picks the
rendezvous from how the operands are delivered: `sync_cube` when units copy
elements, an mbarrier pair when the TMA engine delivers one or when planes are set
aside to fill.  What the walk accumulated is drained to global memory, by one
cube or, for a split reduction, by several, with atomics or with a last-cube-in
`Arrival` that folds the partials.

Each part's hazards, at the line where they bite and with the properties that
would catch them, are listed in `PROJECT.json`.

## 2. Modules

Reading order.  `X -> Y` says X extends or instantiates Y.

| Module | Models | Built on |
|---|---|---|
| `RegionFeed` | what the readers of a walk are promised: an ordered feed of regions | |
| `BarrierSlots` | slots on a pair of mbarriers | instantiates `RegionFeed` |
| `BarrierSlotsProofs` | theorems about them | `BarrierSlots`, TLAPS |
| `WalkSchedule` | the operations `schedule::run` and `prefetching_laps` expand to | |
| `CubeSlots` | slots on `sync_cube`, units running that schedule | `WalkSchedule` |
| `Unrolling` | induction over the naturals, and over a loop as it is unrolled | TLAPS |
| `CubeSlotsProofs` | theorems about both | `CubeSlots`, `Unrolling` |
| `CubeOrder`, `WalkOdometer` | the swizzle, and how a level shares a grid's tiles out | each other |
| `WalkOdometerProofs` | theorems about both | `WalkOdometer`, `Unrolling` |
| `StreamK` | the portions of a flat grid, and cubes that drain shared regions | |
| `StreamKProofs` | theorems about them | `StreamK`, TLAPS |
| `Arrival`, `ArrivalProofs` | the last cube in, and theorems about it | TLAPS |
| `UnitDrain` | units and planes that hold parts of one cell | |
| `SpecializedMatmul`, `SpecializedMatmulProofs` | load planes and compute planes over two stages, and theorems about them | TLAPS |
| `StageEvents`, `DoubleBuffer` | the program a double-buffered matmul expands to, and the units that run it | each other |
| `DoubleBufferProofs` | theorems about both | `DoubleBuffer`, `Unrolling` |
| `CubeSteps` | what a kernel leaves to its units: steps over cells that hold bags of inputs | |
| `Selections` | how reductions that keep the largest items choose them | |
| `CubeMachine` | the units of a launch, each at its own pace through its steps | `CubeSteps`, `Selections` |
| `ReduceKernels` | cubek-reduce | `CubeSteps`, `Selections` |
| `FftKernels`, `RandomKernels`, `AttentionGradients` | cubek-fft, cubek-random, the backward pass of cubek-attention | `CubeSteps` |
| `NhwcTensors`, `PoolKernels`, `QuantKernels` | tensors with channels innermost; cubek-pool; cubek-quant | `CubeSteps` |
| `CubeCounts`, `MatmulMemory` | cubek-std's cube counts; batched matrices in memory | `CubeOrder`, each other |
| `StageMatmuls` | a stage of a matmul: its loading, its partition, its writing, over any views | `MatmulMemory` |
| `MatmulKernels`, `MatrixMatmul` | the simple and the double-buffered matmuls over any views, and over matrices | `StageMatmuls`, `StageEvents` |
| `GemmKernels` | gemm, gemv and naive matmul | `MatmulMemory` |
| `ConvKernels` | convolutions as matmuls of unfolded operands; direct and depthwise | `MatmulKernels`, `NhwcTensors` |
| `FoldKernels` | the attention operations of cubek-tile, and the shared-memory accumulation | `CubeSteps` |
| `FlashKernels` | the forward pass of cubek-attention | `FoldKernels`, `StageMatmuls` |
| `MCCubeKernels` | the problems each kernel is checked on, by family | `CubeMachine` and every kernel |
| other `MC...` | the instances TLC checks, where a configuration cannot give them | one each |

An operator commented `(wrong)` stands beside the definition it is a plausible
mistake of: each property was seen to fail with one of them in place of the real
one (`PROJECT.json`, "mutants").

### BarrierSlots

*Code*: `load/rendezvous/base.rs` (`Meeting::Barrier`), `protocol.rs`
(`Mbarrier`), `load/pipeline/slot.rs`, `fill.rs`, `base.rs`.

`full` and `empty` hold, per slot, an mbarrier: arrivals of the phase in progress,
bulk copies still expected, and how many phases completed.  `writes` and `reads`
are each unit's own parities, as counts; guards look at their last bit alone, as
the code does (`Passes`).  `fillAt` and `readAt` are the two places of
`schedule::run`, and `step` where a unit is inside an acquire/release pair.
`bulk` and `share` say of which lap the slot's contents are.

| Action | Code |
|---|---|
| `AcquireWrite`, `ReleaseWrite`, `AcquireRead`, `ReleaseRead` | the functions of `Slot` |
| `IssueCopy` | `Meeting::fill`: the elected unit declares bytes and issues a copy |
| `Bring` | the unit's own share in `Slot::refill` |
| `BulkLands` | the TMA engine (external): any time, any order |

`FeedSpec` is the refinement: with `fed` the regions whose `full` phase
completed, every behaviour of the slots is a behaviour of `RegionFeed`.

### WalkSchedule and CubeSlots

*Code*: `load/pipeline/base.rs`, `fill.rs`, `plan.rs`, `payload/pair.rs`, for
`Meeting::Cube`.

The schedule does not depend on the unit, so `WalkSchedule` unrolls it into a
sequence of operations (`sync`, `bring`, `fetch`, `store`, `read`) from a plan
and a total, with the branches of the code in their order, and `CubeSlots` runs
that sequence in every unit, one operation at a time, in every interleaving
`sync_cube` leaves.  `share` holds the walk and region each unit's part of a
buffer is of.  Several walks run one after the other over the same slots.
`WrittenBy` and `ReadBy` are the buffers an operation touches, for the actions,
the properties and the proofs alike.
`LoopsFollowTheRule` ties the two slot models together: wherever a text is in its
walk, as many fills and reads behind it as there are (`Fills`, `Reads`), the next
is the one `FillsNext`/`ReadsNext` of `BarrierSlots` would let go, and at the end
all regions were filled and read.

### CubeOrder and WalkOdometer

*Code*: `space/partition/cube_order.rs`, `space/walk/base.rs`,
`distribution.rs`, `order.rs`.

A launch is a level (its axes, each walked whole, one tile an instance, spread
across workers in runs or turns, or taken in turns by the units there are; its order
on the grid; which way its steps go) and the coordinate its first axis may be routed
to.  `LaunchesAssumption` says which there are: what the host calls divided is,
turns are interleaved, and a swizzled level has one axis on X and one on Y whose
boxes a word can index.  Axes that ride one hardware dimension are the digits of a
position (`Inner`, `Position`), and the axes of a walk the digits of a step (`Digit`);
both are products over the places of the axes, the last fastest (`ProductFrom`).
`Fold` puts the two together into a tile.  The instances take their regions in step,
since walks share nothing, and `taken` counts how often each tile was taken.
Subtractions in the swizzle wrap at `Word`.

### StreamK

*Code*: `space/walk/portion.rs`, `launch/arg/accumulate.rs`; the kernel around
them is `stream_matmul` in `crates/cubek-tile/tests/tile/stream.rs`.

`Start` to `To` are the arithmetic of `Walk::portion`, in words of a device.  Cubes
contract their part of one region after another into `acc` and add it, a cell at a
time, into `cell`, which records how often each step landed.

### Arrival

*Code*: `ops/reduce/arrival.rs`; the kernel around it is `softmax_denominator`
in `crates/cubek-tile/tests/tile/arrival.rs`.

A cube's stores are its own until `sync_storage` releases them to the device;
the counter is one atomic; `seen` is what a cube is *sure* to see after its
second `sync_storage`.

### UnitDrain

*Code*: `space/share.rs`, `tile/accumulator/drain.rs`,
`tile/kind/memory/base.rs` (`Write::admits`).

A value is the bag of contributions added into it.  Each plane seeds, folds (the
plane's reduction, or a butterfly step per bit of the mask) and commits, several
passes over, into its own cells or cells it shares.

### SpecializedMatmul

*Code*: `multi_stage/specialized/matmul.rs`, `read/strategy/async_partial_tma.rs`,
`async_partial_cyclic.rs` of cubek-matmul.

Loading units wait for a stage to be free, issue copies and arrive; computing
units wait for it to be full, multiply and give it back; at the end they meet on
a third barrier and stage the output over the input stages.  Barriers keep their
phase *bit* here.  Whether the TMA engine or each unit's own copies deliver is
chosen at the start (`tma`), as is the number of stages (`needed`).

### StageEvents and DoubleBuffer

*Code*: `multi_stage/double_buffering/matmul.rs`, `ordered/matmul.rs`,
`double_buffer_execution.rs`, `event_listener.rs`,
`tile/variants/stage/partition.rs`, the readers.

What CubeCL's expansion unrolls is a straight program per role; `StageEvents`
computes it: the reads of a stage matmul with the loading tasks
`DoubleBufferingEventListener` launches between them, the loops, the view steps
and the synchronisms.  `DoubleBuffer` runs it in every unit.  A piece of a stage
is what one task of one unit brings, and holds the slice of k it was brought for;
an ordered lhs is read by the plane that loads it, any other operand by all.

The same program is given values by `MatmulKernels`: there a loading task moves
the vectors of its strategy's share, a read fills a fragment, and a multiplication
takes the fragments in.  `DoubleBuffer` has the multiplications left out (`Registers`
says which): they touch nothing but registers, which it does not have.  The
two are complementary.  On the machine a team reads and multiplies as one, so that
a `sync_plane` too few goes unseen, and copies land where they are issued: those
are `DoubleBuffer`'s.  In `DoubleBuffer` a slice is a number, so that a wrong place
in it goes unseen: that is `MatmulKernels`'.

### The kernels: CubeSteps, CubeMachine, MCCubeKernels

*Code*: the `#[cube]` functions of each crate, with the routine or launch function
that decides how many cubes of how many units run them.

The control flow of nearly every kernel of the repository depends on the problem,
on the blueprint and on where a unit is, and never on the data.  So a kernel is a
function from a problem to the sequence of *steps* each unit takes.  A step is
taken by some units together and assigns cells (registers, shared and global
memory): a unit alone moves data; all the units of a cube with nothing to assign
are a `sync_cube`; the units of a plane that read each other's registers are a
plane operation; all units of the launch are the end of one kernel and the start
of the next.  The steps come from the code's own arithmetic of shares, loops and
early returns, in its order.  `CubeMachine` then runs the units at their own
pace, `at` being how far each is and `memory` what the cells hold.

*Bags.*  What a cell holds is a bag: how often each input, or product of inputs,
is in it, and turned by which root of unity.  Sums, products and multiples are
exact on bags and keep every input apart, so that a value lost, added twice,
stale, multiplied by the wrong partner or by the wrong twiddle makes another bag.
The same turns stand for powers of e in a softmax, whose scores are small whole
numbers: a weight taken against the wrong maximum, or a correction forgotten,
leaves a wrong power.  What a maximum or a k-largest keeps is chosen on numbers
(`Selections`), where ties and the lowest item matter.

*Granularity.*  What one unit does between two synchronisms is one step where its
accesses commute with those of others; `NoDataRace` says they do, and is checked
in every state: two units ready at once may not touch one cell unless both read,
both add atomically or both put the same value.  A copy the hardware makes later
is not a step of its own here (those are `SpecializedMatmul` and `BarrierSlots`).

| Module | What is translated |
|---|---|
| `ReduceKernels` | the inferred and the forced blueprints of `routines/{unit,plane,cube}.rs`, the three kernels of `components/global`, readers, writers, the shared tree, `shared_sum`; every instruction: sums, means, products, flags, magnitudes, extrema and the k largest with or without coordinates |
| `FftKernels` | `cfft.rs`, `fft_parallel.rs`, `rfft.rs`, `irfft.rs`, `rfft_large.rs`: bit reversal, stages, the four-step transform's three kernels, packing and unpacking |
| `StageMatmuls` | tiling orders, stage layouts, the full loading strategies (cyclic, strided, tilewise, ordered; asynchronous cyclic and strided, by the width the hardware copies; a tensor map's, by the elected unit), partitions and their schedule, accumulator and output stages, writers.  The views of global memory are operators the instance gives |
| `MatmulKernels` | the cubes of the simple, the double-buffered and the ordered matmul, single and double-buffered fragments, the partial loading strategies, several stages to a cube |
| `GemmKernels` | what the routines prepare or refuse; dot, outer product, perpendicular gemv with its shuffles, naive |
| `CubeCounts` | cube counts with their fallback, SM allocations, the map to a place |
| `ConvKernels` | im2col, weight, out and bias layouts and which checks each kernel hands them; the three kernels over `MatmulKernels`; the direct and the depthwise convolution, a unit to a run of outputs |
| `FlashKernels` | setup, loaders, the two matmuls of a block, fragments placed by rows (whitebox) or bounced through a scratch, online softmax, masks, the writer |
| `FoldKernels` | `StreamedFold`, its splits and merges, the fold through shared tiles, the tests' softmax, `SmemAccumulation` |
| `PoolKernels`, `QuantKernels`, `RandomKernels`, `AttentionGradients` | a unit to an output (or to a run of them) |

What each kernel must compute (`wanted`) is not derived from the kernel: where the
repository has a CPU reference (`eval/cpu_reference`), it is a translation of that.

*Fragments.*  Where a matrix unit keeps the elements of a fragment is the
hardware's; the model gives each lane the cells the code's whitebox layout names,
and leaves the rest to a plane operation.  The naive matmul's cubes hold 2 planes
in place of 8, since units that share nothing only multiply the states.

## 3. Runs and bounds

| Run | Instance | What it shows |
|---|---|---|
| `slots_filled` | 3 reading units, 1 filling plane of 2, 2 slots, 5 regions, 2 bulk operands | `IInv`, `NoRefillUnderReader`, `WalkCompletes`, the refinement `FeedSpec` |
| `slots_mixed` | 3 units that fill and read, 2 slots, 5 regions, one operand bulk and one copied | `TypeOK`, `ReadsItsRegion`, `ParityNeverAliases`, `SidesAgreeAtTheEnd`, `WalkCompletes` |
| `cube_slots` | 3 units, 1 to 4 slots, all plans, two walks of 0 to 5 regions | no race, whole reads, loops in the order of the rule, everybody gets through |
| `odometer` | about 1,000 levels of up to 3 axes of up to 5 tiles, routed or not | each tile once; routed walks stay in the grid; off the grid past it |
| `stream_k` | every grid of up to 4 regions of up to 3 steps over up to 4 cubes | each step lands once; portions balance |
| `arrival_rows` | 2 cubes that meet and 1 alone, 2 units each | one merges, it sees everything, and it happens |
| `unit_drain` | 2 planes of 8 units, 9 levels, 2 passes, every destination and start | each contribution once |
| `drain_turns` | the same with output tiles in turns | a contribution lost (section 6) |
| `specialized` | 2 loading and 2 computing units, 0, 4 or 5 stages, both deliveries | `IInv`, right slice, quiet stages at the end, whole contraction, all return |
| `double_buffer` | 2 planes of 2 units, 12 cases of partition, jobs, roles and 1 to 4 stages | right slice, no race, no task lost, all finish |
| `cube_kernels` | the families of kernels of `CubeKernels.cfg`, each over one to hundreds of small problems; five families whose hazards do bite are kept out (section 6) | no race, no read of what nobody wrote, the whole answer, everybody through |
| `conv_ragged` | the gradient of a weight of two taps and one channel | a tap overwritten (section 6) |

Why these are enough to be interesting:

- *Slots*: two slots and five regions take every slot through two full laps and a
  part of a third, so a parity comes back to where it began; two units a filling
  plane let one run a lap ahead of the other.
- *Cube slots*: walks of zero regions, fewer than the ring, its multiple and not,
  each followed by another.  Three units, one of which may linger while two go on.
- *Odometer*: grids the workers divide and do not, more workers than tiles, a
  strip that does not divide, a grid of no tile.
- *StreamK*: more cubes than steps, a region shared by three cubes, a portion
  inside one region.
- *UnitDrain*: eight units make masks with a hole in the middle.
- *Specialized*: three loops turn each barrier over and back.
- *Kernels*: 1 to 6 units, in 1 to 3 cubes; sizes the shares do not divide, tiles
  over the edge of every axis, cubes to spare, several stages to a cube; 3 and 5
  accumulators in a shared tree, of one result to a write (two race, section 6); windows of 4 and 8; every small pooling window.
  Units of different cubes share nothing but the answer, and a kernel's steps are
  the same at any size, so that a size of each kind is enough: the parts that have
  sizes of their own kind (a tree's shape, a window's clamp) are enumerated.
- *Matmuls*: one, two and three stages along k, the last of them cut or, where a
  buffered matmul rounds three up to four, all past the edge; partitions of one, two
  and four tiles, along k included.
- *Double buffer*: fewer tasks than events, as many, and more; one and two rhs
  fragments; an odd number of stages.

`Word` is 65536 in the runs: no product of these grids reaches it, and the
swizzle's wrap shows at any size.  State spaces are finite without constraints:
each walk ends.

### Fairness

Weak fairness of each unit's steps (of each cube's, for `Arrival`), and of the
engine that lands copies.  The units of a cube are resident together, a wait
spins on its barrier while the hardware schedules the other warps, and a bulk copy
that was issued completes: nothing more is assumed, and no step is strongly fair.
For cubes it is assumed only that a cube that runs goes on, no cube waits for
another in `Arrival` or `StreamK`.  In `CubeMachine` it is only that
some unit that can go on does: units do not spin, so whoever is ready stays ready.

### Modelling assumptions

- The units of a plane run in step in `UnitDrain`, as its code assumes; the planes
  are interleaved.  In every other module units are interleaved one by one, which
  is coarser only in what a single store or load of a unit's share is: one step.
- A store to shared memory is seen by whoever is past the next synchronism of the
  cube.  Global stores need `sync_storage` (`Arrival`).
- What is a launch's duty is initial state: the zeroed counter of `Arrival`, the
  zeroed output of `StreamK`.
- An mbarrier is the hardware's: `Mbarrier` in `protocol.rs` and the intrinsics
  say what the code relies on.

## 4. Proofs

TLAPS proves, for every value of the constants that meets the named assumptions:

| Theorem | Says |
|---|---|
| `BarrierSlotsProofs!Invariance` | `Spec => []IInv` |
| `TypeCorrect`, `ReadersSeeTheirRegion`, `NobodyReadsARefill`, `OneBitIsEnough`, `SidesEndTogether` | `TypeOK`, `ReadsItsRegion`, `NoRefillUnderReader`, `ParityNeverAliases`, `SidesAgreeAtTheEnd` |
| `SlotsFeedRegions` | `Spec => FeedSpec`: the slots implement `RegionFeed` |
| `CubeSlotsProofs!Invariance` | `Spec => []IInv` |
| `NothingRaces`, `ReadsAreWhole`, `TheLoopsFollowTheRule` | `NoDataRace`, `ReadsItsRegion`, `LoopsFollowTheRule` |
| `SpecializedMatmulProofs!Invariance` | `Spec => []IInv` |
| `UnitsReadTheirSlice`, `NothingIsStagedOverAStage`, `TheRangeIsContracted` | `ReadsItsSlice`, `FreedStagesAreQuiet`, `WholeContraction` |
| `DoubleBufferProofs!Invariance` | `Spec => []IInv` |
| `ReadsAreOfTheirSlice`, `NothingRaces`, `TasksAreLoadedOnce` | `ReadsItsSlice`, `NoDataRace`, `EveryTaskOnce` |
| `WalkOdometerProofs!TilesAreCounted` | `Spec => []IInv` |
| `WalksStayInGrid`, `TilesAreTakenOnce`, `RoutedWalksVisitTheSlice`, `PastTheGridIsOff` | `StaysInGrid`, `EveryTileOnce`, `RoutedVisitsTheSlice`, `OffGrid` |
| `StreamKProofs!StreamInvariance` | `Spec => []IInv` |
| `NoStepLandsTwice`, `EveryStepLands`, `PortionsBalance` | `NoStepTwice`, `EveryStepOnce`, `Balanced` |
| `ArrivalProofs!Invariance` | `Spec => []IInv` |
| `AtMostOneMerges`, `TheLastSeesAll` | `OneMerges`, `SeesEveryPartial` |

**The slots on barriers.**  `ReadsItsRegion` is not inductive: that a reader passes
on one bit says nothing unless the phase cannot be two away.  `IInv` adds, per unit,
that its counts are its places (`UnitInv`); per slot, that `empty` is at most one
phase behind `full`, that the arrivals of `full` *are* the publishers one fill ahead
of its phase and those of `empty` the readers one read ahead of its own (`FullInv`,
`EmptyInv`); and what the slot holds in either case (`ContentInv`).  Arrivals
being cardinalities, a phase completes exactly when the set is all publishers or
all readers, and then every one of them has moved by one: that gives the bound on
the phase, and from it the one bit.  It is used for any number of units, planes,
slots, regions and operands.  When all are through with the walk the same sets are
empty or whole, whence `SidesEndTogether`.  `SlotsFeedRegions` maps each action: the
arrival or the landing that completes a `full` phase is the feed's delivery, which
must be of the *next* region, and the release of a read is the feed's read; the rest
stutter.

**The slots on `sync_cube`.**  Two arguments meet.  The *text* first: `Rendezvoused`
says what a program needs for units that are never more than a sync apart (a sync
between a write and a read of one buffer; a write of what a read wants with no other
since; a fetch behind each store).  `ScheduleRendezvous` proves it of the text both
schedules unroll to, whatever the depth, the fixed operands and the total, by
induction over the laps: the text so far leaves behind it which regions are
`Ready`, which buffers were read or written since the last sync, and what the
registers hold; each operation has a lemma (`SyncStep`, `BringStep`, ...), each lap
another, and `LoopInduct` carries them over `FlattenSeq`.  A text is a text whatever
came before it, so that the walks chain.  Then the *units*: `InTheSameEpoch`, that
nobody is past a sync another has yet to reach, is what `sync_cube` gives; with
`SharesAreWritten` and `FetchesAreHeld`, that memory and registers are what the
unit's own last write or fetch left, it is inductive.  `NoDataRace` follows because
the sync between a write and a read keeps two units from being ready at both, and
`ReadsItsRegion` because every unit is past the write the text has before the read
and none past another.  `LoopsFollowTheRule` is of the text alone.  Before lap r the
pipelined loops have done r + depth - 1 fills and r reads, or as many as there are
regions (`UpToLap`); each operation is what the rule has next or one the rule is not
about (`RuledOp`), a lap is one fill and one read of each while they last
(`RuledLap`), and there are laps enough for all (`PipelinedIsRuled`).

**The specialized matmul.**  The barriers keep one bit, the units count loops.
`IInv` recovers, per stage, how often its full and its empty barrier were through a
phase (`filled`, `freed`, at most one apart) and says whom each still misses: the
loading units a pass behind or whose committed copies fly (`Owing`), the computing
units that hold the stage (`Holding`).  A commit arrives when the last copy it waits
for lands, so `CopiesInv` ties every copy in flight to a unit that has yet to arrive
for it or to one commit.  `ContentInv` says what is in a stage while it fills and
while it is held.  At the end a count of the third barrier says who is done, and
whoever computes holds a stage, so nothing is staged over it.  It holds for any
numbers of units and stages, a cube without loops included, by either delivery.

**The double-buffered matmuls.**  Again a text and then units.  The synchronisms of
the cube cut a program into epochs; `Scheduled` says of a program that in epoch e it
loads slice e and reads slice e - 1 (`LoadIsDue`, `ReadIsDue`, where the views'
advances must come out right), that every task of both jobs is loaded before an epoch
ends, and that, where both are on the one stage of an ordered lhs, a synchronism of
the plane stands between the last read and the first load.  `ProgramScheduled` proves
it of what `Program` unrolls to, for any partition, tasks and number of stages: what
an event launches depends on counters a recursive function keeps (`RanSteps`: tasks
are launched in order, each once, none before it `CanStart`), so the induction goes
over the events (`Segment`), the columns, the depths (`StageMatmulTakes`), and the
turns of the loop (`TurnTakes`), each lemma saying from which programs to which a text
takes us (`Takes`).  `OnFinishTakes` is where the tasks no event was left for count.
Then `InStep`, that all units are in one epoch and those of a plane past the same
synchronisms of it, is what the two synchronisms give, and with `ViewsFollow`,
`CopiesAreDue` and `LoadsAreThere`, that what a unit loaded in this epoch is there or
flies and what it loaded in the last is there until it loads over it, inductive.
Both properties follow from `NothingLoadsOverARead`: a load of the epoch into the
stage being read must be of an ordered lhs, by a unit of the same plane, which would
be a synchronism of the plane ahead.

That every task is loaded in every epoch is part of `Scheduled`; that it is loaded
*once* wants a second pass over the same texts.  `Tally` says of a program how often
it loaded each task and which stages it read, a job being loaded once more, in part
or not at all as the events of its stage matmul go by (`TaskTallies`,
`OnEventTallies`), and whole after `OnFinishTallies`.  Two stage matmuls make a turn
of the loop (`TurnTallies`), and `ProgramTallies` adds the turns up to the range,
made even.

**The odometer.**  A number has one string of digits in a mixed radix and every
string is a number's (`SameDigits`, `SomeNumber`), which goes for the steps of a walk
and for the instances on a dimension alike; neither needs more of the axes than that
they have a count.  Along one axis a position and a step of its share make each tile,
and make it once (`AxisCovers`, `AxisParts`): the runs of a contiguous spread meet
and the last is cut, the turns of an interleaved one are the remainders.  On a
swizzled plane the strips partition the flat indices, a ragged last one included,
and within a strip the snake turns both ways without leaving it (`StripParts`,
`StripCovers`), so that boxes and indices go one to one; past the grid an index
falls in a strip past the axis, or past the last row of a ragged strip, whose number
is too large even where it wraps (`StripOff`).  Put together, no two steps of any
instances name one tile and every tile is named (`RegionDiffers`, `RegionCovers`).
`IInv` says that `taken` counts the steps so far that name a tile; it is inductive
because a step adds those of its number, and the four properties read off the count.

**StreamK.**  The portions' bounds are shown monotone and to meet (`End` of one
is `Start` of the next), so a step is in exactly one portion; `IInv` says a cell
holds a step once if its cube has drained it and not at all otherwise.  The proof
needs the division's bounds and `Fits`, that no product wraps.

**Arrival.**  `IInv` says a group's cubes counted 0, 1, 2 ... without a gap or a
repeat, each after its partials were the device's; so whoever counted at the last
place sees all of them, by cardinality.

Assumptions: `CubeAssumption`, `WalkAssumption`, `PlanAssumption`
(`BarrierSlots`), `PlansAssumption` (the plans `Stages::wrap` lets through),
`BoundsAssumption` (`CubeSlots`), `RolesAssumption`, `RangeAssumption`
(`SpecializedMatmul`), `PlanesAssumption`, `CasesAssumption` (`DoubleBuffer`: what
the setups of the matmuls let through, and at least one stage to load: with none
the subtraction at `double_buffering/matmul.rs:139` goes below zero, which is
outside the model), `WordAssumption` (`CubeOrder`),
`LaunchesAssumption` (`WalkOdometer`), `WordAssumption`, `LaunchAssumption`
(`StreamK`), `CubesAssumption`, `LeaderAssumption` (`Arrival`).  TLC evaluates them in every run
of those modules.

Only model-checked:

- liveness (`WalkCompletes`, `WalksComplete`, `GroupsAreMerged`, `AllReturn`,
  `AllFinish`, `EveryUnitFinishes`), which is out of the prover's reach;
- `UnitDrain`, whose values are bags, folded over the units of a plane by the
  bits of an index: sums and powers of two of which the provers have no axioms;
- `CubeMachine`: its kernels are programs given as data, and what is right of
  them is a sum over recursive functions.

## 5. Plan

Done, in this order: the slots on barriers and their proofs; the cube slots; the
odometer; the portions with their drain, and proofs; the last cube in, and proofs;
the specialized matmul; the drains of units; the double-buffered matmuls; the
kernels of cubek-reduce, cubek-fft, cubek-pool, cubek-convolution, cubek-quant,
cubek-random and cubek-attention, the simple, the buffered and the stageless matmuls, the
cube counts, the attention operations and the shared accumulation of cubek-tile; the
refinement of the feed, proved; the specialized matmul, proved; the cube slots and
both of their schedules, proved; the double-buffered matmuls and their programs,
proved; the odometer of a level of any axes with the swizzle on and off the grid,
proved.

Next, the most important first:

1. **The choice of blueprints**: the matmul's and the attention's selectors, with
   the kernels they choose run on the machine.
2. **Interpolation and the gathers** of cubek-tile.
3. **Composition**: a stream-K walk whose regions are contracted through slots, so
   that a portion that starts inside a region meets the slots' prologue.
4. The drains that bounce through shared memory (`DrainPlan`).

## 6. Findings

- `drain_turns` (code): `UnitShare::new` (`space/share.rs:52`) skips an axis taken
  in turns that the output spans without counting its units.  The comment at
  `share.rs:47` calls such units *carried*; the share comes out `Repeated`, and into
  an accumulating destination only unit 0 writes.  The other units' cells are lost.
- `conv_ragged` (code): the gradient of a weight is written through a transposing
  view that is given the flags of the matrix before it is transposed
  (`backward_weight/args.rs:189`).  When the taps times the channels hang over the
  stage and the output channels do not, nothing checks the overhang, and its zeros
  land on the first tap.

Five more were met with families of `MCCubeKernels` that are kept out of the run,
one family each; put its name in `Launches` to see it:

- `tree_writes`: `reduce_tree` ends with every worker's read of slot 0
  (`cubek-reduce/src/components/global/cube.rs:338`), and without planes nothing
  separates it from worker 0's write of slot 0 (line 256) for the next result of the
  same vectorized write; with planes a `sync_cube` does (line 176), "Wait for plane 0
  to finish reading SM before next iter overwrites it."  When the output is written
  by vectors of two or more, `NoDataRace` is violated.  Worker 0 alone uses what it
  read, so answers do not depend on the race (`AnswerIsWhole` holds of the family),
  and a compiler that drops the unused read drops the race too.
- `topk_widths`: `reduction_output_base` (`cubek-reduce/src/components/global/base.rs:8`)
  counts rows in vectors of the input and slots in vectors of the output.  With the
  k largest along an axis that is not the last, an input wider than the output and
  several outer groups, slots of two groups overlap.
- `topk_low`: the lists of the k largest begin at the finite minimum, and so do the
  stand-ins past a row's end (`topk.rs:207`); smaller items never get in, and a
  stand-in may be returned.
- `unit_forced`: a forced unit blueprint with more units than results is refused
  when it tells its idle units apart and accepted when it does not
  (`routines/unit.rs:40`).
- `quant_wide`: quantizing checks that vectors fit blocks, dequantizing does not
  (`dequantize.rs:349`).  Values quantized as 32-bit floats by 4 and read back as
  16-bit floats by 8 are scaled two blocks at a time by the first one's scale.

Two statements of the documentation are looser than the code: `Walk::routed`
(`space/walk/base.rs:220`) says nothing can check a coordinate past the extent,
which the code clamps (line 246); `swizzle_ragged` (`cube_order.rs:75`) promises no
overflow, and a ragged last strip subtracts below zero (line 165), still off the
grid (`OffGrid`).  Smaller things noticed: spare cubes of a spread plan rewrite
values with the same ones; `select_swizzle` of the unit and of the plane selector
differ in their default; a double-buffered matmul fed by tensor maps would expect
the bytes of its inputs on the barrier its accumulator is loaded by, had a launch
of it an accumulator (none has); causal masks are aligned bottom-right by cubek-attention
and top-left by cubek-tile's probe, which agree when there are as many queries as
keys; a pooling window of minima alone keeps index 0.

## 7. Not modelled

- *Compile-time plumbing*: the spaces, projections, layouts and tile kinds of
  cubek-tile, the launch arguments of every crate, the trait families of
  cubek-matmul.  They have no steps and no state, and make up most of the lines;
  what of them decides who touches which cell is in the kernels that use them.
- *Selection*: the heuristics that choose a staged matmul's or an attention's
  blueprint; registries, benchmarks, host tools.
- *Numerics*: rounding, overflow of floats, the bits of quantized formats, the
  arithmetic of the random generator, interpolation's weights.
- *Of modelled components*: the cooperative copy of a stage, which only tests
  launch, the TMA engine's im2col, quantized views; copies of a full stage that land
  later than they are issued; a reduction's output of both values and
  indices; packed dequantizing of a last dimension that words do not
  divide; `Meeting::Solo`, which has one plane and no rendezvous; the ranges of a
  walk and the composition of several levels; the accumulator's own stage of
  the specialized matmul, and planes that only load with values.
