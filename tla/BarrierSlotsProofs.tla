------------------------- MODULE BarrierSlotsProofs -------------------------
(***************************************************************************)
(* The slots of a buffered walk never hand a reader the wrong region and   *)
(* never refill one under it, whatever the cube, the depth, the length of  *)
(* the walk and the operands: IInv is inductive, and the safety properties *)
(* of BarrierSlots follow from it.                                         *)
(***************************************************************************)
EXTENDS BarrierSlots, FiniteSetTheorems, TLAPS

USE CubeAssumption, WalkAssumption, PlanAssumption

\* The counts the barriers are armed with (`Meeting::producers`,
\* `Meeting::consumers`) are the numbers of units that arrive on them.
LEMMA ArmedCounts ==
  /\ IsFiniteSet(Publishers) /\ Cardinality(Publishers) = PublishCount
  /\ IsFiniteSet(Readers) /\ Cardinality(Readers) = ReadCount
  /\ PublishCount \in Nat \ {0} /\ ReadCount \in Nat \ {0}
  /\ Elected \in Units /\ Elected \in Publishers
<1>1. FillPlanes = 0 => FillUnits = 0
  BY DEF FillUnits
<1>2. IsFiniteSet(Units) /\ Cardinality(Units) = CubeDim
  BY FS_Interval DEF Units
<1>3. CASE FillPlanes = 0
  <2>1. Readers = Units
    BY <1>3 DEF Readers, Reads
  <2>2. CASE CollectiveFull
    <3>1. Publishers = Units
      BY <1>3, <2>2 DEF Publishers, Publishes, Fills, AllPublish
    <3> QED
      BY <1>2, <1>3, <2>1, <2>2, <3>1 DEF PublishCount, ReadCount, Elected, Units
  <2>3. CASE ~CollectiveFull
    <3>1. Publishers = {0}
      BY <1>3, <2>3 DEF Publishers, Publishes, Fills, AllPublish, Elected, Units
    <3>2. IsFiniteSet({0}) /\ Cardinality({0}) = 1
      BY FS_Singleton
    <3>3. PublishCount = 1 /\ ReadCount = CubeDim /\ Elected = 0
      BY <1>3, <2>3 DEF PublishCount, ReadCount, Elected
    <3>4. 0 \in Units /\ CubeDim \in Nat \ {0}
      BY DEF Units
    <3> QED
      BY <1>2, <2>1, <3>1, <3>2, <3>3, <3>4
  <2> QED
    BY <2>2, <2>3
<1>4. CASE FillPlanes > 0
  <2>1. ReadCount = CubeDim - FillUnits /\ ReadCount \in Nat \ {0}
    BY <1>4 DEF ReadCount
  <2>2. Readers = 0 .. ReadCount - 1
    BY <1>4, <2>1 DEF Readers, Reads, Units
  <2>3. Publishers = ReadCount .. CubeDim - 1
    BY <1>4, <2>1 DEF Publishers, Publishes, Fills, AllPublish, Units
  <2>4. ~CollectiveFull /\ PublishCount = FillUnits
    BY <1>4 DEF CollectiveFull, PublishCount
  <2>5. IsFiniteSet(Readers) /\ Cardinality(Readers) = ReadCount
    BY <2>1, <2>2, FS_Interval
  <2>6. IsFiniteSet(Publishers) /\ Cardinality(Publishers) = PublishCount
    BY <2>1, <2>3, <2>4, FS_Interval
  <2> QED
    BY <1>4, <2>1, <2>3, <2>4, <2>5, <2>6 DEF Elected, Units
<1> QED
  BY <1>3, <1>4

\* The place after a place has been through one slot once more.
LEMMA AfterPasses ==
  ASSUME NEW at \in Place
  PROVE  /\ After(at) \in Place
         /\ \A s \in Slots :
              Passed(After(at), s) = Passed(at, s) + (IF s = at.slot THEN 1 ELSE 0)
BY DEF Place, After, Passed, Slots

\* Places are ordered as the regions they name.
LEMMA PlacesInOrder ==
  ASSUME NEW p \in Place, NEW q \in Place, InWalk(q), ~InWalk(p)
  PROVE  Before(q, p)
<1> SUFFICES ASSUME ~Before(q, p) PROVE FALSE
  OBVIOUS
<1>1. /\ p.lap \in Nat /\ q.lap \in Nat /\ p.slot \in Nat /\ q.slot \in Nat
      /\ p.slot < Depth /\ q.slot < Depth
  BY DEF Place, Slots
<1>2. q.lap * Depth + q.slot < Total /\ ~(p.lap * Depth + p.slot < Total)
  BY DEF InWalk, Region
<1>3. p.lap < q.lap \/ (p.lap = q.lap /\ p.slot <= q.slot)
  BY <1>1 DEF Before
<1>4. CASE p.lap = q.lap /\ p.slot <= q.slot
  BY <1>1, <1>2, <1>4
<1>5. CASE p.lap < q.lap
  <2>1. p.lap * Depth + Depth <= q.lap * Depth
    <3> DEFINE d == q.lap - p.lap - 1
    <3>1. d \in Nat /\ q.lap = p.lap + 1 + d
      BY <1>1, <1>5
    <3>2. q.lap * Depth = p.lap * Depth + Depth + d * Depth
      BY <1>1, <3>1
    <3>3. d * Depth \in Nat
      BY <3>1
    <3> HIDE DEF d
    <3> QED
      BY <1>1, <3>1, <3>2, <3>3
  <2> DEFINE pd == p.lap * Depth  qd == q.lap * Depth
  <2>2. pd \in Nat /\ qd \in Nat
    BY <1>1
  <2>3. pd + Depth <= qd /\ qd + q.slot < Total /\ ~(pd + p.slot < Total)
    BY <1>2, <2>1
  <2> HIDE DEF pd, qd
  <2> QED
    BY <1>1, <2>2, <2>3
<1> QED
  BY <1>3, <1>4, <1>5

\* Two phases next to each other differ in the last bit, so a wait that knows
\* the phase up to one tells which of the two it is.
LEMMA NeighboursDiffer ==
  ASSUME NEW n \in Nat
  PROVE  n % 2 # (n + 1) % 2
OBVIOUS

\* What `acquire_write`'s wait passes on, for a phase at most one behind.
LEMMA WritePasses ==
  ASSUME NEW b \in Mbarrier, NEW w \in Nat, b.phase = w \/ b.phase + 1 = w
  PROVE  Passes(b, (w + 1) % 2) <=> b.phase = w
<1>1. b.phase \in Nat
  BY DEF Mbarrier
<1>2. CASE b.phase = w
  BY <1>1, <1>2, NeighboursDiffer DEF Passes
<1>3. CASE b.phase + 1 = w
  <2>1. (w + 1) % 2 = b.phase % 2
    BY <1>1, <1>3
  <2> QED
    BY <1>1, <1>3, <2>1 DEF Passes
<1> QED
  BY <1>2, <1>3

\* What `acquire_read`'s wait passes on, for a phase at most one ahead.
LEMMA ReadPasses ==
  ASSUME NEW b \in Mbarrier, NEW r \in Nat, b.phase = r \/ b.phase = r + 1
  PROVE  Passes(b, r % 2) <=> b.phase = r + 1
<1>1. b.phase \in Nat
  BY DEF Mbarrier
<1> QED
  BY <1>1, NeighboursDiffer DEF Passes

\* A unit about to fill a slot has read it as often as it has filled it, if it
\* reads at all.
LEMMA FillsWhatItRead ==
  ASSUME TypeOK, NEW u \in Units, UnitInv(u), FillsNext(u), Reads(u)
  PROVE  writes[u][fillAt[u].slot] = reads[u][fillAt[u].slot]
<1>1. fillAt[u] \in Place /\ readAt[u] \in Place
  BY DEF TypeOK
<1>2. /\ fillAt[u].slot \in Slots /\ readAt[u].slot \in Slots
      /\ fillAt[u].lap \in Nat /\ readAt[u].lap \in Nat
      /\ fillAt[u].slot \in Nat /\ readAt[u].slot \in Nat
  BY <1>1 DEF Place, Slots
<1>3. /\ ~Before(fillAt[u], readAt[u])
      /\ Before(fillAt[u], [readAt[u] EXCEPT !.lap = @ + 1])
  BY DEF UnitInv, FillsNext
<1>4. /\ [readAt[u] EXCEPT !.lap = @ + 1].lap = readAt[u].lap + 1
      /\ [readAt[u] EXCEPT !.lap = @ + 1].slot = readAt[u].slot
  BY <1>1 DEF Place
<1>5. Passed(fillAt[u], fillAt[u].slot) = Passed(readAt[u], fillAt[u].slot)
  BY <1>2, <1>3, <1>4 DEF Passed, Before
<1> QED
  BY <1>2, <1>5 DEF UnitInv

\* Where the phase of `empty` can be when a unit is about to fill the slot.
LEMMA BeforeFilling ==
  ASSUME IInv, NEW u \in Units, FillsNext(u)
  PROVE  LET s == fillAt[u].slot IN
         /\ s \in Slots
         /\ empty[s].phase = writes[u][s] \/ empty[s].phase + 1 = writes[u][s]
         /\ Publishes(u) => full[s].phase = writes[u][s] \/ full[s].phase + 1 = writes[u][s]
<1> DEFINE s == fillAt[u].slot
<1>1. /\ s \in Slots /\ full[s].phase \in Nat /\ empty[s].phase \in Nat
      /\ writes[u][s] \in Nat /\ reads[u][s] \in Nat
  BY DEF IInv, TypeOK, Place, Mbarrier
<1>2. FullInv(s) /\ EmptyInv(s)
  BY <1>1 DEF IInv
<1>3. Fills(u)
  BY DEF FillsNext
<1>4. CASE Publishes(u)
  <2>1. u \in Publishers
    BY <1>4 DEF Publishers
  <2> QED
    BY <1>1, <1>2, <2>1 DEF FullInv
<1>5. CASE ~Publishes(u)
  <2>1. FillPlanes = 0
    BY <1>3, <1>5 DEF Publishes, AllPublish
  <2>2. Reads(u) /\ u \in Readers
    BY <2>1 DEF Reads, Readers
  <2>3. writes[u][s] = reads[u][s]
    BY <2>2, FillsWhatItRead DEF IInv
  <2> QED
    BY <1>1, <1>2, <1>5, <2>2, <2>3 DEF EmptyInv
<1> QED
  BY <1>4, <1>5

\* Where the phase of `full` can be when a unit is about to read the slot.
LEMMA BeforeReading ==
  ASSUME IInv, NEW u \in Units, ReadsNext(u)
  PROVE  LET s == readAt[u].slot IN
         /\ s \in Slots
         /\ full[s].phase = reads[u][s] \/ full[s].phase = reads[u][s] + 1
<1> DEFINE s == readAt[u].slot
<1>1. /\ s \in Slots /\ full[s].phase \in Nat /\ empty[s].phase \in Nat
      /\ reads[u][s] \in Nat
  BY DEF IInv, TypeOK, Place, Mbarrier
<1>2. FullInv(s) /\ EmptyInv(s) /\ u \in Readers
  BY <1>1 DEF IInv, ReadsNext, Readers
<1> QED
  BY SMTT(30), <1>1, <1>2 DEF FullInv, EmptyInv

\* The launch: every barrier is in its first phase and no operation issued.
LEMMA InitIInv == Init => IInv
<1> SUFFICES ASSUME Init PROVE IInv
  OBVIOUS
<1>1. First \in Place
  BY DEF First, Place, Slots
<1>2. TypeOK
  BY <1>1 DEF Init, TypeOK, Fresh, Mbarrier, Nothing
<1>3. ASSUME NEW u \in Units PROVE UnitInv(u)
  BY DEF Init, UnitInv, First, Passed, Before, Slots
<1>4. ASSUME NEW s \in Slots PROVE FullInv(s) /\ EmptyInv(s) /\ ContentInv(s)
  <2>1. /\ full[s] = Fresh /\ empty[s] = Fresh
        /\ \A u \in Units : writes[u][s] = 0 /\ reads[u][s] = 0 /\ step[u] = "ready"
        /\ \A o \in BulkOperands : bulk[s][o].landed
    BY <1>4 DEF Init
  <2>2. Ahead(s) = {} /\ Freed(s) = {} /\ InFlight(s) = {}
    BY <2>1 DEF Ahead, Freed, InFlight, Publishers, Readers, Fresh
  <2>3. Cardinality({}) = 0
    BY FS_EmptySet
  <2>4. FullInv(s)
    <3>1. /\ full[s].arrived = 0 /\ full[s].pending = 0 /\ full[s].phase = 0
          /\ empty[s].phase = 0 /\ PublishCount # 0
      BY <2>1, ArmedCounts DEF Fresh
    <3>2. \A u \in Publishers : writes[u][s] = 0 /\ ~FillingAt(u, s)
      BY <2>1 DEF Publishers, FillingAt
    <3> QED
      BY <2>2, <2>3, <3>1, <3>2 DEF FullInv
  <2>5. EmptyInv(s)
    <3>1. /\ empty[s].arrived = 0 /\ empty[s].pending = 0 /\ empty[s].phase = 0
          /\ full[s].phase = 0 /\ ReadCount # 0
      BY <2>1, ArmedCounts DEF Fresh
    <3>2. \A u \in Readers : reads[u][s] = 0 /\ ~ReadingAt(u, s)
      BY <2>1 DEF Readers, ReadingAt
    <3> QED
      BY <2>2, <2>3, <3>1, <3>2 DEF EmptyInv
  <2>6. ContentInv(s)
    BY <2>1, ArmedCounts DEF ContentInv, HasBrought, Fresh
  <2> QED
    BY <2>4, <2>5, <2>6
<1> QED
  BY <1>2, <1>3, <1>4 DEF IInv

\* `Slot::acquire_write`: past the mark that the slot is free.
LEMMA AcquireWriteKeeps ==
  ASSUME IInv, NEW u \in Units, AcquireWrite(u)
  PROVE  IInv'
<1> DEFINE s == fillAt[u].slot
<1>1. FillsNext(u) /\ step[u] = "ready"
  BY DEF AcquireWrite
<1>2. s \in Slots /\ empty[s].phase = writes[u][s]
  <2>1. empty[s] \in Mbarrier /\ writes[u][s] \in Nat /\ s \in Slots
    BY <1>1, BeforeFilling DEF IInv, TypeOK
  <2> QED
    BY <1>1, <2>1, BeforeFilling, WritePasses DEF AcquireWrite
<1>3. TypeOK'
  BY DEF AcquireWrite, IInv, TypeOK
<1>4. ASSUME NEW v \in Units PROVE UnitInv(v)'
  <2>1. UnitInv(v)
    BY DEF IInv
  <2> QED
    BY <1>1, <2>1 DEF AcquireWrite, IInv, TypeOK, UnitInv, FillsNext, ReadsNext
<1>5. ASSUME NEW t \in Slots PROVE FullInv(t)' /\ EmptyInv(t)' /\ ContentInv(t)'
  <2>1. FullInv(t) /\ EmptyInv(t) /\ ContentInv(t)
    BY DEF IInv
  <2>2. \A v \in Units : v # u => step'[v] = step[v]
    BY DEF AcquireWrite, IInv, TypeOK
  <2>3. step'[u] = "filling"
    BY DEF AcquireWrite, IInv, TypeOK
  <2>4. UNCHANGED <<full, empty, writes, reads, fillAt, readAt, bulk, share>>
    BY DEF AcquireWrite
  <2>5. \A v \in Units : FillingAt(v, t)' => FillingAt(v, t) \/ (v = u /\ t = s)
    BY <2>2, <2>3, <2>4 DEF FillingAt
  <2>6. FullInv(t)'
    <3>1. full[t].phase \in Nat /\ empty[t].phase \in Nat
      BY DEF IInv, TypeOK, Mbarrier
    <3>2. ASSUME u \in Publishers, t = s
          PROVE  writes[u][t] = empty[t].phase /\ full[t].phase = empty[t].phase
      BY <1>2, <2>1, <3>1, <3>2 DEF FullInv
    <3>3. \A v \in Publishers : FillingAt(v, t)' =>
            writes[v][t] = empty[t].phase /\ full[t].phase = empty[t].phase
      BY <2>1, <2>5, <3>2 DEF FullInv, Publishers
    <3>4. Ahead(t)' = Ahead(t) /\ InFlight(t)' = InFlight(t)
      BY <2>4 DEF Ahead, InFlight
    <3> QED
      BY <2>1, <2>4, <3>3, <3>4 DEF FullInv
  <2>7. EmptyInv(t)'
    <3>1. Freed(t)' = Freed(t)
      BY <2>4 DEF Freed
    <3> QED
      BY <3>1, <2>1, <2>2, <2>3, <2>4 DEF EmptyInv, ReadingAt, Readers
  <2>8. ContentInv(t)'
    <3>1. /\ \A v \in Units : HasBrought(v, t)' <=> HasBrought(v, t)
          /\ HasBrought(Elected, t)' <=> HasBrought(Elected, t)
          /\ FillingAt(Elected, t) => FillingAt(Elected, t)'
      BY <1>1, <2>2, <2>3, <2>4, ArmedCounts DEF HasBrought, FillingAt
    <3> QED
      BY <2>1, <2>4, <3>1 DEF ContentInv
  <2> QED
    BY <2>6, <2>7, <2>8
<1> QED
  BY <1>3, <1>4, <1>5 DEF IInv

\* `Slot::acquire_read`: past the mark that the slot is full.
LEMMA AcquireReadKeeps ==
  ASSUME IInv, NEW u \in Units, AcquireRead(u)
  PROVE  IInv'
<1> DEFINE s == readAt[u].slot
<1>1. ReadsNext(u) /\ step[u] = "ready"
  BY DEF AcquireRead
<1>2. s \in Slots /\ full[s].phase = reads[u][s] + 1
  <2>1. full[s] \in Mbarrier /\ reads[u][s] \in Nat /\ s \in Slots
    BY <1>1, BeforeReading DEF IInv, TypeOK
  <2> QED
    BY <1>1, <2>1, BeforeReading, ReadPasses DEF AcquireRead
<1>3. TypeOK'
  BY DEF AcquireRead, IInv, TypeOK
<1>4. ASSUME NEW v \in Units PROVE UnitInv(v)'
  <2>1. UnitInv(v)
    BY DEF IInv
  <2> QED
    BY <1>1, <2>1 DEF AcquireRead, IInv, TypeOK, UnitInv, FillsNext, ReadsNext
<1>5. ASSUME NEW t \in Slots PROVE FullInv(t)' /\ EmptyInv(t)' /\ ContentInv(t)'
  <2>1. FullInv(t) /\ EmptyInv(t) /\ ContentInv(t)
    BY DEF IInv
  <2>2. \A v \in Units : v # u => step'[v] = step[v]
    BY DEF AcquireRead, IInv, TypeOK
  <2>3. step'[u] = "reading"
    BY DEF AcquireRead, IInv, TypeOK
  <2>4. UNCHANGED <<full, empty, writes, reads, fillAt, readAt, bulk, share>>
    BY DEF AcquireRead
  <2>5. FullInv(t)'
    <3>1. \A v \in Units : FillingAt(v, t)' => FillingAt(v, t)
      BY <2>2, <2>3, <2>4 DEF FillingAt
    <3>2. Ahead(t)' = Ahead(t) /\ InFlight(t)' = InFlight(t)
      BY <2>4 DEF Ahead, InFlight
    <3>3. \A v \in Publishers : FillingAt(v, t)' =>
            writes[v][t] = empty[t].phase /\ full[t].phase = empty[t].phase
      BY <2>1, <3>1 DEF FullInv, Publishers
    <3> QED
      BY <2>1, <2>4, <3>2, <3>3 DEF FullInv
  <2>6. EmptyInv(t)'
    <3>1. Freed(t)' = Freed(t)
      BY <2>4 DEF Freed
    <3>2. \A v \in Readers : ReadingAt(v, t)' => full[t].phase = reads[v][t] + 1
      BY <1>2, <2>1, <2>2, <2>3, <2>4 DEF EmptyInv, ReadingAt, Readers
    <3> QED
      BY <2>1, <2>4, <3>1, <3>2 DEF EmptyInv
  <2>7. ContentInv(t)'
    <3>1. /\ \A v \in Units : HasBrought(v, t)' <=> HasBrought(v, t)
          /\ HasBrought(Elected, t)' <=> HasBrought(Elected, t)
          /\ FillingAt(Elected, t) => FillingAt(Elected, t)'
      BY <1>1, <2>2, <2>3, <2>4, ArmedCounts DEF HasBrought, FillingAt
    <3> QED
      BY <2>1, <2>4, <3>1 DEF ContentInv
  <2> QED
    BY <2>5, <2>6, <2>7
<1> QED
  BY <1>3, <1>4, <1>5 DEF IInv

\* What a unit that may not be refilling the slot knows when it is inside its
\* write: the slot is the one both barriers agree on.
LEMMA InsideAWrite ==
  ASSUME IInv, NEW u \in Units, step[u] \in {"filling", "filled"}
  PROVE  LET s == fillAt[u].slot IN
         /\ s \in Slots /\ Fills(u) /\ FillsNext(u)
         /\ writes[u][s] = fillAt[u].lap /\ fillAt[u].lap \in Nat
         /\ Publishes(u) =>
              writes[u][s] = full[s].phase /\ full[s].phase = empty[s].phase
<1> DEFINE s == fillAt[u].slot
<1>1. s \in Slots /\ s \in Nat /\ fillAt[u].lap \in Nat
  BY DEF IInv, TypeOK, Place, Slots
<1>2. FillsNext(u) /\ writes[u][s] = Passed(fillAt[u], s)
  BY <1>1 DEF IInv, UnitInv
<1>3. Fills(u) /\ writes[u][s] = fillAt[u].lap
  BY <1>1, <1>2 DEF FillsNext, Passed
<1>4. Publishes(u) => writes[u][s] = full[s].phase /\ full[s].phase = empty[s].phase
  BY <1>1 DEF IInv, FullInv, FillingAt, Publishers
<1> QED
  BY <1>1, <1>2, <1>3, <1>4

\* A set short of one element of a finite set grows to it by that element.
LEMMA OneMore ==
  ASSUME NEW S, IsFiniteSet(S), NEW T \in SUBSET S, NEW x \in S, x \notin T
  PROVE  /\ IsFiniteSet(T) /\ Cardinality(T) \in Nat
         /\ Cardinality(T \cup {x}) = Cardinality(T) + 1
         /\ Cardinality(T) + 1 = Cardinality(S) => T \cup {x} = S
<1>1. IsFiniteSet(T) /\ Cardinality(T) \in Nat
  BY FS_Subset, FS_CardinalityType
<1>2. Cardinality(T \cup {x}) = Cardinality(T) + 1
  BY <1>1, FS_AddElement
<1>3. T \cup {x} \in SUBSET S
  OBVIOUS
<1>4. Cardinality(T \cup {x}) = Cardinality(S) => T \cup {x} = S
  BY <1>3, FS_Subset
<1> QED
  BY <1>1, <1>2, <1>4

\* A bulk copy sent on its way, by the one unit that does.
LEMMA IssueCopyKeeps ==
  ASSUME IInv, NEW u \in Units, NEW o \in BulkOperands, IssueCopy(u, o)
  PROVE  IInv'
<1> DEFINE s == fillAt[u].slot
           Window == [lap : Nat \cup {Nothing}, landed : BOOLEAN]
           fresh == [lap |-> fillAt[u].lap, landed |-> FALSE]
<1>1. step[u] = "filling" /\ u = Elected /\ bulk[s][o].lap # fillAt[u].lap
  BY DEF IssueCopy
<1>2. /\ s \in Slots /\ writes[u][s] = fillAt[u].lap /\ fillAt[u].lap \in Nat
      /\ writes[u][s] = full[s].phase /\ full[s].phase = empty[s].phase
  BY <1>1, InsideAWrite, ArmedCounts DEF Publishers
<1>3. UNCHANGED <<empty, writes, reads, fillAt, readAt, step, share>>
  BY DEF IssueCopy
<1>4. /\ FullInv(s) /\ EmptyInv(s) /\ ContentInv(s)
      /\ full[s] \in Mbarrier /\ bulk[s] \in [BulkOperands -> Window]
  BY <1>2 DEF IInv, TypeOK
<1>5. /\ \A t \in Slots : t # s => full'[t] = full[t] /\ bulk'[t] = bulk[t]
      /\ full'[s] = [full[s] EXCEPT !.pending = @ + 1]
      /\ bulk'[s] = [bulk[s] EXCEPT ![o] = fresh]
  <2>1. DOMAIN full = Slots /\ DOMAIN bulk = Slots
    BY DEF IInv, TypeOK
  <2>2. /\ full' = [full EXCEPT ![s] = ExpectCopies(@, 1)]
        /\ bulk' = [bulk EXCEPT ![s][o] = fresh]
    BY DEF IssueCopy
  <2> HIDE DEF fresh
  <2> QED
    BY <1>2, <2>1, <2>2 DEF ExpectCopies
<1>6. /\ full'[s].phase = full[s].phase /\ full'[s].arrived = full[s].arrived
      /\ full'[s].pending = full[s].pending + 1 /\ full'[s] \in Mbarrier
      /\ full[s].pending \in Nat /\ full[s].phase \in Nat
  BY <1>4, <1>5 DEF Mbarrier
<1>7. bulk'[s][o] = fresh /\ \A p \in BulkOperands : p # o => bulk'[s][p] = bulk[s][p]
  BY <1>4, <1>5
<1>8. bulk[s][o].landed
  BY <1>1, <1>2, <1>4 DEF ContentInv
<1>9. Cardinality(InFlight(s)') = full[s].pending + 1
  <2>1. InFlight(s) \in SUBSET BulkOperands /\ o \notin InFlight(s)
    BY <1>8 DEF InFlight
  <2>2. {p \in BulkOperands : ~bulk'[s][p].landed} = InFlight(s) \cup {o}
    <3>1. ~fresh.landed
      OBVIOUS
    <3> HIDE DEF fresh
    <3> QED
      BY <1>7, <3>1 DEF InFlight
  <2>3. Cardinality(InFlight(s) \cup {o}) = full[s].pending + 1
    BY <1>4, <2>1, OneMore DEF FullInv
  <2>4. \A t \in Slots : InFlight(t)' = {p \in BulkOperands : ~bulk'[t][p].landed}
    BY DEF InFlight
  <2>5. s' = s
    BY <1>3
  <2>6. InFlight(s)' = {p \in BulkOperands : ~bulk'[s][p].landed}
    BY <2>5 DEF InFlight
  <2> QED
    BY <2>2, <2>3, <2>6
<1>10. TypeOK'
  <2>1. full' \in [Slots -> Mbarrier]
    <3>1. ExpectCopies(full[s], 1) \in Mbarrier
      BY <1>5, <1>6 DEF ExpectCopies
    <3> QED
      BY <1>2, <3>1 DEF IssueCopy, IInv, TypeOK
  <2>2. bulk' \in [Slots -> [BulkOperands -> Window]]
    <3>1. bulk \in [Slots -> [BulkOperands -> Window]]
      BY DEF IInv, TypeOK
    <3>2. fresh \in Window
      BY <1>2
    <3> HIDE DEF Window
    <3>3. [bulk[s] EXCEPT ![o] = fresh] \in [BulkOperands -> Window]
      BY <1>4, <3>2
    <3>4. bulk' = [bulk EXCEPT ![s] = [bulk[s] EXCEPT ![o] = fresh]]
      BY <3>1 DEF IssueCopy
    <3> HIDE DEF fresh
    <3> QED
      BY <1>2, <3>1, <3>3, <3>4
  <2> QED
    BY <1>3, <2>1, <2>2 DEF IInv, TypeOK
<1>11. ASSUME NEW v \in Units PROVE UnitInv(v)'
  <2>1. UnitInv(v)
    BY DEF IInv
  <2>2. /\ FillsNext(v)' <=> FillsNext(v)
        /\ ReadsNext(v)' <=> ReadsNext(v)
    BY <1>3 DEF FillsNext, ReadsNext
  <2> QED
    BY <1>3, <2>1, <2>2 DEF UnitInv
<1>12. ASSUME NEW t \in Slots PROVE FullInv(t)' /\ EmptyInv(t)' /\ ContentInv(t)'
  <2>1. FullInv(t) /\ EmptyInv(t) /\ ContentInv(t)
    BY DEF IInv
  <2>2. /\ full'[t].phase = full[t].phase /\ full'[t].arrived = full[t].arrived
    BY <1>5, <1>6
  <2>3. /\ \A v \in Units : FillingAt(v, t)' <=> FillingAt(v, t)
        /\ \A v \in Units : ReadingAt(v, t)' <=> ReadingAt(v, t)
        /\ FillingAt(Elected, t)' <=> FillingAt(Elected, t)
    BY <1>3, ArmedCounts DEF FillingAt, ReadingAt
  <2>4. Ahead(t)' = Ahead(t) /\ Freed(t)' = Freed(t)
    BY <1>3, <2>2 DEF Ahead, Freed
  <2>5. FullInv(t)'
    <3>1. /\ full'[t].pending = Cardinality(InFlight(t)')
          /\ ~(full'[t].arrived = PublishCount /\ full'[t].pending = 0)
      <4>1. CASE t = s
        <5>1. InFlight(t)' = InFlight(s)'
          BY <1>3, <4>1 DEF InFlight
        <5> QED
          BY <1>6, <1>9, <4>1, <5>1
      <4>2. CASE t # s
        <5>1. full'[t] = full[t] /\ bulk'[t] = bulk[t]
          BY <1>5, <4>2
        <5>2. InFlight(t)' = InFlight(t)
          BY <5>1 DEF InFlight
        <5> QED
          BY <2>1, <5>1, <5>2 DEF FullInv
      <4> QED
        BY <4>1, <4>2
    <3>2. \A v \in Publishers : FillingAt(v, t)' =>
            writes[v][t] = empty[t].phase /\ full[t].phase = empty[t].phase
      BY <2>1, <2>3 DEF FullInv, Publishers
    <3> QED
      BY <1>3, <2>1, <2>2, <2>4, <3>1, <3>2 DEF FullInv
  <2>6. EmptyInv(t)'
    <3>1. \A v \in Readers : ReadingAt(v, t)' => full[t].phase = reads[v][t] + 1
      BY <2>1, <2>3 DEF EmptyInv, Readers
    <3> QED
      BY <1>3, <2>1, <2>2, <2>4, <3>1 DEF EmptyInv
  <2>7. ContentInv(t)'
    <3>1. /\ \A v \in Units : HasBrought(v, t)' <=> HasBrought(v, t)
          /\ HasBrought(Elected, t)' <=> HasBrought(Elected, t)
      BY <1>3, <2>2, ArmedCounts DEF HasBrought
    <3>2. CASE t = s
      <4>1. ~HasBrought(Elected, t) /\ FillingAt(Elected, t)
        BY <1>1, <1>2, <1>6, <3>2 DEF HasBrought, FillingAt
      <4>2. ~(full[t].phase = empty[t].phase + 1)
        BY <1>2, <1>6, <3>2
      <4>3. \A p \in BulkOperands : ~bulk'[t][p].landed => bulk'[t][p].lap = full[t].phase
        <5>1. fresh.lap = full[s].phase
          BY <1>2
        <5> HIDE DEF fresh
        <5> QED
          BY <1>4, <1>7, <3>2, <5>1 DEF ContentInv
      <4> QED
        BY <1>3, <2>1, <2>2, <2>3, <3>1, <4>1, <4>2, <4>3 DEF ContentInv
    <3>3. CASE t # s
      BY <1>3, <1>5, <2>1, <2>2, <2>3, <3>1, <3>3 DEF ContentInv
    <3> QED
      BY <3>2, <3>3
  <2> QED
    BY <2>5, <2>6, <2>7
<1> QED
  BY <1>10, <1>11, <1>12 DEF IInv

\* A unit's own share of a fill.
LEMMA BringKeeps ==
  ASSUME IInv, NEW u \in Units, Bring(u)
  PROVE  IInv'
<1> DEFINE s == fillAt[u].slot
<1>1. step[u] = "filling"
  BY DEF Bring
<1>2. /\ s \in Slots /\ Fills(u) /\ FillsNext(u)
      /\ writes[u][s] = fillAt[u].lap /\ fillAt[u].lap \in Nat
      /\ Publishes(u) => writes[u][s] = full[s].phase /\ full[s].phase = empty[s].phase
      /\ u = Elected => Publishes(u)
  BY <1>1, InsideAWrite, ArmedCounts DEF Publishers
<1>3. /\ UNCHANGED <<full, empty, writes, reads, fillAt, readAt, bulk>>
      /\ u = Elected => \A o \in BulkOperands : bulk[s][o].lap = fillAt[u].lap
  BY DEF Bring
<1>4. /\ step'[u] = "filled"
      /\ \A v \in Units : v # u => step'[v] = step[v]
  BY DEF Bring, IInv, TypeOK
<1>5. /\ \A t \in Slots : t # s => share'[t] = share[t]
      /\ ~CollectiveFull => share' = share
      /\ CollectiveFull => share'[s] = [share[s] EXCEPT ![u] = fillAt[u].lap]
  <2>1. DOMAIN share = Slots
    BY DEF IInv, TypeOK
  <2>2. share' = IF CollectiveFull THEN [share EXCEPT ![s][u] = fillAt[u].lap] ELSE share
    BY DEF Bring
  <2> QED
    BY <1>2, <2>1, <2>2
<1>6. TypeOK'
  <2>1. share' \in [Slots -> [Units -> Nat \cup {Nothing}]]
    BY <1>2 DEF Bring, IInv, TypeOK
  <2>2. step' \in [Units -> {"ready", "filling", "filled", "reading"}]
    BY DEF Bring, IInv, TypeOK
  <2> QED
    BY <1>3, <2>1, <2>2 DEF IInv, TypeOK
<1>7. ASSUME NEW v \in Units PROVE UnitInv(v)'
  <2>1. UnitInv(v)
    BY DEF IInv
  <2>2. /\ FillsNext(v)' <=> FillsNext(v)
        /\ ReadsNext(v)' <=> ReadsNext(v)
    BY <1>3 DEF FillsNext, ReadsNext
  <2>3. /\ step'[v] \in {"filling", "filled"} => FillsNext(v)
        /\ step'[v] = "reading" => step[v] = "reading"
    BY <1>2, <1>4, <2>1 DEF UnitInv
  <2> QED
    BY <1>3, <2>1, <2>2, <2>3 DEF UnitInv
<1>8. ASSUME NEW t \in Slots PROVE FullInv(t)' /\ EmptyInv(t)' /\ ContentInv(t)'
  <2>1. FullInv(t) /\ EmptyInv(t) /\ ContentInv(t)
    BY DEF IInv
  <2>2. /\ \A v \in Units : FillingAt(v, t)' <=> FillingAt(v, t)
        /\ \A v \in Units : ReadingAt(v, t)' <=> ReadingAt(v, t)
        /\ FillingAt(Elected, t)' <=> FillingAt(Elected, t)
    BY <1>1, <1>3, <1>4, ArmedCounts DEF FillingAt, ReadingAt
  <2>3. Ahead(t)' = Ahead(t) /\ Freed(t)' = Freed(t) /\ InFlight(t)' = InFlight(t)
    BY <1>3 DEF Ahead, Freed, InFlight
  <2>4. FullInv(t)'
    <3>1. \A v \in Publishers : FillingAt(v, t)' =>
            writes[v][t] = empty[t].phase /\ full[t].phase = empty[t].phase
      BY <2>1, <2>2 DEF FullInv, Publishers
    <3> QED
      BY <1>3, <2>1, <2>3, <3>1 DEF FullInv
  <2>5. EmptyInv(t)'
    <3>1. \A v \in Readers : ReadingAt(v, t)' => full[t].phase = reads[v][t] + 1
      BY <2>1, <2>2 DEF EmptyInv, Readers
    <3> QED
      BY <1>3, <2>1, <2>3, <3>1 DEF EmptyInv
  <2>6. ContentInv(t)'
    <3>1. /\ \A v \in Units : HasBrought(v, t)' <=> HasBrought(v, t) \/ (v = u /\ t = s)
          /\ HasBrought(Elected, t)' <=> HasBrought(Elected, t) \/ (Elected = u /\ t = s)
      BY <1>1, <1>3, <1>4, ArmedCounts DEF HasBrought
    <3>2. full[t].phase = empty[t].phase + 1 =>
            (CollectiveFull => \A v \in Units : share'[t][v] = empty[t].phase)
      <4> SUFFICES ASSUME full[t].phase = empty[t].phase + 1, CollectiveFull
                   PROVE  share'[t] = share[t]
        BY <2>1 DEF ContentInv
      <4>1. full[t].phase \in Nat /\ empty[t].phase \in Nat
        BY DEF IInv, TypeOK, Mbarrier
      <4>2. Publishes(u)
        BY <1>2 DEF Publishes, AllPublish
      <4> QED
        BY <1>2, <1>5, <4>1, <4>2
    <3>3. HasBrought(Elected, t)' =>
            \A o \in BulkOperands : bulk[t][o].lap = full[t].phase
      BY <1>2, <1>3, <2>1, <3>1 DEF ContentInv
    <3>4. \A o \in BulkOperands : ~bulk[t][o].landed =>
            /\ bulk[t][o].lap = full[t].phase
            /\ HasBrought(Elected, t)' \/ FillingAt(Elected, t)'
      BY <2>1, <2>2, <3>1 DEF ContentInv
    <3>5. ASSUME CollectiveFull, NEW v \in Units, HasBrought(v, t)'
          PROVE  share'[t][v] = full[t].phase
      <4>1. Publishes(u)
        BY <1>2, <3>5 DEF Publishes, AllPublish
      <4>2. share[t] \in [Units -> Nat \cup {Nothing}]
        BY DEF IInv, TypeOK
      <4>3. CASE t = s
        BY SMTT(30), <1>2, <1>5, <2>1, <3>1, <3>5, <4>1, <4>2, <4>3 DEF ContentInv
      <4>4. CASE t # s
        BY <1>5, <2>1, <3>1, <3>5, <4>4 DEF ContentInv
      <4> QED
        BY <4>3, <4>4
    <3>6. full[t].phase = empty[t].phase + 1 =>
            \A o \in BulkOperands : bulk[t][o] = [lap |-> empty[t].phase, landed |-> TRUE]
      BY <2>1 DEF ContentInv
    <3> QED
      BY <1>3, <3>2, <3>3, <3>4, <3>5, <3>6 DEF ContentInv
  <2> QED
    BY <2>4, <2>5, <2>6
<1> QED
  BY <1>6, <1>7, <1>8 DEF IInv

\* One step forward keeps the order of two places.
LEMMA AfterInOrder ==
  ASSUME NEW p \in Place, NEW q \in Place
  PROVE  /\ Before(p, q) => ~Before(q, After(p))
         /\ ~Before(p, q) => ~Before(After(p), q)
         /\ ~Before([q EXCEPT !.lap = @ + 1], p)
              => ~Before([After(q) EXCEPT !.lap = @ + 1], p)
BY DEF Before, After, Place, Slots

\* A slot whose fill completes: every publisher is past it, nobody reads it,
\* and it holds the region of the phase that was being filled.
LEMMA FillCompletes ==
  ASSUME IInv, NEW t \in Slots, full[t].phase = empty[t].phase,
         full'[t] = [arrived |-> 0, pending |-> 0, phase |-> full[t].phase + 1],
         empty' = empty, reads' = reads,
         \A v \in Publishers : writes'[v][t] = full[t].phase + 1 /\ ~FillingAt(v, t)',
         \A v \in Units : ReadingAt(v, t)' => ReadingAt(v, t),
         \A o \in BulkOperands : bulk'[t][o] = [lap |-> full[t].phase, landed |-> TRUE],
         CollectiveFull => \A v \in Units : share'[t][v] = full[t].phase
  PROVE  FullInv(t)' /\ EmptyInv(t)' /\ ContentInv(t)'
<1>1. FullInv(t) /\ EmptyInv(t)
  BY DEF IInv
<1>2. /\ full[t].phase \in Nat /\ empty[t].phase \in Nat
      /\ \A v \in Units : reads[v][t] \in Nat
  BY DEF IInv, TypeOK, Mbarrier
<1>3. /\ full'[t].arrived = 0 /\ full'[t].pending = 0 /\ full'[t].phase = full[t].phase + 1
  OBVIOUS
<1>4. Ahead(t)' = {} /\ InFlight(t)' = {} /\ Freed(t)' = Freed(t)
  BY <1>2, <1>3 DEF Ahead, InFlight, Freed
<1>5. FullInv(t)'
  <2>1. Cardinality({}) = 0 /\ PublishCount # 0
    BY FS_EmptySet, ArmedCounts
  <2> QED
    BY <1>2, <1>3, <1>4, <2>1 DEF FullInv
<1>6. EmptyInv(t)'
  <2>1. \A v \in Readers : ~ReadingAt(v, t)'
    BY <1>1, <1>2 DEF EmptyInv, Readers
  <2>2. \A v \in Readers : reads[v][t] <= full[t].phase + 1
    <3>1. \A v \in Readers : reads[v][t] <= full[t].phase /\ reads[v][t] \in Nat
      BY <1>1, <1>2 DEF EmptyInv, Readers
    <3> QED
      BY <1>2, <3>1
  <2> QED
    BY <1>1, <1>3, <1>4, <2>1, <2>2 DEF EmptyInv
<1>7. ContentInv(t)'
  <2>1. \A v \in Publishers : ~(writes'[v][t] = full'[t].phase + 1)
    BY <1>2, <1>3
  <2>2. \A v \in Publishers : ~HasBrought(v, t)'
    BY <2>1 DEF HasBrought, FillingAt
  <2>3. ~HasBrought(Elected, t)'
    BY <2>1, ArmedCounts DEF HasBrought, FillingAt
  <2>4. CollectiveFull => Publishers = Units
    BY DEF Publishers, Publishes, AllPublish, Fills, CollectiveFull
  <2>5. \A o \in BulkOperands : bulk'[t][o] = [lap |-> empty'[t].phase, landed |-> TRUE]
    OBVIOUS
  <2>6. CollectiveFull => /\ \A v \in Units : share'[t][v] = empty'[t].phase
                          /\ \A v \in Units : ~HasBrought(v, t)'
    BY <2>2, <2>4
  <2>7. \A o \in BulkOperands : bulk'[t][o].landed
    BY <2>5
  <2> QED
    BY <2>3, <2>5, <2>6, <2>7 DEF ContentInv
<1> QED
  BY <1>5, <1>6, <1>7

\* `Slot::release_write`: the arrival at the full barrier.
LEMMA ReleaseWriteKeeps ==
  ASSUME IInv, NEW u \in Units, ReleaseWrite(u)
  PROVE  IInv'
<1> DEFINE s == fillAt[u].slot
<1>1. step[u] = "filled"
  BY DEF ReleaseWrite
<1>2. /\ s \in Slots /\ Fills(u) /\ FillsNext(u)
      /\ writes[u][s] = fillAt[u].lap /\ fillAt[u].lap \in Nat
      /\ Publishes(u) => writes[u][s] = full[s].phase /\ full[s].phase = empty[s].phase
  BY <1>1, InsideAWrite
<1>3. UNCHANGED <<empty, reads, readAt, bulk, share>>
  BY DEF ReleaseWrite
<1>4. /\ step'[u] = "ready" /\ fillAt'[u] = After(fillAt[u])
      /\ \A v \in Units : v # u => step'[v] = step[v] /\ fillAt'[v] = fillAt[v]
  BY DEF ReleaseWrite, IInv, TypeOK
<1>5. /\ \A v \in Units, t \in Slots : ~(v = u /\ t = s) => writes'[v][t] = writes[v][t]
      /\ writes'[u][s] = writes[u][s] + 1
  BY <1>2 DEF ReleaseWrite, IInv, TypeOK
<1>6. /\ full[s] \in Mbarrier /\ empty[s] \in Mbarrier
      /\ fillAt[u] \in Place /\ readAt[u] \in Place
  BY <1>2 DEF IInv, TypeOK
<1>7. /\ \A t \in Slots : t # s => full'[t] = full[t]
      /\ ~Publishes(u) => full' = full
      /\ Publishes(u) => full'[s] = Arrive(full[s], PublishCount)
  <2>1. DOMAIN full = Slots
    BY DEF IInv, TypeOK
  <2>2. full' = IF Publishes(u) THEN [full EXCEPT ![s] = Arrive(@, PublishCount)] ELSE full
    BY DEF ReleaseWrite
  <2> QED
    BY <1>2, <2>1, <2>2
<1>8. TypeOK'
  <2>1. Arrive(full[s], PublishCount) \in Mbarrier
    BY <1>6 DEF Arrive, Settle, Mbarrier
  <2>2. full' \in [Slots -> Mbarrier]
    BY <1>2, <2>1 DEF ReleaseWrite, IInv, TypeOK
  <2>3. After(fillAt[u]) \in Place
    BY <1>6, AfterPasses
  <2>4. fillAt' \in [Units -> Place]
    BY <2>3 DEF ReleaseWrite, IInv, TypeOK
  <2>5. writes' \in [Units -> [Slots -> Nat]]
    BY <1>2 DEF ReleaseWrite, IInv, TypeOK
  <2>6. step' \in [Units -> {"ready", "filling", "filled", "reading"}]
    BY DEF ReleaseWrite, IInv, TypeOK
  <2> QED
    BY <1>3, <2>2, <2>4, <2>5, <2>6 DEF IInv, TypeOK
<1>9. ASSUME NEW v \in Units PROVE UnitInv(v)'
  <2>1. UnitInv(v)
    BY DEF IInv
  <2>2. CASE v # u
    <3>1. /\ FillsNext(v)' <=> FillsNext(v)
          /\ ReadsNext(v)' <=> ReadsNext(v)
      BY <1>3, <1>4, <2>2 DEF FillsNext, ReadsNext
    <3>2. \A t \in Slots : writes'[v][t] = writes[v][t]
      BY <1>5, <2>2
    <3> QED
      BY <1>3, <1>4, <2>1, <2>2, <3>1, <3>2 DEF UnitInv
  <2>3. CASE v = u
    <3>1. \A t \in Slots : writes'[u][t] = Passed(fillAt[u], t) + (IF t = s THEN 1 ELSE 0)
      <4>1. \A t \in Slots : writes[u][t] = Passed(fillAt[u], t)
        BY <2>1, <2>3 DEF UnitInv
      <4>2. \A t \in Slots : writes[u][t] \in Nat
        BY DEF IInv, TypeOK
      <4> QED
        BY <1>2, <1>5, <4>1, <4>2
    <3>2. \A t \in Slots : writes'[u][t] = Passed(fillAt'[u], t)
      BY <1>4, <1>6, <3>1, AfterPasses
    <3>3. Reads(u) => /\ ~Before(fillAt'[u], readAt[u])
                      /\ ~Before([readAt[u] EXCEPT !.lap = @ + 1], fillAt'[u])
      <4>1. [readAt[u] EXCEPT !.lap = @ + 1] \in Place
        BY <1>6 DEF Place
      <4>2. Reads(u) => /\ ~Before(fillAt[u], readAt[u])
                        /\ Before(fillAt[u], [readAt[u] EXCEPT !.lap = @ + 1])
        BY <1>2, <2>1, <2>3 DEF UnitInv, FillsNext
      <4> QED
        BY <1>4, <1>6, <4>1, <4>2, AfterInOrder
    <3>4. \A t \in Slots : reads[u][t] = Passed(readAt[u], t)
      BY <2>1, <2>3 DEF UnitInv
    <3> QED
      BY <1>3, <1>4, <2>3, <3>2, <3>3, <3>4 DEF UnitInv
  <2> QED
    BY <2>2, <2>3
<1>10. ASSUME NEW t \in Slots, t # s \/ ~Publishes(u)
       PROVE  FullInv(t)' /\ EmptyInv(t)' /\ ContentInv(t)'
  <2>1. FullInv(t) /\ EmptyInv(t) /\ ContentInv(t)
    BY DEF IInv
  <2>2. full'[t] = full[t]
    BY <1>7, <1>10
  <2>3. \A v \in Publishers : writes'[v][t] = writes[v][t]
    BY <1>5, <1>10 DEF Publishers
  <2>4. \A v \in Units : FillingAt(v, t)' => FillingAt(v, t)
    BY <1>4 DEF FillingAt
  <2>5. \A v \in Units : ReadingAt(v, t)' <=> ReadingAt(v, t)
    BY <1>1, <1>3, <1>4 DEF ReadingAt
  <2>6. Ahead(t)' = Ahead(t) /\ Freed(t)' = Freed(t) /\ InFlight(t)' = InFlight(t)
    BY <1>3, <2>2, <2>3 DEF Ahead, Freed, InFlight
  <2>7. FullInv(t)'
    <3>1. \A v \in Publishers : FillingAt(v, t)' =>
            writes[v][t] = empty[t].phase /\ full[t].phase = empty[t].phase
      BY <2>1, <2>4 DEF FullInv, Publishers
    <3> QED
      BY <1>3, <2>1, <2>2, <2>3, <2>6, <3>1 DEF FullInv
  <2>8. EmptyInv(t)'
    <3>1. \A v \in Readers : ReadingAt(v, t)' => full[t].phase = reads[v][t] + 1
      BY <2>1, <2>5 DEF EmptyInv, Readers
    <3> QED
      BY <1>3, <2>1, <2>2, <2>6, <3>1 DEF EmptyInv
  <2>9. ContentInv(t)'
    <3>1. \A v \in Publishers : HasBrought(v, t)' <=> HasBrought(v, t)
      <4>1. t = s => u \notin Publishers
        BY <1>10 DEF Publishers
      <4> QED
        BY <1>4, <1>1, <2>2, <2>3, <4>1 DEF HasBrought, Publishers
    <3>2. HasBrought(Elected, t)' <=> HasBrought(Elected, t)
      <4>1. t = s => u # Elected
        BY <1>10, ArmedCounts DEF Publishers
      <4> QED
        BY <1>4, <1>1, <2>2, <2>3, <4>1, ArmedCounts DEF HasBrought
    <3>3. CollectiveFull => \A v \in Units : HasBrought(v, t)' => share[t][v] = full[t].phase
      <4>1. CollectiveFull => Publishers = Units
        BY DEF Publishers, Publishes, AllPublish, Fills, CollectiveFull
      <4> QED
        BY <2>1, <3>1, <4>1 DEF ContentInv
    <3>4. FillingAt(Elected, t) => FillingAt(Elected, t)'
      <4>1. t = s => u # Elected
        BY <1>10, ArmedCounts DEF Publishers
      <4> QED
        BY <1>4, <4>1, ArmedCounts DEF FillingAt
    <3> QED
      BY <1>3, <2>1, <2>2, <3>2, <3>3, <3>4 DEF ContentInv
  <2> QED
    BY <2>7, <2>8, <2>9
<1>11. ASSUME NEW t \in Slots, t = s, Publishes(u)
       PROVE  FullInv(t)' /\ EmptyInv(t)' /\ ContentInv(t)'
  <2>1. FullInv(t) /\ EmptyInv(t) /\ ContentInv(t)
    BY DEF IInv
  <2>2. /\ u \in Publishers /\ u \notin Ahead(t)
        /\ writes[u][t] = full[t].phase /\ full[t].phase = empty[t].phase
        /\ full[t].phase \in Nat /\ full[t].arrived \in Nat /\ full[t].pending \in Nat
    BY <1>2, <1>6, <1>11 DEF Publishers, Ahead, Mbarrier
  <2>3. /\ Cardinality(Ahead(t) \cup {u}) = full[t].arrived + 1
        /\ full[t].arrived + 1 = PublishCount => Ahead(t) \cup {u} = Publishers
    <3>1. Ahead(t) \in SUBSET Publishers
      BY DEF Ahead
    <3> QED
      BY <2>1, <2>2, <3>1, OneMore, ArmedCounts DEF FullInv
  <2>4. \A v \in Publishers : writes'[v][t] = IF v = u THEN full[t].phase + 1 ELSE writes[v][t]
    BY <1>5, <1>11, <2>2 DEF Publishers
  <2>5. \A v \in Publishers : FillingAt(v, t)' => v # u /\ FillingAt(v, t)
    BY <1>4 DEF FillingAt, Publishers
  <2>6. \A v \in Units : ReadingAt(v, t)' <=> ReadingAt(v, t)
    BY <1>1, <1>3, <1>4 DEF ReadingAt
  <2>7. HasBrought(u, t) /\ (CollectiveFull => Publishers = Units)
    BY <1>1, <1>11 DEF HasBrought, Publishers, Publishes, AllPublish, Fills, CollectiveFull
  <2>8. CASE full[t].arrived + 1 = PublishCount /\ full[t].pending = 0
    <3>1. full'[t] = [arrived |-> 0, pending |-> 0, phase |-> full[t].phase + 1]
      BY <1>6, <1>7, <1>11, <2>8 DEF Arrive, Settle, Mbarrier
    <3>2. \A v \in Publishers : v = u \/ writes[v][t] = full[t].phase + 1
      BY <2>3, <2>8 DEF Ahead
    <3>3. \A v \in Publishers : writes'[v][t] = full[t].phase + 1 /\ HasBrought(v, t)
      BY <2>4, <2>7, <3>2 DEF HasBrought
    <3>4. \A v \in Publishers : ~FillingAt(v, t)'
      BY <2>1, <2>2, <2>5, <3>2 DEF FullInv
    <3>5. \A o \in BulkOperands : bulk[t][o] = [lap |-> full[t].phase, landed |-> TRUE]
      <4>1. InFlight(t) = {}
        <5>1. IsFiniteSet(InFlight(t))
          BY FS_Subset DEF InFlight
        <5> QED
          BY <2>1, <2>8, <5>1, FS_EmptySet DEF FullInv
      <4>2. HasBrought(Elected, t)
        BY <3>3, ArmedCounts
      <4>3. \A o \in BulkOperands : bulk[t][o].lap = full[t].phase /\ bulk[t][o].landed = TRUE
        BY <2>1, <4>1, <4>2 DEF ContentInv, InFlight, IInv, TypeOK
      <4>4. \A o \in BulkOperands : bulk[t][o] \in [lap : Nat \cup {Nothing}, landed : BOOLEAN]
        BY DEF IInv, TypeOK
      <4> QED
        BY <4>3, <4>4
    <3>6. CollectiveFull => \A v \in Units : share[t][v] = full[t].phase
      BY <2>1, <2>7, <3>3 DEF ContentInv
    <3> QED
      BY <1>3, <2>2, <2>6, <3>1, <3>3, <3>4, <3>5, <3>6, FillCompletes
  <2>9. CASE ~(full[t].arrived + 1 = PublishCount /\ full[t].pending = 0)
    <3>1. /\ full'[t].arrived = full[t].arrived + 1
          /\ full'[t].pending = full[t].pending /\ full'[t].phase = full[t].phase
      BY <1>6, <1>7, <1>11, <2>9 DEF Arrive, Settle, Mbarrier
    <3>2. Ahead(t)' = Ahead(t) \cup {u} /\ Freed(t)' = Freed(t) /\ InFlight(t)' = InFlight(t)
      BY <1>3, <2>2, <2>4, <3>1 DEF Ahead, Freed, InFlight
    <3>3. \A v \in Publishers : FillingAt(v, t)' =>
            writes'[v][t] = empty[t].phase /\ full[t].phase = empty[t].phase
      BY <2>1, <2>4, <2>5 DEF FullInv
    <3>4. \A v \in Publishers :
            /\ full[t].phase <= writes'[v][t] /\ writes'[v][t] <= full[t].phase + 1
            /\ writes'[v][t] = full[t].phase + 1 => empty[t].phase = full[t].phase
      BY <2>1, <2>2, <2>4 DEF FullInv
    <3>5. FullInv(t)'
      BY <1>3, <2>1, <2>3, <2>9, <3>1, <3>2, <3>3, <3>4 DEF FullInv
    <3>6. EmptyInv(t)'
      <4>1. \A v \in Readers : ReadingAt(v, t)' => full[t].phase = reads[v][t] + 1
        BY <2>1, <2>6 DEF EmptyInv, Readers
      <4> QED
        BY <1>3, <2>1, <3>1, <3>2, <4>1 DEF EmptyInv
    <3>7. ContentInv(t)'
      <4>1. \A v \in Publishers : HasBrought(v, t)' <=> HasBrought(v, t)
        BY <1>4, <2>4, <2>7, <3>1 DEF HasBrought, Publishers
      <4>2. HasBrought(Elected, t)' <=> HasBrought(Elected, t)
        BY <1>4, <2>4, <2>7, <3>1, ArmedCounts DEF HasBrought
      <4>3. CollectiveFull => \A v \in Units : HasBrought(v, t)' => share[t][v] = full[t].phase
        BY <2>1, <2>7, <4>1 DEF ContentInv
      <4>4. FillingAt(Elected, t) => HasBrought(Elected, t)' \/ FillingAt(Elected, t)'
        BY <1>4, <2>4, <2>7, <3>1, <4>2, ArmedCounts DEF FillingAt
      <4> QED
        BY <1>3, <2>1, <3>1, <4>2, <4>3, <4>4 DEF ContentInv
    <3> QED
      BY <3>5, <3>6, <3>7
  <2> QED
    BY <2>8, <2>9
<1> QED
  BY <1>8, <1>9, <1>10, <1>11 DEF IInv

\* A unit reads the one phase its slot is ahead by, so it is the fill of the
\* lap it is in, and a unit that also fills is past it.
LEMMA InsideARead ==
  ASSUME IInv, NEW u \in Units, step[u] = "reading"
  PROVE  LET s == readAt[u].slot IN
         /\ s \in Slots /\ u \in Readers /\ ReadsNext(u)
         /\ reads[u][s] = readAt[u].lap /\ readAt[u].lap \in Nat
         /\ reads[u][s] = empty[s].phase /\ full[s].phase = empty[s].phase + 1
<1> DEFINE s == readAt[u].slot
<1>1. s \in Slots /\ s \in Nat /\ readAt[u].lap \in Nat
  BY DEF IInv, TypeOK, Place, Slots
<1>2. ReadsNext(u) /\ reads[u][s] = Passed(readAt[u], s)
  BY <1>1 DEF IInv, UnitInv
<1>3. u \in Readers /\ reads[u][s] = readAt[u].lap
  BY <1>1, <1>2 DEF ReadsNext, Readers, Passed
<1>4. /\ full[s].phase \in Nat /\ empty[s].phase \in Nat /\ reads[u][s] \in Nat
  BY <1>1 DEF IInv, TypeOK, Mbarrier
<1>5. /\ full[s].phase = reads[u][s] + 1 /\ empty[s].phase <= reads[u][s]
      /\ full[s].phase <= empty[s].phase + 1
  BY <1>1, <1>3 DEF IInv, FullInv, EmptyInv, ReadingAt
<1> QED
  BY <1>1, <1>2, <1>3, <1>4, <1>5

\* `Slot::release_read`: the arrival at the empty barrier.
LEMMA ReleaseReadKeeps ==
  ASSUME IInv, NEW u \in Units, ReleaseRead(u)
  PROVE  IInv'
<1> DEFINE s == readAt[u].slot
<1>1. step[u] = "reading"
  BY DEF ReleaseRead
<1>2. /\ s \in Slots /\ u \in Readers /\ ReadsNext(u)
      /\ reads[u][s] = readAt[u].lap /\ readAt[u].lap \in Nat
      /\ reads[u][s] = empty[s].phase /\ full[s].phase = empty[s].phase + 1
  BY <1>1, InsideARead
<1>3. UNCHANGED <<full, writes, fillAt, bulk, share>>
  BY DEF ReleaseRead
<1>4. /\ step'[u] = "ready" /\ readAt'[u] = After(readAt[u])
      /\ \A v \in Units : v # u => step'[v] = step[v] /\ readAt'[v] = readAt[v]
  BY DEF ReleaseRead, IInv, TypeOK
<1>5. /\ \A v \in Units, t \in Slots : ~(v = u /\ t = s) => reads'[v][t] = reads[v][t]
      /\ reads'[u][s] = reads[u][s] + 1
  BY <1>2 DEF ReleaseRead, IInv, TypeOK
<1>6. /\ full[s] \in Mbarrier /\ empty[s] \in Mbarrier
      /\ fillAt[u] \in Place /\ readAt[u] \in Place
  BY <1>2 DEF IInv, TypeOK
<1>7. /\ \A t \in Slots : t # s => empty'[t] = empty[t]
      /\ empty'[s] = Arrive(empty[s], ReadCount)
  <2>1. DOMAIN empty = Slots
    BY DEF IInv, TypeOK
  <2>2. empty' = [empty EXCEPT ![s] = Arrive(@, ReadCount)]
    BY DEF ReleaseRead
  <2> QED
    BY <1>2, <2>1, <2>2
<1>8. TypeOK'
  <2>1. Arrive(empty[s], ReadCount) \in Mbarrier
    BY <1>6 DEF Arrive, Settle, Mbarrier
  <2>2. empty' \in [Slots -> Mbarrier]
    BY <1>2, <2>1 DEF ReleaseRead, IInv, TypeOK
  <2>3. After(readAt[u]) \in Place
    BY <1>6, AfterPasses
  <2>4. readAt' \in [Units -> Place]
    BY <2>3 DEF ReleaseRead, IInv, TypeOK
  <2>5. reads' \in [Units -> [Slots -> Nat]]
    BY <1>2 DEF ReleaseRead, IInv, TypeOK
  <2>6. step' \in [Units -> {"ready", "filling", "filled", "reading"}]
    BY DEF ReleaseRead, IInv, TypeOK
  <2> QED
    BY <1>3, <2>2, <2>4, <2>5, <2>6 DEF IInv, TypeOK
<1>9. ASSUME NEW v \in Units PROVE UnitInv(v)'
  <2>1. UnitInv(v)
    BY DEF IInv
  <2>2. CASE v # u
    <3>1. /\ FillsNext(v)' <=> FillsNext(v)
          /\ ReadsNext(v)' <=> ReadsNext(v)
      BY <1>3, <1>4, <2>2 DEF FillsNext, ReadsNext
    <3>2. \A t \in Slots : reads'[v][t] = reads[v][t]
      BY <1>5, <2>2
    <3> QED
      BY <1>3, <1>4, <2>1, <2>2, <3>1, <3>2 DEF UnitInv
  <2>3. CASE v = u
    <3>1. \A t \in Slots : reads'[u][t] = Passed(readAt[u], t) + (IF t = s THEN 1 ELSE 0)
      <4>1. \A t \in Slots : reads[u][t] = Passed(readAt[u], t)
        BY <2>1, <2>3 DEF UnitInv
      <4>2. \A t \in Slots : reads[u][t] \in Nat
        BY DEF IInv, TypeOK
      <4> QED
        BY <1>2, <1>5, <4>1, <4>2
    <3>2. \A t \in Slots : reads'[u][t] = Passed(readAt'[u], t)
      BY <1>4, <1>6, <3>1, AfterPasses
    <3>3. Fills(u) => /\ ~Before(fillAt[u], readAt'[u])
                      /\ ~Before([readAt'[u] EXCEPT !.lap = @ + 1], fillAt[u])
      <4> SUFFICES ASSUME Fills(u)
                   PROVE  /\ ~Before(fillAt[u], After(readAt[u]))
                          /\ ~Before([After(readAt[u]) EXCEPT !.lap = @ + 1], fillAt[u])
        BY <1>4
      <4>1. Before(readAt[u], fillAt[u])
        <5>1. CASE ~InWalk(fillAt[u])
          BY <1>2, <1>6, <5>1, PlacesInOrder DEF ReadsNext
        <5>2. CASE InWalk(fillAt[u])
          <6>1. ~Before(fillAt[u], [readAt[u] EXCEPT !.lap = @ + 1])
            BY <1>2, <5>2 DEF ReadsNext, FillsNext
          <6> QED
            BY <1>6, <6>1 DEF Before, Place, Slots
        <5> QED
          BY <5>1, <5>2
      <4>2. ~Before([readAt[u] EXCEPT !.lap = @ + 1], fillAt[u])
        BY <1>2, <2>1, <2>3 DEF UnitInv, ReadsNext
      <4> QED
        BY <1>6, <4>1, <4>2, AfterInOrder
    <3>4. \A t \in Slots : writes[u][t] = Passed(fillAt[u], t)
      BY <2>1, <2>3 DEF UnitInv
    <3> QED
      BY <1>3, <1>4, <2>3, <3>2, <3>3, <3>4 DEF UnitInv
  <2> QED
    BY <2>2, <2>3
<1>10. ASSUME NEW t \in Slots
       PROVE  /\ Ahead(t)' = Ahead(t) /\ InFlight(t)' = InFlight(t)
              /\ \A v \in Units : FillingAt(v, t)' <=> FillingAt(v, t)
              /\ \A v \in Units : ReadingAt(v, t)' <=> ReadingAt(v, t) /\ ~(v = u /\ t = s)
  BY <1>1, <1>3, <1>4 DEF Ahead, InFlight, FillingAt, ReadingAt
<1>11. ASSUME NEW t \in Slots PROVE ContentInv(t)'
  <2>1. ContentInv(t) /\ FullInv(t) /\ EmptyInv(t)
    BY DEF IInv
  <2>2. /\ \A v \in Units : HasBrought(v, t)' <=> HasBrought(v, t)
        /\ HasBrought(Elected, t)' <=> HasBrought(Elected, t)
    BY <1>1, <1>3, <1>4, ArmedCounts DEF HasBrought
  <2>3. full[t].phase = empty'[t].phase + 1 => empty'[t].phase = empty[t].phase
    <3>1. full[t].phase \in Nat /\ empty[t].phase \in Nat
      BY DEF IInv, TypeOK, Mbarrier
    <3>2. t = s => empty'[t].phase = empty[t].phase \/ empty'[t].phase = empty[t].phase + 1
      BY <1>6, <1>7 DEF Arrive, Settle, Mbarrier
    <3> QED
      BY <1>2, <1>7, <3>1, <3>2
  <2>4. FillingAt(Elected, t) => FillingAt(Elected, t)'
    BY <1>1, <1>3, <1>4, ArmedCounts DEF FillingAt
  <2> QED
    BY <1>3, <2>1, <2>2, <2>3, <2>4 DEF ContentInv
<1>12. ASSUME NEW t \in Slots, t # s PROVE FullInv(t)' /\ EmptyInv(t)'
  <2>1. FullInv(t) /\ EmptyInv(t)
    BY DEF IInv
  <2>2. empty'[t] = empty[t] /\ \A v \in Readers : reads'[v][t] = reads[v][t]
    BY <1>5, <1>7, <1>12 DEF Readers
  <2>3. Freed(t)' = Freed(t)
    BY <2>2 DEF Freed
  <2>4. FullInv(t)'
    <3>1. \A v \in Publishers : FillingAt(v, t)' =>
            writes[v][t] = empty[t].phase /\ full[t].phase = empty[t].phase
      BY <1>10, <2>1 DEF FullInv, Publishers
    <3> QED
      BY <1>3, <1>10, <2>1, <2>2, <3>1 DEF FullInv
  <2>5. EmptyInv(t)'
    <3>1. \A v \in Readers : ReadingAt(v, t)' => full[t].phase = reads'[v][t] + 1
      BY <1>10, <2>1, <2>2 DEF EmptyInv, Readers
    <3> QED
      BY <1>3, <2>1, <2>2, <2>3, <3>1 DEF EmptyInv
  <2> QED
    BY <2>4, <2>5
<1>13. ASSUME NEW t \in Slots, t = s PROVE FullInv(t)' /\ EmptyInv(t)'
  <2>1. FullInv(t) /\ EmptyInv(t)
    BY DEF IInv
  <2>2. /\ u \notin Freed(t) /\ empty[t].phase \in Nat
        /\ empty[t].arrived \in Nat /\ empty[t].pending = 0
        /\ full[t].phase = empty[t].phase + 1 /\ reads[u][t] = empty[t].phase
        /\ empty'[t] = Arrive(empty[t], ReadCount)
    <3>1. /\ empty[t].phase \in Nat /\ empty[t].arrived \in Nat
          /\ empty'[t] = Arrive(empty[t], ReadCount)
      BY <1>6, <1>7, <1>13 DEF Mbarrier
    <3>2. /\ empty[t].pending = 0 /\ full[t].phase = empty[t].phase + 1
          /\ reads[u][t] = empty[t].phase
      BY <1>2, <1>13, <2>1 DEF EmptyInv
    <3>3. u \notin Freed(t)
      BY <3>1, <3>2 DEF Freed
    <3> QED
      BY <3>1, <3>2, <3>3
  <2>3. /\ Cardinality(Freed(t) \cup {u}) = empty[t].arrived + 1
        /\ empty[t].arrived + 1 = ReadCount => Freed(t) \cup {u} = Readers
    <3>1. Freed(t) \in SUBSET Readers
      BY DEF Freed
    <3> QED
      BY <1>2, <2>1, <2>2, <3>1, OneMore, ArmedCounts DEF EmptyInv
  <2>4. \A v \in Readers : reads'[v][t] = IF v = u THEN empty[t].phase + 1 ELSE reads[v][t]
    BY <1>5, <1>13, <2>2 DEF Readers
  <2>5. \A v \in Readers : ReadingAt(v, t)' => v # u /\ reads[v][t] = empty[t].phase
    <3>1. \A v \in Readers : reads[v][t] \in Nat
      BY DEF IInv, TypeOK, Readers
    <3> QED
      BY <1>10, <1>13, <2>1, <2>2, <3>1 DEF EmptyInv, Readers
  <2>6. \A v \in Publishers :
          /\ writes[v][t] \in Nat /\ writes[v][t] # full[t].phase + 1
          /\ ~FillingAt(v, t)'
    BY <1>10, <2>1, <2>2 DEF FullInv, Publishers, IInv, TypeOK
  <2>7. CASE empty[t].arrived + 1 = ReadCount
    <3>1. /\ empty'[t].arrived = 0 /\ empty'[t].pending = 0
          /\ empty'[t].phase = empty[t].phase + 1
      BY <1>6, <1>13, <2>2, <2>7 DEF Arrive, Settle, Mbarrier
    <3>2. \A v \in Readers : reads'[v][t] = empty[t].phase + 1
      BY <2>3, <2>4, <2>7 DEF Freed
    <3>3. Freed(t)' = {}
      BY <2>2, <3>1, <3>2 DEF Freed
    <3>4. \A v \in Readers : ~ReadingAt(v, t)'
      BY <2>2, <2>3, <2>5, <2>7 DEF Freed
    <3>5. FullInv(t)'
      BY <1>3, <1>10, <2>1, <2>2, <2>6, <3>1 DEF FullInv
    <3>6. EmptyInv(t)'
      <4>1. Cardinality({}) = 0 /\ ReadCount # 0
        BY FS_EmptySet, ArmedCounts
      <4> QED
        BY <1>3, <2>2, <3>1, <3>2, <3>3, <3>4, <4>1 DEF EmptyInv
    <3> QED
      BY <3>5, <3>6
  <2>8. CASE empty[t].arrived + 1 # ReadCount
    <3>1. /\ empty'[t].arrived = empty[t].arrived + 1 /\ empty'[t].pending = 0
          /\ empty'[t].phase = empty[t].phase
      BY <1>6, <1>13, <2>2, <2>8 DEF Arrive, Settle, Mbarrier
    <3>2. Freed(t)' = Freed(t) \cup {u}
      BY <1>2, <2>2, <2>4, <3>1 DEF Freed
    <3>3. FullInv(t)'
      BY <1>3, <1>10, <2>1, <2>2, <2>6, <3>1 DEF FullInv
    <3>4. EmptyInv(t)'
      <4>1. \A v \in Readers :
              /\ empty[t].phase <= reads'[v][t] /\ reads'[v][t] <= empty[t].phase + 1
              /\ reads'[v][t] <= full[t].phase
              /\ ReadingAt(v, t)' => full[t].phase = reads'[v][t] + 1
        BY <2>1, <2>2, <2>4, <2>5 DEF EmptyInv
      <4> QED
        BY <1>3, <2>3, <2>8, <3>1, <3>2, <4>1 DEF EmptyInv
    <3> QED
      BY <3>3, <3>4
  <2> QED
    BY <2>7, <2>8
<1> QED
  BY <1>8, <1>9, <1>11, <1>12, <1>13 DEF IInv

\* A bulk copy lands, the bytes its barrier expects with it.
LEMMA BulkLandsKeeps ==
  ASSUME IInv, NEW s \in Slots, NEW o \in BulkOperands, BulkLands(s, o)
  PROVE  IInv'
<1>1. /\ ~bulk[s][o].landed
      /\ UNCHANGED <<empty, writes, reads, fillAt, readAt, step, share>>
  BY DEF BulkLands
<1>2. /\ FullInv(s) /\ EmptyInv(s) /\ ContentInv(s)
      /\ full[s] \in Mbarrier /\ empty[s] \in Mbarrier
      /\ bulk[s] \in [BulkOperands -> [lap : Nat \cup {Nothing}, landed : BOOLEAN]]
  BY DEF IInv, TypeOK
<1>3. /\ \A t \in Slots : t # s => full'[t] = full[t] /\ bulk'[t] = bulk[t]
      /\ full'[s] = CopyLands(full[s], PublishCount)
      /\ bulk'[s] = [bulk[s] EXCEPT ![o].landed = TRUE]
  <2>1. DOMAIN full = Slots /\ DOMAIN bulk = Slots
    BY DEF IInv, TypeOK
  <2>2. /\ full' = [full EXCEPT ![s] = CopyLands(@, PublishCount)]
        /\ bulk' = [bulk EXCEPT ![s][o].landed = TRUE]
    BY DEF BulkLands
  <2> QED
    BY <2>1, <2>2
<1>4. \A p \in BulkOperands :
        /\ bulk'[s][p] \in [lap : Nat \cup {Nothing}, landed : BOOLEAN]
        /\ bulk'[s][p].lap = bulk[s][p].lap
        /\ bulk'[s][p].landed <=> (bulk[s][p].landed \/ p = o)
  <2> SUFFICES ASSUME NEW p \in BulkOperands
               PROVE  /\ bulk'[s][p] \in [lap : Nat \cup {Nothing}, landed : BOOLEAN]
                      /\ bulk'[s][p].lap = bulk[s][p].lap
                      /\ bulk'[s][p].landed <=> (bulk[s][p].landed \/ p = o)
    OBVIOUS
  <2>1. CASE p = o
    <3>1. bulk'[s][p] = [bulk[s][p] EXCEPT !.landed = TRUE]
      BY <1>2, <1>3, <2>1
    <3>2. bulk[s][p] \in [lap : Nat \cup {Nothing}, landed : BOOLEAN]
      BY <1>2
    <3>3. /\ bulk'[s][p] \in [lap : Nat \cup {Nothing}, landed : BOOLEAN]
          /\ bulk'[s][p].lap = bulk[s][p].lap /\ bulk'[s][p].landed = TRUE
      BY <3>1, <3>2
    <3> QED
      BY <2>1, <3>3
  <2>2. CASE p # o
    <3>1. bulk'[s][p] = bulk[s][p]
      BY <1>2, <1>3, <2>2
    <3> QED
      BY <1>2, <2>2, <3>1
  <2> QED
    BY <2>1, <2>2
<1>5. /\ Cardinality(InFlight(s)') = full[s].pending - 1
      /\ full[s].pending \in Nat \ {0}
      /\ InFlight(s)' = InFlight(s) \ {o}
  <2>1. InFlight(s)' = InFlight(s) \ {o} /\ o \in InFlight(s)
    BY <1>1, <1>4 DEF InFlight
  <2>2. IsFiniteSet(InFlight(s)) /\ Cardinality(InFlight(s)) \in Nat
    BY FS_Subset, FS_CardinalityType DEF InFlight
  <2>3. Cardinality(InFlight(s) \ {o}) = Cardinality(InFlight(s)) - 1
    BY <2>1, <2>2, FS_RemoveElement
  <2>4. InFlight(s) # {}
    BY <2>1
  <2> QED
    BY <1>2, <2>1, <2>2, <2>3, <2>4, FS_EmptySet DEF FullInv
<1>6. TypeOK'
  <2>1. CopyLands(full[s], PublishCount) \in Mbarrier
    <3>1. /\ full[s].pending - 1 \in Nat /\ full[s].phase + 1 \in Nat
          /\ full[s].arrived \in Nat /\ full[s].phase \in Nat
      BY <1>2, <1>5 DEF Mbarrier
    <3>2. [full[s] EXCEPT !.pending = @ - 1] \in Mbarrier
      BY <1>2, <3>1 DEF Mbarrier
    <3>3. [arrived |-> 0, pending |-> 0, phase |-> full[s].phase + 1] \in Mbarrier
      BY <3>1 DEF Mbarrier
    <3>4. [full[s] EXCEPT !.pending = @ - 1].phase = full[s].phase
      BY <1>2 DEF Mbarrier
    <3> QED
      BY <3>2, <3>3, <3>4 DEF CopyLands, Settle
  <2>2. full' \in [Slots -> Mbarrier]
    BY <2>1 DEF BulkLands, IInv, TypeOK
  <2>3. bulk' \in [Slots -> [BulkOperands -> [lap : Nat \cup {Nothing}, landed : BOOLEAN]]]
    <3> DEFINE Window == [lap : Nat \cup {Nothing}, landed : BOOLEAN]
    <3>1. bulk \in [Slots -> [BulkOperands -> Window]]
      BY DEF IInv, TypeOK
    <3>2. [bulk[s] EXCEPT ![o].landed = TRUE] \in [BulkOperands -> Window]
      BY <1>2
    <3>3. bulk' = [bulk EXCEPT ![s] = [bulk[s] EXCEPT ![o].landed = TRUE]]
      BY <3>1 DEF BulkLands
    <3> HIDE DEF Window
    <3>4. bulk' \in [Slots -> [BulkOperands -> Window]]
      BY <3>1, <3>2, <3>3
    <3> QED
      BY <3>4 DEF Window
  <2> QED
    BY <1>1, <2>2, <2>3 DEF IInv, TypeOK
<1>7. ASSUME NEW v \in Units PROVE UnitInv(v)'
  <2>1. UnitInv(v)
    BY DEF IInv
  <2>2. /\ FillsNext(v)' <=> FillsNext(v)
        /\ ReadsNext(v)' <=> ReadsNext(v)
    BY <1>1 DEF FillsNext, ReadsNext
  <2> QED
    BY <1>1, <2>1, <2>2 DEF UnitInv
<1>8. ASSUME NEW t \in Slots
      PROVE  /\ \A v \in Units : FillingAt(v, t)' <=> FillingAt(v, t)
             /\ \A v \in Units : ReadingAt(v, t)' <=> ReadingAt(v, t)
  BY <1>1 DEF FillingAt, ReadingAt
<1>9. ASSUME NEW t \in Slots, full'[t].phase = full[t].phase,
             full'[t].arrived = full[t].arrived,
             full'[t].pending = Cardinality(InFlight(t)'),
             ~(full'[t].arrived = PublishCount /\ full'[t].pending = 0),
             \A p \in BulkOperands : /\ bulk[t][p].landed => bulk'[t][p] = bulk[t][p]
                                     /\ bulk'[t][p].lap = bulk[t][p].lap
                                     /\ bulk[t][p].landed => bulk'[t][p].landed
      PROVE  FullInv(t)' /\ EmptyInv(t)' /\ ContentInv(t)'
  <2>1. FullInv(t) /\ EmptyInv(t) /\ ContentInv(t)
    BY DEF IInv
  <2>2. Ahead(t)' = Ahead(t) /\ Freed(t)' = Freed(t)
    BY <1>1, <1>9 DEF Ahead, Freed
  <2>3. FullInv(t)'
    <3>1. \A v \in Publishers : FillingAt(v, t)' =>
            writes[v][t] = empty[t].phase /\ full[t].phase = empty[t].phase
      BY <1>8, <2>1 DEF FullInv, Publishers
    <3> QED
      BY <1>1, <1>9, <2>1, <2>2, <3>1 DEF FullInv
  <2>4. EmptyInv(t)'
    <3>1. \A v \in Readers : ReadingAt(v, t)' => full[t].phase = reads[v][t] + 1
      BY <1>8, <2>1 DEF EmptyInv, Readers
    <3> QED
      BY <1>1, <1>9, <2>1, <2>2, <3>1 DEF EmptyInv
  <2>5. ContentInv(t)'
    <3>1. /\ \A v \in Units : HasBrought(v, t)' <=> HasBrought(v, t)
          /\ HasBrought(Elected, t)' <=> HasBrought(Elected, t)
      BY <1>1, <1>9, ArmedCounts DEF HasBrought
    <3>2. full[t].phase = empty[t].phase + 1 =>
            /\ \A p \in BulkOperands : bulk'[t][p] = [lap |-> empty[t].phase, landed |-> TRUE]
            /\ CollectiveFull => \A v \in Units : share[t][v] = empty[t].phase
      <4> SUFFICES ASSUME full[t].phase = empty[t].phase + 1
                   PROVE  /\ \A p \in BulkOperands : bulk'[t][p] = bulk[t][p]
                          /\ \A p \in BulkOperands :
                               bulk[t][p] = [lap |-> empty[t].phase, landed |-> TRUE]
                          /\ CollectiveFull =>
                               \A v \in Units : share[t][v] = empty[t].phase
        OBVIOUS
      <4>1. \A p \in BulkOperands : bulk[t][p] = [lap |-> empty[t].phase, landed |-> TRUE]
        BY <2>1 DEF ContentInv
      <4>2. \A p \in BulkOperands : bulk[t][p].landed
        BY <4>1
      <4>3. CollectiveFull => \A v \in Units : share[t][v] = empty[t].phase
        BY <2>1 DEF ContentInv
      <4> QED
        BY <1>9, <4>1, <4>2, <4>3
    <3>3. \A p \in BulkOperands : ~bulk'[t][p].landed =>
            /\ bulk'[t][p].lap = full[t].phase
            /\ HasBrought(Elected, t) \/ FillingAt(Elected, t)'
      <4>1. FillingAt(Elected, t) => FillingAt(Elected, t)'
        BY <1>1 DEF FillingAt
      <4> QED
        BY <1>9, <2>1, <4>1 DEF ContentInv
    <3>4. HasBrought(Elected, t) => \A p \in BulkOperands : bulk'[t][p].lap = full[t].phase
      BY <1>9, <2>1 DEF ContentInv
    <3>5. CollectiveFull => \A v \in Units : HasBrought(v, t) => share[t][v] = full[t].phase
      BY <2>1 DEF ContentInv
    <3> QED
      BY <1>1, <1>9, <3>1, <3>2, <3>3, <3>4, <3>5 DEF ContentInv
  <2> QED
    BY <2>3, <2>4, <2>5
<1>10. ASSUME NEW t \in Slots, t # s PROVE FullInv(t)' /\ EmptyInv(t)' /\ ContentInv(t)'
  <2>1. full'[t] = full[t] /\ bulk'[t] = bulk[t]
    BY <1>3, <1>10
  <2>2. InFlight(t)' = InFlight(t)
    BY <2>1 DEF InFlight
  <2>3. FullInv(t)
    BY DEF IInv
  <2>4. /\ full[t].pending = Cardinality(InFlight(t))
        /\ ~(full[t].arrived = PublishCount /\ full[t].pending = 0)
    BY <2>3 DEF FullInv
  <2> QED
    BY <1>9, <2>1, <2>2, <2>4
<1>11. FullInv(s)' /\ EmptyInv(s)' /\ ContentInv(s)'
  <2>1. CASE full[s].arrived = PublishCount /\ full[s].pending - 1 = 0
    <3>1. full'[s] = [arrived |-> 0, pending |-> 0, phase |-> full[s].phase + 1]
      BY <1>2, <1>3, <2>1 DEF CopyLands, Settle, Mbarrier
    <3>2. Ahead(s) = Publishers
      <4>1. Ahead(s) \in SUBSET Publishers
        BY DEF Ahead
      <4>2. Cardinality(Ahead(s)) = Cardinality(Publishers)
        BY <1>2, <2>1, ArmedCounts DEF FullInv
      <4> QED
        BY <4>1, <4>2, FS_Subset, ArmedCounts
    <3>3. \A v \in Publishers : writes[v][s] = full[s].phase + 1 /\ HasBrought(v, s)
      BY <3>2 DEF Ahead, HasBrought
    <3>4. full[s].phase = empty[s].phase
      BY <1>2, <3>3, ArmedCounts DEF FullInv
    <3>5. \A v \in Publishers : ~FillingAt(v, s)'
      <4>1. full[s].phase \in Nat
        BY <1>2 DEF Mbarrier
      <4> QED
        BY <1>2, <1>8, <3>3, <3>4, <4>1 DEF FullInv, Publishers
    <3>6. \A p \in BulkOperands : bulk'[s][p] = [lap |-> full[s].phase, landed |-> TRUE]
      <4>1. InFlight(s)' = {}
        <5>1. IsFiniteSet(InFlight(s)')
          BY FS_Subset DEF InFlight
        <5> QED
          BY <1>5, <2>1, <5>1, FS_EmptySet
      <4>2. \A p \in BulkOperands : bulk[s][p].lap = full[s].phase
        BY <1>2, <3>3, ArmedCounts DEF ContentInv
      <4>3. \A p \in BulkOperands : bulk'[s][p].landed = TRUE
        BY <1>4, <4>1 DEF InFlight
      <4> QED
        BY <1>4, <4>2, <4>3
    <3>7. CollectiveFull => \A v \in Units : share[s][v] = full[s].phase
      <4>1. CollectiveFull => Publishers = Units
        BY DEF Publishers, Publishes, AllPublish, Fills, CollectiveFull
      <4> QED
        BY <1>2, <3>3, <4>1 DEF ContentInv
    <3> QED
      BY <1>1, <1>8, <3>1, <3>3, <3>4, <3>5, <3>6, <3>7, FillCompletes
  <2>2. CASE ~(full[s].arrived = PublishCount /\ full[s].pending - 1 = 0)
    <3>1. /\ full'[s].phase = full[s].phase /\ full'[s].arrived = full[s].arrived
          /\ full'[s].pending = full[s].pending - 1
      BY <1>2, <1>3, <1>5, <2>2 DEF CopyLands, Settle, Mbarrier
    <3>2. \A p \in BulkOperands : bulk[s][p].landed => bulk'[s][p] = bulk[s][p]
      BY <1>1, <1>2, <1>3
    <3> QED
      BY <1>4, <1>5, <1>9, <2>2, <3>1, <3>2
  <2> QED
    BY <2>1, <2>2
<1> QED
  BY <1>6, <1>7, <1>10, <1>11 DEF IInv

\* Every step of the protocol keeps the inductive invariant.
LEMMA StepKeepsIInv == IInv /\ [Next]_vars => IInv'
<1> SUFFICES ASSUME IInv, [Next]_vars PROVE IInv'
  OBVIOUS
<1>1. ASSUME NEW u \in Units, UnitStep(u) PROVE IInv'
  BY <1>1, AcquireWriteKeeps, IssueCopyKeeps, BringKeeps, ReleaseWriteKeeps, AcquireReadKeeps,
     ReleaseReadKeeps DEF UnitStep
<1>2. ASSUME NEW s \in Slots, NEW o \in BulkOperands, BulkLands(s, o) PROVE IInv'
  BY <1>2, BulkLandsKeeps
<1>3. CASE vars' = vars
  <2>1. UNCHANGED <<full, empty, writes, reads, fillAt, readAt, step, bulk, share>>
    BY <1>3 DEF vars
  <2>2. TypeOK'
    BY <2>1 DEF IInv, TypeOK
  <2>3. ASSUME NEW u \in Units PROVE UnitInv(u)'
    BY <2>1 DEF IInv, UnitInv, FillsNext, ReadsNext
  <2>4. ASSUME NEW s \in Slots PROVE FullInv(s)' /\ EmptyInv(s)' /\ ContentInv(s)'
    <3>1. FullInv(s) /\ EmptyInv(s) /\ ContentInv(s)
      BY DEF IInv
    <3>2. Ahead(s)' = Ahead(s) /\ Freed(s)' = Freed(s) /\ InFlight(s)' = InFlight(s)
      BY <2>1 DEF Ahead, Freed, InFlight
    <3> QED
      BY <2>1, <3>1, <3>2 DEF FullInv, EmptyInv, ContentInv, FillingAt, ReadingAt, HasBrought
  <2> QED
    BY <2>2, <2>3, <2>4 DEF IInv
<1> QED
  BY <1>1, <1>2, <1>3 DEF Next, Engine, WalkEnds

\* IInv holds in every state of the protocol, for every cube, ring, walk and
\* set of operands.
THEOREM Invariance == Spec => []IInv
<1>1. Init => IInv
  BY InitIInv
<1>2. IInv /\ [Next]_vars => IInv'
  BY StepKeepsIInv
<1> QED
  BY <1>1, <1>2, PTL DEF Spec

\* The type invariant.
THEOREM TypeCorrect == Spec => []TypeOK
<1>1. IInv => TypeOK
  BY DEF IInv
<1> QED
  BY <1>1, Invariance, PTL

\* A unit that passed `acquire_read` reads all of the region it walks: the wait
\* on one parity bit orders it after every copy of the fill and no later one.
THEOREM ReadersSeeTheirRegion == Spec => []ReadsItsRegion
<1>1. IInv => ReadsItsRegion
  <2> SUFFICES ASSUME IInv, NEW u \in Units, step[u] = "reading"
               PROVE  /\ \A o \in BulkOperands :
                           bulk[readAt[u].slot][o] = [lap |-> readAt[u].lap, landed |-> TRUE]
                      /\ CollectiveFull =>
                           \A v \in Units : share[readAt[u].slot][v] = readAt[u].lap
    BY DEF ReadsItsRegion
  <2>1. /\ readAt[u].slot \in Slots /\ readAt[u].lap = empty[readAt[u].slot].phase
        /\ full[readAt[u].slot].phase = empty[readAt[u].slot].phase + 1
    BY InsideARead
  <2>2. ContentInv(readAt[u].slot)
    BY <2>1 DEF IInv
  <2> QED
    BY <2>1, <2>2 DEF ContentInv
<1> QED
  BY <1>1, Invariance, PTL

\* A unit that passed `acquire_write` refills a slot nobody reads and no copy
\* is landing in.
THEOREM NobodyReadsARefill == Spec => []NoRefillUnderReader
<1>1. IInv => NoRefillUnderReader
  <2> SUFFICES ASSUME IInv, NEW u \in Units, step[u] = "filling", Publishes(u)
               PROVE  LET s == fillAt[u].slot IN
                      /\ \A v \in Units : ~(step[v] = "reading" /\ readAt[v].slot = s)
                      /\ \A o \in BulkOperands :
                           bulk[s][o].lap # fillAt[u].lap => bulk[s][o].landed
    BY DEF NoRefillUnderReader
  <2> DEFINE s == fillAt[u].slot
  <2>1. s \in Slots /\ writes[u][s] = full[s].phase /\ full[s].phase = empty[s].phase
    BY InsideAWrite
  <2>2. full[s].phase \in Nat /\ ContentInv(s)
    BY <2>1 DEF IInv, TypeOK, Mbarrier
  <2>3. \A v \in Units : ~(step[v] = "reading" /\ readAt[v].slot = s)
    <3> SUFFICES ASSUME NEW v \in Units, step[v] = "reading", readAt[v].slot = s PROVE FALSE
      OBVIOUS
    <3>1. full[s].phase = empty[s].phase + 1
      BY InsideARead
    <3> QED
      BY <2>1, <2>2, <3>1
  <2>4. writes[u][s] = fillAt[u].lap
    BY InsideAWrite
  <2>5. \A o \in BulkOperands : bulk[s][o].lap # fillAt[u].lap => bulk[s][o].landed
    BY <2>1, <2>2, <2>4 DEF ContentInv
  <2> QED
    BY <2>3, <2>5
<1> QED
  BY <1>1, Invariance, PTL

\* The bit a unit waits on stands for the phase it means, on both sides.
THEOREM OneBitIsEnough == Spec => []ParityNeverAliases
<1>1. IInv => ParityNeverAliases
  <2> SUFFICES ASSUME IInv, NEW u \in Units
               PROVE  /\ FillsNext(u) =>
                           (Passes(empty[fillAt[u].slot], (writes[u][fillAt[u].slot] + 1) % 2)
                              <=> empty[fillAt[u].slot].phase = writes[u][fillAt[u].slot])
                      /\ ReadsNext(u) =>
                           (Passes(full[readAt[u].slot], reads[u][readAt[u].slot] % 2)
                              <=> full[readAt[u].slot].phase = reads[u][readAt[u].slot] + 1)
    BY DEF ParityNeverAliases
  <2>1. ASSUME FillsNext(u)
        PROVE  Passes(empty[fillAt[u].slot], (writes[u][fillAt[u].slot] + 1) % 2)
                 <=> empty[fillAt[u].slot].phase = writes[u][fillAt[u].slot]
    <3>1. /\ fillAt[u].slot \in Slots
          /\ \/ empty[fillAt[u].slot].phase = writes[u][fillAt[u].slot]
             \/ empty[fillAt[u].slot].phase + 1 = writes[u][fillAt[u].slot]
      BY <2>1, BeforeFilling
    <3>2. empty[fillAt[u].slot] \in Mbarrier /\ writes[u][fillAt[u].slot] \in Nat
      BY <3>1 DEF IInv, TypeOK
    <3> QED
      BY <3>1, <3>2, WritePasses
  <2>2. ASSUME ReadsNext(u)
        PROVE  Passes(full[readAt[u].slot], reads[u][readAt[u].slot] % 2)
                 <=> full[readAt[u].slot].phase = reads[u][readAt[u].slot] + 1
    <3>1. /\ readAt[u].slot \in Slots
          /\ \/ full[readAt[u].slot].phase = reads[u][readAt[u].slot]
             \/ full[readAt[u].slot].phase = reads[u][readAt[u].slot] + 1
      BY <2>2, BeforeReading
    <3>2. full[readAt[u].slot] \in Mbarrier /\ reads[u][readAt[u].slot] \in Nat
      BY <3>1 DEF IInv, TypeOK
    <3> QED
      BY <3>1, <3>2, ReadPasses
  <2> QED
    BY <2>1, <2>2
<1> QED
  BY <1>1, Invariance, PTL
-----------------------------------------------------------------------------
(***************************************************************************)
(* The end of the walk.                                                    *)
(***************************************************************************)
\* The place after a place names the next region.
LEMMA NextRegion ==
  ASSUME NEW p \in Place
  PROVE  Region(p) \in Nat /\ Region(After(p)) = Region(p) + 1
<1>1. p.lap \in Nat /\ p.slot \in Nat /\ Depth \in Nat
  BY WalkAssumption DEF Place, Slots
<1>2. p.lap * Depth \in Nat
  BY <1>1
<1>3. CASE p.slot + 1 = Depth
  <2>1. After(p).lap = p.lap + 1 /\ After(p).slot = 0
    BY <1>3 DEF After
  <2>2. (p.lap + 1) * Depth = p.lap * Depth + Depth
    BY <1>1
  <2> QED
    BY <1>1, <1>2, <1>3, <2>1, <2>2 DEF Region
<1>4. CASE p.slot + 1 # Depth
  <2>1. After(p).lap = p.lap /\ After(p).slot = p.slot + 1
    BY <1>4 DEF After, Place
  <2>2. Region(After(p)) = p.lap * Depth + (p.slot + 1)
    BY <2>1, Zenon DEF Region
  <2>3. Region(p) = p.lap * Depth + p.slot
    BY DEF Region
  <2>4. ASSUME NEW x \in Nat, NEW y \in Nat PROVE x + (y + 1) = (x + y) + 1 /\ x + y \in Nat
    OBVIOUS
  <2> QED
    BY <1>1, <1>2, <2>2, <2>3, <2>4
<1> QED
  BY <1>3, <1>4

\* A region is the name of one place.
LEMMA RegionNamesAPlace ==
  ASSUME NEW p \in Place, NEW q \in Place, Region(p) = Region(q)
  PROVE  p.lap = q.lap /\ p.slot = q.slot
<1>1. /\ p.lap \in Nat /\ q.lap \in Nat /\ p.slot \in Nat /\ q.slot \in Nat
      /\ p.slot < Depth /\ q.slot < Depth /\ Depth \in Nat
  BY WalkAssumption DEF Place, Slots
<1>2. ASSUME NEW a \in Nat, NEW b \in Nat, a < b PROVE a * Depth + Depth <= b * Depth
  <2>1. PICK d \in Nat : b = a + 1 + d
    <3>1. b - a - 1 \in Nat /\ b = a + 1 + (b - a - 1)
      BY <1>2
    <3> QED
      BY <3>1
  <2>2. (a + 1 + d) * Depth = a * Depth + Depth + d * Depth /\ d * Depth \in Nat
    BY <1>1
  <2>3. a * Depth \in Nat
    BY <1>1
  <2> QED
    BY <1>1, <2>1, <2>2, <2>3
<1>3. p.lap * Depth + p.slot = q.lap * Depth + q.slot
  BY DEF Region
<1>4. p.lap * Depth \in Nat /\ q.lap * Depth \in Nat
  BY <1>1
<1>5. ~(p.lap < q.lap)
  <2> SUFFICES ASSUME p.lap < q.lap PROVE FALSE
    OBVIOUS
  <2>1. p.lap * Depth + Depth <= q.lap * Depth
    BY <1>1, <1>2
  <2> QED
    BY <1>1, <1>3, <1>4, <2>1
<1>6. ~(q.lap < p.lap)
  <2> SUFFICES ASSUME q.lap < p.lap PROVE FALSE
    OBVIOUS
  <2>1. q.lap * Depth + Depth <= p.lap * Depth
    BY <1>1, <1>2
  <2> QED
    BY <1>1, <1>3, <1>4, <2>1
<1>7. p.lap = q.lap
  BY <1>1, <1>5, <1>6
<1>8. p.lap * Depth = q.lap * Depth
  BY <1>7
<1>9. ASSUME NEW x \in Nat, NEW i \in Nat, NEW j \in Nat, x + i = x + j PROVE i = j
  BY <1>9
<1>10. p.slot = q.slot
  BY <1>1, <1>3, <1>4, <1>8, <1>9
<1> QED
  BY <1>7, <1>10

\* A unit moves on from a place of the walk alone.
LEMMA PlacesStayInWalk ==
  ASSUME IInv, PlacesInWalk, [Next]_vars
  PROVE  PlacesInWalk'
<1>1. ASSUME NEW v \in Units, Region(fillAt[v]) < Total,
             fillAt' = [fillAt EXCEPT ![v] = After(@)], readAt' = readAt
      PROVE  PlacesInWalk'
  <2>1. fillAt[v] \in Place /\ fillAt'[v] = After(fillAt[v])
        /\ \A u \in Units : u # v => fillAt'[u] = fillAt[u]
    BY <1>1 DEF IInv, TypeOK
  <2>2. Region(fillAt'[v]) <= Total
    BY <1>1, <2>1, NextRegion, WalkAssumption
  <2>3. ASSUME NEW u \in Units
        PROVE  Region(fillAt'[u]) <= Total /\ Region(readAt'[u]) <= Total
    BY <1>1, <2>1, <2>2, <2>3 DEF PlacesInWalk
  <2> QED
    BY <2>3 DEF PlacesInWalk, Region
<1>2. ASSUME NEW v \in Units, Region(readAt[v]) < Total,
             readAt' = [readAt EXCEPT ![v] = After(@)], fillAt' = fillAt
      PROVE  PlacesInWalk'
  <2>1. readAt[v] \in Place /\ readAt'[v] = After(readAt[v])
        /\ \A u \in Units : u # v => readAt'[u] = readAt[u]
    BY <1>2 DEF IInv, TypeOK
  <2>2. Region(readAt'[v]) <= Total
    BY <1>2, <2>1, NextRegion, WalkAssumption
  <2>3. ASSUME NEW u \in Units
        PROVE  Region(fillAt'[u]) <= Total /\ Region(readAt'[u]) <= Total
    BY <1>2, <2>1, <2>2, <2>3 DEF PlacesInWalk
  <2> QED
    BY <2>3 DEF PlacesInWalk, Region
<1>3. ASSUME fillAt' = fillAt, readAt' = readAt PROVE PlacesInWalk'
  BY <1>3 DEF PlacesInWalk, Region
<1>4. ASSUME NEW v \in Units, ReleaseWrite(v) PROVE PlacesInWalk'
  <2>1. FillsNext(v)
    BY <1>4, InsideAWrite DEF ReleaseWrite
  <2> QED
    BY <1>1, <1>4, <2>1 DEF ReleaseWrite, FillsNext, InWalk
<1>5. ASSUME NEW v \in Units, ReleaseRead(v) PROVE PlacesInWalk'
  <2>1. ReadsNext(v)
    BY <1>5, InsideARead DEF ReleaseRead
  <2> QED
    BY <1>2, <1>5, <2>1 DEF ReleaseRead, ReadsNext, InWalk
<1>6. ASSUME NEW v \in Units, UnitStep(v) PROVE PlacesInWalk'
  BY <1>3, <1>4, <1>5, <1>6 DEF UnitStep, AcquireWrite, IssueCopy, Bring, AcquireRead
<1> QED
  BY <1>3, <1>6 DEF Next, Engine, BulkLands, WalkEnds, vars

\* The place past the walk, where every unit that is through with it stands.
LEMMA ThroughTheWalk ==
  ASSUME IInv, PlacesInWalk, NEW u \in Units, Finished(u)
  PROVE  /\ step[u] = "ready"
         /\ Fills(u) => Region(fillAt[u]) = Total
         /\ Reads(u) => Region(readAt[u]) = Total
<1>1. /\ fillAt[u] \in Place /\ readAt[u] \in Place /\ UnitInv(u)
      /\ Region(fillAt[u]) \in Nat /\ Region(readAt[u]) \in Nat
  BY NextRegion DEF IInv, TypeOK
<1>2. /\ step[u] = "ready" /\ ~FillsNext(u) /\ ~ReadsNext(u)
      /\ Region(fillAt[u]) <= Total /\ Region(readAt[u]) <= Total /\ Total \in Nat
  BY WalkAssumption DEF Finished, PlacesInWalk
<1>3. Reads(u) => ~InWalk(readAt[u])
  BY <1>2 DEF ReadsNext
<1>4. Fills(u) => ~InWalk(fillAt[u])
  <2> SUFFICES ASSUME Fills(u), InWalk(fillAt[u]) PROVE FALSE
    OBVIOUS
  <2>1. Reads(u) /\ ~InWalk(readAt[u])
    BY <1>2, <1>3 DEF FillsNext
  <2>2. Before(fillAt[u], readAt[u])
    BY <1>1, <2>1, PlacesInOrder
  <2> QED
    BY <1>1, <2>1, <2>2 DEF UnitInv
<1> QED
  BY <1>1, <1>2, <1>3, <1>4 DEF InWalk

\* Once every unit is through, each passed each slot as often as any other, so
\* a barrier is neither part way through a phase nor a phase behind.
THEOREM SidesEndTogether == Spec => []SidesAgreeAtTheEnd
<1>1. Init => PlacesInWalk
  <2> SUFFICES ASSUME Init, NEW u \in Units PROVE Region(fillAt[u]) <= Total /\ Region(readAt[u]) <= Total
    BY DEF PlacesInWalk
  <2>1. fillAt[u] = First /\ readAt[u] = First
    BY DEF Init
  <2>2. Region(First) = 0
    BY WalkAssumption DEF Region, First
  <2> QED
    BY <2>1, <2>2, WalkAssumption
<1>2. IInv /\ PlacesInWalk => SidesAgreeAtTheEnd
  <2> SUFFICES ASSUME IInv, PlacesInWalk, \A u \in Units : Finished(u), NEW s \in Slots
               PROVE  /\ full[s].arrived = 0 /\ empty[s].arrived = 0
                      /\ full[s].phase = empty[s].phase
                      /\ \A u \in Units : /\ Fills(u) => writes[u][s] = full[s].phase
                                          /\ Reads(u) => reads[u][s] = full[s].phase
    BY DEF SidesAgreeAtTheEnd
  <2>1. /\ full[s].phase \in Nat /\ empty[s].phase \in Nat
        /\ full[s].arrived \in Nat /\ empty[s].arrived \in Nat
        /\ \A u \in Units : writes[u][s] \in Nat /\ reads[u][s] \in Nat
        /\ \A u \in Units : fillAt[u] \in Place /\ readAt[u] \in Place
    BY DEF IInv, TypeOK, Mbarrier
  <2>2. FullInv(s) /\ EmptyInv(s) /\ \A u \in Units : UnitInv(u)
    BY DEF IInv
  <2>3. Elected \in Publishers /\ Elected \in Units
    BY ArmedCounts
  <2> DEFINE N == writes[Elected][s]
  <2>4. \A u \in Units : /\ Fills(u) => writes[u][s] = N
                         /\ Reads(u) => reads[u][s] = N
    <3>1. Region(fillAt[Elected]) = Total
      BY <2>3, ThroughTheWalk DEF Publishers, Publishes
    <3>2. N = Passed(fillAt[Elected], s)
      BY <2>2, <2>3 DEF UnitInv
    <3>3. ASSUME NEW p \in Place, Region(p) = Total PROVE Passed(p, s) = N
      <4>1. p.lap = fillAt[Elected].lap /\ p.slot = fillAt[Elected].slot
        BY <2>1, <2>3, <3>1, <3>3, RegionNamesAPlace
      <4> QED
        BY <3>2, <4>1 DEF Passed
    <3>4. ASSUME NEW u \in Units
          PROVE  (Fills(u) => writes[u][s] = N) /\ (Reads(u) => reads[u][s] = N)
      BY <2>1, <2>2, <3>3, <3>4, ThroughTheWalk DEF UnitInv
    <3> QED
      BY <3>4
  <2>5. PICK r \in Readers : TRUE
    BY ArmedCounts, FS_EmptySet
  <2>6. reads[r][s] = N /\ N \in Nat
    BY <2>1, <2>3, <2>4 DEF Readers
  <2>7. full[s].phase = N
    BY <2>1, <2>2, <2>3, <2>5, <2>6 DEF FullInv, EmptyInv
  <2>8. full[s].arrived = 0
    <3>1. Ahead(s) = {}
      BY <2>1, <2>4, <2>6, <2>7 DEF Ahead, Publishers, Publishes
    <3> QED
      BY <2>2, <3>1, FS_EmptySet DEF FullInv
  <2>9. empty[s].phase = N
    <3> SUFFICES ASSUME empty[s].phase # N PROVE FALSE
      OBVIOUS
    <3>1. N = empty[s].phase + 1
      BY <2>1, <2>2, <2>5, <2>6 DEF EmptyInv
    <3>2. Freed(s) = Readers
      BY <2>4, <3>1 DEF Freed, Readers
    <3> QED
      BY <2>2, <3>2, ArmedCounts DEF EmptyInv
  <2>10. empty[s].arrived = 0
    <3>1. Freed(s) = {}
      BY <2>1, <2>4, <2>6, <2>9 DEF Freed, Readers
    <3> QED
      BY <2>2, <3>1, FS_EmptySet DEF EmptyInv
  <2> QED
    BY <2>4, <2>7, <2>8, <2>9, <2>10
<1>3. IInv /\ PlacesInWalk /\ [Next]_vars => PlacesInWalk'
  BY PlacesStayInWalk
<1> QED
  BY <1>1, <1>2, <1>3, Invariance, PTL DEF Spec
-----------------------------------------------------------------------------
(***************************************************************************)
(* The refinement.                                                         *)
(***************************************************************************)
\* A region's lap and slot are its quotient and remainder.
LEMMA LapAndSlot ==
  ASSUME NEW n \in Nat, NEW s \in Slots
  PROVE  /\ n * Depth + s \in Nat
         /\ (n * Depth + s) \div Depth = n
         /\ (n * Depth + s) % Depth = s
<1>1. s \in Nat /\ s < Depth /\ Depth \in Nat \ {0}
  BY WalkAssumption DEF Slots
<1>2. n * Depth \in Nat
  BY <1>1
<1> DEFINE x == n * Depth + s
           q == x \div Depth
           r == x % Depth
<1>3. x \in Nat
  BY <1>1, <1>2
<1>4. q \in Nat /\ r \in 0 .. Depth - 1 /\ x = q * Depth + r
  <2>1. ASSUME NEW y \in Nat, NEW d \in Nat \ {0}
        PROVE  y \div d \in Nat /\ y % d \in 0 .. d - 1 /\ y = (y \div d) * d + (y % d)
    OBVIOUS
  <2> QED
    BY <1>1, <1>3, <2>1
<1>5. [lap |-> n, slot |-> s] \in Place /\ [lap |-> q, slot |-> r] \in Place
  BY <1>4 DEF Place, Slots
<1>6. Region([lap |-> n, slot |-> s]) = x /\ Region([lap |-> q, slot |-> r]) = q * Depth + r
  BY DEF Region
<1>7. q = n /\ r = s
  <2> HIDE DEF x, q, r
  <2> QED
    BY <1>4, <1>5, <1>6, RegionNamesAPlace
<1> QED
  BY <1>3, <1>7

\* A region is where its quotient and remainder say.
LEMMA PlaceOfRegion ==
  ASSUME NEW x \in Nat
  PROVE  /\ x \div Depth \in Nat /\ x % Depth \in Slots
         /\ x = (x \div Depth) * Depth + (x % Depth)
<1>1. ASSUME NEW y \in Nat, NEW d \in Nat \ {0}
      PROVE  y \div d \in Nat /\ y % d \in 0 .. d - 1 /\ y = (y \div d) * d + (y % d)
  OBVIOUS
<1> QED
  BY <1>1, WalkAssumption DEF Slots

\* A slot whose phase completes while no reader is behind it feeds the region
\* that phase was about, or none if the walk has no such region.
LEMMA PhaseFeeds ==
  ASSUME IInv, NEW s \in Slots, full[s].phase = empty[s].phase,
         full'[s].phase = full[s].phase + 1,
         \A t \in Slots : t # s => full'[t] = full[t],
         readAt' = readAt,
         \A u \in Units : (step'[u] = "reading") = (step[u] = "reading")
  PROVE  [Feed!Next]_(Feed!vars)
<1> DEFINE f == full[s].phase
           r == f * Depth + s
           inside == [u \in Readers |-> step[u] = "reading"]
           at == [u \in Readers |-> Region(readAt[u])]
<1>1. f \in Nat /\ \A t \in Slots : full[t].phase \in Nat
  BY DEF IInv, TypeOK, Mbarrier
<1>2. r \in Nat /\ r \div Depth = f /\ r % Depth = s
  BY <1>1, LapAndSlot
<1>3. at' = at
  BY DEF Region
<1>4. inside' = inside
  <2>1. \A u \in Readers : u \in Units
    BY DEF Readers
  <2> QED
    BY <2>1 DEF Readers, Reads, ReadCount, Units
<1>5. \A x \in 0 .. Total - 1 :
        (full'[x % Depth].phase > x \div Depth)
          <=> (full[x % Depth].phase > x \div Depth \/ x = r)
  <2> SUFFICES ASSUME NEW x \in 0 .. Total - 1
               PROVE  (full'[x % Depth].phase > x \div Depth)
                        <=> (full[x % Depth].phase > x \div Depth \/ x = r)
    OBVIOUS
  <2>1. x \in Nat
    BY WalkAssumption
  <2>2. x \div Depth \in Nat /\ x % Depth \in Slots /\ x = (x \div Depth) * Depth + (x % Depth)
    BY <2>1, PlaceOfRegion
  <2> DEFINE q == x \div Depth
             m == x % Depth
  <2>3. x = r <=> q = f /\ m = s
    BY <1>2, <2>2
  <2>4. CASE m = s
    <3> HIDE DEF q, m, r
    <3> QED
      BY <1>1, <2>2, <2>3, <2>4 DEF q, m
  <2>5. CASE m # s
    BY <2>2, <2>3, <2>5
  <2> QED
    BY <2>4, <2>5
<1>6. r \notin Fed
  BY <1>1, <1>2 DEF Fed
<1>7. CASE r < Total
  <2>1. r \in 0 .. Total - 1
    BY <1>2, <1>7, WalkAssumption
  <2>2. Fed' = Fed \cup {r}
    BY <1>5, <2>1 DEF Fed
  <2>3. ASSUME NEW u \in Readers PROVE r < at[u] + Depth
    <3>1. /\ readAt[u] \in Place /\ u \in Units /\ UnitInv(u) /\ EmptyInv(s)
          /\ reads[u][s] \in Nat
      BY DEF IInv, TypeOK, Readers
    <3>2. f <= Passed(readAt[u], s)
      BY <3>1 DEF UnitInv, EmptyInv
    <3>3. /\ readAt[u].lap \in Nat /\ readAt[u].slot \in Nat
          /\ s \in Nat /\ s < Depth /\ Depth \in Nat
      BY <3>1, WalkAssumption DEF Place, Slots
    <3>4. readAt[u].lap * Depth \in Nat /\ f * Depth \in Nat
      BY <1>1, <3>3
    <3>5. at[u] = readAt[u].lap * Depth + readAt[u].slot
      BY DEF Region
    <3>6. ASSUME f <= readAt[u].lap PROVE f * Depth <= readAt[u].lap * Depth
      <4>1. PICK d \in Nat : readAt[u].lap = f + d
        <5>1. readAt[u].lap - f \in Nat /\ readAt[u].lap = f + (readAt[u].lap - f)
          BY <1>1, <3>3, <3>6
        <5> QED
          BY <5>1
      <4>2. (f + d) * Depth = f * Depth + d * Depth /\ d * Depth \in Nat
        BY <1>1, <3>3
      <4> QED
        BY <3>4, <4>1, <4>2
    <3>7. ASSUME readAt[u].lap + 1 = f PROVE f * Depth = readAt[u].lap * Depth + Depth
      BY <1>1, <3>3, <3>7
    <3>8. CASE f <= readAt[u].lap
      <4> HIDE DEF f, at
      <4> QED
        BY <3>3, <3>4, <3>5, <3>6, <3>8
    <3>9. CASE readAt[u].lap + 1 = f /\ s < readAt[u].slot
      <4> HIDE DEF f, at
      <4> QED
        BY <3>3, <3>4, <3>5, <3>7, <3>9
    <3> QED
      BY <1>1, <3>2, <3>3, <3>8, <3>9 DEF Passed
  <2>4. Feed!Feed(r)
    BY <1>3, <1>4, <1>6, <2>2, <2>3 DEF Feed!Feed
  <2> QED
    BY <2>1, <2>4 DEF Feed!Next, Feed!Regions
<1>8. CASE ~(r < Total)
  <2>1. r \notin 0 .. Total - 1
    BY <1>2, <1>8, WalkAssumption
  <2>2. Fed' = Fed
    BY <1>5, <2>1 DEF Fed
  <2> QED
    BY <1>3, <1>4, <2>2 DEF Feed!vars
<1> QED
  BY <1>7, <1>8

\* A step that completes no phase and starts and ends no read feeds nothing.
LEMMA NothingIsFed ==
  ASSUME IInv, \A t \in Slots : full'[t].phase = full[t].phase,
         readAt' = readAt,
         \A u \in Units : (step'[u] = "reading") = (step[u] = "reading")
  PROVE  UNCHANGED Feed!vars
<1>1. Fed' = Fed
  <2>1. ASSUME NEW x \in 0 .. Total - 1 PROVE full'[x % Depth].phase = full[x % Depth].phase
    BY <2>1, PlaceOfRegion, WalkAssumption
  <2> QED
    BY <2>1 DEF Fed
<1>2. [u \in Readers |-> Region(readAt[u])]' = [u \in Readers |-> Region(readAt[u])]
  BY DEF Region
<1>3. [u \in Readers |-> step[u] = "reading"]' = [u \in Readers |-> step[u] = "reading"]
  BY DEF Readers, Reads, ReadCount, Units
<1> QED
  BY <1>1, <1>2, <1>3 DEF Feed!vars

\* An acquired read enters its region.
LEMMA AcquireReadEnters ==
  ASSUME IInv, NEW u \in Units, AcquireRead(u)
  PROVE  Feed!Next
<1> DEFINE s == readAt[u].slot
<1>1. ReadsNext(u) /\ step[u] = "ready" /\ u \in Readers /\ InWalk(readAt[u])
  BY DEF AcquireRead, ReadsNext, Readers
<1>2. /\ readAt[u] \in Place /\ s \in Slots /\ readAt[u].lap \in Nat
      /\ full[s] \in Mbarrier /\ reads[u][s] \in Nat /\ full[s].phase \in Nat
  BY DEF IInv, TypeOK, Place, Mbarrier
<1>3. full[s].phase = reads[u][s] + 1
  BY <1>1, <1>2, BeforeReading, ReadPasses DEF AcquireRead
<1>4. reads[u][s] = readAt[u].lap
  <2>1. reads[u][s] = Passed(readAt[u], s)
    BY <1>2 DEF IInv, UnitInv
  <2>2. s \in Nat
    BY <1>2 DEF Slots
  <2> QED
    BY <1>2, <2>1, <2>2 DEF Passed
<1>5. Region(readAt[u]) \in Fed
  <2>1. /\ Region(readAt[u]) \in Nat /\ Region(readAt[u]) \div Depth = readAt[u].lap
        /\ Region(readAt[u]) % Depth = s
    BY <1>2, LapAndSlot DEF Region
  <2>2. Region(readAt[u]) \in 0 .. Total - 1
    BY <1>1, <2>1, WalkAssumption DEF InWalk
  <2> QED
    BY <1>2, <1>3, <1>4, <2>1, <2>2 DEF Fed
<1>6. UNCHANGED <<Fed, [v \in Readers |-> Region(readAt[v])]>>
  BY DEF AcquireRead, Fed, Region
<1>7. [v \in Readers |-> step[v] = "reading"]'
        = [[v \in Readers |-> step[v] = "reading"] EXCEPT ![u] = TRUE]
  <2>1. \A v \in Readers : step'[v] = IF v = u THEN "reading" ELSE step[v]
    BY DEF AcquireRead, IInv, TypeOK, Readers
  <2> QED
    BY <2>1 DEF Readers, Reads, ReadCount, Units
<1>8. Feed!Enter(u)
  BY <1>1, <1>5, <1>6, <1>7 DEF Feed!Enter
<1> QED
  BY <1>1, <1>8 DEF Feed!Next

\* A released read leaves it for the next one.
LEMMA ReleaseReadLeaves ==
  ASSUME IInv, NEW u \in Units, ReleaseRead(u)
  PROVE  Feed!Next
<1>1. step[u] = "reading" /\ u \in Readers
  BY InsideARead DEF ReleaseRead
<1>2. readAt[u] \in Place /\ \A v \in Readers : v \in Units
  BY DEF IInv, TypeOK, Readers
<1>3. Fed' = Fed
  BY DEF ReleaseRead, Fed
<1>4. [v \in Readers |-> step[v] = "reading"]'
        = [[v \in Readers |-> step[v] = "reading"] EXCEPT ![u] = FALSE]
  <2>1. \A v \in Readers : step'[v] = IF v = u THEN "ready" ELSE step[v]
    BY <1>2 DEF ReleaseRead, IInv, TypeOK
  <2> QED
    BY <2>1 DEF Readers, Reads, ReadCount, Units
<1>5. [v \in Readers |-> Region(readAt[v])]'
        = [[v \in Readers |-> Region(readAt[v])] EXCEPT ![u] = @ + 1]
  <2>1. \A v \in Readers : readAt'[v] = IF v = u THEN After(readAt[u]) ELSE readAt[v]
    BY <1>2 DEF ReleaseRead, IInv, TypeOK
  <2>2. Region(After(readAt[u])) = Region(readAt[u]) + 1
    BY <1>2, NextRegion
  <2>3. \A v \in Readers : Region(readAt'[v])
          = IF v = u THEN Region(readAt[u]) + 1 ELSE Region(readAt[v])
    BY <2>1, <2>2
  <2>4. [v \in Readers |-> Region(readAt[v])]' = [v \in Readers |-> Region(readAt'[v])]
    BY DEF Region, Readers, Reads, ReadCount, Units
  <2> QED
    BY <1>1, <2>3, <2>4
<1>6. Feed!Leave(u)
  BY <1>1, <1>3, <1>4, <1>5 DEF Feed!Leave
<1> QED
  BY <1>1, <1>6 DEF Feed!Next

\* A release of a write feeds the region, or waits for the rest of its fill.
LEMMA ReleaseWriteFeeds ==
  ASSUME IInv, NEW u \in Units, ReleaseWrite(u)
  PROVE  [Feed!Next]_(Feed!vars)
<1> DEFINE s == fillAt[u].slot
<1>1. step[u] = "filled" /\ readAt' = readAt
  BY DEF ReleaseWrite
<1>2. /\ s \in Slots
      /\ Publishes(u) => full[s].phase = empty[s].phase
  BY <1>1, InsideAWrite
<1>3. \A v \in Units : (step'[v] = "reading") = (step[v] = "reading")
  <2>1. \A v \in Units : step'[v] = IF v = u THEN "ready" ELSE step[v]
    BY DEF ReleaseWrite, IInv, TypeOK
  <2> QED
    BY <1>1, <2>1
<1>4. full[s] \in Mbarrier /\ full \in [Slots -> Mbarrier]
  BY <1>2 DEF IInv, TypeOK
<1>5. CASE Publishes(u)
  <2>1. full' = [full EXCEPT ![s] = Arrive(full[s], PublishCount)]
    BY <1>5 DEF ReleaseWrite
  <2>2. \A t \in Slots : t # s => full'[t] = full[t]
    BY <1>4, <2>1
  <2>3. full'[s].phase = full[s].phase \/ full'[s].phase = full[s].phase + 1
    <3>1. full'[s] = Arrive(full[s], PublishCount)
      BY <1>2, <1>4, <2>1
    <3>2. [full[s] EXCEPT !.arrived = @ + 1].phase = full[s].phase
      BY <1>4 DEF Mbarrier
    <3> QED
      BY <3>1, <3>2 DEF Arrive, Settle
  <2>4. CASE full'[s].phase = full[s].phase + 1
    BY <1>1, <1>2, <1>3, <1>5, <2>2, <2>4, PhaseFeeds
  <2>5. CASE full'[s].phase = full[s].phase
    BY <1>1, <1>3, <2>2, <2>5, NothingIsFed
  <2> QED
    BY <2>3, <2>4, <2>5
<1>6. CASE ~Publishes(u)
  <2>1. full' = full
    BY <1>6 DEF ReleaseWrite
  <2> QED
    BY <1>1, <1>3, <2>1, NothingIsFed
<1> QED
  BY <1>5, <1>6

\* So does a copy that lands.
LEMMA BulkLandsFeeds ==
  ASSUME IInv, NEW s \in Slots, NEW o \in BulkOperands, BulkLands(s, o)
  PROVE  [Feed!Next]_(Feed!vars)
<1>1. /\ ~bulk[s][o].landed /\ readAt' = readAt /\ step' = step
      /\ full' = [full EXCEPT ![s] = CopyLands(full[s], PublishCount)]
  BY DEF BulkLands
<1>2. /\ full[s] \in Mbarrier /\ full \in [Slots -> Mbarrier] /\ FullInv(s) /\ ContentInv(s)
      /\ Elected \in Units /\ Elected \in Publishers
  BY ArmedCounts DEF IInv, TypeOK
<1>3. full[s].phase = empty[s].phase
  <2>1. HasBrought(Elected, s) \/ FillingAt(Elected, s)
    BY <1>1, <1>2 DEF ContentInv
  <2> QED
    BY <1>2, <2>1 DEF FullInv, HasBrought, FillingAt
<1>4. \A t \in Slots : t # s => full'[t] = full[t]
  BY <1>1, <1>2
<1>5. full'[s].phase = full[s].phase \/ full'[s].phase = full[s].phase + 1
  <2>1. full'[s] = CopyLands(full[s], PublishCount)
    BY <1>1, <1>2
  <2>2. [full[s] EXCEPT !.pending = @ - 1].phase = full[s].phase
    BY <1>2 DEF Mbarrier
  <2> QED
    BY <2>1, <2>2 DEF CopyLands, Settle
<1>6. CASE full'[s].phase = full[s].phase + 1
  BY <1>1, <1>3, <1>4, <1>6, PhaseFeeds
<1>7. CASE full'[s].phase = full[s].phase
  BY <1>1, <1>4, <1>7, NothingIsFed
<1> QED
  BY <1>5, <1>6, <1>7

\* Acquiring a write, issuing a copy and bringing a share feed nothing.
LEMMA InsideAFillNothingIsFed ==
  ASSUME IInv, NEW u \in Units,
         AcquireWrite(u) \/ Bring(u) \/ \E o \in BulkOperands : IssueCopy(u, o)
  PROVE  UNCHANGED Feed!vars
<1>1. readAt' = readAt
  BY DEF AcquireWrite, Bring, IssueCopy
<1>2. \A v \in Units : (step'[v] = "reading") = (step[v] = "reading")
  <2>1. CASE AcquireWrite(u)
    <3>1. step[u] = "ready" /\ \A v \in Units : step'[v] = IF v = u THEN "filling" ELSE step[v]
      BY <2>1 DEF AcquireWrite, IInv, TypeOK
    <3> QED
      BY <3>1
  <2>2. CASE Bring(u)
    <3>1. step[u] = "filling" /\ \A v \in Units : step'[v] = IF v = u THEN "filled" ELSE step[v]
      BY <2>2 DEF Bring, IInv, TypeOK
    <3> QED
      BY <3>1
  <2>3. CASE \E o \in BulkOperands : IssueCopy(u, o)
    BY <2>3 DEF IssueCopy
  <2> QED
    BY <2>1, <2>2, <2>3
<1>3. ASSUME NEW t \in Slots PROVE full'[t].phase = full[t].phase
  <2>1. full \in [Slots -> Mbarrier]
    BY DEF IInv, TypeOK
  <2>2. CASE full' = full
    BY <2>2
  <2>3. CASE full' = [full EXCEPT ![fillAt[u].slot] = ExpectCopies(full[fillAt[u].slot], 1)]
    <3>1. CASE t = fillAt[u].slot
      <4>1. full'[t] = ExpectCopies(full[t], 1)
        BY <2>1, <2>3, <3>1
      <4>2. full[t] \in Mbarrier
        BY <2>1
      <4> QED
        BY <4>1, <4>2 DEF ExpectCopies, Mbarrier
    <3>2. CASE t # fillAt[u].slot
      BY <2>1, <2>3, <3>2
    <3> QED
      BY <3>1, <3>2
  <2> QED
    BY <2>2, <2>3 DEF AcquireWrite, Bring, IssueCopy
<1> QED
  BY <1>1, <1>2, <1>3, NothingIsFed

\* Nothing is fed, read or entered at the start.
LEMMA InitFeeds == Init => Feed!Init
<1> SUFFICES ASSUME Init PROVE Feed!Init
  OBVIOUS
<1>1. Fed = {}
  <2> SUFFICES ASSUME NEW x \in 0 .. Total - 1 PROVE ~(full[x % Depth].phase > x \div Depth)
    BY DEF Fed
  <2>1. x \in Nat /\ x % Depth \in Slots /\ x \div Depth \in Nat
    BY PlaceOfRegion, WalkAssumption
  <2>2. full[x % Depth].phase = 0
    BY <2>1 DEF Init, Fresh
  <2> QED
    BY <2>1, <2>2
<1>2. \A u \in Readers : Region(readAt[u]) = 0 /\ step[u] = "ready"
  <2>1. Region(First) = 0
    BY WalkAssumption DEF Region, First
  <2> QED
    BY <2>1 DEF Init, Readers
<1> QED
  BY <1>1, <1>2 DEF Feed!Init

\* Whatever the slots do, their readers meet a feed of regions: each step of
\* the protocol is one of the feed's, or none of its.
THEOREM SlotsFeedRegions == Spec => FeedSpec
<1>1. ASSUME IInv, [Next]_vars PROVE [Feed!Next]_(Feed!vars)
  <2>1. ASSUME NEW u \in Units, UnitStep(u) PROVE [Feed!Next]_(Feed!vars)
    BY <1>1, <2>1, InsideAFillNothingIsFed, ReleaseWriteFeeds, AcquireReadEnters,
       ReleaseReadLeaves DEF UnitStep
  <2>2. ASSUME NEW s \in Slots, NEW o \in BulkOperands, BulkLands(s, o)
        PROVE  [Feed!Next]_(Feed!vars)
    BY <1>1, <2>2, BulkLandsFeeds
  <2>3. CASE vars' = vars
    <3>1. full' = full /\ readAt' = readAt /\ step' = step
      BY <2>3 DEF vars
    <3> QED
      BY <1>1, <3>1, NothingIsFed
  <2> QED
    BY <1>1, <2>1, <2>2, <2>3 DEF Next, Engine, WalkEnds
<1> QED
  BY <1>1, InitFeeds, Invariance, PTL DEF Spec, FeedSpec, Feed!Spec
=============================================================================
