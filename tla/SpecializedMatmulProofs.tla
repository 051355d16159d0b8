----------------------- MODULE SpecializedMatmulProofs -----------------------
(***************************************************************************)
(* The specialized matmul contracts its whole range from stages that hold  *)
(* the right slices, whatever the planes on either side and the length of  *)
(* the range: IInv is inductive, and the safety properties of              *)
(* SpecializedMatmul follow from it.                                       *)
(***************************************************************************)
EXTENDS SpecializedMatmul, FiniteSetTheorems, TLAPS

\* The barriers are armed with the numbers of units that arrive on them.
LEMMA ArmedCounts ==
  ASSUME tma \in BOOLEAN
  PROVE  /\ IsFiniteSet(Elected) /\ Elected \subseteq LoadUnits /\ Leader \in Elected
         /\ Cardinality(Elected) = ArrivalCount /\ ArrivalCount \in Nat \ {0}
         /\ IsFiniteSet(ComputeUnits) /\ Cardinality(ComputeUnits) = ReleaseCount
         /\ ReleaseCount \in Nat \ {0}
         /\ tma => Elected = {Leader}
<1>1. /\ IsFiniteSet(LoadUnits) /\ IsFiniteSet(ComputeUnits) /\ ComputeUnits # {}
      /\ Leader \in LoadUnits
  BY RolesAssumption
<1>2. IsFiniteSet({Leader}) /\ Cardinality({Leader}) = 1
  BY FS_Singleton
<1>3. Cardinality(LoadUnits) \in Nat \ {0} /\ Cardinality(ComputeUnits) \in Nat \ {0}
  BY <1>1, FS_CardinalityType, FS_EmptySet
<1> QED
  BY <1>1, <1>2, <1>3 DEF Elected, ArrivalCount, ReleaseCount

\* Two slices a loop cover the range, and at most one slice more.
LEMMA LoopsCoverTheRange ==
  ASSUME needed \in Needs
  PROVE  needed \in Nat /\ Loops \in Nat /\ 2 * Loops \in {needed, needed + 1}
BY RangeAssumption DEF Loops

\* How a unit's pass through a stage moves it on, and nobody else.
LEMMA AdvanceMoves ==
  ASSUME TypeOK, NEW u \in Units, NEW label, NEW after, label # after,
         Advance(u, label, after), UNCHANGED launch,
         loop[u] < Loops, phase[u] = loop[u] % 2
  PROVE  /\ Loops' = Loops
         /\ loop' \in [Units -> 0 .. Loops] /\ phase' \in [Units -> {0, 1}]
         /\ buffer' \in [Units -> Buffers]
         /\ \A v \in Units : v # u =>
              /\ pc'[v] = pc[v] /\ loop'[v] = loop[v] /\ phase'[v] = phase[v]
              /\ buffer'[v] = buffer[v]
         /\ phase'[u] = loop'[u] % 2
         /\ pc'[u] \in {label, after}
         /\ pc'[u] = label => loop'[u] < Loops
         /\ pc'[u] = after => loop'[u] = Loops
         /\ loop'[u] = Loops => buffer'[u] = 0
         /\ SliceOf(u)' = SliceOf(u) + 1
         /\ \A b \in Buffers : \A v \in Units :
              Passed(v, b)' = Passed(v, b) + (IF v = u /\ b = buffer[u] THEN 1 ELSE 0)
<1>1. /\ Loops' = Loops /\ Loops \in Nat
      /\ loop[u] \in Nat /\ loop[u] + 1 \in 0 .. Loops /\ buffer[u] \in Buffers
      /\ phase[u] \in {0, 1}
  BY SMTT(30), LoopsCoverTheRange DEF TypeOK, launch, Loops
<1>2. CASE buffer[u] = 0
  <2>1. /\ buffer' = [buffer EXCEPT ![u] = 1] /\ pc' = [pc EXCEPT ![u] = label]
        /\ loop' = loop /\ phase' = phase
    BY <1>2 DEF Advance
  <2>2. buffer'[u] = 1 /\ pc'[u] = label
    BY <2>1 DEF TypeOK
  <2>3. \A v \in Units : v # u => pc'[v] = pc[v] /\ buffer'[v] = buffer[v]
    BY <2>1 DEF TypeOK
  <2>4. loop' \in [Units -> 0 .. Loops] /\ phase' \in [Units -> {0, 1}] /\ buffer' \in [Units -> Buffers]
    BY <2>1 DEF TypeOK, Buffers
  <2>5. \A b \in Buffers : \A v \in Units :
          Passed(v, b)' = Passed(v, b) + (IF v = u /\ b = buffer[u] THEN 1 ELSE 0)
    BY <1>2, <2>1, <2>2, <2>3 DEF Passed, Buffers, TypeOK
  <2>6. SliceOf(u)' = SliceOf(u) + 1
    BY <1>1, <1>2, <2>1, <2>2 DEF SliceOf
  <2> QED
    BY <1>1, <2>1, <2>2, <2>3, <2>4, <2>5, <2>6
<1>3. CASE buffer[u] = 1
  <2>1. /\ buffer' = [buffer EXCEPT ![u] = 0]
        /\ phase' = [phase EXCEPT ![u] = 1 - @] /\ loop' = [loop EXCEPT ![u] = @ + 1]
        /\ pc' = [pc EXCEPT ![u] = IF loop[u] + 1 < Loops THEN label ELSE after]
    BY <1>3 DEF Advance
  <2>2. /\ buffer'[u] = 0 /\ phase'[u] = 1 - phase[u] /\ loop'[u] = loop[u] + 1
        /\ pc'[u] = IF loop[u] + 1 < Loops THEN label ELSE after
    BY <2>1 DEF TypeOK
  <2>3. \A v \in Units : v # u =>
          pc'[v] = pc[v] /\ loop'[v] = loop[v] /\ phase'[v] = phase[v] /\ buffer'[v] = buffer[v]
    BY <2>1 DEF TypeOK
  <2>4. loop' \in [Units -> 0 .. Loops] /\ phase' \in [Units -> {0, 1}] /\ buffer' \in [Units -> Buffers]
    <3>1. 1 - phase[u] \in {0, 1} /\ 0 \in Buffers
      BY <1>1 DEF Buffers
    <3> QED
      BY <1>1, <2>1, <3>1 DEF TypeOK
  <2>5. \A b \in Buffers : \A v \in Units :
          Passed(v, b)' = Passed(v, b) + (IF v = u /\ b = buffer[u] THEN 1 ELSE 0)
    BY <1>1, <1>3, <2>2, <2>3 DEF Passed, Buffers, TypeOK
  <2>6. SliceOf(u)' = SliceOf(u) + 1
    BY <1>1, <1>3, <2>2 DEF SliceOf
  <2>7. phase'[u] = loop'[u] % 2
    BY <1>1, <2>2
  <2> QED
    BY <1>1, <2>2, <2>3, <2>4, <2>5, <2>6, <2>7
<1> QED
  BY <1>1, <1>2, <1>3 DEF Buffers

\* A stage whose barriers, memory, copies and units a step leaves alone keeps
\* its invariant.
LEMMA StageUndisturbed ==
  ASSUME NEW b \in Buffers, StageInv(b), UNCHANGED launch,
         full'[b] = full[b], empty'[b] = empty[b], stage'[b] = stage[b],
         FlyingInto(b)' = FlyingInto(b),
         \A f \in FlyingInto(b) : f.copy[1] \in Elected,
         \A u \in Elected : /\ Passed(u, b)' = Passed(u, b)
                            /\ ArrivingAt(u, b)' <=> ArrivingAt(u, b)
                            /\ HasCommitted(u, b)' <=> HasCommitted(u, b),
         \A u \in ComputeUnits :
           /\ Passed(u, b)' = Passed(u, b)
           /\ pc'[u] = "compute" /\ buffer'[u] = b <=> pc[u] = "compute" /\ buffer[u] = b,
         tma \in BOOLEAN
  PROVE  StageInv(b)'
<1>1. PICK filled \in 0 .. Loops, freed \in 0 .. Loops :
        FullInv(b, filled, freed) /\ EmptyInv(b, filled, freed) /\ ContentInv(b, filled, freed)
  BY DEF StageInv
<1>2. Loops' = Loops /\ tma' = tma /\ Elected' = Elected /\ Copies' = Copies
  BY DEF launch, Loops, Elected, Copies
<1>3. Owing(b, filled)' = Owing(b, filled)
  BY <1>2 DEF Owing
<1>4. Leader \in Elected /\ Elected \subseteq LoadUnits
  BY ArmedCounts
<1>5. FullInv(b, filled, freed)'
  BY <1>1, <1>2, <1>3, <1>4 DEF FullInv
<1>6. Holding(b, freed)' = Holding(b, freed)
  BY DEF Holding
<1>7. EmptyInv(b, filled, freed)'
  BY <1>1, <1>6 DEF EmptyInv
<1>8. \A c \in Copies : c[1] \in Elected
  BY DEF Copies
<1>9. ContentInv(b, filled, freed)'
  BY <1>1, <1>2, <1>8 DEF ContentInv
<1> QED
  BY <1>1, <1>2, <1>5, <1>7, <1>9 DEF StageInv

\* The launch: every barrier is in its first phase and nothing was brought.
LEMMA InitIInv == Init => IInv
<1> SUFFICES ASSUME Init PROVE IInv
  OBVIOUS
<1>1. /\ Loops \in Nat /\ LoadUnits \cap ComputeUnits = {} /\ tma \in BOOLEAN
      /\ Leader \in LoadUnits
  BY LoopsCoverTheRange, RolesAssumption DEF Init
<1>2. TypeOK
  <2>1. /\ ArrivalCount \in Nat /\ ReleaseCount \in Nat
    BY <1>1, ArmedCounts
  <2>2. Armed(ArrivalCount) \in Barriers /\ Armed(ReleaseCount) \in Barriers
    BY <2>1 DEF Armed, Barriers
  <2>3. \A b \in Buffers : full[b].copies = 0
    BY DEF Init, Armed
  <2> QED
    BY <1>1, <2>2, <2>3 DEF Init, TypeOK, Buffers
<1>3. ASSUME NEW u \in Units
      PROVE  loop[u] = 0 /\ phase[u] = 0 /\ buffer[u] = 0
  BY DEF Init
<1>4. ASSUME NEW u \in LoadUnits PROVE LoadUnitInv(u)
  <2>1. u \in Units /\ u \notin ComputeUnits
    BY <1>1 DEF Units
  <2>2. pc[u] = IF u \in Elected THEN "wait_empty" ELSE "returned"
    BY <2>1 DEF Init
  <2> QED
    BY <1>1, <1>3, <2>1, <2>2 DEF LoadUnitInv
<1>5. ASSUME NEW u \in ComputeUnits PROVE ComputeUnitInv(u)
  <2>1. u \in Units /\ pc[u] = "wait_full" /\ acc[u] = << >>
    BY DEF Init, Units
  <2> QED
    BY <1>1, <1>3, <2>1 DEF ComputeUnitInv, SliceOf
<1>6. CopiesInv
  BY FS_EmptySet DEF Init, CopiesInv
<1>7. DoneInv
  <2>1. {u \in ComputeUnits : pc[u] \in {"wait_done", "returned"}} = {}
    BY DEF Init, Units
  <2>2. done = Armed(ReleaseCount) /\ \A b \in Buffers, c \in Copies : stage[b][c] # Output
    BY DEF Init, Nothing, Output
  <2> QED
    BY <1>1, <2>1, <2>2, ArmedCounts DEF DoneInv, Armed
<1>8. ASSUME NEW b \in Buffers PROVE StageInv(b)
  <2>1. /\ Elected \subseteq Units /\ ComputeUnits \subseteq Units /\ Leader \in Elected
    BY <1>1, ArmedCounts DEF Units
  <2>2. \A u \in Units : Passed(u, b) = 0 /\ ~ArrivingAt(u, b)
    <3> SUFFICES ASSUME NEW u \in Units PROVE Passed(u, b) = 0 /\ pc[u] # "arrive"
      BY DEF ArrivingAt
    <3> QED
      BY <1>3 DEF Init, Passed, Buffers
  <2>3. FlyingInto(b) = {} /\ \A u \in Units : ~HasCommitted(u, b)
    BY DEF Init, FlyingInto, HasCommitted
  <2>4. Owing(b, 0) = Elected /\ Holding(b, 0) = ComputeUnits
    BY <2>1, <2>2 DEF Owing, Holding
  <2>5. full[b] = Armed(ArrivalCount) /\ empty[b] = Armed(ReleaseCount)
    BY DEF Init
  <2>6. FullInv(b, 0, 0)
    BY <1>1, <2>1, <2>2, <2>3, <2>4, <2>5, ArmedCounts, FS_EmptySet DEF FullInv, Armed
  <2>7. EmptyInv(b, 0, 0)
    <3>1. \A u \in ComputeUnits : pc[u] = "wait_full"
      BY DEF Init, Units
    <3> QED
      BY <1>1, <2>1, <2>2, <2>4, <2>5, <3>1, ArmedCounts DEF EmptyInv, Armed
  <2>8. ContentInv(b, 0, 0)
    BY <2>1, <2>2, <2>3 DEF ContentInv, Copies
  <2> QED
    BY <1>1, <2>6, <2>7, <2>8 DEF StageInv
<1> QED
  BY <1>2, <1>3, <1>4, <1>5, <1>6, <1>7, <1>8 DEF IInv

\* `wait_parity` on an empty stage: what a loading unit finds passes it on just
\* when the computing units are through with what it loaded before.
LEMMA FreeWhenPassed ==
  ASSUME IInv, NEW u \in Elected, u \in LoadUnits, NEW b \in Buffers, b = buffer[u],
         Over(empty[b], 1 - phase[u]),
         NEW filled \in 0 .. Loops, NEW freed \in 0 .. Loops,
         FullInv(b, filled, freed), EmptyInv(b, filled, freed)
  PROVE  Passed(u, b) = filled /\ freed = filled
<1>1. /\ loop[u] \in Nat /\ buffer[u] \in Nat /\ phase[u] = loop[u] % 2
      /\ filled \in Nat /\ freed \in Nat
  BY LoopsCoverTheRange DEF IInv, TypeOK, Units, Buffers
<1>2. Passed(u, b) = loop[u]
  BY <1>1 DEF Passed
<1>3. freed % 2 = loop[u] % 2
  BY <1>1 DEF Over, EmptyInv
<1>4. loop[u] = freed \/ loop[u] = freed + 1
  BY <1>1, <1>2 DEF FullInv
<1>5. loop[u] = freed
  BY <1>1, <1>3, <1>4
<1> QED
  BY <1>1, <1>2, <1>5 DEF FullInv

\* `wait_parity` on a full stage passes a computing unit on just when the stage
\* was filled once more than it read it.
LEMMA FullWhenPassed ==
  ASSUME IInv, NEW u \in ComputeUnits, NEW b \in Buffers, b = buffer[u],
         Over(full[b], phase[u]),
         NEW filled \in 0 .. Loops, NEW freed \in 0 .. Loops,
         FullInv(b, filled, freed), EmptyInv(b, filled, freed)
  PROVE  filled = Passed(u, b) + 1
<1>1. /\ loop[u] \in Nat /\ buffer[u] \in Nat /\ phase[u] = loop[u] % 2
      /\ filled \in Nat /\ freed \in Nat
  BY LoopsCoverTheRange DEF IInv, TypeOK, Units, Buffers
<1>2. Passed(u, b) = loop[u]
  BY <1>1 DEF Passed
<1>3. filled % 2 # loop[u] % 2
  BY <1>1 DEF Over, FullInv
<1>4. filled = loop[u] \/ filled = loop[u] + 1
  BY <1>1, <1>2 DEF FullInv, EmptyInv
<1> QED
  BY <1>1, <1>2, <1>3, <1>4

\* With nothing to contract no loop is entered.
LEMMA SkipKeeps ==
  ASSUME IInv, NEW u \in Units, Skip(u)
  PROVE  IInv'
<1>1. /\ pc' = [pc EXCEPT ![u] = IF u \in ComputeUnits THEN "done" ELSE "returned"]
      /\ UNCHANGED <<launch, loop, phase, buffer, full, empty, done, flying, commits, stage, acc>>
      /\ Loops = 0 /\ pc[u] \in {"wait_empty", "wait_full"}
  BY DEF Skip
<1>2. /\ \A v \in Units : v # u => pc'[v] = pc[v]
      /\ pc'[u] = IF u \in ComputeUnits THEN "done" ELSE "returned"
  BY <1>1 DEF IInv, TypeOK
<1>3. /\ Loops' = Loops /\ Elected' = Elected /\ Copies' = Copies /\ tma' = tma
      /\ \A v \in Units, b \in Buffers : Passed(v, b)' = Passed(v, b)
  BY <1>1 DEF launch, Loops, Elected, Copies, Passed
<1>4. TypeOK'
  <2>1. pc' \in [Units -> {"wait_empty", "arrive", "wait_full", "compute", "done", "wait_done", "returned"}]
    BY <1>1 DEF IInv, TypeOK
  <2> QED
    BY <1>1, <1>3, <2>1 DEF IInv, TypeOK, launch
<1>5. ASSUME NEW v \in LoadUnits PROVE LoadUnitInv(v)'
  <2>1. LoadUnitInv(v) /\ v \in Units /\ v \notin ComputeUnits /\ loop[v] \in 0 .. Loops
    BY RolesAssumption DEF IInv, Units, TypeOK
  <2> QED
    BY <1>1, <1>2, <1>3, <2>1 DEF LoadUnitInv
<1>6. ASSUME NEW v \in ComputeUnits PROVE ComputeUnitInv(v)'
  <2>1. ComputeUnitInv(v) /\ v \in Units /\ loop[v] \in 0 .. Loops
    BY DEF IInv, Units, TypeOK
  <2>2. SliceOf(v)' = SliceOf(v)
    BY <1>1 DEF SliceOf
  <2> QED
    BY <1>1, <1>2, <1>3, <2>1, <2>2 DEF ComputeUnitInv
<1>7. CopiesInv'
  <2>1. ASSUME NEW f \in flying, ArrivingAt(f.copy[1], f.into) PROVE ArrivingAt(f.copy[1], f.into)'
    <3>1. f.copy[1] \in Units
      BY ArmedCounts DEF IInv, TypeOK, Copies, Units
    <3> QED
      BY <1>1, <1>2, <2>1, <3>1 DEF ArrivingAt
  <2> QED
    BY <1>1, <1>3, <2>1 DEF IInv, CopiesInv, Owns
<1>8. DoneInv'
  <2>1. \A v \in ComputeUnits : pc'[v] \in {"wait_done", "returned"} <=> pc[v] \in {"wait_done", "returned"}
    BY <1>1, <1>2 DEF Units
  <2> QED
    BY <1>1, <1>3, <2>1 DEF IInv, DoneInv
<1>9. ASSUME NEW b \in Buffers PROVE StageInv(b)'
  <2>1. /\ FlyingInto(b)' = FlyingInto(b) /\ tma \in BOOLEAN /\ StageInv(b)
        /\ \A f \in FlyingInto(b) : f.copy[1] \in Elected
    BY <1>1 DEF FlyingInto, IInv, TypeOK, Copies
  <2>2. \A v \in Units : /\ ArrivingAt(v, b)' <=> ArrivingAt(v, b)
                         /\ HasCommitted(v, b)' <=> HasCommitted(v, b)
                         /\ pc'[v] = "compute" <=> pc[v] = "compute"
    BY <1>1, <1>2 DEF ArrivingAt, HasCommitted, Owns
  <2>3. Elected \subseteq Units /\ ComputeUnits \subseteq Units
    BY <2>1, ArmedCounts DEF Units
  <2> QED
    BY <1>1, <1>3, <2>1, <2>2, <2>3, StageUndisturbed
<1> QED
  BY <1>1, <1>4, <1>5, <1>6, <1>7, <1>8, <1>9 DEF IInv

\* A set of two, and a finite set with an element more or less.
LEMMA Counting ==
  /\ \A x, y : x # y => IsFiniteSet({x, y}) /\ Cardinality({x, y}) = 2
  /\ \A S, x : IsFiniteSet(S) /\ x \in S =>
       /\ IsFiniteSet(S \ {x}) /\ Cardinality(S) \in Nat \ {0}
       /\ Cardinality(S \ {x}) = Cardinality(S) - 1
       /\ Cardinality(S) = 1 => S = {x}
<1>1. ASSUME NEW x, NEW y, x # y PROVE IsFiniteSet({x, y}) /\ Cardinality({x, y}) = 2
  <2>1. IsFiniteSet({x}) /\ Cardinality({x}) = 1
    BY FS_Singleton
  <2>2. IsFiniteSet({x} \cup {y}) /\ Cardinality({x} \cup {y}) = 2
    BY <1>1, <2>1, FS_AddElement
  <2>3. {x} \cup {y} = {x, y}
    OBVIOUS
  <2> QED
    BY <2>2, <2>3
<1>2. ASSUME NEW S, NEW x, IsFiniteSet(S), x \in S
      PROVE  /\ IsFiniteSet(S \ {x}) /\ Cardinality(S) \in Nat \ {0}
             /\ Cardinality(S \ {x}) = Cardinality(S) - 1
             /\ Cardinality(S) = 1 => S = {x}
  <2>1. IsFiniteSet(S \ {x}) /\ Cardinality(S \ {x}) = Cardinality(S) - 1
    BY <1>2, FS_RemoveElement
  <2>2. Cardinality(S) \in Nat /\ Cardinality(S \ {x}) \in Nat
    BY <1>2, <2>1, FS_CardinalityType
  <2>3. Cardinality(S) = 1 => S \ {x} = {}
    BY <2>1, FS_EmptySet
  <2> QED
    BY <1>2, <2>1, <2>2, <2>3
<1> QED
  BY <1>1, <1>2

\* A load unit past the mark of a freed stage brings its share.
LEMMA LoadKeeps ==
  ASSUME IInv, NEW u \in LoadUnits, Load(u)
  PROVE  IInv'
<1> DEFINE b == buffer[u]
           issued == {[copy |-> <<u, o>>, into |-> b, slice |-> SliceOf(u)] : o \in Operands}
<1>1. /\ pc' = [pc EXCEPT ![u] = "arrive"] /\ flying' = flying \cup issued
      /\ UNCHANGED <<launch, loop, phase, buffer, full, empty, done, commits, stage, acc>>
      /\ pc[u] = "wait_empty" /\ Loops > 0 /\ Over(empty[b], 1 - phase[u])
  BY DEF Load
<1>2. /\ u \in Units /\ u \in Elected /\ u \notin ComputeUnits /\ b \in Buffers
      /\ loop[u] \in Nat /\ loop[u] < Loops /\ Loops \in Nat
  BY <1>1, RolesAssumption, LoopsCoverTheRange DEF IInv, TypeOK, Units, LoadUnitInv
<1>3. (\A v \in Units : v # u => pc'[v] = pc[v]) /\ pc'[u] = "arrive"
  BY <1>1, <1>2 DEF IInv, TypeOK
<1>4. /\ Loops' = Loops /\ Elected' = Elected /\ Copies' = Copies /\ tma' = tma
      /\ Elected \subseteq Units /\ ComputeUnits \subseteq Units /\ tma \in BOOLEAN
      /\ tma => Elected = {Leader}
  BY <1>1, ArmedCounts DEF launch, Loops, Elected, Copies, Units, IInv, TypeOK
<1>5. \A v \in Units, d \in Buffers : Passed(v, d)' = Passed(v, d)
  BY <1>1 DEF Passed
<1>6. /\ SliceOf(u) = 2 * loop[u] + b /\ SliceOf(u) \in Nat
      /\ Passed(u, b) = loop[u] /\ b \in Nat
  BY <1>2 DEF SliceOf, Passed, Buffers
<1>7. TypeOK'
  <2>1. pc' \in [Units -> {"wait_empty", "arrive", "wait_full", "compute", "done", "wait_done", "returned"}]
    BY <1>1 DEF IInv, TypeOK
  <2>2. \A f \in flying' : f.copy \in Copies /\ f.into \in Buffers
    BY <1>1, <1>2 DEF IInv, TypeOK, Copies
  <2> QED
    BY <1>1, <1>4, <2>1, <2>2 DEF IInv, TypeOK, launch
<1>8. ASSUME NEW v \in LoadUnits PROVE LoadUnitInv(v)'
  <2>1. LoadUnitInv(v) /\ v \in Units
    BY DEF IInv, Units
  <2> QED
    BY <1>1, <1>2, <1>3, <1>4, <2>1 DEF LoadUnitInv
<1>9. ASSUME NEW v \in ComputeUnits PROVE ComputeUnitInv(v)'
  <2>1. ComputeUnitInv(v) /\ v \in Units /\ v # u
    BY <1>2 DEF IInv, Units
  <2>2. SliceOf(v)' = SliceOf(v)
    BY <1>1 DEF SliceOf
  <2> QED
    BY <1>1, <1>3, <1>4, <2>1, <2>2 DEF ComputeUnitInv
<1>10. CopiesInv'
  <2>1. IsFiniteSet(flying')
    <3>1. issued = {[copy |-> <<u, "lhs">>, into |-> b, slice |-> SliceOf(u)],
                    [copy |-> <<u, "rhs">>, into |-> b, slice |-> SliceOf(u)]}
      BY DEF Operands
    <3>2. IsFiniteSet(issued)
      <4> HIDE DEF issued
      <4> QED
        BY <3>1, Counting
    <3> QED
      BY <1>1, <3>2, FS_Union DEF IInv, CopiesInv
  <2>2. flying' \subseteq [copy : Copies', into : Buffers, slice : Nat]
    BY <1>1, <1>2, <1>4, <1>6 DEF IInv, CopiesInv, Copies
  <2>3. commits' \subseteq [on : Buffers, waits : SUBSET flying']
    BY <1>1 DEF IInv, CopiesInv
  <2>4. ASSUME NEW f \in flying', ~tma
        PROVE  \/ ArrivingAt(f.copy[1], f.into)'
               \/ \E m \in commits' : m.on = f.into /\ f \in m.waits
    <3>1. CASE f \in issued
      BY <1>1, <1>3, <3>1 DEF ArrivingAt
    <3>2. CASE f \in flying
      <4>1. f.copy[1] \in Units
        BY <1>4, <3>2 DEF IInv, TypeOK, Copies
      <4>2. \/ ArrivingAt(f.copy[1], f.into)
            \/ \E m \in commits : m.on = f.into /\ f \in m.waits
        BY <2>4, <3>2 DEF IInv, CopiesInv
      <4> QED
        BY <1>1, <1>3, <4>1, <4>2 DEF ArrivingAt
    <3> QED
      BY <1>1, <3>1, <3>2
  <2> QED
    BY <1>1, <1>4, <2>1, <2>2, <2>3, <2>4 DEF IInv, CopiesInv, Owns
<1>11. DoneInv'
  <2>1. \A v \in ComputeUnits : pc'[v] = pc[v]
    BY <1>2, <1>3, <1>4
  <2> QED
    BY <1>1, <1>4, <2>1 DEF IInv, DoneInv
<1>12. ASSUME NEW d \in Buffers PROVE StageInv(d)'
  <2>1. /\ \A v \in Units : HasCommitted(v, d)' <=> HasCommitted(v, d)
        /\ \A v \in ComputeUnits : pc'[v] = "compute" <=> pc[v] = "compute"
        /\ \A v \in Units : ArrivingAt(v, d)' <=> ArrivingAt(v, d) \/ (v = u /\ d = b)
    BY <1>1, <1>2, <1>3, <1>4 DEF HasCommitted, Owns, ArrivingAt
  <2>2. /\ FlyingInto(d)' = FlyingInto(d) \cup (IF d = b THEN issued ELSE {})
        /\ \A f \in FlyingInto(d) : f \in flying /\ f.copy[1] \in Elected
    BY <1>1 DEF FlyingInto, IInv, TypeOK, Copies
  <2>3. CASE d # b
    <3> HIDE DEF issued
    <3> QED
      BY <1>1, <1>4, <1>5, <2>1, <2>2, <2>3, StageUndisturbed DEF IInv
  <2>4. CASE d = b
    <3>1. PICK filled \in 0 .. Loops, freed \in 0 .. Loops :
            FullInv(d, filled, freed) /\ EmptyInv(d, filled, freed) /\ ContentInv(d, filled, freed)
      BY DEF IInv, StageInv
    <3>2. /\ filled \in Nat /\ freed \in Nat /\ Passed(u, d) = filled /\ freed = filled
          /\ loop[u] = filled
      BY <1>1, <1>2, <1>6, <2>4, <3>1, FreeWhenPassed
    <3>3. FullInv(d, filled, freed)'
      <4>1. Owing(d, filled)' = Owing(d, filled)
        BY <1>4, <1>5, <2>1 DEF Owing
      <4>2. full'[d].copies = IF ~tma THEN 0
              ELSE Cardinality(FlyingInto(d)') - (IF ArrivingAt(Leader, d)' THEN 2 ELSE 0)
        <5>1. CASE ~tma
          BY <1>1, <3>1, <5>1 DEF FullInv
        <5>2. CASE tma
          <6>1. u = Leader /\ ~ArrivingAt(u, d)
            BY <1>1, <1>2, <1>4, <5>2 DEF ArrivingAt
          <6>2. FlyingInto(d) = {}
            BY <1>4, <2>2, <3>1, <3>2, <5>2, <6>1 DEF ContentInv
          <6>3. full[d].copies = 0
            BY <3>1, <5>2, <6>1, <6>2, FS_EmptySet DEF FullInv
          <6> DEFINE left == [copy |-> <<u, "lhs">>, into |-> b, slice |-> SliceOf(u)]
                     right == [copy |-> <<u, "rhs">>, into |-> b, slice |-> SliceOf(u)]
          <6>4. FlyingInto(d)' = {left, right}
            BY <2>2, <2>4, <6>2 DEF Operands
          <6>5. left # right
            OBVIOUS
          <6>6. Cardinality(FlyingInto(d)') = 2
            <7> HIDE DEF left, right
            <7> QED
              BY <6>4, <6>5, Counting
          <6>7. ArrivingAt(Leader, d)'
            BY <1>2, <2>1, <2>4, <6>1
          <6> QED
            BY <1>1, <5>2, <6>3, <6>6, <6>7
        <5> QED
          BY <5>1, <5>2
      <4>3. \A v \in Elected : ArrivingAt(v, d)' => Passed(v, d) = filled /\ freed = filled
        BY <1>4, <2>1, <3>1, <3>2 DEF FullInv
      <4> QED
        BY <1>1, <1>4, <1>5, <2>1, <3>1, <4>1, <4>2, <4>3 DEF FullInv
    <3>4. EmptyInv(d, filled, freed)'
      <4>1. Holding(d, freed)' = Holding(d, freed)
        BY <1>4, <1>5 DEF Holding
      <4> QED
        BY <1>1, <1>4, <1>5, <2>1, <3>1, <4>1 DEF EmptyInv
    <3>5. ContentInv(d, filled, freed)'
      <4>1. ASSUME NEW f \in FlyingInto(d)'
            PROVE  /\ f.slice = 2 * filled + d
                   /\ Passed(f.copy[1], d)' = filled + 1 \/ ArrivingAt(f.copy[1], d)'
        <5>1. CASE f \in issued
          BY <1>2, <1>6, <2>1, <2>4, <3>2, <5>1
        <5>2. CASE f \in FlyingInto(d)
          BY <1>4, <1>5, <2>1, <2>2, <3>1, <5>2 DEF ContentInv
        <5> QED
          BY <2>2, <5>1, <5>2
      <4>2. ASSUME NEW c \in Copies, Passed(c[1], d)' = filled + 1 \/ ArrivingAt(c[1], d)'
            PROVE  stage'[d][c] = 2 * filled + d \/ \E f \in FlyingInto(d)' : f.copy = c
        <5>1. c[1] \in Elected /\ c[2] \in Operands /\ c = <<c[1], c[2]>>
          BY DEF Copies
        <5>2. CASE c[1] = u
          <6>1. [copy |-> <<u, c[2]>>, into |-> b, slice |-> SliceOf(u)] \in FlyingInto(d)'
            BY <2>2, <2>4, <5>1
          <6>2. [copy |-> <<u, c[2]>>, into |-> b, slice |-> SliceOf(u)].copy = c
            BY <5>1, <5>2
          <6> QED
            BY <6>1, <6>2
        <5>3. CASE c[1] # u
          BY <1>1, <1>4, <1>5, <2>1, <2>2, <3>1, <4>2, <5>1, <5>3 DEF ContentInv
        <5> QED
          BY <5>2, <5>3
      <4> QED
        BY <1>1, <1>4, <3>2, <4>1, <4>2, <3>1 DEF ContentInv
    <3> QED
      BY <1>4, <3>3, <3>4, <3>5 DEF StageInv
  <2> QED
    BY <2>3, <2>4
<1> QED
  BY <1>1, <1>7, <1>8, <1>9, <1>10, <1>11, <1>12 DEF IInv

\* What an arrival makes of a barrier: it settles when it misses nothing more.
LEMMA ArrivalSettles ==
  ASSUME NEW x \in Barriers, NEW arrivals \in Int, NEW expected \in Int, NEW count
  PROVE  Arrived(x, arrivals, expected, count) =
           IF x.pending - arrivals = 0 /\ x.copies + expected = 0
           THEN [bit |-> 1 - x.bit, pending |-> count, copies |-> 0]
           ELSE [bit |-> x.bit, pending |-> x.pending - arrivals, copies |-> x.copies + expected]
BY DEF Arrived, Settled, Barriers

\* At most both operands' copies of one slice by one unit fly into a stage.
LEMMA AtMostTwoFly ==
  ASSUME NEW u, NEW b, NEW n,
         NEW F \in SUBSET [copy : {u} \X Operands, into : {b}, slice : {n}]
  PROVE  IsFiniteSet(F) /\ Cardinality(F) \in Nat /\ Cardinality(F) <= 2
<1> DEFINE left == [copy |-> <<u, "lhs">>, into |-> b, slice |-> n]
           right == [copy |-> <<u, "rhs">>, into |-> b, slice |-> n]
<1>1. F \subseteq {left, right}
  BY DEF Operands
<1>2. left # right
  OBVIOUS
<1>3. IsFiniteSet({left, right}) /\ Cardinality({left, right}) = 2
  <2> HIDE DEF left, right
  <2> QED
    BY <1>2, Counting
<1> HIDE DEF left, right
<1> QED
  BY <1>1, <1>3, FS_Subset, FS_CardinalityType

\* When arrivals on the full barrier of a free stage are counted off what it
\* misses, either it goes on missing some or the stage is whole.
LEMMA StageArrival ==
  ASSUME NEW b \in Buffers, NEW filled \in 0 .. Loops, NEW freed \in 0 .. Loops,
         NEW arrivals \in Int, NEW expected \in Int,
         TypeOK, CopiesInv', UNCHANGED launch, full[b].bit = filled % 2, freed = filled,
         full'[b] = Arrived(full[b], arrivals, expected, ArrivalCount),
         Cardinality(Owing(b, filled)') = full[b].pending - arrivals,
         full[b].copies + expected =
           (IF ~tma THEN 0 ELSE Cardinality(FlyingInto(b)') - (IF ArrivingAt(Leader, b)' THEN 2 ELSE 0)),
         \A u \in ComputeUnits : Passed(u, b)' \in Nat,
         \A u \in Elected :
           /\ Passed(u, b)' \in filled .. filled + 1 /\ Passed(u, b)' <= Loops
           /\ ArrivingAt(u, b)' => Passed(u, b)' = filled
           /\ HasCommitted(u, b)' => Passed(u, b)' = filled + 1,
         EmptyInv(b, filled, freed)', ContentInv(b, filled, freed)'
  PROVE  /\ StageInv(b)'
         /\ full'[b] \in Barriers /\ full'[b].copies \in (IF tma THEN -2 .. 2 ELSE {0})
<1>1. /\ Loops' = Loops /\ tma' = tma /\ Elected' = Elected /\ Copies' = Copies
      /\ ArrivalCount' = ArrivalCount /\ Loops \in Nat /\ tma \in BOOLEAN
      /\ filled \in Nat /\ freed \in Nat /\ b \in Nat
      /\ full[b] \in Barriers /\ full[b].bit \in {0, 1}
      /\ full[b].pending \in Nat /\ full[b].copies \in Int
  <2>1. /\ Loops' = Loops /\ tma' = tma /\ Elected' = Elected /\ Copies' = Copies
        /\ ArrivalCount' = ArrivalCount
    BY DEF launch, Loops, Elected, Copies, ArrivalCount
  <2>2. Loops \in Nat /\ tma \in BOOLEAN /\ full[b] \in Barriers
    BY LoopsCoverTheRange DEF TypeOK
  <2> QED
    BY <2>1, <2>2 DEF Buffers, Barriers
<1>2. /\ IsFiniteSet(Elected) /\ Elected \subseteq LoadUnits /\ Leader \in Elected
      /\ Cardinality(Elected) = ArrivalCount /\ ArrivalCount \in Nat \ {0}
      /\ tma => Elected = {Leader}
  BY <1>1, ArmedCounts
<1>3. full'[b] = IF full[b].pending - arrivals = 0 /\ full[b].copies + expected = 0
                 THEN [bit |-> 1 - full[b].bit, pending |-> ArrivalCount, copies |-> 0]
                 ELSE [bit |-> full[b].bit, pending |-> full[b].pending - arrivals,
                       copies |-> full[b].copies + expected]
  BY <1>1, ArrivalSettles
<1>4. IsFiniteSet(Owing(b, filled)') /\ Cardinality(Owing(b, filled)') \in Nat
  <2>1. Owing(b, filled)' \subseteq Elected
    BY <1>1 DEF Owing
  <2> QED
    BY <1>2, <2>1, FS_Subset, FS_CardinalityType
<1>5. /\ IsFiniteSet(FlyingInto(b)') /\ Cardinality(FlyingInto(b)') \in Nat
      /\ tma => Cardinality(FlyingInto(b)') <= 2
  <2>1. IsFiniteSet(FlyingInto(b)')
    BY FS_Subset DEF CopiesInv, FlyingInto
  <2>2. ASSUME tma PROVE FlyingInto(b)' \subseteq
                           [copy : {Leader} \X Operands, into : {b}, slice : {2 * filled + b}]
    BY <1>1, <1>2, <2>2 DEF FlyingInto, CopiesInv, ContentInv, Copies
  <2> QED
    BY <2>1, <2>2, AtMostTwoFly, FS_CardinalityType
<1>6. CASE ~(full[b].pending - arrivals = 0 /\ full[b].copies + expected = 0)
  <2>1. FullInv(b, filled, freed)'
    BY <1>1, <1>3, <1>6 DEF FullInv
  <2>2. StageInv(b)'
    BY <1>1, <2>1 DEF StageInv
  <2>3. full'[b] \in Barriers /\ full'[b].copies \in (IF tma THEN -2 .. 2 ELSE {0})
    BY <1>1, <1>3, <1>4, <1>5, <1>6 DEF Barriers
  <2> QED
    BY <2>2, <2>3
<1>7. CASE full[b].pending - arrivals = 0 /\ full[b].copies + expected = 0
  <2>1. Owing(b, filled)' = {}
    BY <1>4, <1>7, FS_EmptySet
  <2>2. \A u \in Elected : Passed(u, b)' # filled /\ ~HasCommitted(u, b)'
    BY <1>1, <2>1 DEF Owing
  <2>3. ASSUME NEW u \in Elected PROVE Passed(u, b)' = filled + 1 /\ ~ArrivingAt(u, b)'
    <3>1. /\ Passed(u, b)' \in filled .. filled + 1 /\ Passed(u, b)' # filled
          /\ ArrivingAt(u, b)' => Passed(u, b)' = filled
      BY <2>2
    <3> QED
      BY <1>1, <3>1
  <2>4. FlyingInto(b)' = {}
    <3>1. CASE tma
      BY <1>1, <1>2, <1>5, <1>7, <2>3, <3>1, FS_EmptySet
    <3>2. CASE ~tma
      <4> SUFFICES ASSUME NEW f \in FlyingInto(b)' PROVE FALSE
        OBVIOUS
      <4>1. f \in flying' /\ f.into = b /\ f.copy[1] \in Elected
        BY <1>1 DEF FlyingInto, CopiesInv, Copies
      <4>2. ArrivingAt(f.copy[1], b)' \/ HasCommitted(f.copy[1], b)'
        BY <1>1, <3>2, <4>1 DEF CopiesInv, HasCommitted, Owns
      <4> QED
        BY <2>2, <2>3, <4>1, <4>2
    <3> QED
      BY <3>1, <3>2
  <2>5. full'[b] = [bit |-> 1 - full[b].bit, pending |-> ArrivalCount, copies |-> 0]
    BY <1>3, <1>7
  <2>6. filled + 1 \in 0 .. Loops /\ full'[b].bit = (filled + 1) % 2
    BY <1>1, <1>2, <2>3, <2>5
  <2>7. FullInv(b, filled + 1, freed)'
    <3>1. Owing(b, filled + 1)' = Elected
      BY <1>1, <2>3 DEF Owing
    <3> QED
      BY <1>1, <1>2, <2>2, <2>3, <2>4, <2>5, <2>6, <3>1, FS_EmptySet DEF FullInv
  <2>8. EmptyInv(b, filled + 1, freed)'
    BY <1>1 DEF EmptyInv
  <2>9. ContentInv(b, filled + 1, freed)'
    <3>1. \A c \in Copies : stage'[b][c] = 2 * filled + b
      BY <1>1, <2>3, <2>4 DEF ContentInv, Copies
    <3>2. \A c \in Copies : ~(Passed(c[1], b)' = filled + 2) /\ ~ArrivingAt(c[1], b)'
      BY <1>1, <2>3 DEF Copies
    <3> QED
      BY <1>1, <2>4, <3>1, <3>2 DEF ContentInv
  <2>10. full'[b] \in Barriers /\ full'[b].copies \in (IF tma THEN -2 .. 2 ELSE {0})
    BY <1>1, <1>2, <2>5 DEF Barriers
  <2> QED
    BY <1>1, <2>6, <2>7, <2>8, <2>9, <2>10 DEF StageInv
<1> QED
  BY <1>6, <1>7

\* What a loading unit's arrival does to the units: it alone moves on, to the
\* next stage or out of the loops.
LEMMA ArriveMovesUnits ==
  ASSUME IInv, NEW u \in LoadUnits, pc[u] = "arrive",
         Advance(u, "wait_empty", "returned"),
         UNCHANGED <<launch, empty, done, flying, stage, acc>>
  PROVE  /\ u \in Units /\ u \in Elected /\ u \notin ComputeUnits /\ buffer[u] \in Buffers
         /\ Loops' = Loops /\ Elected' = Elected /\ Copies' = Copies /\ tma' = tma
         /\ pc' \in [Units -> {"wait_empty", "arrive", "wait_full", "compute", "done", "wait_done", "returned"}]
         /\ loop' \in [Units -> 0 .. Loops] /\ phase' \in [Units -> {0, 1}]
         /\ buffer' \in [Units -> Buffers]
         /\ \A v \in Units : phase'[v] = loop'[v] % 2
         /\ \A v \in LoadUnits : LoadUnitInv(v)'
         /\ \A v \in ComputeUnits : ComputeUnitInv(v)'
         /\ DoneInv'
         /\ \A d \in Buffers : \A v \in Units :
              /\ Passed(v, d)' = Passed(v, d) + (IF v = u /\ d = buffer[u] THEN 1 ELSE 0)
              /\ Passed(v, d) \in Nat
              /\ ArrivingAt(v, d)' <=> ArrivingAt(v, d) /\ v # u
              /\ pc'[v] = "compute" /\ buffer'[v] = d <=> pc[v] = "compute" /\ buffer[v] = d
         /\ \A d \in Buffers : \A v \in Elected : Passed(v, d)' <= Loops
<1>1. /\ u \in Units /\ u \in Elected /\ u \notin ComputeUnits /\ buffer[u] \in Buffers
      /\ loop[u] \in Nat /\ loop[u] < Loops /\ Loops \in Nat /\ phase[u] = loop[u] % 2
      /\ TypeOK /\ tma \in BOOLEAN
  BY RolesAssumption, LoopsCoverTheRange DEF IInv, TypeOK, Units, LoadUnitInv
<1>2. /\ Loops' = Loops
      /\ loop' \in [Units -> 0 .. Loops] /\ phase' \in [Units -> {0, 1}]
      /\ buffer' \in [Units -> Buffers]
      /\ \A v \in Units : v # u =>
           pc'[v] = pc[v] /\ loop'[v] = loop[v] /\ phase'[v] = phase[v] /\ buffer'[v] = buffer[v]
      /\ phase'[u] = loop'[u] % 2
      /\ pc'[u] \in {"wait_empty", "returned"}
      /\ pc'[u] = "wait_empty" => loop'[u] < Loops
      /\ pc'[u] = "returned" => loop'[u] = Loops
      /\ loop'[u] = Loops => buffer'[u] = 0
      /\ \A d \in Buffers : \A v \in Units :
           Passed(v, d)' = Passed(v, d) + (IF v = u /\ d = buffer[u] THEN 1 ELSE 0)
  BY <1>1, AdvanceMoves
<1>3. /\ Elected' = Elected /\ Copies' = Copies /\ tma' = tma
      /\ Elected \subseteq LoadUnits /\ LoadUnits \subseteq Units /\ ComputeUnits \subseteq Units
  BY <1>1, ArmedCounts DEF launch, Elected, Copies, Units
<1>4. pc' \in [Units -> {"wait_empty", "arrive", "wait_full", "compute", "done", "wait_done", "returned"}]
  BY <1>1 DEF Advance, TypeOK
<1>5. \A v \in Units : phase'[v] = loop'[v] % 2
  BY <1>2 DEF IInv
<1>6. ASSUME NEW v \in LoadUnits PROVE LoadUnitInv(v)'
  <2>1. LoadUnitInv(v) /\ v \in Units
    BY <1>3 DEF IInv
  <2>2. CASE v = u
    BY <1>1, <1>2, <1>3, <2>2 DEF LoadUnitInv
  <2>3. CASE v # u
    BY <1>2, <1>3, <2>1, <2>3 DEF LoadUnitInv
  <2> QED
    BY <2>2, <2>3
<1>7. ASSUME NEW v \in ComputeUnits PROVE ComputeUnitInv(v)'
  <2>1. ComputeUnitInv(v) /\ v \in Units /\ v # u
    BY <1>1, <1>3 DEF IInv
  <2>2. SliceOf(v)' = SliceOf(v)
    BY <1>2, <2>1 DEF SliceOf
  <2> QED
    BY <1>2, <2>1, <2>2 DEF ComputeUnitInv
<1>8. DoneInv'
  <2>1. \A v \in ComputeUnits : pc'[v] = pc[v]
    BY <1>1, <1>2, <1>3
  <2> QED
    BY <1>3, <2>1 DEF IInv, DoneInv
<1>9. ASSUME NEW d \in Buffers, NEW v \in Units
      PROVE  /\ Passed(v, d) \in Nat
             /\ ArrivingAt(v, d)' <=> ArrivingAt(v, d) /\ v # u
             /\ pc'[v] = "compute" /\ buffer'[v] = d <=> pc[v] = "compute" /\ buffer[v] = d
  <2>1. Passed(v, d) \in Nat
    BY <1>1 DEF TypeOK, Passed
  <2>2. CASE v = u
    BY <1>2, <2>1, <2>2 DEF ArrivingAt
  <2>3. CASE v # u
    BY <1>2, <2>1, <2>3 DEF ArrivingAt
  <2> QED
    BY <2>2, <2>3
<1>10. ASSUME NEW d \in Buffers, NEW v \in Elected PROVE Passed(v, d)' <= Loops
  <2>1. v \in LoadUnits /\ v \in Units /\ loop'[v] \in 0 .. Loops /\ buffer'[v] \in {0, 1}
    BY <1>2, <1>3 DEF Buffers
  <2>2. loop'[v] = Loops => buffer'[v] = 0
    BY <1>2, <1>6, <2>1 DEF LoadUnitInv
  <2> QED
    BY <1>1, <2>1, <2>2 DEF Passed, Buffers
<1> QED
  BY <1>1, <1>2, <1>3, <1>4, <1>5, <1>6, <1>7, <1>8, <1>9, <1>10

\* The arrival that owes the barrier the bytes of a bulk copy.
LEMMA ArriveTmaKeeps ==
  ASSUME IInv, NEW u \in LoadUnits, ArriveTma(u)
  PROVE  IInv'
<1> DEFINE b == buffer[u]
<1>1. /\ pc[u] = "arrive" /\ tma
      /\ full' = [full EXCEPT ![b] = Arrived(@, 1, Cardinality(Operands), ArrivalCount)]
      /\ Advance(u, "wait_empty", "returned")
      /\ UNCHANGED <<launch, empty, done, flying, commits, stage, acc>>
  BY DEF ArriveTma
<1>2. /\ u \in Units /\ u \in Elected /\ u \notin ComputeUnits /\ b \in Buffers
      /\ Loops' = Loops /\ Elected' = Elected /\ Copies' = Copies /\ tma' = tma
      /\ pc' \in [Units -> {"wait_empty", "arrive", "wait_full", "compute", "done", "wait_done", "returned"}]
      /\ loop' \in [Units -> 0 .. Loops] /\ phase' \in [Units -> {0, 1}]
      /\ buffer' \in [Units -> Buffers]
      /\ \A v \in Units : phase'[v] = loop'[v] % 2
      /\ \A v \in LoadUnits : LoadUnitInv(v)'
      /\ \A v \in ComputeUnits : ComputeUnitInv(v)'
      /\ DoneInv'
  BY <1>1, ArriveMovesUnits
<1>3. \A d \in Buffers : \A v \in Units :
        /\ Passed(v, d)' = Passed(v, d) + (IF v = u /\ d = b THEN 1 ELSE 0)
        /\ Passed(v, d) \in Nat
        /\ ArrivingAt(v, d)' <=> ArrivingAt(v, d) /\ v # u
        /\ pc'[v] = "compute" /\ buffer'[v] = d <=> pc[v] = "compute" /\ buffer[v] = d
  BY <1>1, ArriveMovesUnits
<1>4. \A d \in Buffers : \A v \in Elected : Passed(v, d)' <= Loops
  BY <1>1, ArriveMovesUnits
<1>5. /\ Elected = {u} /\ u = Leader /\ Elected \subseteq Units /\ ComputeUnits \subseteq Units
      /\ TypeOK /\ tma \in BOOLEAN /\ commits = {} /\ commits' = {} /\ ArrivalCount = 1
      /\ Cardinality(Operands) = 2
  BY ZenonT(30), <1>1, <1>2, ArmedCounts, Counting DEF Units, IInv, TypeOK, CopiesInv, ArrivalCount, Operands
<1>6. CopiesInv'
  BY <1>1, <1>2, <1>5 DEF IInv, CopiesInv
<1>7. ASSUME NEW d \in Buffers
      PROVE  /\ \A v \in Units : ~HasCommitted(v, d) /\ ~HasCommitted(v, d)'
             /\ FlyingInto(d)' = FlyingInto(d)
             /\ \A f \in FlyingInto(d) : f.copy[1] \in Elected
             /\ full'[d] = IF d = b THEN Arrived(full[d], 1, 2, ArrivalCount) ELSE full[d]
  BY <1>1, <1>2, <1>5 DEF HasCommitted, FlyingInto, TypeOK, Copies
<1>8. ASSUME NEW d \in Buffers, d # b
      PROVE  StageInv(d)' /\ full'[d] \in Barriers /\ full'[d].copies \in -2 .. 2
  <2>1. full'[d] \in Barriers /\ full'[d].copies \in -2 .. 2
    BY <1>1, <1>5, <1>7, <1>8 DEF TypeOK
  <2>2. /\ StageInv(d) /\ UNCHANGED launch
        /\ full'[d] = full[d] /\ empty'[d] = empty[d] /\ stage'[d] = stage[d]
    BY <1>1, <1>7, <1>8 DEF IInv
  <2>3. \A v \in Elected : /\ Passed(v, d)' = Passed(v, d)
                           /\ ArrivingAt(v, d)' <=> ArrivingAt(v, d)
                           /\ HasCommitted(v, d)' <=> HasCommitted(v, d)
    BY <1>3, <1>5, <1>7, <1>8 DEF ArrivingAt
  <2>4. \A v \in ComputeUnits :
          /\ Passed(v, d)' = Passed(v, d)
          /\ pc'[v] = "compute" /\ buffer'[v] = d <=> pc[v] = "compute" /\ buffer[v] = d
    BY <1>3, <1>5, <1>8
  <2> QED
    BY <1>5, <1>7, <2>1, <2>2, <2>3, <2>4, StageUndisturbed
<1>9. ASSUME NEW d \in Buffers, d = b
      PROVE  StageInv(d)' /\ full'[d] \in Barriers /\ full'[d].copies \in -2 .. 2
  <2>1. PICK filled \in 0 .. Loops, freed \in 0 .. Loops :
          FullInv(d, filled, freed) /\ EmptyInv(d, filled, freed) /\ ContentInv(d, filled, freed)
    BY <1>2 DEF IInv, StageInv
  <2>2. /\ ArrivingAt(u, d) /\ Passed(u, d) = filled /\ freed = filled
        /\ filled \in Nat
    BY <1>1, <1>2, <1>9, <2>1, LoopsCoverTheRange DEF FullInv, ArrivingAt
  <2>3. Owing(d, filled) = {u} /\ Owing(d, filled)' = {}
    BY <1>2, <1>3, <1>5, <1>7, <1>9, <2>2 DEF Owing
  <2>4. Cardinality(Owing(d, filled)') = full[d].pending - 1
    <3>1. full[d].pending = Cardinality({u}) /\ Cardinality({u}) = 1 /\ Cardinality({}) = 0
      BY <2>1, <2>3, FS_EmptySet, FS_Singleton DEF FullInv
    <3> QED
      BY <2>3, <3>1
  <2>5. full[d].copies + 2 =
          IF ~tma THEN 0 ELSE Cardinality(FlyingInto(d)') - (IF ArrivingAt(Leader, d)' THEN 2 ELSE 0)
    <3>1. full[d].copies = Cardinality(FlyingInto(d)) - 2
      BY <1>1, <1>5, <2>1, <2>2 DEF FullInv
    <3>2. ~ArrivingAt(Leader, d)' /\ Cardinality(FlyingInto(d)) \in Nat
      BY <1>2, <1>3, <1>5, FS_Subset, FS_CardinalityType DEF IInv, CopiesInv, FlyingInto
    <3> QED
      BY <1>1, <1>2, <1>7, <3>1, <3>2
  <2>6. \A v \in Elected :
          /\ Passed(v, d)' \in filled .. filled + 1 /\ Passed(v, d)' <= Loops
          /\ ArrivingAt(v, d)' => Passed(v, d)' = filled
          /\ HasCommitted(v, d)' => Passed(v, d)' = filled + 1
    BY <1>2, <1>3, <1>4, <1>5, <1>7, <1>9, <2>2
  <2>7. EmptyInv(d, filled, freed)'
    <3>1. Holding(d, freed)' = Holding(d, freed)
      BY <1>2, <1>3, <1>5 DEF Holding
    <3> QED
      BY <1>1, <1>2, <1>3, <1>5, <2>1, <3>1 DEF EmptyInv
  <2>8. ContentInv(d, filled, freed)'
    BY <1>1, <1>2, <1>3, <1>5, <1>7, <1>9, <2>1, <2>2 DEF ContentInv, Copies
  <2>9. \A v \in ComputeUnits : Passed(v, d)' \in Nat
    BY <1>2, <1>3, <1>5
  <2>10. full[d].bit = filled % 2 /\ full'[d] = Arrived(full[d], 1, 2, ArrivalCount)
    BY <1>2, <1>7, <1>9, <2>1 DEF FullInv
  <2>11. UNCHANGED launch /\ 1 \in Int /\ 2 \in Int
    BY <1>1
  <2>12. /\ StageInv(d)'
         /\ full'[d] \in Barriers /\ full'[d].copies \in (IF tma THEN -2 .. 2 ELSE {0})
    BY <1>5, <1>6, <2>11, <2>2, <2>4, <2>5, <2>6, <2>7, <2>8, <2>9, <2>10, StageArrival
  <2> QED
    BY <1>1, <2>12
<1>10. TypeOK'
  <2>1. full' \in [Buffers -> Barriers] /\ \A d \in Buffers : full'[d].copies \in -2 .. 2
    <3>1. \A d \in Buffers : full'[d] \in Barriers /\ full'[d].copies \in -2 .. 2
      BY <1>8, <1>9
    <3> QED
      BY <1>1, <1>5, <3>1 DEF TypeOK
  <2> QED
    BY <1>1, <1>2, <1>5, <2>1 DEF TypeOK, launch
<1>11. ASSUME NEW d \in Buffers PROVE StageInv(d)'
  BY <1>8, <1>9
<1> QED
  BY <1>2, <1>6, <1>10, <1>11 DEF IInv

\* The commit of a unit's copies, which arrives behind them.
LEMMA ArriveCopiesKeeps ==
  ASSUME IInv, NEW u \in LoadUnits, ArriveCopies(u)
  PROVE  IInv'
<1> DEFINE b == buffer[u]
           mine == {f \in flying : f.copy[1] = u}
           held == IF mine = {} THEN 0 ELSE 1
           commit == [on |-> b, waits |-> mine]
<1>1. /\ pc[u] = "arrive" /\ ~tma
      /\ commits' = commits \cup {commit : x \in 1 .. held}
      /\ full' = [full EXCEPT ![b] = Arrived(@, 1 - held, 0, ArrivalCount)]
      /\ Advance(u, "wait_empty", "returned")
      /\ UNCHANGED <<launch, empty, done, flying, stage, acc>>
  BY DEF ArriveCopies
<1>2. /\ u \in Units /\ u \in Elected /\ u \notin ComputeUnits /\ b \in Buffers
      /\ Loops' = Loops /\ Elected' = Elected /\ Copies' = Copies /\ tma' = tma
      /\ pc' \in [Units -> {"wait_empty", "arrive", "wait_full", "compute", "done", "wait_done", "returned"}]
      /\ loop' \in [Units -> 0 .. Loops] /\ phase' \in [Units -> {0, 1}]
      /\ buffer' \in [Units -> Buffers]
      /\ \A v \in Units : phase'[v] = loop'[v] % 2
      /\ \A v \in LoadUnits : LoadUnitInv(v)'
      /\ \A v \in ComputeUnits : ComputeUnitInv(v)'
      /\ DoneInv'
  BY <1>1, ArriveMovesUnits
<1>3. \A d \in Buffers : \A v \in Units :
        /\ Passed(v, d)' = Passed(v, d) + (IF v = u /\ d = b THEN 1 ELSE 0)
        /\ Passed(v, d) \in Nat
        /\ ArrivingAt(v, d)' <=> ArrivingAt(v, d) /\ v # u
        /\ pc'[v] = "compute" /\ buffer'[v] = d <=> pc[v] = "compute" /\ buffer[v] = d
  BY <1>1, ArriveMovesUnits
<1>4. \A d \in Buffers : \A v \in Elected : Passed(v, d)' <= Loops
  BY <1>1, ArriveMovesUnits
<1>5. /\ Elected \subseteq LoadUnits /\ LoadUnits \subseteq Units /\ ComputeUnits \subseteq Units
      /\ TypeOK /\ tma \in BOOLEAN /\ IsFiniteSet(Elected) /\ Leader \in Elected
  BY ArmedCounts DEF Units, IInv, TypeOK
<1>6. commits' = IF mine = {} THEN commits ELSE commits \cup {commit}
  <2>1. mine = {} => 1 .. held = {}
    OBVIOUS
  <2>2. mine # {} => 1 .. held = {1}
    OBVIOUS
  <2> HIDE DEF commit, mine
  <2> QED
    BY <1>1, <2>1, <2>2
<1>7. /\ commit.on = b /\ commit.waits = mine /\ mine \subseteq flying
      /\ \A v \in LoadUnits : Owns(v, commit) <=> v = u /\ mine # {}
  BY DEF Owns
<1>8. ~HasCommitted(u, b) /\ ArrivingAt(u, b)
  <2>1. PICK filled \in 0 .. Loops, freed \in 0 .. Loops : FullInv(b, filled, freed)
    BY <1>2 DEF IInv, StageInv
  <2>2. ArrivingAt(u, b) /\ filled \in Nat
    BY <1>1, <1>5, LoopsCoverTheRange DEF ArrivingAt, TypeOK
  <2>3. Passed(u, b) = filled /\ (HasCommitted(u, b) => Passed(u, b) = filled + 1)
    BY <1>2, <2>1, <2>2 DEF FullInv
  <2> QED
    BY <2>2, <2>3
<1>9. ASSUME NEW d \in Buffers
      PROVE  /\ \A v \in LoadUnits :
                  HasCommitted(v, d)' <=> HasCommitted(v, d) \/ (v = u /\ d = b /\ mine # {})
             /\ FlyingInto(d)' = FlyingInto(d)
             /\ \A f \in FlyingInto(d) : f.copy[1] \in Elected
             /\ full'[d] = IF d = b THEN Arrived(full[d], 1 - held, 0, ArrivalCount) ELSE full[d]
  <2>1. ASSUME NEW v \in LoadUnits
        PROVE  HasCommitted(v, d)' <=> HasCommitted(v, d) \/ (v = u /\ d = b /\ mine # {})
    <3>1. \A m : Owns(v, m)' <=> Owns(v, m)
      BY DEF Owns
    <3> HIDE DEF commit, mine
    <3> QED
      BY <1>6, <1>7, <3>1 DEF HasCommitted
  <2>2. FlyingInto(d)' = FlyingInto(d) /\ \A f \in FlyingInto(d) : f.copy[1] \in Elected
    BY <1>1, <1>5 DEF FlyingInto, TypeOK, Copies
  <2>3. full'[d] = IF d = b THEN Arrived(full[d], 1 - held, 0, ArrivalCount) ELSE full[d]
    <3> HIDE DEF held
    <3> QED
      BY <1>1, <1>2, <1>5 DEF TypeOK
  <2> QED
    BY <2>1, <2>2, <2>3
<1>10. CopiesInv'
  <2> HIDE DEF commit
  <2>1. commits' \subseteq [on : Buffers, waits : SUBSET flying]
    <3>1. commits \subseteq [on : Buffers, waits : SUBSET flying]
      BY DEF IInv, CopiesInv
    <3>2. commit \in [on : Buffers, waits : SUBSET flying]
      BY <1>2, <1>7 DEF commit
    <3> QED
      BY <1>6, <3>1, <3>2
  <2>2. ASSUME NEW m \in commits'
        PROVE  \E v \in LoadUnits : Owns(v, m) /\ \A f \in m.waits : f.copy[1] = v
    <3>1. CASE m \in commits
      BY <3>1 DEF IInv, CopiesInv
    <3>2. CASE m = commit /\ mine # {}
      BY <1>7, <3>2
    <3> QED
      BY <1>6, <3>1, <3>2
  <2>3. ASSUME NEW m \in commits', NEW n \in commits', NEW v \in LoadUnits,
               m.on = n.on, Owns(v, m), Owns(v, n)
        PROVE  m = n
    <3>1. ASSUME NEW o \in commits, o.on = b, Owns(u, o) PROVE FALSE
      BY <1>8, <3>1 DEF HasCommitted
    <3>2. m \in commits /\ n \in commits => m = n
      BY <2>3 DEF IInv, CopiesInv
    <3> HIDE DEF mine
    <3> QED
      BY <1>6, <1>7, <2>3, <3>1, <3>2
  <2>4. ASSUME NEW f \in flying
        PROVE  \/ ArrivingAt(f.copy[1], f.into)'
               \/ \E m \in commits' : m.on = f.into /\ f \in m.waits
    <3>1. f.copy[1] \in Units /\ f.into \in Buffers
      BY <1>5 DEF TypeOK, Copies
    <3>2. CASE ArrivingAt(f.copy[1], f.into) /\ f.copy[1] # u
      BY <1>3, <3>1, <3>2
    <3>3. CASE ArrivingAt(f.copy[1], f.into) /\ f.copy[1] = u
      <4>1. f.into = b /\ f \in mine
        BY <3>3 DEF ArrivingAt
      <4>2. commit \in commits' /\ commit.on = f.into /\ f \in commit.waits
        BY <1>6, <1>7, <4>1
      <4> QED
        BY <4>2
    <3>4. CASE \E m \in commits : m.on = f.into /\ f \in m.waits
      BY <1>6, <3>4
    <3> QED
      BY <1>1, <3>2, <3>3, <3>4 DEF IInv, CopiesInv
  <2>5. \A m, v : Owns(v, m)' <=> Owns(v, m)
    BY DEF Owns
  <2>6. IsFiniteSet(flying) /\ flying \subseteq [copy : Copies, into : Buffers, slice : Nat]
    BY DEF IInv, CopiesInv
  <2>7. flying' = flying /\ Copies' = Copies /\ ~tma'
    BY <1>1, <1>2
  <2> QED
    BY <2>1, <2>2, <2>3, <2>4, <2>5, <2>6, <2>7 DEF CopiesInv
<1>11. ASSUME NEW d \in Buffers, d # b
       PROVE  StageInv(d)' /\ full'[d] \in Barriers /\ full'[d].copies = 0
  <2>1. full'[d] \in Barriers /\ full'[d].copies = 0
    BY <1>1, <1>5, <1>9, <1>11 DEF TypeOK
  <2>2. /\ StageInv(d) /\ UNCHANGED launch
        /\ full'[d] = full[d] /\ empty'[d] = empty[d] /\ stage'[d] = stage[d]
    BY <1>1, <1>9, <1>11 DEF IInv
  <2>3. \A v \in Elected : /\ Passed(v, d)' = Passed(v, d)
                           /\ ArrivingAt(v, d)' <=> ArrivingAt(v, d)
                           /\ HasCommitted(v, d)' <=> HasCommitted(v, d)
    BY <1>3, <1>5, <1>9, <1>11 DEF ArrivingAt
  <2>4. \A v \in ComputeUnits :
          /\ Passed(v, d)' = Passed(v, d)
          /\ pc'[v] = "compute" /\ buffer'[v] = d <=> pc[v] = "compute" /\ buffer[v] = d
    BY <1>3, <1>5, <1>11
  <2> QED
    BY <1>5, <1>9, <2>1, <2>2, <2>3, <2>4, StageUndisturbed
<1>12. ASSUME NEW d \in Buffers, d = b
       PROVE  StageInv(d)' /\ full'[d] \in Barriers /\ full'[d].copies = 0
  <2>1. PICK filled \in 0 .. Loops, freed \in 0 .. Loops :
          FullInv(d, filled, freed) /\ EmptyInv(d, filled, freed) /\ ContentInv(d, filled, freed)
    BY DEF IInv, StageInv
  <2>2. /\ Passed(u, d) = filled /\ freed = filled /\ filled \in Nat
    BY <1>2, <1>8, <1>12, <2>1, LoopsCoverTheRange DEF FullInv, IInv, TypeOK
  <2>3. /\ u \in Owing(d, filled) /\ IsFiniteSet(Owing(d, filled))
        /\ Owing(d, filled)' = IF mine = {} THEN Owing(d, filled) \ {u} ELSE Owing(d, filled)
    <3>1. u \in Owing(d, filled) /\ Owing(d, filled) \subseteq Elected
      BY <1>2, <2>2 DEF Owing
    <3>2. Owing(d, filled)' = {v \in Elected : Passed(v, d)' = filled \/ HasCommitted(v, d)'}
      BY <1>2 DEF Owing
    <3>3. \A v \in Elected : v # u =>
            ((Passed(v, d)' = filled \/ HasCommitted(v, d)') <=> v \in Owing(d, filled))
      BY <1>3, <1>5, <1>9, <1>12 DEF Owing
    <3>4. (Passed(u, d)' = filled \/ HasCommitted(u, d)') <=> mine # {}
      <4>1. Passed(u, d)' = filled + 1
        BY <1>2, <1>3, <1>12, <2>2
      <4> HIDE DEF mine
      <4> QED
        BY <1>8, <1>9, <1>12, <2>2, <4>1
    <3> HIDE DEF mine
    <3> QED
      BY <1>5, <3>1, <3>2, <3>3, <3>4, FS_Subset
  <2>4. Cardinality(Owing(d, filled)') = full[d].pending - (1 - held)
    <3>1. full[d].pending = Cardinality(Owing(d, filled))
      BY <2>1 DEF FullInv
    <3>2. /\ Cardinality(Owing(d, filled)) \in Nat
          /\ Cardinality(Owing(d, filled) \ {u}) = Cardinality(Owing(d, filled)) - 1
      BY <2>3, Counting
    <3> HIDE DEF mine
    <3> QED
      BY <2>3, <3>1, <3>2
  <2>5. full[d].copies + 0 =
          IF ~tma THEN 0 ELSE Cardinality(FlyingInto(d)') - (IF ArrivingAt(Leader, d)' THEN 2 ELSE 0)
    BY <1>1, <2>1 DEF FullInv
  <2>6. ASSUME NEW v \in Elected
        PROVE  /\ Passed(v, d)' \in filled .. filled + 1 /\ Passed(v, d)' <= Loops
               /\ ArrivingAt(v, d)' => Passed(v, d)' = filled
               /\ HasCommitted(v, d)' => Passed(v, d)' = filled + 1
    <3>1. CASE v = u
      BY <1>2, <1>3, <1>4, <1>12, <2>2, <3>1
    <3>2. CASE v # u
      <4>1. /\ Passed(v, d)' = Passed(v, d) /\ Passed(v, d)' <= Loops /\ Passed(v, d) \in Nat
            /\ ArrivingAt(v, d)' <=> ArrivingAt(v, d)
            /\ HasCommitted(v, d)' <=> HasCommitted(v, d)
        BY <1>3, <1>4, <1>5, <1>9, <3>2
      <4> QED
        BY <2>1, <2>2, <4>1 DEF FullInv
    <3> QED
      BY <3>1, <3>2
  <2>7. EmptyInv(d, filled, freed)'
    <3>1. Holding(d, freed)' = Holding(d, freed)
      BY <1>2, <1>3, <1>5 DEF Holding
    <3> QED
      BY <1>1, <1>2, <1>3, <1>5, <2>1, <3>1 DEF EmptyInv
  <2>8. ContentInv(d, filled, freed)'
    <3>1. ASSUME NEW v \in Elected
          PROVE  Passed(v, d)' = filled + 1 \/ ArrivingAt(v, d)' <=>
                   Passed(v, d) = filled + 1 \/ ArrivingAt(v, d)
      BY <1>2, <1>3, <1>5, <1>8, <1>12, <2>2
    <3> QED
      BY <1>1, <1>2, <1>9, <2>1, <3>1 DEF ContentInv, Copies
  <2>9. \A v \in ComputeUnits : Passed(v, d)' \in Nat
    BY <1>2, <1>3, <1>5
  <2>10. full[d].bit = filled % 2 /\ full'[d] = Arrived(full[d], 1 - held, 0, ArrivalCount)
    BY <1>9, <1>12, <2>1 DEF FullInv
  <2>11. UNCHANGED launch /\ 1 - held \in Int /\ 0 \in Int
    BY <1>1
  <2>12. /\ StageInv(d)'
         /\ full'[d] \in Barriers /\ full'[d].copies \in (IF tma THEN -2 .. 2 ELSE {0})
    <3> HIDE DEF held
    <3> QED
      BY <1>5, <1>10, <2>11, <2>2, <2>4, <2>5, <2>6, <2>7, <2>8, <2>9, <2>10, StageArrival
  <2> QED
    BY <1>1, <2>12
<1>13. TypeOK'
  <2>1. full' \in [Buffers -> Barriers] /\ \A d \in Buffers : full'[d].copies = 0
    <3>1. \A d \in Buffers : full'[d] \in Barriers /\ full'[d].copies = 0
      BY <1>11, <1>12
    <3> QED
      BY <1>1, <1>5, <3>1 DEF TypeOK
  <2> HIDE DEF mine, held, commit
  <2> QED
    BY <1>1, <1>2, <1>5, <2>1 DEF TypeOK, launch
<1>14. ASSUME NEW d \in Buffers PROVE StageInv(d)'
  BY <1>11, <1>12
<1> QED
  BY <1>2, <1>10, <1>13, <1>14 DEF IInv

\* What a landing leaves of the commits: those that waited for it alone are
\* gone, the others wait for one copy less.
LEMMA LandingShrinksCommits ==
  ASSUME IInv, NEW f \in flying,
         commits' = {[m EXCEPT !.waits = @ \ {f}] : m \in {n \in commits : n.waits # {f}}}
  PROVE  /\ \A m \in commits' : \E n \in commits :
              n.waits # {f} /\ m = [on |-> n.on, waits |-> n.waits \ {f}]
         /\ \A n \in commits : n.waits # {f} =>
              [on |-> n.on, waits |-> n.waits \ {f}] \in commits'
         /\ \A d \in Buffers : \A v \in LoadUnits :
              HasCommitted(v, d)' <=>
                /\ HasCommitted(v, d)
                /\ ~(v = f.copy[1] /\ \E m \in commits : m.waits = {f} /\ m.on = d)
<1>1. commits \subseteq [on : Buffers, waits : SUBSET flying]
  BY DEF IInv, CopiesInv
<1>2. ASSUME NEW n \in commits
      PROVE  [n EXCEPT !.waits = @ \ {f}] = [on |-> n.on, waits |-> n.waits \ {f}]
  <2> DEFINE m == [n EXCEPT !.waits = @ \ {f}]
  <2>1. n \in [on : Buffers, waits : SUBSET flying]
    BY <1>1
  <2>2. m \in [on : Buffers, waits : SUBSET flying]
    BY <2>1
  <2>3. m.on = n.on /\ m.waits = n.waits \ {f}
    BY <2>1
  <2> HIDE DEF m
  <2>4. m = [on |-> n.on, waits |-> n.waits \ {f}]
    BY <2>2, <2>3
  <2> QED
    BY <2>4 DEF m
<1>3. \A m \in commits' : \E n \in commits :
        n.waits # {f} /\ m = [on |-> n.on, waits |-> n.waits \ {f}]
  BY <1>2
<1>4. \A n \in commits : n.waits # {f} =>
        [on |-> n.on, waits |-> n.waits \ {f}] \in commits'
  BY <1>2
<1>5. ASSUME NEW d \in Buffers, NEW v \in LoadUnits
      PROVE  HasCommitted(v, d)' <=>
               /\ HasCommitted(v, d)
               /\ ~(v = f.copy[1] /\ \E m \in commits : m.waits = {f} /\ m.on = d)
  <2>1. ASSUME HasCommitted(v, d)' PROVE HasCommitted(v, d)
    <3>1. PICK m \in commits' : m.on = d /\ \E g \in m.waits : g.copy[1] = v
      BY <2>1 DEF HasCommitted, Owns
    <3>2. PICK n \in commits : n.waits # {f} /\ m = [on |-> n.on, waits |-> n.waits \ {f}]
      BY <1>3, <3>1
    <3> QED
      BY <3>1, <3>2 DEF HasCommitted, Owns
  <2>2. ASSUME HasCommitted(v, d)', v = f.copy[1],
               NEW o \in commits, o.waits = {f}, o.on = d
        PROVE  FALSE
    <3>1. PICK m \in commits' : m.on = d /\ \E g \in m.waits : g.copy[1] = v
      BY <2>2 DEF HasCommitted, Owns
    <3>2. PICK n \in commits : n.waits # {f} /\ m = [on |-> n.on, waits |-> n.waits \ {f}]
      BY <1>3, <3>1
    <3>3. Owns(v, n) /\ Owns(v, o) /\ n.on = o.on
      BY <2>2, <3>1, <3>2 DEF Owns
    <3>4. n = o
      BY <3>3 DEF IInv, CopiesInv
    <3> QED
      BY <2>2, <3>2, <3>4
  <2>3. ASSUME HasCommitted(v, d),
               ~(v = f.copy[1] /\ \E m \in commits : m.waits = {f} /\ m.on = d)
        PROVE  HasCommitted(v, d)'
    <3>1. PICK n \in commits : n.on = d /\ \E g \in n.waits : g.copy[1] = v
      BY <2>3 DEF HasCommitted, Owns
    <3>2. n.waits # {f}
      BY <2>3, <3>1
    <3>3. \A g \in n.waits : g.copy[1] = v
      BY <3>1 DEF IInv, CopiesInv, Owns
    <3>4. \E g \in n.waits \ {f} : g.copy[1] = v
      BY <3>1, <3>2, <3>3
    <3>5. /\ [on |-> n.on, waits |-> n.waits \ {f}] \in commits'
          /\ [on |-> n.on, waits |-> n.waits \ {f}].on = d
          /\ \E g \in [on |-> n.on, waits |-> n.waits \ {f}].waits : g.copy[1] = v
      BY <1>4, <3>1, <3>2, <3>4
    <3> QED
      BY <3>5 DEF HasCommitted, Owns
  <2> QED
    BY <2>1, <2>2, <2>3
<1> QED
  BY <1>3, <1>4, <1>5

\* A copy lands, and with the last the fill of its stage completes.
LEMMA LandsKeeps ==
  ASSUME IInv, NEW f \in flying, Lands(f)
  PROVE  IInv'
<1> DEFINE u == f.copy[1]
           alone(d) == {m \in commits : m.waits = {f} /\ m.on = d}
           taken(d) == IF tma /\ d = f.into THEN -1 ELSE 0
<1>1. /\ flying' = flying \ {f}
      /\ stage' = [stage EXCEPT ![f.into][f.copy] = f.slice]
      /\ commits' = {[m EXCEPT !.waits = @ \ {f}] : m \in {n \in commits : n.waits # {f}}}
      /\ full' = [d \in Buffers |->
                    Arrived(full[d], Cardinality(alone(d)), taken(d), ArrivalCount)]
      /\ UNCHANGED <<launch, pc, loop, phase, buffer, empty, done, acc>>
  BY DEF Lands
<1>2. /\ Loops' = Loops /\ Elected' = Elected /\ Copies' = Copies /\ tma' = tma
      /\ Elected \subseteq LoadUnits /\ LoadUnits \subseteq Units /\ Leader \in Elected
      /\ TypeOK /\ tma \in BOOLEAN /\ CopiesInv
      /\ f.copy \in Copies /\ f.into \in Buffers /\ f.slice \in Nat
      /\ u \in Elected /\ IsFiniteSet(Elected)
  BY <1>1, ArmedCounts DEF launch, Loops, Elected, Copies, Units, IInv, TypeOK, CopiesInv
<1>3. /\ \A m \in commits' : \E n \in commits :
           n.waits # {f} /\ m = [on |-> n.on, waits |-> n.waits \ {f}]
      /\ \A n \in commits : n.waits # {f} =>
           [on |-> n.on, waits |-> n.waits \ {f}] \in commits'
      /\ \A d \in Buffers : \A v \in LoadUnits :
           HasCommitted(v, d)' <=>
             /\ HasCommitted(v, d)
             /\ ~(v = u /\ \E m \in commits : m.waits = {f} /\ m.on = d)
  BY <1>1, LandingShrinksCommits
<1>4. \A v \in Units, d \in Buffers :
        /\ Passed(v, d)' = Passed(v, d) /\ Passed(v, d) \in Nat
        /\ ArrivingAt(v, d)' <=> ArrivingAt(v, d)
        /\ pc'[v] = "compute" /\ buffer'[v] = d <=> pc[v] = "compute" /\ buffer[v] = d
  BY <1>1, <1>2, LoopsCoverTheRange DEF Passed, ArrivingAt, TypeOK
<1>5. stage' \in [Buffers -> [Copies -> Nat \cup {Nothing, Output}]]
  BY <1>1, <1>2 DEF TypeOK
<1>6. \A d \in Buffers, c \in Copies :
        stage'[d][c] = IF d = f.into /\ c = f.copy THEN f.slice ELSE stage[d][c]
  BY <1>1, <1>2 DEF TypeOK
<1>7. ASSUME NEW v \in LoadUnits PROVE LoadUnitInv(v)'
  BY <1>1, <1>2 DEF IInv, LoadUnitInv
<1>8. ASSUME NEW v \in ComputeUnits PROVE ComputeUnitInv(v)'
  <2>1. SliceOf(v)' = SliceOf(v)
    BY <1>1 DEF SliceOf
  <2> QED
    BY <1>1, <1>2, <2>1 DEF IInv, ComputeUnitInv
<1>9. DoneInv'
  <2>1. (\E d \in Buffers, c \in Copies : stage'[d][c] = Output)
           => \E d \in Buffers, c \in Copies : stage[d][c] = Output
    BY <1>2, <1>6 DEF Output
  <2> QED
    BY <1>1, <1>2, <2>1 DEF IInv, DoneInv
<1>10. CopiesInv'
  <2>1. IsFiniteSet(flying') /\ flying' \subseteq [copy : Copies, into : Buffers, slice : Nat]
    BY <1>1, <1>2, FS_Subset DEF CopiesInv
  <2>2. commits' \subseteq [on : Buffers, waits : SUBSET flying']
    BY <1>1, <1>2, <1>3 DEF CopiesInv
  <2>3. ASSUME NEW m \in commits'
        PROVE  \E v \in LoadUnits : Owns(v, m) /\ \A g \in m.waits : g.copy[1] = v
    <3>1. PICK n \in commits : n.waits # {f} /\ m = [on |-> n.on, waits |-> n.waits \ {f}]
      BY <1>3
    <3>2. PICK v \in LoadUnits : Owns(v, n) /\ \A g \in n.waits : g.copy[1] = v
      BY <1>2 DEF CopiesInv
    <3>3. \E g \in n.waits : g # f
      BY <3>1, <3>2 DEF Owns
    <3> QED
      BY <3>1, <3>2, <3>3 DEF Owns
  <2>4. ASSUME NEW m \in commits', NEW n \in commits', NEW v \in LoadUnits,
               m.on = n.on, Owns(v, m), Owns(v, n)
        PROVE  m = n
    <3>1. PICK p \in commits : p.waits # {f} /\ m = [on |-> p.on, waits |-> p.waits \ {f}]
      BY <1>3
    <3>2. PICK q \in commits : q.waits # {f} /\ n = [on |-> q.on, waits |-> q.waits \ {f}]
      BY <1>3
    <3>3. p.on = q.on /\ Owns(v, p) /\ Owns(v, q)
      BY <2>4, <3>1, <3>2 DEF Owns
    <3>4. p = q
      BY <1>2, <3>3 DEF CopiesInv
    <3> QED
      BY <3>1, <3>2, <3>4
  <2>5. ASSUME ~tma, NEW g \in flying'
        PROVE  \/ ArrivingAt(g.copy[1], g.into)
               \/ \E m \in commits' : m.on = g.into /\ g \in m.waits
    <3>1. g \in flying /\ g # f
      BY <1>1
    <3>2. CASE \E m \in commits : m.on = g.into /\ g \in m.waits
      <4>1. PICK n \in commits : n.on = g.into /\ g \in n.waits
        BY <3>2
      <4>2. /\ [on |-> n.on, waits |-> n.waits \ {f}] \in commits'
            /\ [on |-> n.on, waits |-> n.waits \ {f}].on = g.into
            /\ g \in [on |-> n.on, waits |-> n.waits \ {f}].waits
        BY <1>3, <3>1, <4>1
      <4> QED
        BY <4>2
    <3> QED
      BY <1>2, <2>5, <3>1, <3>2 DEF CopiesInv
  <2>6. \A g \in flying' : ArrivingAt(g.copy[1], g.into)' <=> ArrivingAt(g.copy[1], g.into)
    BY <1>1 DEF ArrivingAt
  <2>7. tma => commits' = {}
    BY <1>1, <1>2 DEF CopiesInv
  <2>8. \A v, m : Owns(v, m)' <=> Owns(v, m)
    BY DEF Owns
  <2> QED
    BY <1>2, <2>1, <2>2, <2>3, <2>4, <2>5, <2>6, <2>7, <2>8 DEF CopiesInv
<1>11. ASSUME NEW d \in Buffers
       PROVE  /\ StageInv(d)'
              /\ full'[d] \in Barriers /\ full'[d].copies \in (IF tma THEN -2 .. 2 ELSE {0})
  <2>1. PICK filled \in 0 .. Loops, freed \in 0 .. Loops :
          FullInv(d, filled, freed) /\ EmptyInv(d, filled, freed) /\ ContentInv(d, filled, freed)
    BY DEF IInv, StageInv
  <2>2. /\ full'[d] = Arrived(full[d], Cardinality(alone(d)), taken(d), ArrivalCount)
        /\ full[d] \in Barriers /\ full[d].copies \in (IF tma THEN -2 .. 2 ELSE {0})
        /\ filled \in Nat /\ freed \in Nat
    BY <1>1, <1>2, LoopsCoverTheRange DEF TypeOK
  <2>3. FlyingInto(d)' = FlyingInto(d) \ {f} /\ (f \in FlyingInto(d) <=> d = f.into)
    BY <1>1 DEF FlyingInto
  <2>4. \A g \in FlyingInto(d) : g.copy[1] \in Elected
    BY <1>2 DEF FlyingInto, TypeOK, Copies
  <2>5. ComputeUnits \subseteq Units /\ Elected \subseteq Units
    BY <1>2 DEF Units
  <2>6. EmptyInv(d, filled, freed)'
    <3>1. Holding(d, freed)' = Holding(d, freed)
      BY <1>4, <2>5 DEF Holding
    <3> QED
      BY <1>1, <1>2, <1>4, <2>1, <2>5, <3>1 DEF EmptyInv
  <2>7. CASE d # f.into /\ alone(d) = {}
    <3>1. full'[d] = full[d]
      <4>1. Cardinality(alone(d)) = 0 /\ taken(d) = 0
        BY <2>7, FS_EmptySet
      <4>2. Arrived(full[d], 0, 0, ArrivalCount) =
              IF full[d].pending = 0 /\ full[d].copies = 0
              THEN [bit |-> 1 - full[d].bit, pending |-> ArrivalCount, copies |-> 0]
              ELSE [bit |-> full[d].bit, pending |-> full[d].pending, copies |-> full[d].copies]
        BY <2>2 DEF Arrived, Settled, Barriers
      <4>3. full[d] = [bit |-> full[d].bit, pending |-> full[d].pending, copies |-> full[d].copies]
        BY <2>2 DEF Barriers
      <4> HIDE DEF alone, taken
      <4> QED
        BY <2>1, <2>2, <4>1, <4>2, <4>3 DEF FullInv
    <3>2. stage'[d] = stage[d]
      BY <1>1, <1>2, <2>7 DEF TypeOK
    <3>3. FlyingInto(d)' = FlyingInto(d)
      BY <2>3, <2>7
    <3>4. \A v \in Elected : HasCommitted(v, d)' <=> HasCommitted(v, d)
      BY <1>2, <1>3, <2>7
    <3>5. empty'[d] = empty[d] /\ UNCHANGED launch /\ StageInv(d)
      BY <1>1 DEF IInv
    <3>6. StageInv(d)'
      BY <1>2, <1>4, <2>4, <2>5, <3>1, <3>2, <3>3, <3>4, <3>5, StageUndisturbed
    <3> QED
      BY <2>2, <3>1, <3>6
  <2>8. CASE d = f.into \/ alone(d) # {}
    <3>1. alone(d) # {} => HasCommitted(u, d)
      BY DEF HasCommitted, Owns
    <3>2. Passed(u, d) = filled + 1 \/ ArrivingAt(u, d)
      BY <1>2, <2>1, <2>3, <2>8, <3>1 DEF FullInv, ContentInv
    <3>3. freed = filled
      BY <1>2, <2>1, <2>2, <3>2 DEF FullInv
    <3>4. /\ IsFiniteSet(alone(d)) /\ Cardinality(alone(d)) \in {0, 1}
          /\ alone(d) = {} <=> Cardinality(alone(d)) = 0
      <4>1. \A m \in alone(d), n \in alone(d) : m = n
        <5> SUFFICES ASSUME NEW m \in alone(d), NEW n \in alone(d) PROVE m = n
          OBVIOUS
        <5>1. m \in commits /\ n \in commits /\ m.on = n.on /\ Owns(u, m) /\ Owns(u, n)
          BY DEF Owns
        <5> QED
          BY <1>2, <5>1 DEF CopiesInv
      <4>2. alone(d) = {} \/ \E m : alone(d) = {m}
        <5> HIDE DEF alone
        <5> QED
          BY <4>1
      <4> HIDE DEF alone
      <4> QED
        BY <4>2, FS_EmptySet, FS_Singleton
    <3>5. Owing(d, filled)' = IF alone(d) = {} THEN Owing(d, filled) ELSE Owing(d, filled) \ {u}
      <4>1. \A v \in Elected : HasCommitted(v, d)' <=> HasCommitted(v, d) /\ ~(v = u /\ alone(d) # {})
        BY <1>2, <1>3
      <4>2. alone(d) # {} => Passed(u, d) # filled
        BY <1>2, <2>1, <2>2, <3>1 DEF FullInv
      <4> HIDE DEF alone
      <4> QED
        BY <1>2, <1>4, <2>5, <4>1, <4>2 DEF Owing
    <3>6. Cardinality(Owing(d, filled)') = full[d].pending - Cardinality(alone(d))
      <4>1. full[d].pending = Cardinality(Owing(d, filled)) /\ full[d].pending \in Nat
        BY <2>1, <2>2 DEF FullInv, Barriers
      <4>2. alone(d) # {} => u \in Owing(d, filled)
        BY <1>2, <3>1 DEF Owing
      <4>3. IsFiniteSet(Owing(d, filled))
        BY <1>2, FS_Subset DEF Owing
      <4>4. alone(d) # {} => Cardinality(Owing(d, filled) \ {u}) = full[d].pending - 1
        BY <4>1, <4>2, <4>3, Counting
      <4> HIDE DEF alone
      <4> QED
        BY <3>4, <3>5, <4>1, <4>4
    <3>7. full[d].copies + taken(d) =
            IF ~tma THEN 0 ELSE Cardinality(FlyingInto(d)') - (IF ArrivingAt(Leader, d)' THEN 2 ELSE 0)
      <4>1. CASE ~tma
        BY <2>1, <4>1 DEF FullInv
      <4>2. CASE tma
        <5>1. alone(d) = {} /\ d = f.into
          BY <1>2, <2>8, <4>2 DEF CopiesInv
        <5>2. IsFiniteSet(FlyingInto(d)) /\ f \in FlyingInto(d)
          BY <1>2, <2>3, <5>1, FS_Subset DEF CopiesInv, FlyingInto
        <5>3. /\ Cardinality(FlyingInto(d)') = Cardinality(FlyingInto(d)) - 1
              /\ Cardinality(FlyingInto(d)) \in Nat
          BY <2>3, <5>2, Counting
        <5>4. full[d].copies = Cardinality(FlyingInto(d)) - (IF ArrivingAt(Leader, d)' THEN 2 ELSE 0)
          BY <1>2, <1>4, <2>1, <2>5, <4>2 DEF FullInv
        <5> QED
          BY <4>2, <5>1, <5>3, <5>4
      <4> QED
        BY <4>1, <4>2
    <3>8. ASSUME NEW v \in Elected
          PROVE  /\ Passed(v, d)' \in filled .. filled + 1 /\ Passed(v, d)' <= Loops
                 /\ ArrivingAt(v, d)' => Passed(v, d)' = filled
                 /\ HasCommitted(v, d)' => Passed(v, d)' = filled + 1
      <4>1. /\ Passed(v, d)' = Passed(v, d) /\ Passed(v, d) \in Nat
            /\ ArrivingAt(v, d)' <=> ArrivingAt(v, d)
            /\ HasCommitted(v, d)' => HasCommitted(v, d)
        BY <1>2, <1>3, <1>4, <2>5
      <4>2. Passed(v, d) <= Loops
        <5>1. LoadUnitInv(v) /\ loop[v] \in 0 .. Loops /\ buffer[v] \in {0, 1} /\ Loops \in Nat
          BY <1>2, <2>5, LoopsCoverTheRange DEF IInv, TypeOK, Buffers
        <5> QED
          BY <5>1 DEF LoadUnitInv, Passed, Buffers
      <4> QED
        BY <2>1, <2>2, <3>3, <4>1, <4>2 DEF FullInv
    <3>9. ContentInv(d, filled, freed)'
      <4>1. ASSUME NEW g \in FlyingInto(d)'
            PROVE  /\ g.slice = 2 * filled + d
                   /\ Passed(g.copy[1], d)' = filled + 1 \/ ArrivingAt(g.copy[1], d)'
        BY <1>4, <2>1, <2>3, <2>4, <2>5 DEF ContentInv
      <4>2. ASSUME NEW c \in Copies, Passed(c[1], d)' = filled + 1 \/ ArrivingAt(c[1], d)'
            PROVE  stage'[d][c] = 2 * filled + d \/ \E g \in FlyingInto(d)' : g.copy = c
        <5>1. c[1] \in Units
          BY <2>5 DEF Copies
        <5>2. stage[d][c] = 2 * filled + d \/ \E g \in FlyingInto(d) : g.copy = c
          BY <1>4, <2>1, <4>2, <5>1 DEF ContentInv
        <5>3. CASE d = f.into /\ c = f.copy
          BY <1>6, <2>1, <2>3, <5>3 DEF ContentInv
        <5>4. CASE ~(d = f.into /\ c = f.copy)
          BY <1>6, <2>3, <5>2, <5>4
        <5> QED
          BY <5>3, <5>4
      <4> QED
        BY <1>2, <2>2, <3>3, <4>1, <4>2 DEF ContentInv
    <3>10. \A v \in ComputeUnits : Passed(v, d)' \in Nat
      BY <1>4, <2>5
    <3>11. full[d].bit = filled % 2
      BY <2>1 DEF FullInv
    <3>12. UNCHANGED launch /\ Cardinality(alone(d)) \in Int /\ taken(d) \in Int
      BY <1>1, <3>4
    <3> HIDE DEF alone, taken
    <3> QED
      BY <1>2, <1>10, <2>2, <2>6, <3>3, <3>6, <3>7, <3>8, <3>9, <3>10, <3>11, <3>12, StageArrival
  <2> QED
    BY <2>7, <2>8
<1>12. TypeOK'
  <2> HIDE DEF alone, taken
  <2>1. full' \in [Buffers -> Barriers]
    BY <1>1, <1>11
  <2>2. \A g \in flying' : g.copy \in Copies /\ g.into \in Buffers
    BY <1>1, <1>2 DEF TypeOK
  <2>3. \A d \in Buffers : full'[d].copies \in (IF tma THEN -2 .. 2 ELSE {0})
    BY <1>11
  <2> QED
    BY <1>1, <1>2, <1>5, <2>1, <2>2, <2>3 DEF TypeOK, launch
<1>13. \A v \in Units : phase'[v] = loop'[v] % 2
  BY <1>1 DEF IInv
<1>14. ASSUME NEW d \in Buffers PROVE StageInv(d)'
  BY <1>11
<1> QED
  BY <1>7, <1>8, <1>9, <1>10, <1>12, <1>13, <1>14 DEF IInv

\* A compute unit goes past the mark of a filled stage.
LEMMA WaitFullKeeps ==
  ASSUME IInv, NEW u \in ComputeUnits, WaitFull(u)
  PROVE  IInv'
<1>1. /\ pc' = [pc EXCEPT ![u] = "compute"] /\ pc[u] = "wait_full" /\ Loops > 0
      /\ Over(full[buffer[u]], phase[u])
      /\ UNCHANGED <<launch, loop, phase, buffer, full, empty, done, flying, commits, stage, acc>>
  BY DEF WaitFull
<1>2. /\ u \in Units /\ TypeOK /\ tma \in BOOLEAN /\ ComputeUnits \subseteq Units
      /\ Elected \subseteq LoadUnits /\ LoadUnits \subseteq Units /\ u \notin LoadUnits
      /\ Loops' = Loops /\ Elected' = Elected /\ Copies' = Copies /\ tma' = tma
  BY <1>1, RolesAssumption, ArmedCounts DEF IInv, TypeOK, Units, launch, Loops, Elected, Copies
<1>3. (\A v \in Units : v # u => pc'[v] = pc[v]) /\ pc'[u] = "compute"
  BY <1>1, <1>2 DEF TypeOK
<1>4. TypeOK'
  <2>1. pc' \in [Units -> {"wait_empty", "arrive", "wait_full", "compute", "done", "wait_done", "returned"}]
    BY <1>1, <1>2 DEF TypeOK
  <2> QED
    BY <1>1, <1>2, <2>1 DEF TypeOK, launch
<1>5. ASSUME NEW v \in LoadUnits PROVE LoadUnitInv(v)'
  <2>1. LoadUnitInv(v) /\ pc'[v] = pc[v]
    BY <1>2, <1>3 DEF IInv
  <2> QED
    BY <1>1, <1>2, <2>1 DEF LoadUnitInv
<1>6. ASSUME NEW v \in ComputeUnits PROVE ComputeUnitInv(v)'
  <2>1. ComputeUnitInv(v) /\ ComputeUnitInv(u) /\ SliceOf(v)' = SliceOf(v)
    BY <1>1 DEF IInv, SliceOf
  <2> QED
    BY <1>1, <1>2, <1>3, <2>1 DEF ComputeUnitInv
<1>7. CopiesInv'
  <2>1. \A f \in flying : ArrivingAt(f.copy[1], f.into)' <=> ArrivingAt(f.copy[1], f.into)
    BY <1>1, <1>2, <1>3 DEF ArrivingAt, TypeOK, Copies
  <2> QED
    BY <1>1, <1>2, <2>1 DEF IInv, CopiesInv, Owns
<1>8. DoneInv'
  <2>1. \A v \in ComputeUnits :
          pc'[v] \in {"wait_done", "returned"} <=> pc[v] \in {"wait_done", "returned"}
    BY <1>1, <1>2, <1>3
  <2> QED
    BY <1>1, <1>2, <2>1 DEF IInv, DoneInv
<1>9. ASSUME NEW d \in Buffers PROVE StageInv(d)'
  <2>1. PICK filled \in 0 .. Loops, freed \in 0 .. Loops :
          FullInv(d, filled, freed) /\ EmptyInv(d, filled, freed) /\ ContentInv(d, filled, freed)
    BY DEF IInv, StageInv
  <2>2. /\ FlyingInto(d)' = FlyingInto(d) /\ StageInv(d)
        /\ \A f \in FlyingInto(d) : f.copy[1] \in Elected
        /\ \A v \in Units : Passed(v, d)' = Passed(v, d)
        /\ \A v \in Elected : /\ ArrivingAt(v, d)' <=> ArrivingAt(v, d)
                              /\ HasCommitted(v, d)' <=> HasCommitted(v, d)
    BY <1>1, <1>2, <1>3 DEF FlyingInto, TypeOK, Copies, Passed, ArrivingAt, HasCommitted, Owns, IInv
  <2>3. FullInv(d, filled, freed)'
    <3>1. Owing(d, filled)' = Owing(d, filled)
      BY <1>2, <2>2 DEF Owing
    <3> QED
      BY <1>1, <1>2, <2>1, <2>2, <3>1, ArmedCounts DEF FullInv
  <2>4. EmptyInv(d, filled, freed)'
    <3>1. Holding(d, freed)' = Holding(d, freed)
      BY <1>2, <2>2 DEF Holding
    <3>2. ASSUME buffer[u] = d PROVE filled = Passed(u, d) + 1
      BY <1>1, <2>1, <3>2, FullWhenPassed
    <3> QED
      BY <1>1, <1>2, <1>3, <2>1, <2>2, <3>1, <3>2 DEF EmptyInv
  <2>5. ContentInv(d, filled, freed)'
    BY <1>1, <1>2, <2>1, <2>2 DEF ContentInv, Copies
  <2> QED
    BY <1>2, <2>3, <2>4, <2>5 DEF StageInv
<1>10. \A v \in Units : phase'[v] = loop'[v] % 2
  BY <1>1 DEF IInv
<1> QED
  BY <1>4, <1>5, <1>6, <1>7, <1>8, <1>9, <1>10 DEF IInv

\* A stage a unit computes on holds the slice of its loop, by the invariant.
LEMMA ComputesOnItsSlice ==
  ASSUME IInv, NEW u \in ComputeUnits, pc[u] = "compute"
  PROVE  \A c \in Copies : stage[buffer[u]][c] = SliceOf(u)
<1>1. /\ u \in Units /\ buffer[u] \in Buffers /\ buffer[u] \in Nat /\ loop[u] \in Nat
  BY LoopsCoverTheRange DEF IInv, TypeOK, Units, Buffers
<1>2. PICK filled \in 0 .. Loops, freed \in 0 .. Loops :
        /\ FullInv(buffer[u], filled, freed) /\ EmptyInv(buffer[u], filled, freed)
        /\ ContentInv(buffer[u], filled, freed)
  BY <1>1 DEF IInv, StageInv
<1>3. Passed(u, buffer[u]) = loop[u] /\ filled \in Nat /\ freed \in Nat
  <2>1. Loops \in Nat
    BY LoopsCoverTheRange DEF IInv, TypeOK
  <2>2. Passed(u, buffer[u]) = loop[u]
    BY <1>1 DEF Passed
  <2> QED
    BY <2>1, <2>2
<1>4. filled = loop[u] + 1 /\ freed = loop[u]
  BY <1>1, <1>2, <1>3 DEF FullInv, EmptyInv
<1> QED
  BY <1>2, <1>4 DEF ContentInv, SliceOf

\* A compute unit contracts a stage it is past the mark of.
LEMMA ComputeKeeps ==
  ASSUME IInv, NEW u \in ComputeUnits, Compute(u)
  PROVE  IInv'
<1> DEFINE b == buffer[u]
<1>1. /\ pc[u] = "compute"
      /\ acc' = [acc EXCEPT ![u] = Append(@, {stage[b][c] : c \in Copies})]
      /\ empty' = [empty EXCEPT ![b] = Arrived(@, 1, 0, ReleaseCount)]
      /\ Advance(u, "wait_full", "done")
      /\ UNCHANGED <<launch, full, done, flying, commits, stage>>
  BY DEF Compute
<1>2. /\ u \in Units /\ TypeOK /\ tma \in BOOLEAN /\ ComputeUnits \subseteq Units
      /\ Elected \subseteq LoadUnits /\ LoadUnits \subseteq Units /\ u \notin LoadUnits
      /\ Elected' = Elected /\ Copies' = Copies /\ tma' = tma /\ Leader \in Elected
      /\ b \in Buffers /\ loop[u] \in Nat /\ loop[u] < Loops /\ Loops \in Nat
      /\ phase[u] = loop[u] % 2 /\ ReleaseCount \in Nat \ {0}
      /\ IsFiniteSet(ComputeUnits) /\ Cardinality(ComputeUnits) = ReleaseCount
      /\ ComputeUnitInv(u)
  <2>1. /\ u \in Units /\ ComputeUnits \subseteq Units /\ LoadUnits \subseteq Units
        /\ u \notin LoadUnits /\ TypeOK /\ ComputeUnitInv(u) /\ phase[u] = loop[u] % 2
    BY RolesAssumption DEF IInv, Units
  <2>2. /\ tma \in BOOLEAN /\ Elected' = Elected /\ Copies' = Copies /\ tma' = tma
    BY <1>1, <2>1 DEF TypeOK, launch, Elected, Copies
  <2>3. Loops \in Nat /\ loop[u] \in 0 .. Loops /\ b \in Buffers /\ loop[u] < Loops
    BY <1>1, <2>1, LoopsCoverTheRange DEF TypeOK, ComputeUnitInv
  <2> HIDE DEF b
  <2> QED
    BY <2>1, <2>2, <2>3, ArmedCounts
<1>3. /\ Loops' = Loops
      /\ loop' \in [Units -> 0 .. Loops] /\ phase' \in [Units -> {0, 1}]
      /\ buffer' \in [Units -> Buffers]
      /\ \A v \in Units : v # u =>
           pc'[v] = pc[v] /\ loop'[v] = loop[v] /\ phase'[v] = phase[v] /\ buffer'[v] = buffer[v]
      /\ phase'[u] = loop'[u] % 2
      /\ pc'[u] \in {"wait_full", "done"}
      /\ pc'[u] = "wait_full" => loop'[u] < Loops
      /\ pc'[u] = "done" => loop'[u] = Loops
      /\ loop'[u] = Loops => buffer'[u] = 0
      /\ SliceOf(u)' = SliceOf(u) + 1
      /\ \A d \in Buffers : \A v \in Units :
           Passed(v, d)' = Passed(v, d) + (IF v = u /\ d = b THEN 1 ELSE 0)
  BY <1>1, <1>2, AdvanceMoves
<1>4. pc' \in [Units -> {"wait_empty", "arrive", "wait_full", "compute", "done", "wait_done", "returned"}]
  BY <1>1, <1>2 DEF Advance, TypeOK
<1>5. ASSUME NEW v \in LoadUnits PROVE LoadUnitInv(v)'
  BY <1>2, <1>3 DEF IInv, LoadUnitInv
<1>6. ASSUME NEW v \in ComputeUnits PROVE ComputeUnitInv(v)'
  <2>1. CASE v # u
    <3>1. ComputeUnitInv(v) /\ acc'[v] = acc[v] /\ SliceOf(v)' = SliceOf(v)
      <4>1. ComputeUnitInv(v) /\ SliceOf(v)' = SliceOf(v)
        BY <1>2, <1>3, <2>1 DEF IInv, SliceOf
      <4>2. acc'[v] = acc[v]
        BY <1>1, <2>1
      <4> QED
        BY <4>1, <4>2
    <3> QED
      BY <1>2, <1>3, <2>1, <3>1 DEF ComputeUnitInv
  <2>2. CASE v = u
    <3> DEFINE element == {stage[b][c] : c \in Copies}
    <3>1. element = {SliceOf(u)} /\ SliceOf(u) \in Nat
      <4>1. <<Leader, "lhs">> \in Copies
        BY <1>2 DEF Copies, Operands
      <4>2. SliceOf(u) \in Nat
        BY <1>2 DEF SliceOf, Buffers
      <4> QED
        BY <1>1, <4>1, <4>2, ComputesOnItsSlice
    <3>2. /\ acc[u] \in Seq(SUBSET (Nat \cup {Nothing, Output}))
          /\ Len(acc[u]) = SliceOf(u)
          /\ \A i \in 1 .. Len(acc[u]) : acc[u][i] = {i - 1}
      BY <1>2 DEF ComputeUnitInv, TypeOK
    <3>3. acc'[u] = Append(acc[u], element)
      <4> HIDE DEF element
      <4>1. u \in DOMAIN acc
        BY <1>2 DEF TypeOK
      <4> QED
        BY <1>1, <4>1 DEF element
    <3>4. element \in SUBSET (Nat \cup {Nothing, Output})
      BY <3>1
    <3> HIDE DEF element
    <3>5. /\ acc'[u] \in Seq(SUBSET (Nat \cup {Nothing, Output}))
          /\ Len(acc'[u]) = SliceOf(u) + 1
      BY <3>1, <3>2, <3>3, <3>4
    <3>6. ASSUME NEW i \in 1 .. Len(acc'[u]) PROVE acc'[u][i] = {i - 1}
      <4>1. CASE i \in 1 .. Len(acc[u])
        BY <3>2, <3>3, <3>4, <4>1
      <4>2. CASE i = Len(acc[u]) + 1
        BY <3>1, <3>2, <3>3, <3>4, <4>2
      <4> QED
        BY <3>1, <3>2, <3>5, <4>1, <4>2
    <3> QED
      BY <1>3, <2>2, <3>5, <3>6 DEF ComputeUnitInv
  <2> QED
    BY <2>1, <2>2
<1>7. CopiesInv'
  <2>1. \A f \in flying : ArrivingAt(f.copy[1], f.into)' <=> ArrivingAt(f.copy[1], f.into)
    <3> SUFFICES ASSUME NEW f \in flying
                 PROVE  ArrivingAt(f.copy[1], f.into)' <=> ArrivingAt(f.copy[1], f.into)
      OBVIOUS
    <3>1. f.copy[1] \in Units /\ f.copy[1] # u
      BY <1>2 DEF TypeOK, Copies
    <3> QED
      BY <1>3, <3>1 DEF ArrivingAt
  <2> QED
    BY <1>1, <1>2, <2>1 DEF IInv, CopiesInv, Owns
<1>8. DoneInv'
  <2>1. \A v \in ComputeUnits :
          pc'[v] \in {"wait_done", "returned"} <=> pc[v] \in {"wait_done", "returned"}
    BY <1>1, <1>2, <1>3
  <2> QED
    BY <1>1, <1>2, <2>1 DEF IInv, DoneInv
<1>9. ASSUME NEW d \in Buffers
      PROVE  /\ FlyingInto(d)' = FlyingInto(d) /\ StageInv(d)
             /\ \A f \in FlyingInto(d) : f.copy[1] \in Elected
             /\ \A v \in Elected : /\ Passed(v, d)' = Passed(v, d)
                                   /\ ArrivingAt(v, d)' <=> ArrivingAt(v, d)
                                   /\ HasCommitted(v, d)' <=> HasCommitted(v, d)
             /\ \A v \in ComputeUnits : Passed(v, d) \in Nat
             /\ empty'[d] = IF d = b THEN Arrived(empty[d], 1, 0, ReleaseCount) ELSE empty[d]
             /\ empty[d] \in Barriers
  <2>1. FlyingInto(d)' = FlyingInto(d) /\ \A f \in FlyingInto(d) : f.copy[1] \in Elected
    BY <1>1, <1>2 DEF FlyingInto, TypeOK, Copies
  <2>2. ASSUME NEW v \in Elected
        PROVE  /\ Passed(v, d)' = Passed(v, d)
               /\ ArrivingAt(v, d)' <=> ArrivingAt(v, d)
               /\ HasCommitted(v, d)' <=> HasCommitted(v, d)
    <3>1. v \in Units /\ v # u
      BY <1>2
    <3> QED
      BY <1>1, <1>3, <3>1 DEF Passed, ArrivingAt, HasCommitted, Owns
  <2>3. \A v \in ComputeUnits : Passed(v, d) \in Nat
    BY <1>2 DEF TypeOK, Passed
  <2>4. /\ empty'[d] = IF d = b THEN Arrived(empty[d], 1, 0, ReleaseCount) ELSE empty[d]
        /\ empty[d] \in Barriers
    BY <1>1, <1>2 DEF TypeOK
  <2> QED
    BY <2>1, <2>2, <2>3, <2>4 DEF IInv
<1>10. ASSUME NEW d \in Buffers, d # b PROVE StageInv(d)' /\ empty'[d] \in Barriers
  <2>1. \A v \in ComputeUnits :
          /\ Passed(v, d)' = Passed(v, d)
          /\ pc'[v] = "compute" /\ buffer'[v] = d <=> pc[v] = "compute" /\ buffer[v] = d
    <3> SUFFICES ASSUME NEW v \in ComputeUnits
                 PROVE  /\ Passed(v, d)' = Passed(v, d)
                        /\ pc'[v] = "compute" /\ buffer'[v] = d <=> pc[v] = "compute" /\ buffer[v] = d
      OBVIOUS
    <3>1. v \in Units /\ Passed(v, d) \in Nat
      BY <1>2, <1>9
    <3> QED
      BY <1>3, <1>10, <3>1
  <2>2. /\ UNCHANGED launch /\ full'[d] = full[d] /\ empty'[d] = empty[d] /\ stage'[d] = stage[d]
        /\ empty'[d] \in Barriers
    BY <1>1, <1>9, <1>10
  <2> QED
    BY <1>2, <1>9, <2>1, <2>2, StageUndisturbed
<1>11. ASSUME NEW d \in Buffers, d = b PROVE StageInv(d)' /\ empty'[d] \in Barriers
  <2>1. PICK filled \in 0 .. Loops, freed \in 0 .. Loops :
          FullInv(d, filled, freed) /\ EmptyInv(d, filled, freed) /\ ContentInv(d, filled, freed)
    BY <1>9 DEF StageInv
  <2>2. /\ filled \in Nat /\ freed \in Nat /\ Passed(u, d) = freed /\ filled = freed + 1
    <3>1. filled = Passed(u, d) + 1 /\ freed <= Passed(u, d) /\ Passed(u, d) \in Nat
      BY <1>1, <1>9, <1>11, <2>1 DEF EmptyInv
    <3>2. filled \in Nat /\ freed \in Nat
      BY <1>2
    <3> QED
      BY <2>1, <3>1, <3>2 DEF FullInv
  <2>3. /\ u \in Holding(d, freed) /\ IsFiniteSet(Holding(d, freed))
        /\ empty[d].pending = Cardinality(Holding(d, freed)) /\ empty[d].copies = 0
        /\ Cardinality(Holding(d, freed)) \in Nat \ {0}
        /\ Cardinality(Holding(d, freed) \ {u}) = Cardinality(Holding(d, freed)) - 1
        /\ IsFiniteSet(Holding(d, freed) \ {u})
    <3>1. u \in Holding(d, freed) /\ IsFiniteSet(Holding(d, freed))
      BY <1>2, <2>2, FS_Subset DEF Holding
    <3> QED
      BY <2>1, <3>1, Counting DEF EmptyInv
  <2>4. /\ \A v \in ComputeUnits : v # u => Passed(v, d)' = Passed(v, d)
        /\ Passed(u, d)' = freed + 1
    BY <1>2, <1>3, <1>9, <1>11, <2>2
  <2>5. Holding(d, freed)' = Holding(d, freed) \ {u}
    BY <2>2, <2>4 DEF Holding
  <2>6. empty'[d] = IF empty[d].pending - 1 = 0
                    THEN [bit |-> 1 - empty[d].bit, pending |-> ReleaseCount, copies |-> 0]
                    ELSE [bit |-> empty[d].bit, pending |-> empty[d].pending - 1, copies |-> 0]
    BY <1>9, <1>11, <2>3, ArrivalSettles
  <2>7. \A v \in ComputeUnits :
          ~(pc'[v] = "compute" /\ buffer'[v] = d) \/ (v # u /\ pc[v] = "compute" /\ buffer[v] = d)
    <3> SUFFICES ASSUME NEW v \in ComputeUnits, pc'[v] = "compute", buffer'[v] = d
                 PROVE  v # u /\ pc[v] = "compute" /\ buffer[v] = d
      OBVIOUS
    <3>1. v \in Units /\ v # u
      BY <1>2, <1>3
    <3> QED
      BY <1>3, <3>1
  <2>8. empty[d].bit \in {0, 1} /\ empty[d].bit = freed % 2
    BY <1>9, <2>1 DEF EmptyInv, Barriers
  <2>9. \A v \in ComputeUnits :
          /\ freed <= Passed(v, d) /\ Passed(v, d) <= filled /\ Passed(v, d) \in Nat
          /\ pc[v] = "compute" /\ buffer[v] = d => filled = Passed(v, d) + 1
    BY <1>9, <2>1 DEF EmptyInv
  <2>10. CASE empty[d].pending - 1 # 0
    <3>1. empty'[d] = [bit |-> empty[d].bit, pending |-> empty[d].pending - 1, copies |-> 0]
      BY <2>6, <2>10
    <3>2. \A v \in ComputeUnits :
            /\ freed <= Passed(v, d)' /\ Passed(v, d)' <= filled
            /\ pc'[v] = "compute" /\ buffer'[v] = d => filled = Passed(v, d)' + 1
      BY <2>2, <2>4, <2>7, <2>9
    <3>3. EmptyInv(d, filled, freed)'
      BY <2>3, <2>5, <2>8, <2>10, <3>1, <3>2 DEF EmptyInv
    <3>4. FullInv(d, filled, freed)'
      <4>1. Owing(d, filled)' = Owing(d, filled)
        BY <1>2, <1>9 DEF Owing
      <4> QED
        BY <1>1, <1>2, <1>9, <2>1, <4>1 DEF FullInv
    <3>5. ContentInv(d, filled, freed)'
      BY <1>1, <1>2, <1>9, <2>1 DEF ContentInv, Copies
    <3>6. empty'[d] \in Barriers
      BY <2>3, <2>8, <3>1 DEF Barriers
    <3> QED
      BY <1>3, <3>3, <3>4, <3>5, <3>6 DEF StageInv
  <2>11. CASE empty[d].pending - 1 = 0
    <3>1. empty'[d] = [bit |-> 1 - empty[d].bit, pending |-> ReleaseCount, copies |-> 0]
      BY <2>6, <2>11
    <3>2. Holding(d, freed) \ {u} = {}
      BY <2>3, <2>11, FS_EmptySet
    <3>3. \A v \in ComputeUnits : Passed(v, d)' = freed + 1 /\ ~(pc'[v] = "compute" /\ buffer'[v] = d)
      <4> SUFFICES ASSUME NEW v \in ComputeUnits
                   PROVE  Passed(v, d)' = freed + 1 /\ ~(pc'[v] = "compute" /\ buffer'[v] = d)
        OBVIOUS
      <4>1. v # u => Passed(v, d) # freed
        BY <3>2 DEF Holding
      <4> QED
        BY <2>2, <2>4, <2>7, <2>9, <4>1
    <3>4. EmptyInv(d, filled, freed + 1)'
      <4>1. Holding(d, freed + 1)' = ComputeUnits
        BY <3>3 DEF Holding
      <4> QED
        BY <1>2, <2>2, <2>8, <3>1, <3>3, <4>1 DEF EmptyInv
    <3>5. FullInv(d, filled, freed + 1)'
      <4>1. Owing(d, filled)' = Owing(d, filled)
        BY <1>2, <1>9 DEF Owing
      <4>2. \A v \in Elected : ~ArrivingAt(v, d)
        BY <2>1, <2>2 DEF FullInv
      <4>3. \A v \in Elected :
              /\ filled <= Passed(v, d) /\ Passed(v, d) <= filled + 1 /\ Passed(v, d) <= freed + 1
        BY <2>1 DEF FullInv
      <4>4. \A v \in Elected : Passed(v, d) \in Nat
        BY <1>2 DEF TypeOK, Passed
      <4> QED
        BY <1>1, <1>2, <1>9, <2>1, <2>2, <4>1, <4>2, <4>3, <4>4 DEF FullInv
    <3>6. ContentInv(d, filled, freed + 1)'
      BY <1>1, <1>2, <1>9, <2>1, <2>2 DEF ContentInv, Copies
    <3>7. empty'[d] \in Barriers
      BY <1>2, <2>8, <3>1 DEF Barriers
    <3>8. freed + 1 \in 0 .. Loops
      BY <2>2
    <3> QED
      BY <1>3, <3>4, <3>5, <3>6, <3>7, <3>8 DEF StageInv
  <2> QED
    BY <2>10, <2>11
<1>12. TypeOK'
  <2>1. empty' \in [Buffers -> Barriers]
    <3>1. \A d \in Buffers : empty'[d] \in Barriers
      BY <1>10, <1>11
    <3> QED
      BY <1>1, <1>2, <3>1 DEF TypeOK
  <2>2. acc' \in [ComputeUnits -> Seq(SUBSET (Nat \cup {Nothing, Output}))]
    <3> DEFINE element == {stage[b][c] : c \in Copies}
    <3>1. element \in SUBSET (Nat \cup {Nothing, Output})
      BY <1>2 DEF TypeOK
    <3>2. acc' = [acc EXCEPT ![u] = Append(acc[u], element)]
      BY <1>1
    <3> HIDE DEF element
    <3> QED
      BY <1>2, <3>1, <3>2 DEF TypeOK
  <2> QED
    BY <1>1, <1>2, <1>3, <1>4, <2>1, <2>2 DEF TypeOK, launch
<1>13. \A v \in Units : phase'[v] = loop'[v] % 2
  BY <1>3 DEF IInv
<1>14. ASSUME NEW d \in Buffers PROVE StageInv(d)'
  BY <1>10, <1>11
<1> QED
  BY <1>5, <1>6, <1>7, <1>8, <1>12, <1>13, <1>14 DEF IInv

\* The arrival that hands a stage back, which the last unit completes.
LEMMA ArriveDoneKeeps ==
  ASSUME IInv, NEW u \in ComputeUnits, ArriveDone(u)
  PROVE  IInv'
<1> DEFINE there == {v \in ComputeUnits : pc[v] \in {"wait_done", "returned"}}
<1>1. /\ pc' = [pc EXCEPT ![u] = "wait_done"] /\ pc[u] = "done"
      /\ done' = Arrived(done, 1, 0, ReleaseCount)
      /\ UNCHANGED <<launch, loop, phase, buffer, full, empty, flying, commits, stage, acc>>
  BY DEF ArriveDone
<1>2. /\ u \in Units /\ TypeOK /\ tma \in BOOLEAN /\ ComputeUnits \subseteq Units
      /\ Elected \subseteq LoadUnits /\ LoadUnits \subseteq Units /\ u \notin LoadUnits
      /\ Loops' = Loops /\ Elected' = Elected /\ Copies' = Copies /\ tma' = tma
  BY <1>1, RolesAssumption, ArmedCounts DEF IInv, TypeOK, Units, launch, Loops, Elected, Copies
<1>3. (\A v \in Units : v # u => pc'[v] = pc[v]) /\ pc'[u] = "wait_done"
  BY <1>1, <1>2 DEF TypeOK
<1>4. /\ IsFiniteSet(ComputeUnits) /\ Cardinality(ComputeUnits) = ReleaseCount
      /\ ReleaseCount \in Nat \ {0}
  BY <1>2, ArmedCounts
<1>5. /\ done \in Barriers /\ done.copies = 0 /\ done.bit = 0
      /\ done.pending = Cardinality(ComputeUnits \ there)
      /\ u \in ComputeUnits \ there /\ IsFiniteSet(ComputeUnits \ there)
  <2>1. u \notin there /\ IsFiniteSet(ComputeUnits \ there)
    BY <1>1, <1>4, FS_Subset
  <2>2. done \in Barriers /\ done.copies = 0 /\ done.bit \in {0, 1}
    BY <1>2 DEF TypeOK, Barriers, IInv, DoneInv
  <2> QED
    BY <2>1, <2>2 DEF IInv, DoneInv
<1>6. done' = IF done.pending - 1 = 0
              THEN [bit |-> 1, pending |-> ReleaseCount, copies |-> 0]
              ELSE [bit |-> 0, pending |-> done.pending - 1, copies |-> 0]
  <2>1. /\ done \in Barriers /\ done.copies + 0 = 0 /\ 1 - done.bit = 1 /\ done.bit = 0
        /\ 1 \in Int /\ 0 \in Int
    BY <1>5
  <2>2. Arrived(done, 1, 0, ReleaseCount) =
          IF done.pending - 1 = 0 /\ done.copies + 0 = 0
          THEN [bit |-> 1 - done.bit, pending |-> ReleaseCount, copies |-> 0]
          ELSE [bit |-> done.bit, pending |-> done.pending - 1, copies |-> done.copies + 0]
    BY ZenonT(30), <2>1, ArrivalSettles
  <2> QED
    BY <1>1, <2>1, <2>2
<1>7. there' = there \cup {u}
  BY <1>2, <1>3
<1>8. /\ Cardinality(ComputeUnits \ there') = done.pending - 1 /\ done.pending \in Nat \ {0}
      /\ done.pending = 1 => there' = ComputeUnits
  <2>1. ComputeUnits \ there' = (ComputeUnits \ there) \ {u} /\ there' \subseteq ComputeUnits
    BY <1>7
  <2>2. done.pending = 1 => ComputeUnits \ there = {u}
    BY <1>5, Counting
  <2> HIDE DEF there
  <2> QED
    BY <1>5, <2>1, <2>2, Counting
<1>9. DoneInv'
  <2>1. UNCHANGED stage /\ Copies' = Copies /\ done.bit = 0
    BY <1>1, <1>2, <1>5
  <2>2. \A d \in Buffers, c \in Copies : stage[d][c] # Output
    BY <1>5 DEF IInv, DoneInv
  <2> QED
    BY <1>6, <1>8, <2>1, <2>2 DEF DoneInv
<1>10. TypeOK'
  <2>1. pc' \in [Units -> {"wait_empty", "arrive", "wait_full", "compute", "done", "wait_done", "returned"}]
    BY <1>1, <1>2 DEF TypeOK
  <2>2. done' \in Barriers
    BY <1>4, <1>6, <1>8 DEF Barriers
  <2> QED
    BY <1>1, <1>2, <2>1, <2>2 DEF TypeOK, launch
<1>11. ASSUME NEW v \in LoadUnits PROVE LoadUnitInv(v)'
  <2>1. LoadUnitInv(v) /\ pc'[v] = pc[v]
    BY <1>2, <1>3 DEF IInv
  <2> QED
    BY <1>1, <1>2, <2>1 DEF LoadUnitInv
<1>12. ASSUME NEW v \in ComputeUnits PROVE ComputeUnitInv(v)'
  <2>1. ComputeUnitInv(v) /\ ComputeUnitInv(u) /\ SliceOf(v)' = SliceOf(v)
    BY <1>1 DEF IInv, SliceOf
  <2> QED
    BY <1>1, <1>2, <1>3, <2>1 DEF ComputeUnitInv
<1>13. CopiesInv'
  <2>1. \A f \in flying : ArrivingAt(f.copy[1], f.into)' <=> ArrivingAt(f.copy[1], f.into)
    BY <1>1, <1>2, <1>3 DEF ArrivingAt, TypeOK, Copies
  <2> QED
    BY <1>1, <1>2, <2>1 DEF IInv, CopiesInv, Owns
<1>14. ASSUME NEW d \in Buffers PROVE StageInv(d)'
  <2>1. /\ FlyingInto(d)' = FlyingInto(d) /\ StageInv(d) /\ UNCHANGED launch
        /\ full'[d] = full[d] /\ empty'[d] = empty[d] /\ stage'[d] = stage[d]
        /\ \A f \in FlyingInto(d) : f.copy[1] \in Elected
    BY <1>1, <1>2 DEF FlyingInto, TypeOK, Copies, IInv
  <2>2. \A v \in Units : /\ Passed(v, d)' = Passed(v, d)
                         /\ ArrivingAt(v, d)' <=> ArrivingAt(v, d)
                         /\ HasCommitted(v, d)' <=> HasCommitted(v, d)
                         /\ pc'[v] = "compute" /\ buffer'[v] = d <=> pc[v] = "compute" /\ buffer[v] = d
    BY <1>1, <1>3 DEF Passed, ArrivingAt, HasCommitted, Owns
  <2> QED
    BY <1>2, <2>1, <2>2, StageUndisturbed
<1>15. \A v \in Units : phase'[v] = loop'[v] % 2
  BY <1>1 DEF IInv
<1> QED
  BY <1>9, <1>10, <1>11, <1>12, <1>13, <1>14, <1>15 DEF IInv

\* Once the last barrier opened every stage went round all the loops, no copy
\* flies and nobody computes.
LEMMA AfterTheLoops ==
  ASSUME IInv, done.bit = 1
  PROVE  /\ flying = {} /\ \A u \in ComputeUnits : pc[u] \in {"wait_done", "returned"}
         /\ \A d \in Buffers :
              /\ FullInv(d, Loops, Loops) /\ EmptyInv(d, Loops, Loops)
              /\ \A u \in Elected : Passed(u, d) = Loops /\ ~ArrivingAt(u, d)
<1>1. \A u \in ComputeUnits : pc[u] \in {"wait_done", "returned"}
  BY DEF IInv, DoneInv
<1>2. /\ TypeOK /\ tma \in BOOLEAN /\ Loops \in Nat /\ Elected \subseteq LoadUnits
      /\ LoadUnits \subseteq Units /\ ComputeUnits \subseteq Units
  BY ArmedCounts, LoopsCoverTheRange DEF IInv, TypeOK, Units
<1>3. ASSUME NEW d \in Buffers
      PROVE  /\ FullInv(d, Loops, Loops) /\ EmptyInv(d, Loops, Loops) /\ FlyingInto(d) = {}
             /\ \A u \in Elected : Passed(u, d) = Loops /\ ~ArrivingAt(u, d)
  <2>1. PICK filled \in 0 .. Loops, freed \in 0 .. Loops :
          FullInv(d, filled, freed) /\ EmptyInv(d, filled, freed) /\ ContentInv(d, filled, freed)
    BY DEF IInv, StageInv
  <2>2. \A u \in ComputeUnits : Passed(u, d) = Loops
    <3> SUFFICES ASSUME NEW u \in ComputeUnits PROVE Passed(u, d) = Loops
      OBVIOUS
    <3>1. loop[u] = Loops /\ buffer[u] = 0 /\ d \in {0, 1}
      BY <1>1 DEF IInv, ComputeUnitInv, Buffers
    <3> QED
      BY <1>2, <3>1 DEF Passed
  <2>3. freed = Loops
    <3>1. freed # Loops => Holding(d, freed) = {}
      BY <2>2 DEF Holding
    <3> QED
      BY <2>1, <3>1, FS_EmptySet DEF EmptyInv
  <2>4. filled = Loops
    BY <1>2, <2>1, <2>3 DEF FullInv
  <2>5. ASSUME NEW u \in Elected PROVE Passed(u, d) = Loops /\ ~ArrivingAt(u, d)
    <3>1. /\ LoadUnitInv(u) /\ loop[u] \in 0 .. Loops /\ buffer[u] \in {0, 1} /\ d \in {0, 1}
      BY <1>2 DEF IInv, TypeOK, Buffers
    <3>2. Passed(u, d) <= Loops /\ Passed(u, d) \in Nat
      BY <1>2, <3>1 DEF LoadUnitInv, Passed
    <3>3. Passed(u, d) = Loops
      BY <1>2, <2>1, <2>4, <3>2 DEF FullInv
    <3>4. ArrivingAt(u, d) => loop[u] = Passed(u, d) /\ loop[u] < Loops
      BY <3>1 DEF ArrivingAt, LoadUnitInv, Passed
    <3> QED
      BY <1>2, <3>1, <3>3, <3>4
  <2>6. FlyingInto(d) = {}
    <3> SUFFICES ASSUME NEW f \in FlyingInto(d) PROVE FALSE
      OBVIOUS
    <3>1. f.copy[1] \in Elected /\ (Passed(f.copy[1], d) = Loops + 1 \/ ArrivingAt(f.copy[1], d))
      BY <1>2, <2>1, <2>4 DEF FlyingInto, ContentInv, TypeOK, Copies
    <3> QED
      BY <1>2, <2>5, <3>1
  <2> QED
    BY <2>1, <2>3, <2>4, <2>5, <2>6
<1>4. flying = {}
  BY <1>2, <1>3 DEF FlyingInto, TypeOK
<1> QED
  BY <1>1, <1>3, <1>4

\* The result is written once the loop is over.
LEMMA WriteOutKeeps ==
  ASSUME IInv, NEW u \in ComputeUnits, WriteOut(u)
  PROVE  IInv'
<1>1. /\ pc' = [pc EXCEPT ![u] = "returned"] /\ pc[u] = "wait_done" /\ Over(done, 0)
      /\ stage' = [b \in Buffers |-> [c \in Copies |-> Output]]
      /\ UNCHANGED <<launch, loop, phase, buffer, full, empty, done, flying, commits, acc>>
  BY DEF WriteOut
<1>2. /\ u \in Units /\ TypeOK /\ tma \in BOOLEAN /\ ComputeUnits \subseteq Units
      /\ Elected \subseteq LoadUnits /\ LoadUnits \subseteq Units /\ u \notin LoadUnits
      /\ Loops' = Loops /\ Elected' = Elected /\ Copies' = Copies /\ tma' = tma
      /\ Leader \in Elected /\ Loops \in Nat
  BY <1>1, RolesAssumption, ArmedCounts, LoopsCoverTheRange
  DEF IInv, TypeOK, Units, launch, Loops, Elected, Copies
<1>3. (\A v \in Units : v # u => pc'[v] = pc[v]) /\ pc'[u] = "returned"
  BY <1>1, <1>2 DEF TypeOK
<1>4. done.bit = 1
  BY <1>1, <1>2 DEF Over, TypeOK, Barriers
<1>5. TypeOK'
  <2>1. pc' \in [Units -> {"wait_empty", "arrive", "wait_full", "compute", "done", "wait_done", "returned"}]
    BY <1>1, <1>2 DEF TypeOK
  <2> QED
    BY <1>1, <1>2, <2>1 DEF TypeOK, launch
<1>6. ASSUME NEW v \in LoadUnits PROVE LoadUnitInv(v)'
  <2>1. LoadUnitInv(v) /\ pc'[v] = pc[v]
    BY <1>2, <1>3 DEF IInv
  <2> QED
    BY <1>1, <1>2, <2>1 DEF LoadUnitInv
<1>7. ASSUME NEW v \in ComputeUnits PROVE ComputeUnitInv(v)'
  <2>1. ComputeUnitInv(v) /\ ComputeUnitInv(u) /\ SliceOf(v)' = SliceOf(v)
    BY <1>1 DEF IInv, SliceOf
  <2> QED
    BY <1>1, <1>2, <1>3, <2>1 DEF ComputeUnitInv
<1>8. CopiesInv'
  <2>1. \A f \in flying : ArrivingAt(f.copy[1], f.into)' <=> ArrivingAt(f.copy[1], f.into)
    BY <1>1, <1>2, <1>3 DEF ArrivingAt, TypeOK, Copies
  <2> QED
    BY <1>1, <1>2, <2>1 DEF IInv, CopiesInv, Owns
<1>9. DoneInv'
  <2>1. \A v \in ComputeUnits :
          pc'[v] \in {"wait_done", "returned"} <=> pc[v] \in {"wait_done", "returned"}
    BY <1>1, <1>2, <1>3
  <2> QED
    BY <1>1, <1>2, <1>4, <2>1 DEF IInv, DoneInv
<1>10. ASSUME NEW d \in Buffers PROVE StageInv(d)'
  <2>1. /\ FullInv(d, Loops, Loops) /\ EmptyInv(d, Loops, Loops) /\ flying = {}
        /\ \A v \in Elected : Passed(v, d) = Loops /\ ~ArrivingAt(v, d)
    BY <1>4, AfterTheLoops
  <2>2. /\ \A v \in Units : Passed(v, d)' = Passed(v, d)
        /\ \A v \in Elected : /\ ArrivingAt(v, d)' <=> ArrivingAt(v, d)
                              /\ HasCommitted(v, d)' <=> HasCommitted(v, d)
        /\ FlyingInto(d)' = FlyingInto(d) /\ FlyingInto(d)' = {}
    BY <1>1, <1>2, <1>3, <2>1 DEF Passed, ArrivingAt, HasCommitted, Owns, FlyingInto
  <2>3. \A v \in ComputeUnits : ~(pc'[v] = "compute" /\ pc[v] # "compute")
    BY <1>2, <1>3
  <2>4. FullInv(d, Loops, Loops)'
    <3>1. Owing(d, Loops)' = Owing(d, Loops)
      BY <1>2, <2>2 DEF Owing
    <3> QED
      BY <1>1, <1>2, <2>1, <2>2, <3>1 DEF FullInv
  <2>5. EmptyInv(d, Loops, Loops)'
    <3>1. Holding(d, Loops)' = Holding(d, Loops)
      BY <1>2, <2>2 DEF Holding
    <3> QED
      BY <1>1, <1>2, <2>1, <2>2, <2>3, <3>1 DEF EmptyInv
  <2>6. ContentInv(d, Loops, Loops)'
    <3>1. \A c \in Copies : c[1] \in Elected /\ c[1] \in Units
      BY <1>2 DEF Copies
    <3> QED
      BY <1>2, <2>1, <2>2, <3>1 DEF ContentInv
  <2> QED
    BY <1>2, <2>4, <2>5, <2>6 DEF StageInv
<1>11. \A v \in Units : phase'[v] = loop'[v] % 2
  BY <1>1 DEF IInv
<1> QED
  BY <1>5, <1>6, <1>7, <1>8, <1>9, <1>10, <1>11 DEF IInv

\* A step of nobody.
LEMMA NothingKeeps ==
  ASSUME IInv, UNCHANGED vars
  PROVE  IInv'
<1>1. UNCHANGED <<launch, pc, loop, phase, buffer, full, empty, done, flying, commits, stage, acc>>
  BY DEF vars
<1>2. Loops' = Loops /\ Elected' = Elected /\ Copies' = Copies /\ tma' = tma
  BY <1>1 DEF launch, Loops, Elected, Copies
<1>3. TypeOK'
  BY <1>1, <1>2 DEF IInv, TypeOK, launch
<1>4. \A u \in LoadUnits : LoadUnitInv(u)'
  BY <1>1, <1>2 DEF IInv, LoadUnitInv
<1>5. \A u \in ComputeUnits : ComputeUnitInv(u)'
  BY <1>1, <1>2 DEF IInv, ComputeUnitInv, SliceOf
<1>6. CopiesInv'
  BY <1>1, <1>2 DEF IInv, CopiesInv, ArrivingAt, Owns
<1>7. DoneInv'
  BY <1>1, <1>2 DEF IInv, DoneInv
<1>8. ASSUME NEW d \in Buffers PROVE StageInv(d)'
  <2>1. /\ FlyingInto(d)' = FlyingInto(d) /\ StageInv(d) /\ UNCHANGED launch
        /\ full'[d] = full[d] /\ empty'[d] = empty[d] /\ stage'[d] = stage[d]
        /\ tma \in BOOLEAN /\ \A f \in FlyingInto(d) : f.copy[1] \in Elected
    BY <1>1 DEF FlyingInto, IInv, TypeOK, Copies
  <2>2. \A v : /\ Passed(v, d)' = Passed(v, d)
               /\ ArrivingAt(v, d)' <=> ArrivingAt(v, d)
               /\ HasCommitted(v, d)' <=> HasCommitted(v, d)
               /\ pc'[v] = "compute" /\ buffer'[v] = d <=> pc[v] = "compute" /\ buffer[v] = d
    BY <1>1 DEF Passed, ArrivingAt, HasCommitted, Owns
  <2> QED
    BY <2>1, <2>2, StageUndisturbed
<1>9. \A v \in Units : phase'[v] = loop'[v] % 2
  BY <1>1 DEF IInv
<1> QED
  BY <1>3, <1>4, <1>5, <1>6, <1>7, <1>8, <1>9 DEF IInv

\* The inductive invariant holds of every state of every specialized matmul.
THEOREM Invariance == Spec => []IInv
<1>1. ASSUME IInv, [Next]_vars PROVE IInv'
  <2>1. CASE \E u \in LoadUnits : LoadStep(u)
    <3>1. PICK u \in LoadUnits : LoadStep(u)
      BY <2>1
    <3>2. u \in Units
      BY DEF Units
    <3> QED
      BY <1>1, <3>1, <3>2, LoadKeeps, ArriveTmaKeeps, ArriveCopiesKeeps, SkipKeeps DEF LoadStep
  <2>2. CASE \E u \in ComputeUnits : ComputeStep(u)
    <3>1. PICK u \in ComputeUnits : ComputeStep(u)
      BY <2>2
    <3>2. u \in Units
      BY DEF Units
    <3> QED
      BY <1>1, <3>1, <3>2, WaitFullKeeps, ComputeKeeps, ArriveDoneKeeps, WriteOutKeeps, SkipKeeps
      DEF ComputeStep
  <2>3. CASE CopiesLand
    BY <1>1, <2>3, LandsKeeps DEF CopiesLand
  <2>4. CASE UNCHANGED vars
    BY <1>1, <2>4, NothingKeeps
  <2> QED
    BY <1>1, <2>1, <2>2, <2>3, <2>4 DEF Next
<1> QED
  BY <1>1, InitIInv, PTL DEF Spec

\* No copy is late, early or staged over while a unit computes on it: what the
\* barriers of `SpecializedMatmul::execute` are there for.
THEOREM UnitsReadTheirSlice == Spec => []ReadsItsSlice
<1>1. IInv => ReadsItsSlice
  BY ComputesOnItsSlice DEF ReadsItsSlice
<1> QED
  BY <1>1, Invariance, PTL

\* The output goes over the stages' memory when no copy and no reader is left:
\* what `barrier_done.arrive_and_wait` is there for.
THEOREM NothingIsStagedOverAStage == Spec => []FreedStagesAreQuiet
<1>1. IInv => FreedStagesAreQuiet
  <2> SUFFICES ASSUME IInv, \E u \in ComputeUnits : stage[0][<<Leader, "lhs">>] = Output
               PROVE  flying = {} /\ \A v \in ComputeUnits : pc[v] \in {"wait_done", "returned"}
    BY DEF FreedStagesAreQuiet
  <2>1. 0 \in Buffers /\ <<Leader, "lhs">> \in Copies
    BY ArmedCounts DEF Buffers, Copies, Operands, IInv, TypeOK
  <2>2. done.bit = 1
    BY <2>1 DEF IInv, DoneInv
  <2> QED
    BY <2>2, AfterTheLoops
<1> QED
  BY <1>1, Invariance, PTL

\* Every computing unit contracts the whole range in order, for every length of
\* it: the rounding up to an even number of stages loses none.
THEOREM TheRangeIsContracted == Spec => []WholeContraction
<1>1. IInv => WholeContraction
  <2> SUFFICES ASSUME IInv, NEW u \in ComputeUnits, pc[u] = "returned"
               PROVE  /\ Len(acc[u]) \in {needed, needed + 1}
                      /\ \A i \in 1 .. Len(acc[u]) : acc[u][i] = {i - 1}
    BY DEF WholeContraction
  <2>1. ComputeUnitInv(u) /\ needed \in Needs
    BY DEF IInv, TypeOK
  <2>2. loop[u] = Loops /\ buffer[u] = 0 /\ Len(acc[u]) = 2 * Loops
    BY <2>1, LoopsCoverTheRange DEF ComputeUnitInv, SliceOf
  <2> QED
    BY <2>1, <2>2, LoopsCoverTheRange DEF ComputeUnitInv
<1> QED
  BY <1>1, Invariance, PTL
=============================================================================
