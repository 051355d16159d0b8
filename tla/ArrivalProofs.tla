---------------------------- MODULE ArrivalProofs ----------------------------
(***************************************************************************)
(* Of the cubes that meet on a counter exactly one may merge, and it sees  *)
(* every partial of its group: for any cubes, units and groups.  IInv is   *)
(* inductive; that a group's counts are 0, 1, 2 ... without a gap (Counts) *)
(* makes the last count tell that everybody else has counted, and so       *)
(* released what they stored (Phases).                                     *)
(***************************************************************************)
EXTENDS Arrival, FiniteSetTheorems, TLAPS

USE CubesAssumption, LeaderAssumption

CountedOf(g) == {c \in GroupCubes(g) : Counted(c)}

\* A group and the part of it that counted are finite sets, and the latter is
\* the whole group when it has as many cubes.
LEMMA GroupsAreFinite ==
  ASSUME NEW g
  PROVE  /\ IsFiniteSet(GroupCubes(g)) /\ Cardinality(GroupCubes(g)) \in Nat
         /\ IsFiniteSet(CountedOf(g)) /\ Cardinality(CountedOf(g)) \in Nat
         /\ Cardinality(CountedOf(g)) <= Cardinality(GroupCubes(g))
         /\ Cardinality(CountedOf(g)) = Cardinality(GroupCubes(g)) => CountedOf(g) = GroupCubes(g)
<1>1. IsFiniteSet(GroupCubes(g))
  BY FS_Subset, GroupCubes(g) \in SUBSET Cubes DEF GroupCubes
<1>2. CountedOf(g) \in SUBSET GroupCubes(g)
  BY DEF CountedOf
<1>3. /\ IsFiniteSet(CountedOf(g))
      /\ Cardinality(CountedOf(g)) <= Cardinality(GroupCubes(g))
      /\ Cardinality(GroupCubes(g)) = Cardinality(CountedOf(g)) => GroupCubes(g) = CountedOf(g)
  BY <1>1, <1>2, FS_Subset
<1> QED
  BY <1>1, <1>3, FS_CardinalityType

\* Whoever counted last of a group did so after all of it had released its
\* partials.
LEMMA LastCountsAll ==
  ASSUME IInv, NEW c \in Cubes, Counted(c), IsLast(c)
  PROVE  GroupCubes(GroupOf[c]) \X Units \subseteq device
<1> DEFINE G == GroupCubes(GroupOf[c])
<1>1. GroupOf[c] \in Groups
  OBVIOUS
<1>2. counter[GroupOf[c]] = Cardinality(CountedOf(GroupOf[c]))
  BY <1>1 DEF IInv, Counts, CountedOf
<1>3. arrived[c] = Cardinality(G) - 1 /\ arrived[c] < counter[GroupOf[c]]
  BY DEF IsLast, LastCount, IInv, Counts
<1>4. CountedOf(GroupOf[c]) = G
  BY <1>2, <1>3, GroupsAreFinite
<1>5. ASSUME NEW d \in G PROVE {d} \X Units \subseteq device
  <2>1. d \in Cubes /\ Counted(d)
    BY <1>4, <1>5 DEF CountedOf, GroupCubes
  <2>2. pc[d][Leader] \in {"acquire", "decide", "merge", "returned"}
    BY <2>1 DEF IInv, Phases
  <2> QED
    BY <2>1, <2>2 DEF IInv, Phases
<1> QED
  BY <1>5

LEMMA InitInv == Init => IInv
<1> SUFFICES ASSUME Init PROVE IInv
  OBVIOUS
<1>1. TypeOK
  BY GroupsAreFinite DEF Init, TypeOK, At, Labels, Unset, Partials
<1>2. Phases
  BY DEF Init, Phases, Counted
<1>3. ASSUME NEW g \in Groups PROVE counter[g] = Cardinality({c \in GroupCubes(g) : Counted(c)})
  <2>1. {c \in GroupCubes(g) : Counted(c)} = {}
    BY DEF Init, Counted, GroupCubes
  <2> QED
    BY <2>1, FS_EmptySet DEF Init
<1>4. LastSees
  BY DEF Init, LastSees, At
<1> QED
  BY <1>1, <1>2, <1>3, <1>4 DEF IInv, Counts, Init, Counted

\* A step that counts nobody leaves Counts as it is.
LEMMA CountsKept ==
  ASSUME Counts, UNCHANGED <<counter, arrived>>
  PROVE  Counts'
BY DEF Counts, Counted, GroupCubes

LEMMA WriteStep ==
  ASSUME IInv, NEW c \in Cubes, NEW u \in Units, Write(c, u)
  PROVE  IInv'
<1> USE DEF IInv, Write, At, Goes
<1>1. TypeOK'
  BY DEF TypeOK, Labels
<1>2. Phases'
  BY DEF TypeOK, Phases, Counted
<1>3. LastSees'
  BY DEF TypeOK, LastSees, IsLast, Counted, LastCount, GroupCubes
<1> QED
  BY <1>1, <1>2, <1>3, CountsKept

LEMMA ReleaseStep ==
  ASSUME IInv, NEW c \in Cubes, Release(c)
  PROVE  IInv'
<1> USE DEF IInv, Release, At, Meet
<1>1. TypeOK'
  BY DEF TypeOK, Labels, Partials
<1>2. Phases'
  BY DEF TypeOK, Phases, Counted
<1>3. LastSees'
  BY DEF TypeOK, LastSees, IsLast, Counted, LastCount, GroupCubes
<1> QED
  BY <1>1, <1>2, <1>3, CountsKept

LEMMA CountStep ==
  ASSUME IInv, NEW c \in Cubes, Count(c)
  PROVE  IInv'
<1> DEFINE g == GroupOf[c]
<1> USE DEF IInv, Count, At, Goes
<1>1. g \in Groups /\ c \in GroupCubes(g) /\ ~Counted(c) /\ pc[c][Leader] = "count"
  BY DEF Phases, GroupCubes
<1>2. /\ arrived' = [arrived EXCEPT ![c] = counter[g]] /\ counter[g] \in Nat
      /\ counter' = [counter EXCEPT ![g] = counter[g] + 1]
  BY <1>1 DEF TypeOK
<1>3. \A d \in Cubes : Counted(d)' <=> Counted(d) \/ d = c
  BY <1>2 DEF Counted, TypeOK, Unset
<1>4. \A h \in Groups : counter'[h] = Cardinality(CountedOf(h)')
  <2>1. TAKE h \in Groups
  <2>2. CASE h = g
    <3>1. CountedOf(g)' = CountedOf(g) \cup {c} /\ c \notin CountedOf(g)
      BY <1>1, <1>3 DEF CountedOf, GroupCubes
    <3>2. Cardinality(CountedOf(g)') = Cardinality(CountedOf(g)) + 1
      BY <3>1, GroupsAreFinite, FS_AddElement
    <3> QED
      BY <1>1, <1>2, <2>2, <3>2 DEF TypeOK, Counts, CountedOf
  <2>3. CASE h # g
    <3>1. CountedOf(h)' = CountedOf(h)
      BY <1>3, <2>3 DEF CountedOf, GroupCubes
    <3> QED
      BY <1>2, <2>1, <2>3, <3>1 DEF TypeOK, Counts, CountedOf
  <2> QED
    BY <2>2, <2>3
<1>5. \A h \in Groups : Cardinality(CountedOf(h)') <= Cardinality(GroupCubes(h))
  <2>1. TAKE h \in Groups
  <2>2. CountedOf(h)' \in SUBSET GroupCubes(h)
    BY DEF CountedOf, GroupCubes
  <2> QED
    BY <2>2, GroupsAreFinite, FS_Subset
<1>6. TypeOK'
  <2>1. counter' \in [Groups -> Nat] /\ arrived' \in [Cubes -> Nat \cup {Unset}]
    BY <1>2 DEF TypeOK
  <2>2. pc' \in [Cubes -> [Units -> Labels]]
    BY DEF TypeOK, Labels
  <2>3. \A d \in Cubes, u \in Units : pc'[d][u] = "count" => u = Leader
    BY DEF TypeOK
  <2> QED
    BY <1>4, <1>5, <2>1, <2>2, <2>3 DEF TypeOK, GroupCubes
<1>7. Phases'
  BY <1>1, <1>3 DEF TypeOK, Phases
<1>8. Counts'
  <2>1. \A d \in Cubes : Counted(d)' => arrived'[d] < counter'[GroupOf[d]]
    BY <1>1, <1>2, <1>3 DEF TypeOK, Counts, Counted, Unset
  <2>2. ASSUME NEW d \in Cubes, NEW e \in Cubes, Counted(d)',
               arrived'[d] = arrived'[e], GroupOf[d] = GroupOf[e]
        PROVE  d = e
    <3>1. Counted(e)'
      BY <2>2 DEF Counted
    <3>2. \A x \in Cubes : Counted(x) /\ GroupOf[x] = g => arrived[x] < counter[g]
      BY DEF Counts
    <3>3. \A x \in Cubes : Counted(x) => arrived[x] \in Nat
      BY DEF Counted, TypeOK
    <3> QED
      BY <1>1, <1>2, <1>3, <2>2, <3>1, <3>2, <3>3 DEF TypeOK, Counts
  <2> QED
    BY <1>4, <2>1, <2>2 DEF Counts, CountedOf, GroupCubes
<1>9. LastSees'
  <2> SUFFICES ASSUME NEW d \in Cubes, NEW u \in Units
               PROVE  /\ pc'[d][u] \in {"decide", "merge", "returned"} /\ IsLast(d)'
                           => GroupCubes(GroupOf[d]) \X Units \subseteq seen'[d]
                      /\ pc'[d][u] = "merge" \/ merged'[d][u] # {} => IsLast(d)' /\ Counted(d)'
    BY DEF LastSees, GroupCubes
  <2>1. CASE d = c
    <3>1. pc[c][u] \notin {"decide", "merge", "returned"} /\ merged[c][u] = {}
      BY <1>1 DEF Phases, LastSees
    <3>2. pc'[c][u] \notin {"decide", "merge", "returned"} /\ merged'[c][u] = {}
      BY <3>1 DEF TypeOK
    <3> QED
      BY <2>1, <3>2
  <2>2. CASE d # c
    <3>1. pc'[d] = pc[d] /\ arrived'[d] = arrived[d]
      BY <1>2, <2>2 DEF TypeOK
    <3>2. (IsLast(d)' <=> IsLast(d)) /\ (Counted(d)' <=> Counted(d))
      BY <3>1 DEF IsLast, Counted, LastCount, GroupCubes
    <3> QED
      BY <3>1, <3>2 DEF LastSees
  <2> QED
    BY <2>1, <2>2
<1> QED
  BY <1>6, <1>7, <1>8, <1>9

LEMMA AcquireStep ==
  ASSUME IInv, NEW c \in Cubes, Acquire(c)
  PROVE  IInv'
<1> USE DEF Acquire, At, Meet
<1>1. Counted(c)
  BY DEF IInv, Phases
<1>2. TypeOK'
  BY DEF IInv, TypeOK, Labels
<1>3. Phases'
  BY <1>1 DEF IInv, TypeOK, Phases, Counted
<1>4. IsLast(c) => GroupCubes(GroupOf[c]) \X Units \subseteq seen'[c]
  BY <1>1, LastCountsAll DEF IInv, TypeOK
<1>5. LastSees'
  <2> SUFFICES ASSUME NEW d \in Cubes, NEW u \in Units
               PROVE  /\ pc'[d][u] \in {"decide", "merge", "returned"} /\ IsLast(d)
                           => GroupCubes(GroupOf[d]) \X Units \subseteq seen'[d]
                      /\ pc'[d][u] = "merge" \/ merged[d][u] # {} => IsLast(d) /\ Counted(d)
    BY DEF LastSees, GroupCubes, IsLast, LastCount, Counted
  <2>1. CASE d = c
    <3>1. pc'[c][u] = "decide"
      BY DEF IInv, TypeOK
    <3> QED
      BY <1>4, <2>1, <3>1 DEF IInv, LastSees
  <2>2. CASE d # c
    BY <2>2 DEF IInv, TypeOK, LastSees
  <2> QED
    BY <2>1, <2>2
<1> QED
  BY <1>2, <1>3, <1>5, CountsKept DEF IInv

LEMMA DecideStep ==
  ASSUME IInv, NEW c \in Cubes, NEW u \in Units, Decide(c, u)
  PROVE  IInv'
<1> USE DEF IInv, Decide, At, Goes
<1>1. TypeOK'
  BY DEF TypeOK, Labels
<1>2. Phases'
  BY DEF TypeOK, Phases, Counted
<1>3. LastSees'
  <2> SUFFICES ASSUME NEW d \in Cubes, NEW v \in Units
               PROVE  /\ pc'[d][v] \in {"decide", "merge", "returned"} /\ IsLast(d)
                           => GroupCubes(GroupOf[d]) \X Units \subseteq seen[d]
                      /\ pc'[d][v] = "merge" \/ merged'[d][v] # {} => IsLast(d) /\ Counted(d)
    BY DEF LastSees, GroupCubes, IsLast, LastCount, Counted
  <2>1. CASE d = c /\ v = u
    <3>1. pc[c][u] = "decide" /\ pc'[c][u] \in {"merge", "returned"}
      BY DEF TypeOK
    <3>2. merged'[c][u] = merged[c][u] /\ (pc'[c][u] = "merge" => IsLast(c))
      BY DEF TypeOK
    <3> QED
      BY <2>1, <3>1, <3>2 DEF LastSees, Phases
  <2>2. CASE ~(d = c /\ v = u)
    <3>1. pc'[d][v] = pc[d][v] /\ merged'[d][v] = merged[d][v]
      BY <2>2 DEF TypeOK
    <3> QED
      BY <3>1 DEF LastSees
  <2> QED
    BY <2>1, <2>2
<1> QED
  BY <1>1, <1>2, <1>3, CountsKept

LEMMA MergeStep ==
  ASSUME IInv, NEW c \in Cubes, NEW u \in Units, Merge(c, u)
  PROVE  IInv'
<1> USE DEF IInv, Merge, At, Goes
<1>1. TypeOK'
  BY DEF TypeOK, Labels
<1>2. Phases'
  BY DEF TypeOK, Phases, Counted
<1>3. LastSees'
  <2> SUFFICES ASSUME NEW d \in Cubes, NEW v \in Units
               PROVE  /\ pc'[d][v] \in {"decide", "merge", "returned"} /\ IsLast(d)
                           => GroupCubes(GroupOf[d]) \X Units \subseteq seen[d]
                      /\ pc'[d][v] = "merge" \/ merged'[d][v] # {} => IsLast(d) /\ Counted(d)
    BY DEF LastSees, GroupCubes, IsLast, LastCount, Counted
  <2>1. CASE d = c /\ v = u
    <3>1. pc[c][u] = "merge" /\ pc'[c][u] \in {"returned"}
      BY DEF TypeOK
    <3> QED
      BY <2>1, <3>1 DEF LastSees, Phases
  <2>2. CASE ~(d = c /\ v = u)
    <3>1. pc'[d][v] = pc[d][v] /\ merged'[d][v] = merged[d][v]
      BY <2>2 DEF TypeOK
    <3> QED
      BY <3>1 DEF LastSees
  <2> QED
    BY <2>1, <2>2
<1> QED
  BY <1>1, <1>2, <1>3, CountsKept

\* IInv holds in every reachable state, whatever order the cubes come in.
THEOREM Invariance == Spec => []IInv
<1>1. Init => IInv
  BY InitInv
<1>2. IInv /\ [Next]_vars => IInv'
  <2> SUFFICES ASSUME IInv, [Next]_vars PROVE IInv'
    OBVIOUS
  <2>1. ASSUME NEW c \in Cubes, CubeStep(c) PROVE IInv'
    BY <2>1, WriteStep, ReleaseStep, CountStep, AcquireStep, DecideStep, MergeStep DEF CubeStep
  <2>2. CASE UNCHANGED vars
    BY <2>2 DEF vars, IInv, TypeOK, Phases, Counts, LastSees, IsLast, Counted, LastCount, GroupCubes, At
  <2> QED
    BY <2>1, <2>2 DEF Next
<1> QED
  BY <1>1, <1>2, PTL DEF Spec

\* No two cubes of a group merge: of equal counts of one group there is one cube.
THEOREM AtMostOneMerges == Spec => []OneMerges
<1>1. IInv => OneMerges
  <2> SUFFICES ASSUME IInv, NEW c \in Cubes, NEW d \in Cubes,
                      Merges(c), Merges(d), GroupOf[c] = GroupOf[d]
               PROVE  c = d
    BY DEF OneMerges
  <2>1. IsLast(c) /\ Counted(c) /\ IsLast(d)
    BY DEF IInv, LastSees, Merges
  <2> QED
    BY <2>1 DEF IInv, Counts, IsLast
<1> QED
  BY <1>1, Invariance, PTL

\* A unit that is about to merge sees every partial of its group.
THEOREM TheLastSeesAll == Spec => []SeesEveryPartial
<1>1. IInv => SeesEveryPartial
  BY DEF IInv, LastSees, SeesEveryPartial, At
<1> QED
  BY <1>1, Invariance, PTL
=============================================================================
