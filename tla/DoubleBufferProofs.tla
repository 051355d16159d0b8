------------------------- MODULE DoubleBufferProofs -------------------------
(***************************************************************************)
(* Theorems about the double-buffered matmuls: for any planes, partition,  *)
(* jobs and number of stages, relaxed, ordered or asynchronous.            *)
(*                                                                         *)
(* A program is reasoned about as it is unrolled, an instruction at a time *)
(* (`Scheduled`); then its units, which are never a synchronism apart.     *)
(***************************************************************************)
EXTENDS DoubleBuffer, Unrolling, FiniteSetTheorems

Instrs ==
  [op : {"read"}, of : Operands, at : {A, B}, stage : Nat, tile : Nat \X Nat]
    \cup [op : {"load"}, of : Operands, at : {A, B}, task : Nat]
    \cup [op : {"advance"}, of : Operands] \cup {SyncPlane, SyncCube}

\* What a case is, whatever the planes.
IsCase(c) ==
  /\ c.m \in Nat \ {0} /\ c.n \in Nat \ {0} /\ c.k \in Nat \ {0} /\ c.needed \in Nat \ {0}
  /\ c.fragments \in {1, 2}
  /\ c.tasks \in [Operands -> Nat] /\ c.ordered \in BOOLEAN /\ c.async \in BOOLEAN
  /\ c.main \subseteq Operands /\ c.loadOnly \subseteq Operands
  /\ c.ordered => "lhs" \notin c.loadOnly /\ ~c.async

\* The instructions by their kind.
LEMMA Kinds ==
  ASSUME NEW x \in Instrs
  PROVE  /\ x.op \in {"read", "load", "advance", "sync_plane", "sync_cube"}
         /\ x.op = "sync_plane" <=> x = SyncPlane
         /\ x.op = "sync_cube" <=> x = SyncCube
         /\ x.op \in {"read", "load"} => x.of \in Operands /\ x.at \in {A, B}
         /\ x.op = "read" => x.stage \in Nat
         /\ x.op = "load" => x.task \in Nat
         /\ x.op = "advance" => x.of \in Operands /\ x = AdvanceView(x.of)
         /\ \A of : x = AdvanceView(of) => x.op = "advance" /\ x.of = of
<1>1. CASE x \in [op : {"read"}, of : Operands, at : {A, B}, stage : Nat, tile : Nat \X Nat]
  BY <1>1 DEF SyncPlane, SyncCube, AdvanceView
<1>2. CASE x \in [op : {"load"}, of : Operands, at : {A, B}, task : Nat]
  BY <1>2 DEF SyncPlane, SyncCube, AdvanceView
<1>3. CASE x \in [op : {"advance"}, of : Operands]
  BY <1>3 DEF SyncPlane, SyncCube, AdvanceView
<1>4. CASE x = SyncPlane \/ x = SyncCube
  BY <1>4 DEF SyncPlane, SyncCube, AdvanceView
<1> QED
  BY <1>1, <1>2, <1>3, <1>4 DEF Instrs

\* The instructions there are.
LEMMA Made ==
  /\ SyncPlane \in Instrs /\ SyncCube \in Instrs
  /\ \A of \in Operands : AdvanceView(of) \in Instrs
  /\ \A of \in Operands, into \in {A, B}, stage \in Nat, tile \in Nat \X Nat :
       LET x == Read(of, into, stage, tile) IN
       /\ x \in Instrs /\ x.op = "read" /\ x.of = of /\ x.at = into /\ x.stage = stage
       /\ x # SyncCube /\ x # SyncPlane /\ \A o : x # AdvanceView(o)
  /\ \A of \in Operands, into \in {A, B}, task \in Nat :
       LET x == LoadTask(of, into, task) IN
       /\ x \in Instrs /\ x.op = "load" /\ x.of = of /\ x.at = into /\ x.task = task
       /\ x # SyncCube /\ x # SyncPlane /\ \A o : x # AdvanceView(o)
<1>1. \A of \in Operands, into \in {A, B}, stage \in Nat, tile \in Nat \X Nat :
        Read(of, into, stage, tile) \in [op : {"read"}, of : Operands, at : {A, B}, stage : Nat, tile : Nat \X Nat]
  BY DEF Read
<1>2. \A of \in Operands, into \in {A, B}, task \in Nat :
        LoadTask(of, into, task) \in [op : {"load"}, of : Operands, at : {A, B}, task : Nat]
  BY DEF LoadTask
<1>3. \A of \in Operands : AdvanceView(of) \in [op : {"advance"}, of : Operands]
  BY DEF AdvanceView
<1> QED
  BY <1>1, <1>2, <1>3, Kinds DEF Instrs, Read, LoadTask
-----------------------------------------------------------------------------
(***************************************************************************)
(* A program as it grows.                                                  *)
(***************************************************************************)
\* One instruction more is counted once it is past.
LEMMA Counts ==
  ASSUME NEW P \in Seq(Instrs), NEW i \in 1 .. Len(P) + 1, NEW y
  PROVE  /\ Before(P, i, y) \in Nat
         /\ i <= Len(P) => Before(P, i + 1, y) = Before(P, i, y) + (IF P[i] = y THEN 1 ELSE 0)
<1> DEFINE S(j) == {k \in 1 .. j - 1 : P[k] = y}
<1>1. \A j \in Nat : IsFiniteSet(S(j)) /\ Cardinality(S(j)) \in Nat
  <2> SUFFICES ASSUME NEW j \in Nat PROVE IsFiniteSet(S(j)) /\ Cardinality(S(j)) \in Nat
    OBVIOUS
  <2>1. IsFiniteSet(1 .. j - 1)
    BY FS_Interval
  <2>2. S(j) \subseteq 1 .. j - 1
    OBVIOUS
  <2> QED
    BY <2>1, <2>2, FS_Subset, FS_CardinalityType
<1>2. i \in Nat /\ i + 1 \in Nat
  OBVIOUS
<1>3. ASSUME i <= Len(P), P[i] = y PROVE Cardinality(S(i + 1)) = Cardinality(S(i)) + 1
  <2>1. S(i + 1) = S(i) \cup {i} /\ i \notin S(i)
    BY <1>3
  <2> QED
    BY <1>1, <1>2, <2>1, FS_AddElement
<1>4. ASSUME i <= Len(P), P[i] # y PROVE S(i + 1) = S(i)
  BY <1>4
<1>5. Before(P, i, y) = Cardinality(S(i)) /\ Before(P, i + 1, y) = Cardinality(S(i + 1))
  BY DEF Before
<1>6. Cardinality(S(i)) \in Nat
  BY <1>1, <1>2
<1> HIDE DEF S
<1>7. i <= Len(P) => Cardinality(S(i + 1)) = Cardinality(S(i)) + (IF P[i] = y THEN 1 ELSE 0)
  BY <1>3, <1>4, <1>6
<1> QED
  BY <1>5, <1>6, <1>7

\* What was counted stays as the program grows.
LEMMA CountsKept ==
  ASSUME NEW P \in Seq(Instrs), NEW x \in Instrs, NEW i \in 1 .. Len(P) + 1, NEW y
  PROVE  Before(P \o <<x>>, i, y) = Before(P, i, y)
<1>1. \A k \in 1 .. Len(P) : (P \o <<x>>)[k] = P[k]
  BY ConcatProperties
<1>2. {k \in 1 .. i - 1 : (P \o <<x>>)[k] = y} = {k \in 1 .. i - 1 : P[k] = y}
  BY <1>1
<1> QED
  BY <1>2 DEF Before

\* Nothing comes before the first.
LEMMA CountsNone ==
  ASSUME NEW P, NEW y
  PROVE  Before(P, 1, y) = 0
<1>1. {k \in 1 .. 1 - 1 : P[k] = y} = {}
  OBVIOUS
<1> QED
  BY <1>1, FS_EmptySet DEF Before

\* Counts only grow.
LEMMA CountsGrow ==
  ASSUME NEW P \in Seq(Instrs), NEW i \in 1 .. Len(P) + 1, NEW j \in i .. Len(P) + 1, NEW y
  PROVE  /\ Before(P, i, y) <= Before(P, j, y)
         /\ \A k \in i .. j - 1 : P[k] = y => Before(P, i, y) < Before(P, j, y)
<1> DEFINE T == {n \in Nat : i + n <= Len(P) + 1 =>
                    /\ Before(P, i, y) <= Before(P, i + n, y)
                    /\ \A k \in i .. i + n - 1 : P[k] = y => Before(P, i, y) < Before(P, i + n, y)}
<1>1. 0 \in T
  <2>1. Before(P, i, y) \in Nat /\ i + 0 = i
    BY Counts
  <2> QED
    BY <2>1
<1>2. ASSUME NEW n \in Nat, n \in T PROVE n + 1 \in T
  <2> SUFFICES ASSUME i + (n + 1) <= Len(P) + 1
               PROVE  /\ Before(P, i, y) <= Before(P, i + (n + 1), y)
                      /\ \A k \in i .. i + (n + 1) - 1 : P[k] = y => Before(P, i, y) < Before(P, i + (n + 1), y)
    OBVIOUS
  <2>1. i + n \in 1 .. Len(P) + 1 /\ i + n <= Len(P) /\ (i + n) + 1 = i + (n + 1)
    OBVIOUS
  <2>2. Before(P, i + n, y) \in Nat /\ Before(P, i, y) \in Nat
        /\ Before(P, i + (n + 1), y) = Before(P, i + n, y) + (IF P[i + n] = y THEN 1 ELSE 0)
    BY <2>1, Counts
  <2>3. /\ Before(P, i, y) <= Before(P, i + n, y)
        /\ \A k \in i .. i + n - 1 : P[k] = y => Before(P, i, y) < Before(P, i + n, y)
    BY <1>2, <2>1
  <2>4. \A k \in i .. i + (n + 1) - 1 : k \in i .. i + n - 1 \/ k = i + n
    OBVIOUS
  <2> QED
    BY <2>2, <2>3, <2>4
<1>3. Nat \subseteq T
  <2> HIDE DEF T
  <2> QED
    BY <1>1, <1>2, Induct
<1>4. j - i \in T /\ i + (j - i) = j
  <2>1. j - i \in Nat
    OBVIOUS
  <2> QED
    BY <1>3, <2>1
<1> QED
  BY <1>4

\* What a program leaves behind it: its epoch, and what its views are of; a task
\* loaded in epoch e; no lhs loaded ahead of its reads, where it has one stage;
\* and a synchronism of the plane since the lhs was read.
EndOf(P) == Len(P) + 1
Due(c, P, e) ==
  /\ Epoch(P, EndOf(P)) = e
  /\ \A of \in Operands : Viewed(c, P, EndOf(P), of) + BufferOf(c, of, e % 2) = e
Has(P, e, of, task) == \E i \in 1 .. Len(P) : LoadsAt(P, i, of, task) /\ Epoch(P, i) = e
NoneAhead(c, P, e) ==
  c.ordered => \A i \in 1 .. Len(P) : P[i].op = "load" /\ P[i].of = "lhs" => Epoch(P, i) # e
LhsSynced(c, P, e) ==
  c.ordered => \A i \in 1 .. Len(P) : P[i].op = "read" /\ P[i].of = "lhs" /\ Epoch(P, i) = e =>
    \E k \in i + 1 .. Len(P) : P[k] = SyncPlane
WholeEpoch(c, sides, P, e) == \A of \in sides : \A task \in 0 .. c.tasks[of] - 1 : Has(P, e, of, task)

\* One instruction more, and what it leaves as it was.
LEMMA Appended ==
  ASSUME NEW c, IsCase(c), NEW P \in Seq(Instrs), NEW x \in Instrs
  PROVE  LET Q == P \o <<x>> IN
         /\ Q \in Seq(Instrs) /\ Len(Q) = Len(P) + 1 /\ Q[Len(P) + 1] = x
         /\ \A i \in 1 .. Len(P) : Q[i] = P[i]
         /\ \A i \in 1 .. Len(P) + 1 : Epoch(Q, i) = Epoch(P, i) /\ Epoch(P, i) \in Nat
         /\ Epoch(Q, EndOf(Q)) = Epoch(P, EndOf(P)) + (IF x = SyncCube THEN 1 ELSE 0)
         /\ \A i \in 1 .. Len(P) + 1, of \in Operands :
              Viewed(c, Q, i, of) = Viewed(c, P, i, of) /\ Viewed(c, P, i, of) \in Nat
         /\ \A of \in Operands :
              Viewed(c, Q, EndOf(Q), of) = Viewed(c, P, EndOf(P), of)
                                             + (IF x = AdvanceView(of) THEN Stride(c, of) ELSE 0)
<1> DEFINE Q == P \o <<x>>
           n == Len(P)
<1>1. /\ Q \in Seq(Instrs) /\ Len(Q) = n + 1 /\ Q[n + 1] = x /\ n \in Nat
      /\ \A i \in 1 .. n : Q[i] = P[i]
  OBVIOUS
<1>2. \A i \in 1 .. n + 1 : \A y : Before(Q, i, y) = Before(P, i, y)
  BY CountsKept
<1>3. \A i \in 1 .. n + 1 : \A y : Before(P, i, y) \in Nat
  BY Counts
<1>4. \A y : Before(Q, (n + 1) + 1, y) = Before(Q, n + 1, y) + (IF x = y THEN 1 ELSE 0)
  <2>1. n + 1 \in 1 .. Len(Q) + 1 /\ n + 1 <= Len(Q)
    BY <1>1
  <2> HIDE DEF Q
  <2> QED
    BY <1>1, <2>1, Counts
<1>5. n + 1 \in 1 .. n + 1
  BY <1>1
<1> HIDE DEF Q
<1>6. \A of \in Operands : Stride(c, of) \in Nat
  BY DEF Stride
<1>7. \A of \in Operands, i \in 1 .. n + 1 :
        Viewed(c, Q, i, of) = Viewed(c, P, i, of) /\ Viewed(c, P, i, of) \in Nat
  BY <1>2, <1>3, <1>6 DEF Viewed
<1>8. \A of \in Operands :
        Viewed(c, Q, (n + 1) + 1, of) = Viewed(c, Q, n + 1, of)
                                          + (IF x = AdvanceView(of) THEN Stride(c, of) ELSE 0)
  <2> SUFFICES ASSUME NEW of \in Operands
               PROVE  Viewed(c, Q, (n + 1) + 1, of) = Viewed(c, Q, n + 1, of)
                                          + (IF x = AdvanceView(of) THEN Stride(c, of) ELSE 0)
    OBVIOUS
  <2>1. PICK s \in Nat : s = Stride(c, of)
    BY <1>6
  <2>2. PICK b \in Nat : b = Before(Q, n + 1, AdvanceView(of))
    BY <1>2, <1>3, <1>5
  <2>3. Before(Q, (n + 1) + 1, AdvanceView(of)) = b + (IF x = AdvanceView(of) THEN 1 ELSE 0)
    BY <1>4, <2>2
  <2>4. s * (b + 1) = s * b + s /\ s * (b + 0) = s * b + 0
    OBVIOUS
  <2> QED
    BY <2>1, <2>2, <2>3, <2>4 DEF Viewed
<1>9. \A i \in 1 .. n + 1 : Epoch(Q, i) = Epoch(P, i) /\ Epoch(P, i) \in Nat
  BY <1>2, <1>3 DEF Epoch
<1>10. Epoch(Q, (n + 1) + 1) = Epoch(P, n + 1) + (IF x = SyncCube THEN 1 ELSE 0)
  BY <1>2, <1>4, <1>5 DEF Epoch
<1>11. EndOf(Q) = (n + 1) + 1 /\ EndOf(P) = n + 1
  BY <1>1 DEF EndOf
<1>12. \A of \in Operands :
         Viewed(c, Q, EndOf(Q), of) = Viewed(c, P, EndOf(P), of)
                                        + (IF x = AdvanceView(of) THEN Stride(c, of) ELSE 0)
  BY <1>5, <1>7, <1>8, <1>11
<1> QED
  BY <1>1, <1>7, <1>9, <1>10, <1>11, <1>12 DEF Q

\* What the program had loaded, and what of its lhs was synchronised, stays.
LEMMA Kept ==
  ASSUME NEW c, IsCase(c), NEW P \in Seq(Instrs), NEW x \in Instrs, NEW e
  PROVE  LET Q == P \o <<x>> IN
         /\ \A of, task : Has(P, e, of, task) => Has(Q, e, of, task)
         /\ \A of, task : x.op = "load" /\ x.of = of /\ x.task = task /\ Epoch(P, EndOf(P)) = e =>
              Has(Q, e, of, task)
         /\ NoneAhead(c, P, e) /\ ~(x.op = "load" /\ x.of = "lhs") => NoneAhead(c, Q, e)
         /\ ~c.ordered => NoneAhead(c, Q, e)
         /\ LhsSynced(c, P, e) /\ ~(x.op = "read" /\ x.of = "lhs") => LhsSynced(c, Q, e)
         /\ x = SyncPlane \/ ~c.ordered => LhsSynced(c, Q, e)
<1> DEFINE Q == P \o <<x>>
           n == Len(P)
<1>1. /\ Q \in Seq(Instrs) /\ Len(Q) = n + 1 /\ Q[n + 1] = x /\ n \in Nat
      /\ \A i \in 1 .. n : Q[i] = P[i]
      /\ \A i \in 1 .. n + 1 : Epoch(Q, i) = Epoch(P, i)
      /\ EndOf(P) = n + 1
  BY Appended DEF EndOf
<1> HIDE DEF Q, n
<1>2. \A i \in 1 .. n : i \in 1 .. n + 1 /\ i \in 1 .. Len(Q)
  BY <1>1
<1>3. n + 1 \in 1 .. Len(Q) /\ n + 1 \in 1 .. n + 1 /\ 1 .. Len(P) = 1 .. n
  BY <1>1 DEF n
<1>4. \A i \in 1 .. Len(Q) : i \in 1 .. n \/ i = n + 1
  BY <1>1
<1>5. \A of, task : Has(P, e, of, task) => Has(Q, e, of, task)
  BY <1>1, <1>2, <1>3 DEF Has, LoadsAt
<1>6. \A of, task : x.op = "load" /\ x.of = of /\ x.task = task /\ Epoch(P, EndOf(P)) = e =>
        Has(Q, e, of, task)
  BY <1>1, <1>3 DEF Has, LoadsAt
<1>7. NoneAhead(c, P, e) /\ ~(x.op = "load" /\ x.of = "lhs") => NoneAhead(c, Q, e)
  BY <1>1, <1>2, <1>3, <1>4 DEF NoneAhead
<1>8. \A i \in 1 .. n : \A k \in i + 1 .. n : k \in i + 1 .. Len(Q) /\ Q[k] = P[k]
  BY <1>1
<1>9. \A i \in 1 .. n : n + 1 \in i + 1 .. Len(Q)
  BY <1>1
<1>10. LhsSynced(c, P, e) /\ ~(x.op = "read" /\ x.of = "lhs") => LhsSynced(c, Q, e)
  <2> SUFFICES ASSUME LhsSynced(c, P, e), ~(x.op = "read" /\ x.of = "lhs"), c.ordered,
                      NEW i \in 1 .. Len(Q), Q[i].op = "read", Q[i].of = "lhs", Epoch(Q, i) = e
               PROVE  \E k \in i + 1 .. Len(Q) : Q[k] = SyncPlane
    BY DEF LhsSynced
  <2>1. i \in 1 .. n /\ Q[i] = P[i] /\ Epoch(P, i) = e
    BY <1>1, <1>2, <1>4
  <2>2. PICK k \in i + 1 .. n : P[k] = SyncPlane
    BY <1>3, <2>1 DEF LhsSynced, n
  <2> QED
    BY <1>8, <2>1, <2>2
<1>11. x = SyncPlane => LhsSynced(c, Q, e)
  <2>1. SyncPlane.op # "read"
    BY DEF SyncPlane
  <2> QED
    BY <1>1, <1>4, <1>9, <2>1 DEF LhsSynced
<1>12. ~c.ordered => LhsSynced(c, Q, e) /\ NoneAhead(c, Q, e)
  BY DEF LhsSynced, NoneAhead
<1> QED
  BY <1>5, <1>6, <1>7, <1>10, <1>11, <1>12 DEF Q

\* An instruction whose turn it is keeps the program scheduled.
LEMMA KeepsScheduled ==
  ASSUME NEW c, IsCase(c), NEW role \in Roles, NEW P \in Seq(Instrs), NEW x \in Instrs, NEW e,
         Scheduled(c, role, P), Epoch(P, EndOf(P)) = e,
         x.op = "load" =>
           /\ x.of \in Sides(c, role) /\ x.task \in 0 .. c.tasks[x.of] - 1
           /\ x.at = BufferOf(c, x.of, e % 2) /\ Viewed(c, P, EndOf(P), x.of) + x.at = e
           /\ x.of = "lhs" => LhsSynced(c, P, e),
         x.op = "read" =>
           /\ x.stage + 1 = e /\ x.at = BufferOf(c, x.of, x.stage % 2)
           /\ x.of = "lhs" => NoneAhead(c, P, e),
         x = SyncCube => WholeEpoch(c, Sides(c, role), P, e)
  PROVE  Scheduled(c, role, P \o <<x>>)
<1> DEFINE Q == P \o <<x>>
           n == Len(P)
<1>1. /\ Q \in Seq(Instrs) /\ Len(Q) = n + 1 /\ Q[n + 1] = x /\ n \in Nat
      /\ \A i \in 1 .. n : Q[i] = P[i]
      /\ \A i \in 1 .. n + 1 : Epoch(Q, i) = Epoch(P, i)
      /\ \A i \in 1 .. n + 1, of \in Operands : Viewed(c, Q, i, of) = Viewed(c, P, i, of)
      /\ EndOf(P) = n + 1
  BY Appended DEF EndOf
<1> HIDE DEF Q
<1>2. \A i \in 1 .. n : i \in 1 .. n + 1 /\ i \in 1 .. Len(Q) /\ P[i] \in Instrs
  BY <1>1
<1>3. n + 1 \in 1 .. Len(Q) /\ n + 1 \in 1 .. n + 1 /\ Epoch(Q, n + 1) = e
  BY <1>1
<1>4. \A i \in 1 .. Len(Q) : i \in 1 .. n \/ i = n + 1
  BY <1>1
<1>5. ASSUME NEW i \in 1 .. Len(Q)
      PROVE  /\ Q[i].op = "load" => LoadIsDue(c, role, Q, i)
             /\ Q[i].op = "read" => ReadIsDue(c, Q, i)
  <2>1. CASE i \in 1 .. n
    <3>1. /\ P[i].op = "load" => LoadIsDue(c, role, P, i)
          /\ P[i].op = "read" => ReadIsDue(c, P, i)
      BY <2>1 DEF Scheduled
    <3>2. P[i].op = "load" => P[i].of \in Operands
      BY <1>2, <2>1, Kinds
    <3> QED
      BY <1>1, <1>2, <2>1, <3>1, <3>2 DEF LoadIsDue, ReadIsDue
  <2>2. CASE i = n + 1
    <3>1. x.op = "load" => x.of \in Operands
      BY Kinds
    <3> QED
      BY <1>1, <1>3, <2>2, <3>1 DEF LoadIsDue, ReadIsDue
  <2> QED
    BY <1>4, <2>1, <2>2
<1>6. ASSUME NEW i \in 1 .. Len(Q), Q[i].op = "sync_cube",
             NEW of \in Sides(c, role), NEW task \in 0 .. c.tasks[of] - 1
      PROVE  \E k \in 1 .. i - 1 : LoadsAt(Q, k, of, task) /\ Epoch(Q, k) = Epoch(Q, i)
  <2>1. CASE i \in 1 .. n
    <3>1. PICK k \in 1 .. i - 1 : LoadsAt(P, k, of, task) /\ Epoch(P, k) = Epoch(P, i)
      BY <1>1, <1>6, <2>1 DEF Scheduled
    <3>2. k \in 1 .. n
      BY <1>1, <2>1
    <3> QED
      BY <1>1, <1>2, <2>1, <3>1, <3>2 DEF LoadsAt
  <2>2. CASE i = n + 1
    <3>1. x = SyncCube
      BY <1>1, <1>6, <2>2, Kinds
    <3>2. PICK k \in 1 .. n : LoadsAt(P, k, of, task) /\ Epoch(P, k) = e
      BY <3>1 DEF WholeEpoch, Has
    <3>3. k \in 1 .. i - 1
      BY <1>1, <2>2
    <3> QED
      BY <1>1, <1>2, <1>3, <2>2, <3>2, <3>3 DEF LoadsAt
  <2> QED
    BY <1>4, <2>1, <2>2
<1>7. ASSUME c.ordered, NEW i \in 1 .. Len(Q), NEW j \in 1 .. Len(Q),
             Q[i].op = "read", Q[i].of = "lhs", Q[j].op = "load", Q[j].of = "lhs",
             Epoch(Q, i) = Epoch(Q, j)
      PROVE  \E k \in i + 1 .. j - 1 : Q[k] = SyncPlane
  <2>1. CASE i \in 1 .. n /\ j \in 1 .. n
    <3>1. PICK k \in i + 1 .. j - 1 : P[k] = SyncPlane
      BY <1>1, <1>2, <1>7, <2>1 DEF Scheduled
    <3>2. k \in 1 .. n
      BY <1>1, <2>1
    <3> QED
      BY <1>1, <3>1, <3>2
  <2>2. CASE i \in 1 .. n /\ j = n + 1
    <3>1. LhsSynced(c, P, e)
      BY <1>1, <1>7, <2>2
    <3>2. Epoch(P, i) = e /\ P[i].op = "read" /\ P[i].of = "lhs"
      BY <1>1, <1>2, <1>3, <1>7, <2>2
    <3>3. PICK k \in i + 1 .. n : P[k] = SyncPlane
      BY <1>7, <2>2, <3>1, <3>2 DEF LhsSynced
    <3>4. k \in 1 .. n /\ k \in i + 1 .. j - 1
      BY <1>1, <2>2
    <3> QED
      BY <1>1, <3>3, <3>4
  <2>3. CASE i = n + 1 /\ j \in 1 .. n
    <3>1. NoneAhead(c, P, e)
      BY <1>1, <1>7, <2>3
    <3>2. Epoch(P, j) = e /\ P[j].op = "load" /\ P[j].of = "lhs"
      BY <1>1, <1>2, <1>3, <1>7, <2>3
    <3> QED
      BY <1>7, <2>3, <3>1, <3>2 DEF NoneAhead
  <2> QED
    BY <1>4, <1>7, <2>1, <2>2, <2>3
<1> QED
  BY <1>5, <1>6, <1>7 DEF Scheduled, Q

-----------------------------------------------------------------------------
(***************************************************************************)
(* A text takes the programs of one set to those of another.  Texts that   *)
(* follow one another compose, and so do those of a loop.                  *)
(***************************************************************************)
Takes(S, R, T) == R \in Seq(Instrs) /\ \A P \in S : P \o R \in T

\* One text after another.
LEMMA ThenTakes ==
  ASSUME NEW S, S \subseteq Seq(Instrs), NEW R, NEW T, NEW R2, NEW T2,
         Takes(S, R, T), Takes(T, R2, T2)
  PROVE  Takes(S, R \o R2, T2)
<1>1. R \in Seq(Instrs) /\ R2 \in Seq(Instrs) /\ R \o R2 \in Seq(Instrs)
  BY ConcatProperties DEF Takes
<1>2. \A s, t, u \in Seq(Instrs) : (s \o t) \o u = s \o (t \o u)
  BY SMTT(30), ConcatAssociative
<1>3. ASSUME NEW P \in S PROVE P \o (R \o R2) \in T2
  <2>1. P \in Seq(Instrs) /\ P \o R \in T
    BY <1>3 DEF Takes
  <2>2. (P \o R) \o R2 \in T2
    BY <2>1 DEF Takes
  <2>3. (P \o R) \o R2 = P \o (R \o R2)
    BY <1>1, <1>2, <2>1
  <2> QED
    BY <2>2, <2>3, Zenon
<1> QED
  BY <1>1, <1>3 DEF Takes

\* No text at all.
LEMMA NothingTakes ==
  ASSUME NEW S, S \subseteq Seq(Instrs)
  PROVE  Takes(S, << >>, S)
<1>1. << >> \in Seq(Instrs) /\ \A P \in Seq(Instrs) : P \o << >> = P
  BY ConcatEmptySeq, EmptySeq
<1> QED
  BY <1>1 DEF Takes

\* The texts of a loop, each from the programs its predecessor left.
LEMMA LoopTakes ==
  ASSUME NEW n \in Nat, NEW seqs \in [1 .. n -> Seq(Instrs)], NEW f,
         \A i \in 0 .. n : f[i] \subseteq Seq(Instrs),
         \A i \in 0 .. n - 1 : Takes(f[i], seqs[i + 1], f[i + 1])
  PROVE  Takes(f[0], FlattenSeq(seqs), f[n])
<1> DEFINE S == {s \in Seq(Instrs) \X (0 .. n) : s[1] \in f[s[2]]}
<1>1. ASSUME NEW P \in Seq(Instrs), P \in f[0]
      PROVE  P \o FlattenSeq(seqs) \in f[n]
  <2>1. <<P, 0>> \in S
    BY <1>1
  <2>2. ASSUME NEW i \in 0 .. n - 1, NEW Q \in Seq(Instrs), <<Q, i>> \in S
        PROVE  <<Q \o seqs[i + 1], i + 1>> \in S
    <3>1. Q \in f[i] /\ i + 1 \in 0 .. n /\ seqs[i + 1] \in Seq(Instrs)
      BY <2>2
    <3>2. Q \o seqs[i + 1] \in f[i + 1] /\ f[i + 1] \subseteq Seq(Instrs)
      BY <3>1 DEF Takes
    <3> DEFINE more == Q \o seqs[i + 1]
    <3>3. more \in f[i + 1] /\ more \in Seq(Instrs)
      BY <3>2
    <3> HIDE DEF more
    <3>4. <<more, i + 1>> \in S
      BY <3>1, <3>3
    <3> QED
      BY <3>4 DEF more
  <2>3. <<P \o FlattenSeq(seqs), n>> \in S
    <3> HIDE DEF S
    <3> QED
      BY <2>1, <2>2, LoopInduct
  <2> QED
    BY <2>3
<1>2. FlattenSeq(seqs) \in Seq(Instrs)
  <2> DEFINE All == Seq(Instrs) \X (0 .. n)
  <2>1. << >> \in Seq(Instrs) /\ <<<< >>, 0>> \in All
    <3>1. << >> \in Seq(Instrs) /\ 0 \in 0 .. n
      BY EmptySeq
    <3> QED
      BY <3>1
  <2>2. ASSUME NEW i \in 0 .. n - 1, NEW Q \in Seq(Instrs), <<Q, i>> \in All
        PROVE  <<Q \o seqs[i + 1], i + 1>> \in All
    <3>1. i + 1 \in 0 .. n /\ seqs[i + 1] \in Seq(Instrs)
      OBVIOUS
    <3> DEFINE more == Q \o seqs[i + 1]
    <3>2. more \in Seq(Instrs)
      BY <3>1, ConcatProperties
    <3> HIDE DEF more
    <3>3. <<more, i + 1>> \in All
      BY <3>1, <3>2
    <3> QED
      BY <3>3 DEF more
  <2> HIDE DEF All
  <2> QED
    BY ZenonT(30), <2>1, <2>2, LoopInduct
<1> QED
  BY <1>1, <1>2 DEF Takes

-----------------------------------------------------------------------------
(***************************************************************************)
(* An instruction at a time.                                               *)
(***************************************************************************)
\* A buffer is one of the two.
LEMMA Buffers ==
  ASSUME NEW c, NEW of, NEW e \in Nat
  PROVE  e % 2 \in {A, B} /\ BufferOf(c, of, e % 2) \in {A, B} /\ A = 0 /\ B = 1
<1>1. e % 2 \in {0, 1}
  OBVIOUS
<1> QED
  BY <1>1 DEF BufferOf, A, B

\* A task loaded in its epoch.
LEMMA LoadStep ==
  ASSUME NEW c, IsCase(c), NEW role \in Roles, NEW P \in Seq(Instrs), NEW e \in Nat,
         Scheduled(c, role, P), Due(c, P, e),
         NEW of \in Sides(c, role), NEW task \in 0 .. c.tasks[of] - 1,
         of = "lhs" => LhsSynced(c, P, e)
  PROVE  LET x == LoadTask(of, BufferOf(c, of, e % 2), task)
             Q == P \o <<x>> IN
         /\ x \in Instrs /\ Q \in Seq(Instrs) /\ Scheduled(c, role, Q) /\ Due(c, Q, e)
         /\ Has(Q, e, of, task) /\ \A o, t : Has(P, e, o, t) => Has(Q, e, o, t)
         /\ LhsSynced(c, P, e) => LhsSynced(c, Q, e)
         /\ of = "rhs" /\ NoneAhead(c, P, e) => NoneAhead(c, Q, e)
<1> DEFINE into == BufferOf(c, of, e % 2)
           x == LoadTask(of, into, task)
<1>1. of \in Operands /\ task \in Nat /\ into \in {A, B}
  <2>1. of \in Operands /\ c.tasks[of] \in Nat
    BY DEF IsCase, Sides, Roles
  <2> QED
    BY <2>1, Buffers
<1> HIDE DEF into
<1>2. /\ x \in Instrs /\ x.op = "load" /\ x.of = of /\ x.at = into /\ x.task = task
      /\ x # SyncCube /\ x # SyncPlane /\ \A o : x # AdvanceView(o)
  BY <1>1, Made
<1> HIDE DEF x
<1>3. Epoch(P, EndOf(P)) = e /\ \A o \in Operands : Viewed(c, P, EndOf(P), o) + BufferOf(c, o, e % 2) = e
  BY DEF Due
<1>4. Scheduled(c, role, P \o <<x>>)
  <2>1. x.op # "read"
    BY <1>2
  <2>2. Viewed(c, P, EndOf(P), x.of) + x.at = e
    BY <1>1, <1>2, <1>3 DEF into
  <2>3. x.at = BufferOf(c, x.of, e % 2)
    BY <1>2 DEF into
  <2>4. x.of \in Sides(c, role) /\ x.task \in 0 .. c.tasks[x.of] - 1 /\ (x.of = "lhs" => LhsSynced(c, P, e))
    BY <1>2
  <2> QED
    BY <1>2, <1>3, <2>1, <2>2, <2>3, <2>4, KeepsScheduled
<1>5. P \o <<x>> \in Seq(Instrs) /\ Due(c, P \o <<x>>, e)
  <2> DEFINE Q == P \o <<x>>
  <2>1. Q \in Seq(Instrs) /\ Epoch(Q, EndOf(Q)) = Epoch(P, EndOf(P)) + (IF x = SyncCube THEN 1 ELSE 0)
        /\ \A o \in Operands :
              Viewed(c, Q, EndOf(Q), o) = Viewed(c, P, EndOf(P), o)
                                             + (IF x = AdvanceView(o) THEN Stride(c, o) ELSE 0)
    BY <1>2, Appended
  <2>2. \A o \in Operands : Viewed(c, P, EndOf(P), o) \in Nat
    <3>1. EndOf(P) \in 1 .. Len(P) + 1
      BY DEF EndOf
    <3> QED
      BY <1>2, <3>1, Appended
  <2> HIDE DEF Q
  <2>3. Epoch(Q, EndOf(Q)) = e /\ \A o \in Operands : Viewed(c, Q, EndOf(Q), o) = Viewed(c, P, EndOf(P), o)
    BY <1>2, <1>3, <2>1, <2>2
  <2>4. Due(c, Q, e)
    BY <1>3, <2>3 DEF Due
  <2> QED
    BY <2>1, <2>4 DEF Q
<1>6. /\ \A o, t : Has(P, e, o, t) => Has(P \o <<x>>, e, o, t)
      /\ Has(P \o <<x>>, e, of, task)
      /\ LhsSynced(c, P, e) => LhsSynced(c, P \o <<x>>, e)
      /\ of = "rhs" /\ NoneAhead(c, P, e) => NoneAhead(c, P \o <<x>>, e)
  BY <1>2, <1>3, Kept
<1> QED
  BY <1>2, <1>4, <1>5, <1>6 DEF x, into

\* A tile read in its epoch.
LEMMA ReadStep ==
  ASSUME NEW c, IsCase(c), NEW role \in Roles, NEW P \in Seq(Instrs), NEW e \in Nat,
         Scheduled(c, role, P), Epoch(P, EndOf(P)) = e + 1,
         NEW of \in Operands, NEW tile \in Nat \X Nat,
         of = "lhs" => NoneAhead(c, P, e + 1)
  PROVE  LET x == Read(of, BufferOf(c, of, e % 2), e, tile)
             Q == P \o <<x>> IN
         /\ x \in Instrs /\ Q \in Seq(Instrs) /\ Scheduled(c, role, Q) /\ Epoch(Q, EndOf(Q)) = e + 1
         /\ Due(c, P, e + 1) => Due(c, Q, e + 1)
         /\ \A o, t : Has(P, e + 1, o, t) => Has(Q, e + 1, o, t)
         /\ NoneAhead(c, P, e + 1) => NoneAhead(c, Q, e + 1)
<1> DEFINE into == BufferOf(c, of, e % 2)
           x == Read(of, into, e, tile)
<1>1. into \in {A, B}
  BY Buffers
<1> HIDE DEF into
<1>2. /\ x \in Instrs /\ x.op = "read" /\ x.of = of /\ x.at = into /\ x.stage = e
      /\ x # SyncCube /\ x # SyncPlane /\ \A o : x # AdvanceView(o)
  BY <1>1, Made
<1> HIDE DEF x
<1>3. Scheduled(c, role, P \o <<x>>)
  <2>1. x.op # "load"
    BY <1>2
  <2>2. x.stage + 1 = e + 1 /\ x.at = BufferOf(c, x.of, x.stage % 2) /\ (x.of = "lhs" => NoneAhead(c, P, e + 1))
    BY <1>2 DEF into
  <2> QED
    BY <1>2, <2>1, <2>2, KeepsScheduled
<1>4. P \o <<x>> \in Seq(Instrs) /\ Epoch(P \o <<x>>, EndOf(P \o <<x>>)) = e + 1
      /\ (Due(c, P, e + 1) => Due(c, P \o <<x>>, e + 1))
  <2> DEFINE Q == P \o <<x>>
  <2>1. Q \in Seq(Instrs) /\ Epoch(Q, EndOf(Q)) = Epoch(P, EndOf(P)) + (IF x = SyncCube THEN 1 ELSE 0)
        /\ \A o \in Operands :
              Viewed(c, Q, EndOf(Q), o) = Viewed(c, P, EndOf(P), o)
                                             + (IF x = AdvanceView(o) THEN Stride(c, o) ELSE 0)
    BY <1>2, Appended
  <2>2. \A o \in Operands : Viewed(c, P, EndOf(P), o) \in Nat
    <3>1. EndOf(P) \in 1 .. Len(P) + 1
      BY DEF EndOf
    <3> QED
      BY <1>2, <3>1, Appended
  <2> HIDE DEF Q
  <2>3. Epoch(Q, EndOf(Q)) = e + 1 /\ \A o \in Operands : Viewed(c, Q, EndOf(Q), o) = Viewed(c, P, EndOf(P), o)
    BY <1>2, <2>1, <2>2
  <2>4. Due(c, P, e + 1) => Due(c, Q, e + 1)
    BY <2>3 DEF Due
  <2> QED
    BY <2>1, <2>3, <2>4 DEF Q
<1>5. /\ \A o, t : Has(P, e + 1, o, t) => Has(P \o <<x>>, e + 1, o, t)
      /\ NoneAhead(c, P, e + 1) => NoneAhead(c, P \o <<x>>, e + 1)
  BY <1>2, Kept
<1> QED
  BY <1>2, <1>3, <1>4, <1>5 DEF x, into

\* A synchronism of the plane.
LEMMA PlaneStep ==
  ASSUME NEW c, IsCase(c), NEW role \in Roles, NEW P \in Seq(Instrs), NEW e \in Nat,
         Scheduled(c, role, P), Due(c, P, e)
  PROVE  LET Q == P \o <<SyncPlane>> IN
         /\ Q \in Seq(Instrs) /\ Scheduled(c, role, Q) /\ Due(c, Q, e) /\ LhsSynced(c, Q, e)
         /\ \A o, t : Has(P, e, o, t) => Has(Q, e, o, t)
         /\ NoneAhead(c, P, e) => NoneAhead(c, Q, e)
<1> DEFINE x == SyncPlane
           Q == P \o <<x>>
<1>1. x \in Instrs /\ x.op = "sync_plane"
  BY Made, Kinds
<1>2. x # SyncCube /\ \A o : x # AdvanceView(o)
  <2>1. SyncCube.op = "sync_cube" /\ \A o : AdvanceView(o).op = "advance"
    BY DEF SyncCube, AdvanceView
  <2> QED
    BY <1>1, <2>1
<1>3. x = SyncPlane
  OBVIOUS
<1> HIDE DEF x
<1>4. Epoch(P, EndOf(P)) = e /\ \A o \in Operands : Viewed(c, P, EndOf(P), o) + BufferOf(c, o, e % 2) = e
  BY DEF Due
<1>5. Scheduled(c, role, P \o <<x>>)
  <2>1. x.op # "load" /\ x.op # "read"
    BY <1>1
  <2> QED
    BY <1>1, <1>2, <1>4, <2>1, KeepsScheduled
<1>6. /\ Q \in Seq(Instrs) /\ Epoch(Q, EndOf(Q)) = Epoch(P, EndOf(P)) + (IF x = SyncCube THEN 1 ELSE 0)
      /\ \A o \in Operands :
              Viewed(c, Q, EndOf(Q), o) = Viewed(c, P, EndOf(P), o)
                                             + (IF x = AdvanceView(o) THEN Stride(c, o) ELSE 0)
  BY <1>1, Appended
<1>7. \A o \in Operands : Viewed(c, P, EndOf(P), o) \in Nat
  <2>1. EndOf(P) \in 1 .. Len(P) + 1
    BY DEF EndOf
  <2> QED
    BY <1>1, <2>1, Appended
<1>8. /\ \A o, t : Has(P, e, o, t) => Has(Q, e, o, t)
      /\ NoneAhead(c, P, e) => NoneAhead(c, Q, e)
      /\ LhsSynced(c, Q, e)
  BY <1>1, <1>3, Kept
<1>9. Due(c, Q, e)
  <2> HIDE DEF Q
  <2>1. Epoch(Q, EndOf(Q)) = e /\ \A o \in Operands : Viewed(c, Q, EndOf(Q), o) = Viewed(c, P, EndOf(P), o)
    BY <1>2, <1>4, <1>6, <1>7
  <2> QED
    BY <1>4, <2>1 DEF Due
<1> QED
  BY <1>3, <1>5, <1>6, <1>8, <1>9

\* A view advanced.
LEMMA AdvanceStep ==
  ASSUME NEW c, IsCase(c), NEW role \in Roles, NEW P \in Seq(Instrs), NEW e \in Nat,
         Scheduled(c, role, P), Epoch(P, EndOf(P)) = e, NEW of \in Operands
  PROVE  LET Q == P \o <<AdvanceView(of)>> IN
         /\ Q \in Seq(Instrs) /\ Scheduled(c, role, Q) /\ Epoch(Q, EndOf(Q)) = e
         /\ \A o \in Operands :
              /\ Viewed(c, P, EndOf(P), o) \in Nat
              /\ Viewed(c, Q, EndOf(Q), o) = Viewed(c, P, EndOf(P), o) + (IF o = of THEN Stride(c, of) ELSE 0)
         /\ \A o, t : Has(P, e, o, t) => Has(Q, e, o, t)
<1> DEFINE x == AdvanceView(of)
           Q == P \o <<x>>
<1>1. x \in Instrs /\ x.op = "advance" /\ x # SyncCube /\ \A o : x = AdvanceView(o) => o = of
  <2>1. x \in Instrs
    BY Made
  <2>2. x.op = "advance" /\ x.of = of /\ SyncCube.op = "sync_cube" /\ \A o : AdvanceView(o).of = o
    BY DEF AdvanceView, SyncCube
  <2> QED
    BY <2>1, <2>2
<1>2. x = AdvanceView(of)
  OBVIOUS
<1> HIDE DEF x
<1>3. Scheduled(c, role, P \o <<x>>)
  <2>1. x.op # "load" /\ x.op # "read"
    BY <1>1
  <2> QED
    BY <1>1, <2>1, KeepsScheduled
<1>4. /\ Q \in Seq(Instrs) /\ Epoch(Q, EndOf(Q)) = Epoch(P, EndOf(P)) + (IF x = SyncCube THEN 1 ELSE 0)
      /\ \A o \in Operands :
              Viewed(c, Q, EndOf(Q), o) = Viewed(c, P, EndOf(P), o)
                                             + (IF x = AdvanceView(o) THEN Stride(c, o) ELSE 0)
  BY <1>1, Appended
<1>5. \A o \in Operands : Viewed(c, P, EndOf(P), o) \in Nat
  <2>1. EndOf(P) \in 1 .. Len(P) + 1
    BY DEF EndOf
  <2> QED
    BY <1>1, <2>1, Appended
<1>6. \A o, t : Has(P, e, o, t) => Has(Q, e, o, t)
  BY <1>1, Kept
<1>7. Epoch(Q, EndOf(Q)) = e
  <2> HIDE DEF Q
  <2> QED
    BY <1>1, <1>4
<1>8. \A o \in Operands :
        Viewed(c, Q, EndOf(Q), o) = Viewed(c, P, EndOf(P), o) + (IF o = of THEN Stride(c, of) ELSE 0)
  <2> HIDE DEF Q
  <2> QED
    BY <1>1, <1>2, <1>4
<1> QED
  BY <1>2, <1>3, <1>4, <1>5, <1>6, <1>7, <1>8

\* A synchronism of the cube, once the epoch is whole: nothing of the next is there yet.
LEMMA CubeStep ==
  ASSUME NEW c, IsCase(c), NEW role \in Roles, NEW P \in Seq(Instrs), NEW e \in Nat,
         Scheduled(c, role, P), Epoch(P, EndOf(P)) = e, WholeEpoch(c, Sides(c, role), P, e)
  PROVE  LET Q == P \o <<SyncCube>> IN
         /\ Q \in Seq(Instrs) /\ Scheduled(c, role, Q) /\ Epoch(Q, EndOf(Q)) = e + 1
         /\ \A o \in Operands : Viewed(c, Q, EndOf(Q), o) = Viewed(c, P, EndOf(P), o)
         /\ NoneAhead(c, Q, e + 1) /\ LhsSynced(c, Q, e + 1)
<1> DEFINE x == SyncCube
           Q == P \o <<x>>
<1>1. x \in Instrs /\ x.op = "sync_cube"
  BY Made, Kinds
<1>2. \A o : x # AdvanceView(o)
  <2>1. \A o : AdvanceView(o).op = "advance"
    BY DEF AdvanceView
  <2> QED
    BY <1>1, <2>1
<1>3. x = SyncCube
  OBVIOUS
<1> HIDE DEF x
<1>4. Scheduled(c, role, P \o <<x>>)
  <2>1. x.op # "load" /\ x.op # "read"
    BY <1>1
  <2> QED
    BY <1>1, <2>1, KeepsScheduled
<1>5. /\ Q \in Seq(Instrs) /\ Len(Q) = Len(P) + 1
      /\ \A i \in 1 .. Len(P) + 1 : Epoch(Q, i) = Epoch(P, i) /\ Epoch(P, i) \in Nat
      /\ Epoch(Q, EndOf(Q)) = Epoch(P, EndOf(P)) + (IF x = SyncCube THEN 1 ELSE 0)
      /\ \A i \in 1 .. Len(P) + 1, o \in Operands : Viewed(c, P, i, o) \in Nat
      /\ \A o \in Operands :
              Viewed(c, Q, EndOf(Q), o) = Viewed(c, P, EndOf(P), o)
                                             + (IF x = AdvanceView(o) THEN Stride(c, o) ELSE 0)
  BY <1>1, Appended
<1>6. \A i \in 1 .. Len(P) + 1 : Epoch(P, i) <= e
  <2> SUFFICES ASSUME NEW i \in 1 .. Len(P) + 1 PROVE Epoch(P, i) <= e
    OBVIOUS
  <2>1. EndOf(P) \in i .. Len(P) + 1
    BY DEF EndOf
  <2>2. Before(P, i, SyncCube) <= Before(P, EndOf(P), SyncCube)
    BY <2>1, CountsGrow
  <2> QED
    BY <2>2 DEF Epoch
<1> HIDE DEF Q
<1>7. \A i \in 1 .. Len(Q) : Epoch(Q, i) # e + 1
  BY <1>5, <1>6
<1>8. NoneAhead(c, Q, e + 1) /\ LhsSynced(c, Q, e + 1)
  BY <1>7 DEF NoneAhead, LhsSynced
<1>9. EndOf(P) \in 1 .. Len(P) + 1
  BY DEF EndOf
<1>10. \A o \in Operands : Viewed(c, Q, EndOf(Q), o) = Viewed(c, P, EndOf(P), o)
  BY <1>2, <1>5, <1>9
<1> QED
  BY <1>3, <1>4, <1>5, <1>8, <1>10 DEF Q

-----------------------------------------------------------------------------
(***************************************************************************)
(* The jobs.                                                               *)
(***************************************************************************)
\* Programs in epoch e that loaded so many of the tasks of each operand.
Programs(c, role, e, done) ==
  {P \in Seq(Instrs) :
     /\ Scheduled(c, role, P) /\ Due(c, P, e)
     /\ \A of \in Sides(c, role) : \A task \in 0 .. done[of] - 1 : Has(P, e, of, task)}
Loading(c, role, e, done) == {P \in Programs(c, role, e, done) : LhsSynced(c, P, e)}

\* Those that loaded it all.
Filled(c, role, e) ==
  {P \in Seq(Instrs) : Scheduled(c, role, P) /\ Due(c, P, e) /\ WholeEpoch(c, Sides(c, role), P, e)}

\* What is no load is no task loaded.
LEMMA HasOnly ==
  ASSUME NEW c, IsCase(c), NEW P \in Seq(Instrs), NEW x \in Instrs, NEW e, NEW of, NEW task,
         x.op # "load", Has(P \o <<x>>, e, of, task)
  PROVE  Has(P, e, of, task)
<1> DEFINE Q == P \o <<x>>
<1>1. /\ Len(Q) = Len(P) + 1 /\ Q[Len(P) + 1] = x
      /\ \A i \in 1 .. Len(P) : Q[i] = P[i]
      /\ \A i \in 1 .. Len(P) + 1 : Epoch(Q, i) = Epoch(P, i)
  BY Appended
<1>2. PICK i \in 1 .. Len(Q) : LoadsAt(Q, i, of, task) /\ Epoch(Q, i) = e
  BY DEF Has
<1> HIDE DEF Q
<1>3. i \in 1 .. Len(P)
  BY <1>1, <1>2 DEF LoadsAt
<1> QED
  BY <1>1, <1>2, <1>3 DEF Has, LoadsAt

\* One task more.
LEMMA TaskTakes ==
  ASSUME NEW c, IsCase(c), NEW role \in Roles, NEW e \in Nat, NEW done \in [Operands -> Nat],
         NEW of \in Sides(c, role), done[of] < c.tasks[of]
  PROVE  LET x == LoadTask(of, BufferOf(c, of, e % 2), done[of]) IN
         Takes(Loading(c, role, e, done), <<x>>, Loading(c, role, e, [done EXCEPT ![of] = @ + 1]))
<1> DEFINE x == LoadTask(of, BufferOf(c, of, e % 2), done[of])
           more == [done EXCEPT ![of] = @ + 1]
<1>1. of \in Operands /\ c.tasks[of] \in Nat /\ done[of] \in 0 .. c.tasks[of] - 1
  BY DEF IsCase, Sides, Roles
<1>2. Sides(c, role) \subseteq Operands
  BY DEF IsCase, Sides, Roles
<1>3. x \in Instrs
  <2>1. BufferOf(c, of, e % 2) \in {A, B}
    BY Buffers
  <2> QED
    BY <1>1, <2>1, Made
<1>4. ASSUME NEW P \in Loading(c, role, e, done) PROVE P \o <<x>> \in Loading(c, role, e, more)
  <2>1. P \in Seq(Instrs) /\ Scheduled(c, role, P) /\ Due(c, P, e) /\ LhsSynced(c, P, e)
        /\ \A o \in Sides(c, role) : \A task \in 0 .. done[o] - 1 : Has(P, e, o, task)
    BY DEF Loading, Programs
  <2> DEFINE Q == P \o <<x>>
  <2>2. /\ Q \in Seq(Instrs) /\ Scheduled(c, role, Q) /\ Due(c, Q, e) /\ LhsSynced(c, Q, e)
        /\ Has(Q, e, of, done[of]) /\ \A o, t : Has(P, e, o, t) => Has(Q, e, o, t)
    BY <1>1, <2>1, LoadStep
  <2> HIDE DEF Q
  <2>3. ASSUME NEW o \in Sides(c, role), NEW task \in 0 .. more[o] - 1 PROVE Has(Q, e, o, task)
    <3>1. task \in 0 .. done[o] - 1 \/ (o = of /\ task = done[of])
      BY <1>1, <1>2
    <3> QED
      BY <2>1, <2>2, <3>1
  <2> HIDE DEF more
  <2> QED
    BY <2>2, <2>3 DEF Loading, Programs, Q
<1>5. <<x>> \in Seq(Instrs)
  BY <1>3
<1> QED
  BY <1>4, <1>5 DEF Takes

\* What is left of a job is loaded.
LEMMA JobTakes ==
  ASSUME NEW c, IsCase(c), NEW role \in Roles, NEW e \in Nat, NEW done \in [Operands -> Nat],
         NEW of \in Operands, done[of] <= TasksOf(c, Sides(c, role), of)
  PROVE  Takes(Loading(c, role, e, done), Job(c, Sides(c, role), of, e % 2, done[of]),
               Loading(c, role, e, [done EXCEPT ![of] = TasksOf(c, Sides(c, role), of)]))
<1> DEFINE n == TasksOf(c, Sides(c, role), of) - done[of]
           x(i) == LoadTask(of, BufferOf(c, of, e % 2), done[of] + i)
           seqs == [i \in 1 .. n |-> <<x(i - 1)>>]
           so(i) == [done EXCEPT ![of] = @ + i]
           f == [i \in 0 .. n |-> Loading(c, role, e, so(i))]
<1>1. Job(c, Sides(c, role), of, e % 2, done[of]) = FlattenSeq(seqs)
  BY DEF Job, Repeat
<1>2. TasksOf(c, Sides(c, role), of) \in Nat /\ done[of] \in Nat /\ n \in Nat
  BY DEF IsCase, TasksOf
<1>3. \A i \in Nat : x(i) \in Instrs
  <2>1. BufferOf(c, of, e % 2) \in {A, B}
    BY Buffers
  <2>2. \A i \in Nat : done[of] + i \in Nat
    BY <1>2
  <2> QED
    BY <2>1, <2>2, Made
<1>4. seqs \in [1 .. n -> Seq(Instrs)]
  <2>1. \A i \in 1 .. n : i - 1 \in Nat
    BY <1>2
  <2> HIDE DEF x
  <2> QED
    BY <1>3, <2>1
<1>5. \A i \in 0 .. n : f[i] \subseteq Seq(Instrs)
  BY DEF Loading, Programs
<1>6. ASSUME NEW i \in 0 .. n - 1 PROVE Takes(f[i], seqs[i + 1], f[i + 1])
  <2>1. i \in Nat /\ i + 1 \in 0 .. n /\ i \in 0 .. n /\ i + 1 \in 1 .. n /\ (i + 1) - 1 = i
    BY <1>2
  <2>2. so(i) \in [Operands -> Nat] /\ so(i)[of] = done[of] + i
    BY <1>2, <2>1
  <2>3. of \in Sides(c, role) /\ so(i)[of] < c.tasks[of]
    BY <1>2, <2>1, <2>2 DEF TasksOf
  <2>4. [so(i) EXCEPT ![of] = @ + 1] = so(i + 1)
    BY <1>2, <2>1
  <2>5. Takes(Loading(c, role, e, so(i)), <<LoadTask(of, BufferOf(c, of, e % 2), so(i)[of])>>,
              Loading(c, role, e, [so(i) EXCEPT ![of] = @ + 1]))
    <3> HIDE DEF so
    <3> QED
      BY <2>2, <2>3, TaskTakes
  <2>6. seqs[i + 1] = <<x(i)>> /\ x(i) = LoadTask(of, BufferOf(c, of, e % 2), so(i)[of])
    BY <2>1, <2>2
  <2>7. f[i] = Loading(c, role, e, so(i)) /\ f[i + 1] = Loading(c, role, e, so(i + 1))
    BY <2>1
  <2> HIDE DEF seqs, f, so, x
  <2> QED
    BY <2>4, <2>5, <2>6, <2>7
<1>7. Takes(f[0], FlattenSeq(seqs), f[n])
  <2> HIDE DEF seqs, f, n
  <2> QED
    BY <1>2, <1>4, <1>5, <1>6, LoopTakes
<1>8. so(0) = done /\ so(n) = [done EXCEPT ![of] = TasksOf(c, Sides(c, role), of)]
  <2>1. done[of] + 0 = done[of] /\ done[of] + n = TasksOf(c, Sides(c, role), of)
    BY <1>2
  <2>2. [done EXCEPT ![of] = done[of]] = done
    OBVIOUS
  <2> HIDE DEF n
  <2> QED
    BY <2>1, <2>2
<1>9. f[0] = Loading(c, role, e, so(0)) /\ f[n] = Loading(c, role, e, so(n))
  BY <1>2
<1> HIDE DEF f, so, seqs, n
<1> QED
  BY <1>1, <1>7, <1>8, <1>9

\* What is left of both.
LEMMA JobsTake ==
  ASSUME NEW c, IsCase(c), NEW role \in Roles, NEW e \in Nat, NEW done \in [Operands -> Nat],
         \A of \in Operands : done[of] <= TasksOf(c, Sides(c, role), of)
  PROVE  Takes(Loading(c, role, e, done),
               Job(c, Sides(c, role), "lhs", e % 2, done["lhs"]) \o Job(c, Sides(c, role), "rhs", e % 2, done["rhs"]),
               Filled(c, role, e))
<1> DEFINE sides == Sides(c, role)
           half == [done EXCEPT !["lhs"] = TasksOf(c, sides, "lhs")]
           whole == [half EXCEPT !["rhs"] = TasksOf(c, sides, "rhs")]
<1>1. TasksOf(c, sides, "lhs") \in Nat /\ "lhs" \in Operands /\ "rhs" \in Operands
  BY DEF IsCase, TasksOf, Operands
<1>2. half \in [Operands -> Nat] /\ half["rhs"] = done["rhs"] /\ half["rhs"] <= TasksOf(c, sides, "rhs")
  BY <1>1
<1>3. Takes(Loading(c, role, e, done), Job(c, sides, "lhs", e % 2, done["lhs"]), Loading(c, role, e, half))
  BY <1>1, JobTakes
<1>4. Takes(Loading(c, role, e, half), Job(c, sides, "rhs", e % 2, done["rhs"]), Loading(c, role, e, whole))
  <2> HIDE DEF half
  <2>1. Takes(Loading(c, role, e, half), Job(c, sides, "rhs", e % 2, half["rhs"]), Loading(c, role, e, whole))
    BY <1>1, <1>2, JobTakes
  <2> QED
    BY <1>2, <2>1
<1>5. \A of \in sides : whole[of] = c.tasks[of]
  <2>1. \A of \in sides : of = "lhs" \/ of = "rhs"
    BY DEF IsCase, Sides, Roles, Operands
  <2>2. whole["lhs"] = TasksOf(c, sides, "lhs") /\ whole["rhs"] = TasksOf(c, sides, "rhs")
    BY <1>1
  <2> HIDE DEF whole
  <2> QED
    BY <2>1, <2>2 DEF TasksOf
<1> HIDE DEF half, whole
<1>6. Loading(c, role, e, whole) \subseteq Filled(c, role, e)
  BY <1>5 DEF Loading, Programs, Filled, WholeEpoch
<1>7. Loading(c, role, e, done) \subseteq Seq(Instrs) /\ Loading(c, role, e, half) \subseteq Seq(Instrs)
  BY DEF Loading, Programs
<1>8. Takes(Loading(c, role, e, done),
            Job(c, sides, "lhs", e % 2, done["lhs"]) \o Job(c, sides, "rhs", e % 2, done["rhs"]),
            Loading(c, role, e, whole))
  BY <1>3, <1>4, <1>7, ThenTakes
<1> QED
  BY <1>6, <1>8 DEF Takes

-----------------------------------------------------------------------------
(***************************************************************************)
(* The events of a stage matmul.                                           *)
(***************************************************************************)
\* There are some.
LEMMA EventsCount ==
  ASSUME NEW c, IsCase(c)
  PROVE  Events(c) \in Nat \ {0} /\ c.m * c.n \in Nat \ {0} /\ Events(c) = (c.m * c.n) * c.k
<1>1. PICK m \in Nat \ {0}, n \in Nat \ {0}, k \in Nat \ {0} : c.m = m /\ c.n = n /\ c.k = k
  BY DEF IsCase
<1>2. \A x \in Nat \ {0}, y \in Nat \ {0} : x * y \in Nat \ {0}
  OBVIOUS
<1>3. PICK s \in Nat \ {0} : s = m * n
  BY <1>2
<1>4. s * k \in Nat \ {0}
  BY <1>2
<1> QED
  BY <1>1, <1>3, <1>4 DEF Events

IsRan(c, sides, of, n, ran) ==
  ran = [event \in 0 .. n |->
           IF event = 0 THEN 0
           ELSE ran[event - 1] + (IF ShouldExecute(c, sides, of, ran[event - 1], event - 1) THEN 1 ELSE 0)]

\* The tasks run before each event are well defined.
LEMMA RanExists ==
  ASSUME NEW c, NEW sides, NEW of, NEW n \in Nat
  PROVE  \E ran : IsRan(c, sides, of, n, ran)
<1> DEFINE S == {k \in Nat : \E ran : IsRan(c, sides, of, k, ran)}
<1>1. 0 \in S
  <2> DEFINE ran == [event \in 0 .. 0 |-> 0]
  <2>1. ran = [event \in 0 .. 0 |->
           IF event = 0 THEN 0
           ELSE ran[event - 1] + (IF ShouldExecute(c, sides, of, ran[event - 1], event - 1) THEN 1 ELSE 0)]
    OBVIOUS
  <2> HIDE DEF ran
  <2>2. IsRan(c, sides, of, 0, ran)
    BY <2>1 DEF IsRan
  <2> QED
    BY <2>2
<1>2. ASSUME NEW k \in Nat, k \in S PROVE k + 1 \in S
  <2>1. PICK ran : IsRan(c, sides, of, k, ran)
    BY <1>2
  <2> DEFINE next(r, event) ==
               r[event - 1] + (IF ShouldExecute(c, sides, of, r[event - 1], event - 1) THEN 1 ELSE 0)
             more == [event \in 0 .. k + 1 |-> IF event = k + 1 THEN next(ran, event) ELSE ran[event]]
  <2>2. ASSUME NEW event \in 0 .. k + 1
        PROVE  more[event] = IF event = 0 THEN 0 ELSE next(more, event)
    <3>1. CASE event = k + 1
      <4>1. more[event - 1] = ran[event - 1] /\ event # 0
        BY <3>1
      <4>2. more[event] = next(ran, event)
        BY <3>1
      <4>3. next(ran, event) = next(more, event)
        <5> HIDE DEF more
        <5> QED
          BY <4>1
      <4> HIDE DEF more, next
      <4> QED
        BY <4>1, <4>2, <4>3
    <3>2. CASE event # k + 1
      <4>1. event \in 0 .. k /\ more[event] = ran[event]
        BY <3>2
      <4>2. ran[event] = IF event = 0 THEN 0 ELSE next(ran, event)
        BY <2>1, <4>1 DEF IsRan
      <4>3. event # 0 => more[event - 1] = ran[event - 1]
        BY <4>1
      <4>4. event # 0 => next(ran, event) = next(more, event)
        <5> HIDE DEF more
        <5> QED
          BY <4>3
      <4> HIDE DEF more, next
      <4> QED
        BY <4>1, <4>2, <4>4
    <3> QED
      BY <3>1, <3>2
  <2>3. more = [event \in 0 .. k + 1 |-> more[event]]
    OBVIOUS
  <2>4. IsRan(c, sides, of, k + 1, more)
    <3> HIDE DEF more
    <3> QED
      BY <2>2, <2>3 DEF IsRan
  <2> QED
    BY <2>4
<1>3. Nat \subseteq S
  <2> HIDE DEF S
  <2> QED
    BY <1>1, <1>2, Induct
<1> QED
  BY <1>3

\* They start at none, and an event runs one more when it should.
LEMMA RanSteps ==
  ASSUME NEW c, IsCase(c), NEW sides, NEW of \in Operands
  PROVE  LET ran == Ran(c, sides, of) IN
         /\ ran[0] = 0
         /\ \A x \in 0 .. Events(c) - 1 :
              ran[x + 1] = ran[x] + (IF ShouldExecute(c, sides, of, ran[x], x) THEN 1 ELSE 0)
         /\ \A x \in 0 .. Events(c) : ran[x] \in 0 .. TasksOf(c, sides, of)
<1> DEFINE E == Events(c)
           ran == Ran(c, sides, of)
<1>1. E \in Nat
  BY EventsCount
<1>2. IsRan(c, sides, of, E, ran)
  <2> DEFINE chosen == CHOOSE r : r =
        [event \in 0 .. E |->
           IF event = 0 THEN 0
           ELSE r[event - 1] + (IF ShouldExecute(c, sides, of, r[event - 1], event - 1) THEN 1 ELSE 0)]
  <2>1. ran = chosen
    BY DEF Ran
  <2>2. \E r : r =
        [event \in 0 .. E |->
           IF event = 0 THEN 0
           ELSE r[event - 1] + (IF ShouldExecute(c, sides, of, r[event - 1], event - 1) THEN 1 ELSE 0)]
    <3>1. PICK r : IsRan(c, sides, of, E, r)
      BY <1>1, RanExists
    <3> HIDE DEF E
    <3>2. r =
        [event \in 0 .. E |->
           IF event = 0 THEN 0
           ELSE r[event - 1] + (IF ShouldExecute(c, sides, of, r[event - 1], event - 1) THEN 1 ELSE 0)]
      BY <3>1 DEF IsRan
    <3> QED
      BY <3>2, Zenon
  <2>3. chosen =
        [event \in 0 .. E |->
           IF event = 0 THEN 0
           ELSE chosen[event - 1] + (IF ShouldExecute(c, sides, of, chosen[event - 1], event - 1) THEN 1 ELSE 0)]
    BY <2>2
  <2> HIDE DEF chosen, ran, E
  <2> QED
    BY <2>1, <2>3 DEF IsRan
<1> HIDE DEF ran, E
<1>3. \A x \in 0 .. E : ran[x] = IF x = 0 THEN 0
           ELSE ran[x - 1] + (IF ShouldExecute(c, sides, of, ran[x - 1], x - 1) THEN 1 ELSE 0)
  BY <1>2 DEF IsRan
<1>4. ran[0] = 0
  BY <1>1, <1>3
<1>5. ASSUME NEW x \in 0 .. E - 1
      PROVE  ran[x + 1] = ran[x] + (IF ShouldExecute(c, sides, of, ran[x], x) THEN 1 ELSE 0)
  <2>1. x + 1 \in 0 .. E /\ x + 1 # 0 /\ (x + 1) - 1 = x
    BY <1>1
  <2> QED
    BY <1>3, <2>1
<1>6. TasksOf(c, sides, of) \in Nat
  BY DEF TasksOf, IsCase
<1>7. \A x \in 0 .. E : ran[x] \in 0 .. TasksOf(c, sides, of)
  <2> DEFINE S == {x \in Nat : x <= E => ran[x] \in 0 .. TasksOf(c, sides, of)}
  <2>1. 0 \in S
    BY <1>4, <1>6
  <2>2. ASSUME NEW x \in Nat, x \in S PROVE x + 1 \in S
    <3> SUFFICES ASSUME x + 1 <= E PROVE ran[x + 1] \in 0 .. TasksOf(c, sides, of)
      OBVIOUS
    <3>1. x \in 0 .. E - 1 /\ ran[x] \in 0 .. TasksOf(c, sides, of)
      BY <1>1, <2>2
    <3>2. ShouldExecute(c, sides, of, ran[x], x) => ran[x] < TasksOf(c, sides, of)
      BY DEF ShouldExecute
    <3> QED
      BY <1>5, <1>6, <3>1, <3>2
  <2>3. Nat \subseteq S
    <3> HIDE DEF S
    <3> QED
      BY <2>1, <2>2, Induct
  <2> QED
    BY <1>1, <2>3
<1> QED
  BY <1>4, <1>5, <1>7 DEF ran, E

\* Programs of the main flow, early enough in a stage matmul that no lhs is ahead; and
\* those whose lhs was synchronised since it was read.
Early(c, e, done, early) == {P \in Programs(c, "main", e, done) : early => NoneAhead(c, P, e)}
EarlySynced(c, e, done, early) == {P \in Early(c, e, done, early) : LhsSynced(c, P, e)}

\* The synchronism before a task.
LEMMA PlaneSyncTakes ==
  ASSUME NEW c, IsCase(c), NEW e \in Nat, NEW done, NEW early \in BOOLEAN
  PROVE  Takes(Early(c, e, done, early), PlaneSync(c), EarlySynced(c, e, done, early))
<1>1. CASE ~c.ordered
  <2>1. PlaneSync(c) = << >>
    BY <1>1 DEF PlaneSync
  <2>2. Early(c, e, done, early) = EarlySynced(c, e, done, early)
    BY <1>1 DEF EarlySynced, LhsSynced
  <2>3. Early(c, e, done, early) \subseteq Seq(Instrs)
    BY DEF Early, Programs
  <2> QED
    BY <2>1, <2>2, <2>3, NothingTakes
<1>2. CASE c.ordered
  <2>1. PlaneSync(c) = <<SyncPlane>>
    BY <1>2 DEF PlaneSync
  <2>2. ASSUME NEW P \in Early(c, e, done, early) PROVE P \o <<SyncPlane>> \in EarlySynced(c, e, done, early)
    <3>1. P \in Seq(Instrs) /\ Scheduled(c, "main", P) /\ Due(c, P, e) /\ (early => NoneAhead(c, P, e))
          /\ \A o \in Sides(c, "main") : \A task \in 0 .. done[o] - 1 : Has(P, e, o, task)
      BY DEF Early, Programs
    <3>2. "main" \in Roles
      BY DEF Roles
    <3> DEFINE Q == P \o <<SyncPlane>>
    <3>3. /\ Q \in Seq(Instrs) /\ Scheduled(c, "main", Q) /\ Due(c, Q, e) /\ LhsSynced(c, Q, e)
          /\ \A o, t : Has(P, e, o, t) => Has(Q, e, o, t)
          /\ NoneAhead(c, P, e) => NoneAhead(c, Q, e)
      BY <3>1, <3>2, PlaneStep
    <3> HIDE DEF Q
    <3> QED
      BY <3>1, <3>3 DEF EarlySynced, Early, Programs, Q
  <2>3. <<SyncPlane>> \in Seq(Instrs)
    BY Made
  <2> QED
    BY <2>1, <2>2, <2>3 DEF Takes
<1> QED
  BY <1>1, <1>2

\* The task an event runs.
LEMMA EventTaskTakes ==
  ASSUME NEW c, IsCase(c), NEW e \in Nat, NEW done \in [Operands -> Nat], NEW early \in BOOLEAN,
         NEW of \in c.main, done[of] < c.tasks[of], early /\ c.ordered => of # "lhs"
  PROVE  Takes(Early(c, e, done, early), PlaneSync(c) \o <<LoadTask(of, BufferOf(c, of, e % 2), done[of])>>,
               Early(c, e, [done EXCEPT ![of] = @ + 1], early))
<1> DEFINE x == LoadTask(of, BufferOf(c, of, e % 2), done[of])
           more == [done EXCEPT ![of] = @ + 1]
<1>1. "main" \in Roles /\ Sides(c, "main") = c.main
  BY DEF Roles, Sides
<1>2. Takes(Loading(c, "main", e, done), <<x>>, Loading(c, "main", e, more))
  BY <1>1, TaskTakes
<1>3. x \in Instrs /\ x.of = of /\ x.op = "load"
  <2>1. of \in Operands /\ done[of] \in Nat /\ BufferOf(c, of, e % 2) \in {A, B}
    BY Buffers DEF IsCase
  <2> QED
    BY <2>1, Made
<1> HIDE DEF x, more
<1>4. ASSUME NEW P \in EarlySynced(c, e, done, early) PROVE P \o <<x>> \in Early(c, e, more, early)
  <2>1. P \in Loading(c, "main", e, done) /\ (early => NoneAhead(c, P, e)) /\ P \in Seq(Instrs)
    BY DEF EarlySynced, Early, Loading, Programs
  <2>2. P \o <<x>> \in Loading(c, "main", e, more)
    BY <1>2, <2>1 DEF Takes
  <2>3. early => NoneAhead(c, P \o <<x>>, e)
    BY <1>3, <2>1, Kept DEF IsCase
  <2> QED
    BY <2>2, <2>3 DEF Early, Loading
<1>5. Takes(EarlySynced(c, e, done, early), <<x>>, Early(c, e, more, early))
  <2>1. <<x>> \in Seq(Instrs)
    BY <1>3
  <2> QED
    BY <1>4, <2>1 DEF Takes
<1>6. Takes(Early(c, e, done, early), PlaneSync(c), EarlySynced(c, e, done, early))
  BY PlaneSyncTakes
<1>7. Early(c, e, done, early) \subseteq Seq(Instrs)
  BY DEF Early, Programs
<1>8. Takes(Early(c, e, done, early), PlaneSync(c) \o <<x>>, Early(c, e, more, early))
  BY <1>5, <1>6, <1>7, ThenTakes
<1> QED
  BY <1>8 DEF x, more

\* A stage matmul after x of its events.
RanAt(c, x) == [of \in Operands |-> Ran(c, c.main, of)[x]]
Segment(c, e, x) == Early(c, e, RanAt(c, x), x <= Events(c) - c.m * c.n)

\* An event: a task of each operand at most.
LEMMA OnEventTakes ==
  ASSUME NEW c, IsCase(c), NEW e \in Nat, NEW x \in 0 .. Events(c) - 1
  PROVE  Takes(Segment(c, e, x), OnEvent(c, c.main, e % 2, x), Segment(c, e, x + 1))
<1> DEFINE early == x + 1 <= Events(c) - c.m * c.n
           ran(of) == Ran(c, c.main, of)[x]
           should(of) == ShouldExecute(c, c.main, of, ran(of), x)
           task(of) == IF should(of)
                       THEN PlaneSync(c) \o <<LoadTask(of, BufferOf(c, of, e % 2), ran(of))>> ELSE << >>
           half == [of \in Operands |-> IF of = "lhs" THEN Ran(c, c.main, of)[x + 1] ELSE ran(of)]
<1>1. OnEvent(c, c.main, e % 2, x) = task("lhs") \o task("rhs")
  BY DEF OnEvent
<1>2. /\ x \in 0 .. Events(c) /\ x + 1 \in 0 .. Events(c) /\ x \in Nat
      /\ Events(c) \in Nat /\ c.m * c.n \in Nat \ {0}
  BY EventsCount
<1>3. \A of \in Operands :
        /\ ran(of) \in 0 .. TasksOf(c, c.main, of)
        /\ Ran(c, c.main, of)[x + 1] \in 0 .. TasksOf(c, c.main, of)
        /\ Ran(c, c.main, of)[x + 1] = ran(of) + (IF should(of) THEN 1 ELSE 0)
  BY <1>2, RanSteps
<1>4. "lhs" \in Operands /\ "rhs" \in Operands /\ \A of \in Operands : of = "lhs" \/ of = "rhs"
  BY DEF Operands
<1>5. \A of \in Operands : TasksOf(c, c.main, of) \in Nat
  BY DEF TasksOf, IsCase
<1>6. RanAt(c, x) \in [Operands -> Nat] /\ half \in [Operands -> Nat] /\ early \in BOOLEAN
  <2>1. \A of \in Operands : ran(of) \in Nat /\ Ran(c, c.main, of)[x + 1] \in Nat
    BY <1>3, <1>5
  <2> QED
    BY <2>1 DEF RanAt
<1>7. should("lhs") /\ c.ordered => ~early
  <2>1. should("lhs") /\ c.ordered => x >= Events(c) - c.m * c.n
    BY DEF ShouldExecute, CanStart
  <2> QED
    BY <1>2, <2>1
<1>8. \A of \in Operands : should(of) => of \in c.main /\ ran(of) < c.tasks[of]
  BY DEF ShouldExecute, TasksOf
<1>9. Segment(c, e, x) \subseteq Early(c, e, RanAt(c, x), early)
  <2>1. early => x <= Events(c) - c.m * c.n
    BY <1>2
  <2> HIDE DEF early
  <2> QED
    BY <2>1 DEF Segment, Early
<1> HIDE DEF early
<1>10. Takes(Early(c, e, RanAt(c, x), early), task("lhs"), Early(c, e, half, early))
  <2>1. RanAt(c, x)["lhs"] = ran("lhs")
    BY <1>4 DEF RanAt
  <2>2. CASE should("lhs")
    <3>1. Takes(Early(c, e, RanAt(c, x), early),
                PlaneSync(c) \o <<LoadTask("lhs", BufferOf(c, "lhs", e % 2), RanAt(c, x)["lhs"])>>,
                Early(c, e, [RanAt(c, x) EXCEPT !["lhs"] = @ + 1], early))
      <4>1. "lhs" \in c.main /\ RanAt(c, x)["lhs"] < c.tasks["lhs"]
        BY <1>4, <1>8, <2>1, <2>2
      <4>2. early /\ c.ordered => "lhs" # "lhs"
        BY <1>7, <2>2
      <4> QED
        BY <1>6, <4>1, <4>2, EventTaskTakes
    <3>2. [RanAt(c, x) EXCEPT !["lhs"] = @ + 1] = half
      BY <1>3, <1>4, <2>2 DEF RanAt
    <3> QED
      BY <2>1, <2>2, <3>1, <3>2
  <2>3. CASE ~should("lhs")
    <3>1. RanAt(c, x) = half
      BY <1>3, <1>4, <2>3, <1>5 DEF RanAt
    <3>2. Early(c, e, RanAt(c, x), early) \subseteq Seq(Instrs)
      BY DEF Early, Programs
    <3>3. task("lhs") = << >>
      BY <2>3
    <3> HIDE DEF task, half
    <3> QED
      BY <3>1, <3>2, <3>3, NothingTakes
  <2> QED
    BY <2>2, <2>3
<1>11. Takes(Early(c, e, half, early), task("rhs"), Early(c, e, RanAt(c, x + 1), early))
  <2>1. half["rhs"] = ran("rhs") /\ half["lhs"] = Ran(c, c.main, "lhs")[x + 1]
    BY <1>4
  <2>2. CASE should("rhs")
    <3>1. Takes(Early(c, e, half, early),
                PlaneSync(c) \o <<LoadTask("rhs", BufferOf(c, "rhs", e % 2), half["rhs"])>>,
                Early(c, e, [half EXCEPT !["rhs"] = @ + 1], early))
      <4>1. "rhs" \in c.main /\ half["rhs"] < c.tasks["rhs"]
        BY <1>4, <1>8, <2>1, <2>2
      <4> HIDE DEF half
      <4> QED
        BY <1>6, <4>1, EventTaskTakes
    <3>2. [half EXCEPT !["rhs"] = @ + 1] = RanAt(c, x + 1)
      BY <1>3, <1>4, <2>2 DEF RanAt
    <3> QED
      BY <2>1, <2>2, <3>1, <3>2
  <2>3. CASE ~should("rhs")
    <3>1. RanAt(c, x + 1) = half
      BY <1>3, <1>4, <2>3, <1>5 DEF RanAt
    <3>2. Early(c, e, half, early) \subseteq Seq(Instrs)
      BY DEF Early, Programs
    <3>3. task("rhs") = << >>
      BY <2>3
    <3> HIDE DEF task, half
    <3> QED
      BY <3>1, <3>2, <3>3, NothingTakes
  <2> QED
    BY <2>2, <2>3
<1>12. Early(c, e, RanAt(c, x), early) \subseteq Seq(Instrs) /\ Early(c, e, half, early) \subseteq Seq(Instrs)
  BY DEF Early, Programs
<1>13. Segment(c, e, x + 1) = Early(c, e, RanAt(c, x + 1), early)
  BY DEF Segment, early
<1> HIDE DEF task, half
<1>14. Takes(Early(c, e, RanAt(c, x), early), task("lhs") \o task("rhs"), Early(c, e, RanAt(c, x + 1), early))
  BY <1>10, <1>11, <1>12, ThenTakes
<1> QED
  BY <1>1, <1>9, <1>13, <1>14 DEF Takes

\* The end of a stage matmul, which loads what no event was left for.
LEMMA OnFinishTakes ==
  ASSUME NEW c, IsCase(c), NEW e \in Nat
  PROVE  Takes(Segment(c, e, Events(c)), OnFinish(c, c.main, e % 2), Filled(c, "main", e))
<1> DEFINE done == RanAt(c, Events(c))
           early == Events(c) <= Events(c) - c.m * c.n
           rest == Job(c, c.main, "lhs", e % 2, done["lhs"]) \o Job(c, c.main, "rhs", e % 2, done["rhs"])
<1>1. OnFinish(c, c.main, e % 2) = IF rest = << >> THEN << >> ELSE PlaneSync(c) \o rest
  BY DEF OnFinish, RanAt, Operands
<1>2. "main" \in Roles /\ Sides(c, "main") = c.main
  BY DEF Roles, Sides
<1>3. done \in [Operands -> Nat] /\ \A of \in Operands : done[of] <= TasksOf(c, Sides(c, "main"), of)
  <2>1. Events(c) \in 0 .. Events(c)
    BY EventsCount
  <2>2. \A of \in Operands : Ran(c, c.main, of)[Events(c)] \in 0 .. TasksOf(c, c.main, of)
    BY <2>1, RanSteps
  <2>3. \A of \in Operands : TasksOf(c, c.main, of) \in Nat
    BY DEF TasksOf, IsCase
  <2> QED
    BY <1>2, <2>2, <2>3 DEF RanAt
<1>4. Segment(c, e, Events(c)) = Early(c, e, done, early) /\ early \in BOOLEAN
  BY DEF Segment
<1> HIDE DEF done, early
<1>5. Takes(Loading(c, "main", e, done), rest, Filled(c, "main", e))
  BY <1>2, <1>3, JobsTake
<1>6. Takes(Early(c, e, done, early), PlaneSync(c), EarlySynced(c, e, done, early))
  BY <1>4, PlaneSyncTakes
<1>7. EarlySynced(c, e, done, early) \subseteq Loading(c, "main", e, done)
  BY DEF EarlySynced, Early, Loading
<1>8. Early(c, e, done, early) \subseteq Seq(Instrs)
  BY DEF Early, Programs
<1> HIDE DEF rest
<1>9. Takes(Early(c, e, done, early), PlaneSync(c) \o rest, Filled(c, "main", e))
  <2>1. Takes(EarlySynced(c, e, done, early), rest, Filled(c, "main", e))
    BY <1>5, <1>7 DEF Takes
  <2> QED
    BY <1>6, <1>8, <2>1, ThenTakes
<1>10. CASE rest # << >>
  BY <1>1, <1>4, <1>9, <1>10
<1>11. CASE rest = << >>
  <2>1. << >> \in Seq(Instrs) /\ \A P \in Seq(Instrs) : P \o << >> = P
    BY ConcatEmptySeq, EmptySeq
  <2>2. ASSUME NEW P \in Early(c, e, done, early) PROVE P \in Filled(c, "main", e)
    <3> DEFINE Q == P \o PlaneSync(c)
    <3>1. Q \in EarlySynced(c, e, done, early)
      BY <1>6 DEF Takes
    <3>2. Q \in Seq(Instrs)
      BY <3>1 DEF EarlySynced, Early, Programs
    <3>3. Q \in Filled(c, "main", e)
      <4> HIDE DEF Q
      <4> QED
        BY <1>5, <1>7, <1>11, <2>1, <3>1, <3>2 DEF Takes
    <3>4. WholeEpoch(c, Sides(c, "main"), Q, e)
      <4> HIDE DEF Q
      <4> QED
        BY <3>3 DEF Filled
    <3>5. P \in Seq(Instrs) /\ Scheduled(c, "main", P) /\ Due(c, P, e)
      BY DEF Early, Programs
    <3>6. \A of, task : Has(Q, e, of, task) => Has(P, e, of, task)
      <4>1. CASE c.ordered
        <5>1. Q = P \o <<SyncPlane>> /\ SyncPlane \in Instrs /\ SyncPlane.op # "load"
          BY <4>1, Made DEF PlaneSync, SyncPlane
        <5> HIDE DEF Q
        <5> QED
          BY <3>5, <5>1, HasOnly
      <4>2. CASE ~c.ordered
        <5>1. Q = P
          BY <2>1, <3>5, <4>2 DEF PlaneSync
        <5> QED
          BY <5>1
      <4> QED
        BY <4>1, <4>2
    <3> HIDE DEF Q
    <3> QED
      BY <3>4, <3>5, <3>6 DEF Filled, WholeEpoch
  <2> QED
    BY <1>1, <1>4, <1>8, <1>11, <2>1, <2>2 DEF Takes
<1> QED
  BY <1>10, <1>11
-----------------------------------------------------------------------------
(***************************************************************************)
(* A stage matmul.                                                         *)
(***************************************************************************)
\* Where the columns begin and end.
LEMMA ColumnBounds ==
  ASSUME NEW c, IsCase(c), NEW k \in 0 .. c.k - 1, NEW n \in 0 .. c.n - 1
  PROVE  /\ (k * c.n + n) * c.m \in Nat /\ (k * c.n + n) * c.m + c.m \in 0 .. Events(c)
         /\ (k * c.n + n) * c.m + c.m = (k * c.n + (n + 1)) * c.m
         /\ (k * c.n + 0) * c.m = k * (c.m * c.n)
         /\ (k * c.n + c.n) * c.m = (k + 1) * (c.m * c.n)
         /\ k * (c.m * c.n) \in 0 .. Events(c) - c.m * c.n
<1>1. PICK M \in Nat \ {0}, N \in Nat \ {0}, K \in Nat \ {0} : c.m = M /\ c.n = N /\ c.k = K
  BY DEF IsCase
<1>2. k \in Nat /\ n \in Nat /\ k + 1 <= K /\ n + 1 <= N
  BY <1>1
<1>3. PICK s \in Nat \ {0} : s = M * N
  <2>1. M * N \in Nat \ {0}
    OBVIOUS
  <2> QED
    BY <2>1
<1>4. \A x, y, z \in Nat : x * y \in Nat /\ (x + y) * z = x * z + y * z /\ (x * y) * z = x * (y * z) /\ x * y = y * x
  OBVIOUS
<1>5. \A x, y, z \in Nat : x <= y => x * z <= y * z
  OBVIOUS
<1>6. PICK a \in Nat : a = (k * N) * M
  BY <1>2, <1>4
<1>7. a = k * s
  BY <1>2, <1>3, <1>4, <1>6
<1>8. PICK b \in Nat : b = n * M
  BY <1>2, <1>4
<1>9. k * N \in Nat
  BY <1>2, <1>4
<1>10. (k * N + n) * M = a + b
  BY <1>2, <1>4, <1>6, <1>8, <1>9
<1>11. (n + 1) * M = b + M /\ (n + 1) * M <= s
  <2>1. (n + 1) * M = n * M + 1 * M /\ (n + 1) * M <= N * M /\ N * M = s /\ 1 * M = M
    BY <1>2, <1>3, <1>4, <1>5
  <2> QED
    BY <1>8, <2>1
<1>12. (k * N + (n + 1)) * M = a + (b + M)
  <2>1. (k * N + (n + 1)) * M = (k * N) * M + (n + 1) * M
    BY <1>2, <1>4, <1>9
  <2> QED
    BY <1>6, <1>11, <2>1
<1>13. (k * N + 0) * M = a
  BY <1>6, <1>9
<1>14. (k + 1) * s = a + s
  BY <1>2, <1>3, <1>4, <1>7
<1>15. (k * N + N) * M = a + s
  <2>1. (k * N + N) * M = (k * N) * M + N * M /\ N * M = s
    BY <1>3, <1>4, <1>9
  <2> QED
    BY <1>6, <2>1
<1>16. Events(c) = s * K /\ s * K = K * s /\ (k + 1) * s <= K * s
  <2>1. Events(c) = s * K
    BY <1>1, <1>3 DEF Events
  <2> QED
    BY <1>2, <1>3, <1>4, <1>5, <2>1
<1>17. PICK E \in Nat : E = Events(c)
  BY EventsCount
<1>18. a + s <= E /\ b + M <= s
  BY <1>11, <1>14, <1>16, <1>17
<1>19. /\ (k * N + n) * M + M = a + (b + M) /\ a + b \in Nat /\ a + (b + M) \in 0 .. E
       /\ a \in 0 .. E - s
  BY <1>10, <1>18
<1> QED
  BY <1>1, <1>3, <1>7, <1>10, <1>12, <1>13, <1>14, <1>15, <1>17, <1>19

\* What f says the program may be at each event holds along a stage matmul, if
\* every event and every read keeps it, and the first read brings it about.
LEMMA StageMatmulStarts ==
  ASSUME NEW c, IsCase(c), NEW stage \in Nat, NEW into \in {A, B}, NEW listen, NEW finish, NEW f, NEW T,
         NEW U, U \subseteq Seq(Instrs),
         \A tile \in Nat \X Nat : Takes(U, <<Read("lhs", BufferOf(c, "lhs", into), stage, tile)>>, f[0]),
         \A x \in 0 .. Events(c) : f[x] \subseteq Seq(Instrs),
         \A x \in 0 .. Events(c) - 1 : Takes(f[x], listen[x], f[x + 1]),
         \A x \in 0 .. Events(c) - c.m * c.n, tile \in Nat \X Nat :
           Takes(f[x], <<Read("lhs", BufferOf(c, "lhs", into), stage, tile)>>, f[x]),
         \A x \in 0 .. Events(c), tile \in Nat \X Nat :
           Takes(f[x], <<Read("rhs", into, stage, tile)>>, f[x]),
         Takes(f[Events(c)], finish, T)
  PROVE  Takes(U, StageMatmul(c, stage, into, listen, finish), T)
<1> DEFINE lhs(m, k) == Read("lhs", BufferOf(c, "lhs", into), stage, <<m, k>>)
           rhs(k, n) == Read("rhs", into, stage, <<k, n>>)
           base(k, n) == (k * c.n + n) * c.m
           column(k, n) == FlattenSeq([i \in 1 .. c.m |-> listen[base(k, n) + (i - 1)]])
           row(k) == FlattenSeq([i \in 1 .. c.m |-> <<lhs(i - 1, k)>>])
           single(k) == FlattenSeq([i \in 1 .. c.n |-> <<rhs(k, i - 1)>> \o column(k, i - 1)])
           turns(k) == FlattenSeq([i \in 1 .. c.n - 1 |-> <<rhs(k, i - 1 + 1)>> \o column(k, i - 1)])
           double(k) == <<rhs(k, 0)>> \o turns(k) \o column(k, c.n - 1)
           depth(k) == row(k) \o (IF c.fragments = 1 THEN single(k) ELSE double(k))
           s == c.m * c.n
           E == Events(c)
           begin(k) == IF k = 0 THEN U ELSE f[k * s]
<1>1. c.m \in Nat \ {0} /\ c.n \in Nat \ {0} /\ c.k \in Nat \ {0} /\ E \in Nat /\ s \in Nat \ {0}
  BY EventsCount DEF IsCase
<1>16. E = s * c.k
  BY EventsCount
<1>2. ASSUME NEW k \in 0 .. c.k - 1, NEW n \in 0 .. c.n - 1
      PROVE  /\ \A i \in 0 .. c.m : base(k, n) + i \in 0 .. E
             /\ \A i \in 0 .. c.m - 1 : base(k, n) + i \in 0 .. E - 1
             /\ base(k, n) \in Nat /\ base(k, n) \in 0 .. E
             /\ base(k, n + 1) = base(k, n) + c.m
  <2>1. base(k, n) \in Nat /\ base(k, n) + c.m \in 0 .. E /\ base(k, n + 1) = base(k, n) + c.m
    BY ColumnBounds
  <2> HIDE DEF base, E
  <2>2. PICK b \in Nat : b = base(k, n)
    BY <2>1
  <2>3. PICK M \in Nat \ {0} : M = c.m
    BY <1>1
  <2>4. b + M <= E
    BY <2>1, <2>2, <2>3
  <2>5. (\A i \in 0 .. M : b + i \in 0 .. E) /\ (\A i \in 0 .. M - 1 : b + i \in 0 .. E - 1) /\ b \in 0 .. E
    BY <1>1, <2>4
  <2> QED
    BY <2>1, <2>2, <2>3, <2>5
<1>3. ASSUME NEW k \in 0 .. c.k - 1
      PROVE  base(k, 0) = k * s /\ base(k, c.n) = (k + 1) * s /\ k * s \in 0 .. E - s
  <2>1. 0 \in 0 .. c.n - 1
    BY <1>1
  <2> QED
    BY <2>1, ColumnBounds
<1>4. ASSUME NEW k \in 0 .. c.k - 1, NEW n \in 0 .. c.n - 1
      PROVE  Takes(f[base(k, n)], column(k, n), f[base(k, n + 1)])
  <2> DEFINE b == base(k, n)
             seqs == [i \in 1 .. c.m |-> listen[b + (i - 1)]]
             g == [i \in 0 .. c.m |-> f[b + i]]
             M == c.m
  <2>1. /\ \A i \in 0 .. M : b + i \in 0 .. E
        /\ \A i \in 0 .. M - 1 : b + i \in 0 .. E - 1
        /\ b \in Nat /\ base(k, n + 1) = b + M
    BY <1>2
  <2>9. \A x \in 0 .. E - 1 : Takes(f[x], listen[x], f[x + 1])
    OBVIOUS
  <2>10. \A x \in 0 .. E : f[x] \subseteq Seq(Instrs)
    OBVIOUS
  <2>2. M \in Nat \ {0}
    BY <1>1
  <2> HIDE DEF base, b, E
  <2>3. seqs \in [1 .. M -> Seq(Instrs)]
    <3> SUFFICES ASSUME NEW i \in 1 .. M PROVE listen[b + (i - 1)] \in Seq(Instrs)
      BY DEF M
    <3>1. i - 1 \in 0 .. M - 1
      BY <2>2
    <3> QED
      BY <2>1, <2>9, <3>1 DEF Takes
  <2>4. \A i \in 0 .. M : g[i] \subseteq Seq(Instrs)
    BY <2>1, <2>10
  <2>5. ASSUME NEW i \in 0 .. M - 1 PROVE Takes(g[i], seqs[i + 1], g[i + 1])
    <3>1. i \in 0 .. M /\ i + 1 \in 0 .. M /\ i + 1 \in 1 .. M /\ (i + 1) - 1 = i
      BY <2>2
    <3>3. b + (i + 1) = (b + i) + 1
      BY <2>1, <2>2
    <3>2. Takes(f[b + i], listen[b + i], f[(b + i) + 1])
      BY <2>1, <2>9
    <3>4. seqs[i + 1] = listen[b + i] /\ g[i] = f[b + i] /\ g[i + 1] = f[(b + i) + 1]
      BY <3>1, <3>3
    <3> HIDE DEF seqs, g
    <3> QED
      BY <3>2, <3>4
  <2>6. g[0] = f[b] /\ g[M] = f[b + M]
    BY <2>1, <2>2
  <2> DEFINE all == FlattenSeq(seqs)
  <2> HIDE DEF seqs, g, M
  <2>7. Takes(g[0], FlattenSeq(seqs), g[M])
    BY <2>2, <2>3, <2>4, <2>5, LoopTakes
  <2>8. FlattenSeq(seqs) = column(k, n)
    BY DEF seqs, b
  <2> QED
    BY <2>1, <2>6, <2>7, <2>8 DEF b
<1> HIDE DEF column
<1>5. ASSUME NEW k \in 0 .. c.k - 1
      PROVE  Takes(begin(k), row(k), f[k * s])
  <2> DEFINE M == c.m
             at0 == k * s
             seqs == [i \in 1 .. M |-> <<lhs(i - 1, k)>>]
             g == [i \in 0 .. M |-> IF i = 0 THEN begin(k) ELSE f[at0]]
  <2>1. at0 \in 0 .. E - c.m * c.n /\ at0 \in 0 .. E /\ M \in Nat \ {0} /\ k \in Nat
    BY <1>1, <1>3
  <2>9. k = 0 => at0 = 0
    <3>1. PICK s0 \in Nat : s0 = s
      BY <1>1
    <3>2. 0 * s0 = 0
      OBVIOUS
    <3> HIDE DEF s
    <3> QED
      BY <3>1, <3>2
  <2> HIDE DEF at0
  <2>10. begin(k) = (IF k = 0 THEN U ELSE f[at0])
    BY DEF at0
  <2> HIDE DEF begin
  <2>2. \A i \in 1 .. M : Takes(f[at0], <<lhs(i - 1, k)>>, f[at0])
    <3>1. \A i \in 1 .. M : <<i - 1, k>> \in Nat \X Nat
      BY <2>1
    <3> QED
      BY <2>1, <3>1
  <2>11. k = 0 => Takes(U, <<lhs(0, k)>>, f[at0])
    <3> SUFFICES ASSUME k = 0 PROVE Takes(U, <<lhs(0, k)>>, f[at0])
      OBVIOUS
    <3>1. at0 = 0 /\ <<0, k>> \in Nat \X Nat
      BY <2>1, <2>9
    <3> QED
      BY <3>1 DEF lhs
  <2> HIDE DEF lhs
  <2>3. seqs \in [1 .. M -> Seq(Instrs)]
    BY <2>2 DEF Takes
  <2>4. \A i \in 0 .. M : g[i] \subseteq Seq(Instrs)
    BY <2>1, <2>10
  <2>5. ASSUME NEW i \in 0 .. M - 1 PROVE Takes(g[i], seqs[i + 1], g[i + 1])
    <3>1. i + 1 \in 1 .. M /\ i \in 0 .. M /\ i + 1 \in 0 .. M /\ (i + 1) - 1 = i /\ i + 1 # 0
      BY <2>1
    <3>2. seqs[i + 1] = <<lhs(i, k)>> /\ g[i + 1] = f[at0] /\ g[i] = (IF i = 0 THEN begin(k) ELSE f[at0])
      BY <3>1
    <3>3. Takes(f[at0], <<lhs(i, k)>>, f[at0])
      BY <2>2, <3>1
    <3> HIDE DEF seqs, g
    <3> QED
      BY <2>10, <2>11, <3>2, <3>3
  <2>6. g[0] = begin(k) /\ g[M] = f[at0]
    BY <2>1
  <2>7. FlattenSeq(seqs) = row(k)
    OBVIOUS
  <2> HIDE DEF seqs, g, M
  <2>8. Takes(g[0], FlattenSeq(seqs), g[M])
    BY <2>1, <2>3, <2>4, <2>5, LoopTakes
  <2> HIDE DEF row
  <2> QED
    BY <2>6, <2>7, <2>8 DEF at0
<1> HIDE DEF row, lhs
<1>6. ASSUME NEW k \in 0 .. c.k - 1, NEW n \in 0 .. c.n - 1, NEW n2 \in Nat
      PROVE  Takes(f[base(k, n)], <<rhs(k, n2)>> \o column(k, n), f[base(k, n + 1)])
  <2>1. Takes(f[base(k, n)], <<rhs(k, n2)>>, f[base(k, n)])
    <3>1. base(k, n) \in 0 .. E
      BY <1>2
    <3>2. <<k, n2>> \in Nat \X Nat
      BY <1>1
    <3> QED
      BY <3>1, <3>2
  <2>2. f[base(k, n)] \subseteq Seq(Instrs)
    BY <1>2
  <2> HIDE DEF base, rhs
  <2> QED
    BY <1>4, <2>1, <2>2, ThenTakes
<1>7. ASSUME NEW k \in 0 .. c.k - 1, NEW n \in 0 .. c.n
      PROVE  base(k, n) \in 0 .. E /\ f[base(k, n)] \subseteq Seq(Instrs)
  <2>1. base(k, n) \in 0 .. E
    <3>1. CASE n = 0
      BY <1>1, <1>2, <3>1
    <3>2. CASE n # 0
      <4>1. n - 1 \in 0 .. c.n - 1 /\ (n - 1) + 1 = n /\ c.m \in 0 .. c.m
        BY <1>1, <3>2
      <4>2. base(k, (n - 1) + 1) = base(k, n - 1) + c.m /\ base(k, n - 1) + c.m \in 0 .. E
        BY <1>2, <4>1
      <4> HIDE DEF base
      <4> QED
        BY <4>1, <4>2
    <3> QED
      BY <3>1, <3>2
  <2> HIDE DEF base
  <2> QED
    BY <2>1
<1> HIDE DEF rhs
<1>8. ASSUME NEW k \in 0 .. c.k - 1
      PROVE  Takes(f[k * s], single(k), f[(k + 1) * s])
  <2> DEFINE N == c.n
             seqs == [i \in 1 .. N |-> <<rhs(k, i - 1)>> \o column(k, i - 1)]
             g == [i \in 0 .. N |-> f[base(k, i)]]
  <2>1. N \in Nat \ {0}
    BY <1>1
  <2>2. \A i \in 0 .. N : f[base(k, i)] \subseteq Seq(Instrs)
    BY <1>7
  <2>3. \A i \in 0 .. N - 1 : Takes(f[base(k, i)], <<rhs(k, i)>> \o column(k, i), f[base(k, i + 1)])
    BY <1>6, <2>1
  <2>4. base(k, 0) = k * s /\ base(k, N) = (k + 1) * s
    BY <1>3
  <2> HIDE DEF base, s
  <2>5. seqs \in [1 .. N -> Seq(Instrs)]
    <3> SUFFICES ASSUME NEW i \in 1 .. N PROVE <<rhs(k, i - 1)>> \o column(k, i - 1) \in Seq(Instrs)
      OBVIOUS
    <3>1. i - 1 \in 0 .. N - 1
      BY <2>1
    <3> QED
      BY <2>3, <3>1 DEF Takes
  <2>6. \A i \in 0 .. N : g[i] \subseteq Seq(Instrs)
    BY <2>2
  <2>7. ASSUME NEW i \in 0 .. N - 1 PROVE Takes(g[i], seqs[i + 1], g[i + 1])
    <3>1. i \in 0 .. N /\ i + 1 \in 0 .. N /\ i + 1 \in 1 .. N /\ (i + 1) - 1 = i
      BY <2>1
    <3>2. seqs[i + 1] = <<rhs(k, i)>> \o column(k, i)
      BY <3>1
    <3>3. g[i] = f[base(k, i)] /\ g[i + 1] = f[base(k, i + 1)]
      BY <3>1
    <3> HIDE DEF seqs, g
    <3> QED
      BY <2>3, <3>2, <3>3
  <2>8. g[0] = f[base(k, 0)] /\ g[N] = f[base(k, N)]
    BY <2>1
  <2>9. FlattenSeq(seqs) = single(k)
    OBVIOUS
  <2> HIDE DEF seqs, g, N
  <2>10. Takes(g[0], FlattenSeq(seqs), g[N])
    BY <2>1, <2>5, <2>6, <2>7, LoopTakes
  <2> HIDE DEF single
  <2> QED
    BY <2>4, <2>8, <2>9, <2>10
<1>9. ASSUME NEW k \in 0 .. c.k - 1
      PROVE  Takes(f[k * s], double(k), f[(k + 1) * s])
  <2> DEFINE N == c.n - 1
             seqs == [i \in 1 .. N |-> <<rhs(k, i - 1 + 1)>> \o column(k, i - 1)]
             g == [i \in 0 .. N |-> f[base(k, i)]]
  <2>1. N \in Nat /\ N \in 0 .. c.n - 1 /\ N + 1 = c.n
    BY <1>1
  <2>2. \A i \in 0 .. N : f[base(k, i)] \subseteq Seq(Instrs)
    <3>1. \A i \in 0 .. N : i \in 0 .. c.n
      BY <1>1
    <3> HIDE DEF N, base
    <3> QED
      BY <1>7, <3>1
  <2>3. \A i \in 0 .. N - 1 : Takes(f[base(k, i)], <<rhs(k, i + 1)>> \o column(k, i), f[base(k, i + 1)])
    <3>1. \A i \in 0 .. N - 1 : i \in 0 .. c.n - 1 /\ i + 1 \in Nat
      BY <1>1
    <3> QED
      BY <1>6, <3>1
  <2>4. base(k, 0) = k * s /\ base(k, N + 1) = (k + 1) * s
    BY <1>3, <2>1
  <2>5. Takes(f[base(k, N)], column(k, N), f[base(k, N + 1)])
    BY <1>4, <2>1
  <2>6. Takes(f[base(k, 0)], <<rhs(k, 0)>>, f[base(k, 0)])
    <3>1. base(k, 0) \in 0 .. E /\ <<k, 0>> \in Nat \X Nat
      BY <1>1, <1>7
    <3> QED
      BY <3>1 DEF rhs
  <2> HIDE DEF base, s
  <2>7. seqs \in [1 .. N -> Seq(Instrs)]
    <3> SUFFICES ASSUME NEW i \in 1 .. N PROVE <<rhs(k, i - 1 + 1)>> \o column(k, i - 1) \in Seq(Instrs)
      OBVIOUS
    <3>1. i - 1 \in 0 .. N - 1
      BY <2>1
    <3> QED
      BY <2>3, <3>1 DEF Takes
  <2>8. \A i \in 0 .. N : g[i] \subseteq Seq(Instrs)
    BY <2>2
  <2>9. ASSUME NEW i \in 0 .. N - 1 PROVE Takes(g[i], seqs[i + 1], g[i + 1])
    <3>1. i \in 0 .. N /\ i + 1 \in 0 .. N /\ i + 1 \in 1 .. N /\ (i + 1) - 1 = i
      BY <2>1
    <3>2. seqs[i + 1] = <<rhs(k, i + 1)>> \o column(k, i)
      BY <3>1
    <3>3. g[i] = f[base(k, i)] /\ g[i + 1] = f[base(k, i + 1)]
      BY <3>1
    <3> HIDE DEF seqs, g
    <3> QED
      BY <2>3, <3>2, <3>3
  <2>10. g[0] = f[base(k, 0)] /\ g[N] = f[base(k, N)]
    BY <2>1
  <2>11. FlattenSeq(seqs) = turns(k)
    OBVIOUS
  <2>12. double(k) = <<rhs(k, 0)>> \o turns(k) \o column(k, N)
    OBVIOUS
  <2> HIDE DEF seqs, g, N
  <2>13. Takes(g[0], FlattenSeq(seqs), g[N])
    BY <2>1, <2>7, <2>8, <2>9, LoopTakes
  <2> HIDE DEF turns, double
  <2>14. Takes(f[base(k, 0)], <<rhs(k, 0)>> \o turns(k), f[base(k, N)])
    <3>1. 0 \in 0 .. N
      BY <2>1
    <3> QED
      BY <2>2, <2>6, <2>10, <2>11, <2>13, <3>1, ThenTakes
  <2>15. Takes(f[base(k, 0)], (<<rhs(k, 0)>> \o turns(k)) \o column(k, N), f[base(k, N + 1)])
    <3>1. 0 \in 0 .. N /\ N \in 0 .. N
      BY <2>1
    <3> QED
      BY <2>2, <2>5, <2>14, <3>1, ThenTakes
  <2> QED
    BY <2>4, <2>12, <2>15
<1> HIDE DEF single, double, turns
<1>10. ASSUME NEW k \in 0 .. c.k - 1
       PROVE  Takes(begin(k), depth(k), f[(k + 1) * s])
  <2>1. begin(k) \subseteq Seq(Instrs)
    <3>1. k * s \in 0 .. E - s
      BY <1>3
    <3> HIDE DEF s, E
    <3>2. k * s \in 0 .. E
      BY <1>1, <3>1
    <3> QED
      BY <3>2 DEF E
  <2> HIDE DEF s, begin
  <2> QED
    BY <1>5, <1>8, <1>9, <2>1, ThenTakes
<1>11. StageMatmul(c, stage, into, listen, finish)
         = FlattenSeq([i \in 1 .. c.k |-> depth(i - 1)]) \o finish
  BY DEF StageMatmul, Column, Multiply, Repeat, column, row, single, turns, double, lhs, rhs
<1> HIDE DEF depth
<1>12. Takes(U, FlattenSeq([i \in 1 .. c.k |-> depth(i - 1)]), f[E])
  <2> DEFINE K == c.k
             seqs == [i \in 1 .. K |-> depth(i - 1)]
             g == [i \in 0 .. K |-> begin(i)]
  <2>1. K \in Nat \ {0}
    BY <1>1
  <2>2. \A i \in 0 .. K : f[i * s] \subseteq Seq(Instrs)
    <3> SUFFICES ASSUME NEW i \in 0 .. K PROVE i * s \in 0 .. E
      OBVIOUS
    <3>1. CASE i = K
      <4>1. i * s = E /\ E \in 0 .. E
        <5>1. PICK s0 \in Nat, k0 \in Nat : s0 = s /\ k0 = K
          BY <1>1
        <5> HIDE DEF s, K, E
        <5>2. s0 * k0 = k0 * s0
          OBVIOUS
        <5> QED
          BY <1>16, <3>1, <5>1, <5>2 DEF K
      <4> QED
        BY <4>1
    <3>2. CASE i # K
      <4>1. i \in 0 .. c.k - 1
        BY <2>1, <3>2
      <4>2. i * s \in 0 .. E - s
        BY <1>3, <4>1
      <4> HIDE DEF s, E
      <4> QED
        BY <1>1, <4>2
    <3> QED
      BY <3>1, <3>2
  <2>3. \A i \in 0 .. K - 1 : Takes(begin(i), depth(i), f[(i + 1) * s])
    BY <1>10
  <2>4. 0 * s = 0 /\ K * s = E
    <3>1. PICK s0 \in Nat, k0 \in Nat : s0 = s /\ k0 = K
      BY <1>1
    <3> HIDE DEF s, K, E
    <3>2. s0 * k0 = k0 * s0 /\ 0 * s0 = 0
      OBVIOUS
    <3> QED
      BY <1>16, <3>1, <3>2 DEF K
  <2>11. begin(0) = U /\ \A i \in Nat \ {0} : begin(i) = f[i * s]
    OBVIOUS
  <2>12. \A i \in 0 .. K : begin(i) \subseteq Seq(Instrs)
    BY <2>2
  <2> HIDE DEF s, E, begin
  <2>5. seqs \in [1 .. K -> Seq(Instrs)]
    <3> SUFFICES ASSUME NEW i \in 1 .. K PROVE depth(i - 1) \in Seq(Instrs)
      OBVIOUS
    <3>1. i - 1 \in 0 .. K - 1
      BY <2>1
    <3> QED
      BY <2>3, <3>1 DEF Takes
  <2>6. \A i \in 0 .. K : g[i] \subseteq Seq(Instrs)
    BY <2>12
  <2>7. ASSUME NEW i \in 0 .. K - 1 PROVE Takes(g[i], seqs[i + 1], g[i + 1])
    <3>1. i \in 0 .. K /\ i + 1 \in 0 .. K /\ i + 1 \in 1 .. K /\ (i + 1) - 1 = i /\ i + 1 \in Nat \ {0}
      BY <2>1
    <3>2. seqs[i + 1] = depth(i) /\ g[i] = begin(i) /\ g[i + 1] = begin(i + 1)
      BY <3>1
    <3> HIDE DEF seqs, g
    <3> QED
      BY <2>3, <2>11, <3>1, <3>2
  <2>8. g[0] = U /\ g[K] = f[K * s]
    BY <2>1, <2>11
  <2>9. seqs = [i \in 1 .. c.k |-> depth(i - 1)]
    OBVIOUS
  <2> HIDE DEF seqs, g, K
  <2>10. Takes(g[0], FlattenSeq(seqs), g[K])
    BY <2>1, <2>5, <2>6, <2>7, LoopTakes
  <2> QED
    BY <2>4, <2>8, <2>9, <2>10
<1> DEFINE all == FlattenSeq([i \in 1 .. c.k |-> depth(i - 1)])
<1>14. Takes(U, all, f[E]) /\ Takes(f[E], finish, T)
  BY <1>12
<1> HIDE DEF all, E
<1>15. Takes(U, all \o finish, T)
  BY <1>14, ThenTakes
<1> QED
  BY <1>11, <1>15 DEF all

\* The same of what every read keeps, the first one too.
LEMMA StageMatmulTakes ==
  ASSUME NEW c, IsCase(c), NEW stage \in Nat, NEW into \in {A, B}, NEW listen, NEW finish, NEW f, NEW T,
         \A x \in 0 .. Events(c) : f[x] \subseteq Seq(Instrs),
         \A x \in 0 .. Events(c) - 1 : Takes(f[x], listen[x], f[x + 1]),
         \A x \in 0 .. Events(c) - c.m * c.n, tile \in Nat \X Nat :
           Takes(f[x], <<Read("lhs", BufferOf(c, "lhs", into), stage, tile)>>, f[x]),
         \A x \in 0 .. Events(c), tile \in Nat \X Nat :
           Takes(f[x], <<Read("rhs", into, stage, tile)>>, f[x]),
         Takes(f[Events(c)], finish, T)
  PROVE  Takes(f[0], StageMatmul(c, stage, into, listen, finish), T)
<1> DEFINE U == f[0]
<1>1. 0 \in 0 .. Events(c) /\ 0 \in 0 .. Events(c) - c.m * c.n
  <2>1. 0 \in 0 .. c.k - 1 /\ 0 \in 0 .. c.n - 1
    BY DEF IsCase
  <2>2. 0 * (c.m * c.n) \in 0 .. Events(c) - c.m * c.n
    BY <2>1, ColumnBounds
  <2>3. PICK s \in Nat : s = c.m * c.n
    BY EventsCount
  <2>4. Events(c) \in Nat /\ 0 * s = 0
    BY EventsCount
  <2> QED
    BY <2>2, <2>3, <2>4
<1>2. U \subseteq Seq(Instrs)
  BY <1>1
<1>3. \A tile \in Nat \X Nat : Takes(U, <<Read("lhs", BufferOf(c, "lhs", into), stage, tile)>>, f[0])
  BY <1>1
<1> HIDE DEF U
<1>4. Takes(U, StageMatmul(c, stage, into, listen, finish), T)
  BY <1>2, <1>3, StageMatmulStarts
<1> QED
  BY <1>4 DEF U

-----------------------------------------------------------------------------
(***************************************************************************)
(* The schedule.                                                           *)
(***************************************************************************)
\* Programs at the start of an epoch; at its end, with the views where the next
\* needs them; and in the last, whose loads nobody makes.
Ready(c, role, e) ==
  {P \in Seq(Instrs) : Scheduled(c, role, P) /\ Due(c, P, e) /\ NoneAhead(c, P, e) /\ LhsSynced(c, P, e)}
Viewing(c, role, e, v) ==
  {P \in Seq(Instrs) :
     /\ Scheduled(c, role, P) /\ Epoch(P, EndOf(P)) = e /\ WholeEpoch(c, Sides(c, role), P, e)
     /\ \A of \in Operands : Viewed(c, P, EndOf(P), of) = v[of]}
Final(c, role, e) ==
  {P \in Seq(Instrs) : Scheduled(c, role, P) /\ Epoch(P, EndOf(P)) = e /\ NoneAhead(c, P, e)}

\* `WholeJobs` fills an epoch.
LEMMA WholeJobsTake ==
  ASSUME NEW c, IsCase(c), NEW role \in Roles, NEW e \in Nat
  PROVE  Takes({P \in Seq(Instrs) : Scheduled(c, role, P) /\ Due(c, P, e) /\ LhsSynced(c, P, e)},
               WholeJobs(c, Sides(c, role), e % 2), Filled(c, role, e))
<1> DEFINE S == {P \in Seq(Instrs) : Scheduled(c, role, P) /\ Due(c, P, e) /\ LhsSynced(c, P, e)}
           done == [of \in Operands |-> 0]
<1>1. done \in [Operands -> Nat] /\ done["lhs"] = 0 /\ done["rhs"] = 0
  BY DEF Operands
<1>2. \A of \in Operands : done[of] <= TasksOf(c, Sides(c, role), of)
  <2>1. \A of \in Operands : TasksOf(c, Sides(c, role), of) \in Nat
    BY DEF TasksOf, IsCase
  <2> QED
    BY <2>1
<1>3. S \subseteq Loading(c, role, e, done)
  <2>1. Sides(c, role) \subseteq Operands
    BY DEF IsCase, Sides, Roles
  <2>2. \A of \in Sides(c, role) : 0 .. done[of] - 1 = {}
    BY <2>1
  <2> HIDE DEF done
  <2> QED
    BY <2>2 DEF Loading, Programs
<1> HIDE DEF done, S
<1>4. Takes(Loading(c, role, e, done),
            Job(c, Sides(c, role), "lhs", e % 2, done["lhs"]) \o Job(c, Sides(c, role), "rhs", e % 2, done["rhs"]),
            Filled(c, role, e))
  BY <1>1, <1>2, JobsTake
<1>5. WholeJobs(c, Sides(c, role), e % 2)
        = Job(c, Sides(c, role), "lhs", e % 2, done["lhs"]) \o Job(c, Sides(c, role), "rhs", e % 2, done["rhs"])
  BY <1>1 DEF WholeJobs
<1>6. Takes(S, WholeJobs(c, Sides(c, role), e % 2), Filled(c, role, e))
  BY <1>3, <1>4, <1>5 DEF Takes
<1> QED
  BY <1>6 DEF S

\* A read keeps what a stage matmul is at.
LEMMA ReadTakes ==
  ASSUME NEW c, IsCase(c), NEW e \in Nat, NEW x \in 0 .. Events(c), NEW of \in Operands,
         NEW tile \in Nat \X Nat, of = "lhs" => x <= Events(c) - c.m * c.n
  PROVE  Takes(Segment(c, e + 1, x), <<Read(of, BufferOf(c, of, e % 2), e, tile)>>, Segment(c, e + 1, x))
<1> DEFINE r == Read(of, BufferOf(c, of, e % 2), e, tile)
           early == x <= Events(c) - c.m * c.n
           done == RanAt(c, x)
<1>1. "main" \in Roles /\ early \in BOOLEAN
  BY DEF Roles
<1>2. Segment(c, e + 1, x) = Early(c, e + 1, done, early)
  BY DEF Segment
<1>3. of = "lhs" => early
  OBVIOUS
<1> HIDE DEF early, done
<1>4. r \in Instrs
  <2>1. BufferOf(c, of, e % 2) \in {A, B}
    BY Buffers
  <2> QED
    BY <2>1, Made
<1>5. ASSUME NEW P \in Early(c, e + 1, done, early) PROVE P \o <<r>> \in Early(c, e + 1, done, early)
  <2>1. P \in Seq(Instrs) /\ Scheduled(c, "main", P) /\ Due(c, P, e + 1) /\ (early => NoneAhead(c, P, e + 1))
        /\ \A o \in Sides(c, "main") : \A task \in 0 .. done[o] - 1 : Has(P, e + 1, o, task)
    BY DEF Early, Programs
  <2>2. Epoch(P, EndOf(P)) = e + 1
    BY <2>1 DEF Due
  <2> DEFINE Q == P \o <<r>>
  <2>3. /\ Q \in Seq(Instrs) /\ Scheduled(c, "main", Q)
        /\ Due(c, P, e + 1) => Due(c, Q, e + 1)
        /\ \A o, t : Has(P, e + 1, o, t) => Has(Q, e + 1, o, t)
        /\ NoneAhead(c, P, e + 1) => NoneAhead(c, Q, e + 1)
    BY <1>1, <1>3, <2>1, <2>2, ReadStep
  <2> HIDE DEF Q
  <2> QED
    BY <2>1, <2>3 DEF Early, Programs, Q
<1>6. <<r>> \in Seq(Instrs)
  BY <1>4
<1> HIDE DEF r
<1>7. Takes(Segment(c, e + 1, x), <<r>>, Segment(c, e + 1, x))
  BY <1>2, <1>5, <1>6 DEF Takes
<1> QED
  BY <1>7 DEF r

\* `execute_current_and_read_next` reads the stage of the epoch before, and fills this one's.
LEMMA ExecuteAndReadTakes ==
  ASSUME NEW c, IsCase(c), NEW role \in Roles, NEW e \in Nat
  PROVE  Takes(Ready(c, role, e + 1), ExecuteAndRead(c, role, e, e % 2), Filled(c, role, e + 1))
<1>1. e % 2 \in {A, B} /\ 1 - (e % 2) = (e + 1) % 2 /\ e + 1 \in Nat
  <2>1. 1 - (e % 2) = (e + 1) % 2
    OBVIOUS
  <2> QED
    BY <2>1, Buffers
<1>2. CASE role = "load"
  <2>1. Sides(c, role) = c.loadOnly
    BY <1>2 DEF Sides
  <2>2. ExecuteAndRead(c, role, e, e % 2) = WholeJobs(c, Sides(c, role), (e + 1) % 2)
    BY <1>1, <1>2, <2>1 DEF ExecuteAndRead
  <2>3. Takes({P \in Seq(Instrs) : Scheduled(c, role, P) /\ Due(c, P, e + 1) /\ LhsSynced(c, P, e + 1)},
              WholeJobs(c, Sides(c, role), (e + 1) % 2), Filled(c, role, e + 1))
    BY <1>1, WholeJobsTake
  <2> QED
    BY <2>2, <2>3 DEF Takes, Ready
<1>3. CASE role = "main"
  <2> DEFINE E == Events(c)
             listen == [x \in 0 .. E - 1 |-> OnEvent(c, c.main, (e + 1) % 2, x)]
             finish == OnFinish(c, c.main, (e + 1) % 2)
             f == [x \in 0 .. E |-> Segment(c, e + 1, x)]
             into == e % 2
             T == Filled(c, role, e + 1)
  <2>1. ExecuteAndRead(c, role, e, e % 2) = StageMatmul(c, e, e % 2, listen, finish)
    BY <1>1, <1>3 DEF ExecuteAndRead
  <2>2. E \in Nat /\ c.m * c.n \in Nat
    BY EventsCount
  <2>3. \A x \in 0 .. E : f[x] = Segment(c, e + 1, x) /\ f[x] \subseteq Seq(Instrs)
    BY DEF Segment, Early, Programs
  <2>4. \A x \in 0 .. E - 1 : Takes(Segment(c, e + 1, x), OnEvent(c, c.main, (e + 1) % 2, x), Segment(c, e + 1, x + 1))
    BY <1>1, OnEventTakes
  <2>5. \A x \in 0 .. E - 1 : Takes(f[x], listen[x], f[x + 1])
    <3> SUFFICES ASSUME NEW x \in 0 .. E - 1 PROVE Takes(f[x], listen[x], f[x + 1])
      OBVIOUS
    <3>1. x \in 0 .. E /\ x + 1 \in 0 .. E
      BY <2>2
    <3>2. listen[x] = OnEvent(c, c.main, (e + 1) % 2, x)
      OBVIOUS
    <3> HIDE DEF f, listen, E
    <3> QED
      BY <2>3, <2>4, <3>1, <3>2
  <2>6. \A x \in 0 .. E - c.m * c.n, tile \in Nat \X Nat :
          Takes(f[x], <<Read("lhs", BufferOf(c, "lhs", into), e, tile)>>, f[x])
    <3> SUFFICES ASSUME NEW x \in 0 .. E - c.m * c.n, NEW tile \in Nat \X Nat
                 PROVE  Takes(f[x], <<Read("lhs", BufferOf(c, "lhs", into), e, tile)>>, f[x])
      OBVIOUS
    <3>1. x \in 0 .. E /\ x <= E - c.m * c.n
      <4>1. PICK s \in Nat : s = c.m * c.n
        BY <2>2
      <4>2. x \in 0 .. E - s
        BY <4>1
      <4> HIDE DEF E
      <4>3. x \in 0 .. E /\ x <= E - s
        BY <2>2, <4>2
      <4> QED
        BY <4>1, <4>3
    <3>2. "lhs" \in Operands
      BY DEF Operands
    <3>3. Takes(Segment(c, e + 1, x), <<Read("lhs", BufferOf(c, "lhs", into), e, tile)>>, Segment(c, e + 1, x))
      BY <3>1, <3>2, ReadTakes
    <3> QED
      BY <2>3, <3>1, <3>3
  <2>7. \A x \in 0 .. E, tile \in Nat \X Nat : Takes(f[x], <<Read("rhs", into, e, tile)>>, f[x])
    <3> SUFFICES ASSUME NEW x \in 0 .. E, NEW tile \in Nat \X Nat
                 PROVE  Takes(f[x], <<Read("rhs", into, e, tile)>>, f[x])
      OBVIOUS
    <3>1. "rhs" \in Operands /\ BufferOf(c, "rhs", into) = into
      BY DEF Operands, BufferOf
    <3>2. Takes(Segment(c, e + 1, x), <<Read("rhs", BufferOf(c, "rhs", e % 2), e, tile)>>, Segment(c, e + 1, x))
      BY <3>1, ReadTakes
    <3> QED
      BY <2>3, <3>1, <3>2
  <2>8. Takes(f[E], finish, T)
    <3>1. E \in 0 .. E
      BY <2>2
    <3>2. Takes(Segment(c, e + 1, E), finish, T)
      BY <1>1, <1>3, OnFinishTakes
    <3> HIDE DEF f, finish, T
    <3> QED
      BY <2>3, <3>1, <3>2
  <2>9. Ready(c, role, e + 1) \subseteq f[0]
    <3>1. 0 \in 0 .. E
      BY <2>2
    <3>2. \A of \in Operands : RanAt(c, 0)[of] = 0
      BY RanSteps DEF RanAt
    <3>3. \A of \in Sides(c, "main") : 0 .. RanAt(c, 0)[of] - 1 = {}
      <4>1. Sides(c, "main") \subseteq Operands
        BY DEF IsCase, Sides
      <4> QED
        BY <3>2, <4>1
    <3>4. Ready(c, role, e + 1) \subseteq Segment(c, e + 1, 0)
      BY <1>3, <3>3 DEF Ready, Segment, Early, Programs
    <3> QED
      BY <2>3, <3>1, <3>4
  <2>10. into \in {A, B}
    BY <1>1
  <2> HIDE DEF f, finish, listen, into, T
  <2>11. Takes(f[0], StageMatmul(c, e, into, listen, finish), T)
    BY <2>3, <2>5, <2>6, <2>7, <2>8, <2>10, StageMatmulTakes
  <2> QED
    BY <2>1, <2>9, <2>11 DEF Takes, into, T
<1> QED
  BY <1>2, <1>3 DEF Roles

\* One view advanced.
LEMMA AdvanceTakes ==
  ASSUME NEW c, IsCase(c), NEW role \in Roles, NEW e \in Nat, NEW v \in [Operands -> Nat], NEW of \in Operands
  PROVE  Takes(Viewing(c, role, e, v), <<AdvanceView(of)>>,
               Viewing(c, role, e, [v EXCEPT ![of] = @ + Stride(c, of)]))
<1> DEFINE w == [v EXCEPT ![of] = @ + Stride(c, of)]
<1>1. ASSUME NEW P \in Viewing(c, role, e, v) PROVE P \o <<AdvanceView(of)>> \in Viewing(c, role, e, w)
  <2>1. P \in Seq(Instrs) /\ Scheduled(c, role, P) /\ Epoch(P, EndOf(P)) = e /\ WholeEpoch(c, Sides(c, role), P, e)
        /\ \A o \in Operands : Viewed(c, P, EndOf(P), o) = v[o]
    BY DEF Viewing
  <2> DEFINE Q == P \o <<AdvanceView(of)>>
  <2>2. /\ Q \in Seq(Instrs) /\ Scheduled(c, role, Q) /\ Epoch(Q, EndOf(Q)) = e
        /\ \A o \in Operands :
             Viewed(c, Q, EndOf(Q), o) = Viewed(c, P, EndOf(P), o) + (IF o = of THEN Stride(c, of) ELSE 0)
        /\ \A o, t : Has(P, e, o, t) => Has(Q, e, o, t)
    BY <2>1, AdvanceStep
  <2> HIDE DEF Q
  <2>3. \A o \in Operands : Viewed(c, Q, EndOf(Q), o) = w[o]
    BY <2>1, <2>2
  <2> HIDE DEF w
  <2> QED
    BY <2>1, <2>2, <2>3 DEF Viewing, WholeEpoch, Q
<1>2. <<AdvanceView(of)>> \in Seq(Instrs)
  BY Made
<1> QED
  BY <1>1, <1>2 DEF Takes

\* An instruction and another.
LEMMA OneThenOne ==
  ASSUME NEW x \in Instrs, NEW y \in Instrs
  PROVE  <<x>> \o <<y>> = <<x, y>>
<1> DEFINE s == <<x>> \o <<y>>
           t == <<x, y>>
<1>1. s \in Seq(Instrs) /\ Len(s) = 2 /\ s[1] = x /\ s[2] = y
  OBVIOUS
<1>2. t \in Seq(Instrs) /\ Len(t) = 2 /\ t[1] = x /\ t[2] = y
  OBVIOUS
<1> HIDE DEF s, t
<1>3. \A i \in 1 .. Len(s) : s[i] = t[i]
  <2>1. \A i \in 1 .. 2 : i = 1 \/ i = 2
    OBVIOUS
  <2> QED
    BY <1>1, <1>2, <2>1
<1>4. s = t
  BY <1>1, <1>2, <1>3, SeqEqual
<1> QED
  BY <1>4 DEF s, t

\* Both views go by two slices every other epoch, an ordered lhs by one in each.
LEMMA AdvancesTake ==
  ASSUME NEW c, IsCase(c), NEW role \in Roles, NEW e \in Nat, NEW both \in BOOLEAN, both <=> e % 2 = 1
  PROVE  Takes(Filled(c, role, e), Advances(c, both) \o <<SyncCube>>, Ready(c, role, e + 1))
<1> DEFINE v == [of \in Operands |-> e - BufferOf(c, of, e % 2)]
           w == [of \in Operands |-> (e + 1) - BufferOf(c, of, (e + 1) % 2)]
           u == [v EXCEPT !["lhs"] = @ + Stride(c, "lhs")]
           u2 == [u EXCEPT !["rhs"] = @ + Stride(c, "rhs")]
<1>1. "lhs" \in Operands /\ "rhs" \in Operands /\ \A of \in Operands : of = "lhs" \/ of = "rhs"
  BY DEF Operands
<1>2. /\ e % 2 = 0 \/ e % 2 = 1
      /\ e % 2 = 0 => (e + 1) % 2 = 1
      /\ e % 2 = 1 => (e + 1) % 2 = 0 /\ e >= 1
  OBVIOUS
<1>3. /\ BufferOf(c, "rhs", e % 2) = e % 2 /\ BufferOf(c, "rhs", (e + 1) % 2) = (e + 1) % 2
      /\ c.ordered => BufferOf(c, "lhs", e % 2) = 0 /\ BufferOf(c, "lhs", (e + 1) % 2) = 0
      /\ ~c.ordered => BufferOf(c, "lhs", e % 2) = e % 2 /\ BufferOf(c, "lhs", (e + 1) % 2) = (e + 1) % 2
      /\ Stride(c, "rhs") = 2 /\ (c.ordered => Stride(c, "lhs") = 1) /\ (~c.ordered => Stride(c, "lhs") = 2)
  BY DEF BufferOf, Stride, A
<1>4. v \in [Operands -> Nat] /\ w \in [Operands -> Nat] /\ u \in [Operands -> Nat]
  <2>1. \A of \in Operands : e - BufferOf(c, of, e % 2) \in Nat
    BY <1>1, <1>2, <1>3
  <2>2. \A of \in Operands : (e + 1) - BufferOf(c, of, (e + 1) % 2) \in Nat
    BY <1>1, <1>2, <1>3
  <2>3. v["lhs"] + Stride(c, "lhs") \in Nat
    BY <1>1, <1>3, <2>1
  <2> QED
    BY <2>1, <2>2, <2>3
<1>5. Filled(c, role, e) \subseteq Viewing(c, role, e, v)
  <2> SUFFICES ASSUME NEW P \in Filled(c, role, e) PROVE P \in Viewing(c, role, e, v)
    OBVIOUS
  <2>1. P \in Seq(Instrs) /\ Scheduled(c, role, P) /\ Due(c, P, e) /\ WholeEpoch(c, Sides(c, role), P, e)
    BY DEF Filled
  <2>2. EndOf(P) \in 1 .. Len(P) + 1
    BY <2>1 DEF EndOf
  <2>3. \A of \in Operands : Viewed(c, P, EndOf(P), of) \in Nat
    BY <2>1, <2>2, Made, Appended
  <2>4. \A of \in Operands : BufferOf(c, of, e % 2) \in Nat
    BY Buffers
  <2>5. \A of \in Operands : Viewed(c, P, EndOf(P), of) = v[of]
    BY <2>1, <2>3, <2>4 DEF Due
  <2> HIDE DEF v
  <2> QED
    BY <2>1, <2>5 DEF Viewing, Due
<1>6. \A x \in [Operands -> Nat] : Viewing(c, role, e, x) \subseteq Seq(Instrs)
  BY DEF Viewing
<1>7. Takes(Viewing(c, role, e, v), Advances(c, both), Viewing(c, role, e, w))
  <2>1. Takes(Viewing(c, role, e, v), <<AdvanceView("lhs")>>, Viewing(c, role, e, u))
    <3> HIDE DEF v
    <3> QED
      BY <1>1, <1>4, AdvanceTakes
  <2>2. Takes(Viewing(c, role, e, u), <<AdvanceView("rhs")>>, Viewing(c, role, e, u2))
    <3> HIDE DEF u
    <3> QED
      BY <1>1, <1>4, AdvanceTakes
  <2>3. Takes(Viewing(c, role, e, v), <<AdvanceView("lhs")>> \o <<AdvanceView("rhs")>>, Viewing(c, role, e, u2))
    <3> HIDE DEF v, u, u2
    <3> QED
      BY <1>4, <1>6, <2>1, <2>2, ThenTakes
  <2>4. Viewing(c, role, e, u) \subseteq Seq(Instrs) /\ Viewing(c, role, e, v) \subseteq Seq(Instrs)
    BY DEF Viewing
  <2>5. <<AdvanceView("lhs")>> \o <<AdvanceView("rhs")>> = <<AdvanceView("lhs"), AdvanceView("rhs")>>
    BY <1>1, Made, OneThenOne
  <2>6. <<AdvanceView("lhs")>> \o << >> = <<AdvanceView("lhs")>>
    <3>1. <<AdvanceView("lhs")>> \in Seq(Instrs)
      BY <2>1 DEF Takes
    <3> QED
      BY <3>1, ConcatEmptySeq
  <2>7. CASE c.ordered /\ both
    <3>1. u2 = w
      BY <1>1, <1>2, <1>3, <1>4, <2>7
    <3>2. Advances(c, both) = <<AdvanceView("lhs")>> \o <<AdvanceView("rhs")>>
      BY <2>7 DEF Advances
    <3> HIDE DEF v, u, u2, w
    <3> QED
      BY <2>3, <3>1, <3>2
  <2>8. CASE c.ordered /\ ~both
    <3>1. u["lhs"] = w["lhs"] /\ u["rhs"] = w["rhs"]
      BY <1>1, <1>2, <1>3, <1>4, <2>8
    <3>3. u = w
      <4> HIDE DEF u, w
      <4> QED
        BY <1>1, <1>4, <3>1
    <3>2. Advances(c, both) = <<AdvanceView("lhs")>>
      BY <2>6, <2>8 DEF Advances
    <3> HIDE DEF v, u, u2, w
    <3> QED
      BY <2>1, <3>2, <3>3
  <2>9. CASE ~c.ordered /\ both
    <3>1. u2 = w
      BY <1>1, <1>2, <1>3, <1>4, <2>9
    <3>2. Advances(c, both) = <<AdvanceView("lhs")>> \o <<AdvanceView("rhs")>>
      BY <2>5, <2>9 DEF Advances
    <3> HIDE DEF v, u, u2, w
    <3> QED
      BY <2>3, <3>1, <3>2
  <2>10. CASE ~c.ordered /\ ~both
    <3>1. v = w
      BY <1>1, <1>2, <1>3, <1>4, <2>10
    <3>2. Advances(c, both) = << >>
      BY <2>10 DEF Advances
    <3> HIDE DEF v, u, u2, w
    <3> QED
      BY <2>4, <3>1, <3>2, NothingTakes
  <2> QED
    BY <2>7, <2>8, <2>9, <2>10
<1>8. Takes(Viewing(c, role, e, w), <<SyncCube>>, Ready(c, role, e + 1))
  <2>1. ASSUME NEW P \in Viewing(c, role, e, w) PROVE P \o <<SyncCube>> \in Ready(c, role, e + 1)
    <3>1. P \in Seq(Instrs) /\ Scheduled(c, role, P) /\ Epoch(P, EndOf(P)) = e /\ WholeEpoch(c, Sides(c, role), P, e)
          /\ \A of \in Operands : Viewed(c, P, EndOf(P), of) = w[of]
      BY DEF Viewing
    <3> DEFINE Q == P \o <<SyncCube>>
    <3>2. /\ Q \in Seq(Instrs) /\ Scheduled(c, role, Q) /\ Epoch(Q, EndOf(Q)) = e + 1
          /\ \A o \in Operands : Viewed(c, Q, EndOf(Q), o) = Viewed(c, P, EndOf(P), o)
          /\ NoneAhead(c, Q, e + 1) /\ LhsSynced(c, Q, e + 1)
      BY <3>1, CubeStep
    <3> HIDE DEF Q
    <3>3. \A of \in Operands : BufferOf(c, of, (e + 1) % 2) \in Nat
      BY Buffers
    <3>4. \A of \in Operands : Viewed(c, Q, EndOf(Q), of) + BufferOf(c, of, (e + 1) % 2) = e + 1
      BY <3>1, <3>2, <3>3
    <3> HIDE DEF w
    <3> QED
      BY <3>2, <3>4 DEF Ready, Due, Q
  <2>2. <<SyncCube>> \in Seq(Instrs)
    BY Made
  <2> QED
    BY <2>1, <2>2 DEF Takes
<1> HIDE DEF v, w, u, u2
<1>9. Takes(Viewing(c, role, e, v), Advances(c, both) \o <<SyncCube>>, Ready(c, role, e + 1))
  BY <1>4, <1>6, <1>7, <1>8, ThenTakes
<1> QED
  BY <1>5, <1>9 DEF Takes

\* A turn of the loop: two stages computed, and the two after them loaded.
LEMMA TurnTakes ==
  ASSUME NEW c, IsCase(c), NEW role \in Roles, NEW i \in Nat
  PROVE  Takes(Ready(c, role, 2 * i + 1), Loop(c, role, i), Ready(c, role, 2 * (i + 1) + 1))
<1> DEFINE e == 2 * i
           first == ExecuteAndRead(c, role, e, A)
           second == ExecuteAndRead(c, role, e + 1, B)
           both == Advances(c, TRUE)
           one == Advances(c, FALSE)
<1>1. e \in Nat /\ e % 2 = A /\ (e + 1) % 2 = B /\ ((e + 1) + 1) % 2 # 1 /\ (e + 1) % 2 = 1
      /\ 2 * (i + 1) + 1 = ((e + 1) + 1) + 1
  BY DEF A, B
<1>2. Loop(c, role, i) = first \o both \o <<SyncCube>> \o second \o one \o <<SyncCube>>
  BY DEF Loop
<1> HIDE DEF e
<1>3. Takes(Ready(c, role, e + 1), first, Filled(c, role, e + 1))
  <2>1. Takes(Ready(c, role, e + 1), ExecuteAndRead(c, role, e, e % 2), Filled(c, role, e + 1))
    BY <1>1, ExecuteAndReadTakes
  <2>2. e % 2 = A
    BY <1>1
  <2>3. ExecuteAndRead(c, role, e, e % 2) = first
    BY <2>2, Zenon
  <2> QED
    BY <2>1, <2>3, Zenon
<1>4. Takes(Filled(c, role, e + 1), both \o <<SyncCube>>, Ready(c, role, (e + 1) + 1))
  <2>1. PICK b \in BOOLEAN : b = TRUE
    OBVIOUS
  <2>2. e + 1 \in Nat /\ (b <=> (e + 1) % 2 = 1)
    BY <1>1, <2>1
  <2>3. Takes(Filled(c, role, e + 1), Advances(c, b) \o <<SyncCube>>, Ready(c, role, (e + 1) + 1))
    BY <2>2, AdvancesTake
  <2>4. Advances(c, b) = both
    BY <2>1 DEF Advances
  <2> QED
    BY <2>3, <2>4, Zenon
<1>5. Takes(Ready(c, role, (e + 1) + 1), second, Filled(c, role, (e + 1) + 1))
  <2>1. Takes(Ready(c, role, (e + 1) + 1), ExecuteAndRead(c, role, e + 1, (e + 1) % 2), Filled(c, role, (e + 1) + 1))
    <3>1. e + 1 \in Nat
      BY <1>1
    <3> QED
      BY <3>1, ExecuteAndReadTakes
  <2>2. (e + 1) % 2 = B
    BY <1>1
  <2>3. ExecuteAndRead(c, role, e + 1, (e + 1) % 2) = second
    BY <2>2, Zenon
  <2> QED
    BY <2>1, <2>3, Zenon
<1>6. Takes(Filled(c, role, (e + 1) + 1), one \o <<SyncCube>>, Ready(c, role, ((e + 1) + 1) + 1))
  <2>1. PICK b \in BOOLEAN : b = FALSE
    OBVIOUS
  <2>2. (e + 1) + 1 \in Nat /\ (b <=> ((e + 1) + 1) % 2 = 1)
    BY <1>1, <2>1
  <2>3. Takes(Filled(c, role, (e + 1) + 1), Advances(c, b) \o <<SyncCube>>, Ready(c, role, ((e + 1) + 1) + 1))
    BY <2>2, AdvancesTake
  <2>4. Advances(c, b) = one
    BY <2>1 DEF Advances
  <2> QED
    BY <2>3, <2>4, Zenon
<1>7. \A k : Ready(c, role, k) \subseteq Seq(Instrs) /\ Filled(c, role, k) \subseteq Seq(Instrs)
  BY DEF Ready, Filled
<1>8. <<SyncCube>> \in Seq(Instrs)
  BY Made
<1>9. both \in Seq(Instrs) /\ one \in Seq(Instrs)
  <2>1. \A of \in Operands : AdvanceView(of) \in Instrs
    BY Made
  <2>2. <<AdvanceView("lhs")>> \in Seq(Instrs) /\ <<AdvanceView("rhs")>> \in Seq(Instrs) /\ << >> \in Seq(Instrs)
        /\ <<AdvanceView("lhs"), AdvanceView("rhs")>> \in Seq(Instrs)
    BY <2>1 DEF Operands
  <2>3. <<AdvanceView("lhs")>> \o <<AdvanceView("rhs")>> \in Seq(Instrs) /\ <<AdvanceView("lhs")>> \o << >> \in Seq(Instrs)
    BY <2>2, ConcatProperties
  <2> QED
    BY <2>2, <2>3 DEF Advances
<1> HIDE DEF first, second, both, one
<1>10. first \in Seq(Instrs) /\ second \in Seq(Instrs)
  BY <1>3, <1>5 DEF Takes
<1>11. Takes(Ready(c, role, e + 1), first \o (both \o <<SyncCube>>), Ready(c, role, (e + 1) + 1))
  BY <1>3, <1>4, <1>7, ThenTakes
<1>12. Takes(Ready(c, role, e + 1), (first \o (both \o <<SyncCube>>)) \o second, Filled(c, role, (e + 1) + 1))
  BY <1>5, <1>7, <1>11, ThenTakes
<1>13. Takes(Ready(c, role, e + 1), ((first \o (both \o <<SyncCube>>)) \o second) \o (one \o <<SyncCube>>),
             Ready(c, role, ((e + 1) + 1) + 1))
  BY <1>6, <1>7, <1>12, ThenTakes
<1>14. ((first \o (both \o <<SyncCube>>)) \o second) \o (one \o <<SyncCube>>) = Loop(c, role, i)
  <2>1. \A s, t, u \in Seq(Instrs) : s \o t \in Seq(Instrs) /\ (s \o t) \o u = s \o (t \o u)
    BY SMTT(30), ConcatAssociative, ConcatProperties
  <2> DEFINE sync == <<SyncCube>>
             head == (first \o (both \o sync)) \o second
  <2> HIDE DEF sync
  <2>2. first \o (both \o sync) = (first \o both) \o sync /\ sync \in Seq(Instrs)
    BY <1>8, <1>9, <1>10, <2>1 DEF sync
  <2>3. head \in Seq(Instrs)
    BY <1>9, <1>10, <2>1, <2>2
  <2>4. head = first \o both \o sync \o second
    BY <2>2, Zenon
  <2> HIDE DEF head
  <2>5. head \o (one \o sync) = (head \o one) \o sync
    BY <1>9, <2>1, <2>2, <2>3
  <2>6. Loop(c, role, i) = first \o both \o sync \o second \o one \o sync
    BY <1>2 DEF sync
  <2>7. head \o (one \o sync) = Loop(c, role, i)
    BY <2>4, <2>5, <2>6, Zenon
  <2> QED
    BY <2>7 DEF head, sync
<1> QED
  BY <1>1, <1>13, <1>14 DEF e

\* `execute_last_and_write_results` reads the last stage, and loads nothing.
LEMMA ExecuteLastTakes ==
  ASSUME NEW c, IsCase(c), NEW role \in Roles, NEW e \in Nat, e % 2 = B
  PROVE  Takes(Final(c, role, e + 1), ExecuteLast(c, role, e), Final(c, role, e + 1))
<1> DEFINE S == Final(c, role, e + 1)
<1>1. S \subseteq Seq(Instrs)
  BY DEF Final
<1>2. Takes(S, << >>, S)
  <2> HIDE DEF S
  <2> QED
    BY <1>1, NothingTakes
<1>3. CASE role # "main"
  BY <1>2, <1>3 DEF ExecuteLast
<1>4. CASE role = "main"
  <2> DEFINE E == Events(c)
             listen == [x \in 0 .. E - 1 |-> << >>]
             f == [x \in 0 .. E |-> S]
  <2>1. E \in Nat /\ c.m * c.n \in Nat
    BY EventsCount
  <2>2. ASSUME NEW of \in Operands, NEW tile \in Nat \X Nat
        PROVE  Takes(S, <<Read(of, BufferOf(c, of, B), e, tile)>>, S)
    <3> DEFINE r == Read(of, BufferOf(c, of, e % 2), e, tile)
    <3>1. r \in Instrs
      <4>1. BufferOf(c, of, e % 2) \in {A, B}
        BY Buffers
      <4> QED
        BY <4>1, Made
    <3>2. ASSUME NEW P \in S PROVE P \o <<r>> \in S
      <4>1. P \in Seq(Instrs) /\ Scheduled(c, role, P) /\ Epoch(P, EndOf(P)) = e + 1 /\ NoneAhead(c, P, e + 1)
        BY DEF Final
      <4> DEFINE Q == P \o <<r>>
      <4>2. Q \in Seq(Instrs) /\ Scheduled(c, role, Q) /\ Epoch(Q, EndOf(Q)) = e + 1 /\ NoneAhead(c, Q, e + 1)
        BY <4>1, ReadStep
      <4> HIDE DEF Q
      <4> QED
        BY <4>2 DEF Final, Q
    <3>3. <<r>> \in Seq(Instrs)
      BY <3>1
    <3> HIDE DEF S, r
    <3>4. Takes(S, <<r>>, S)
      BY <3>2, <3>3 DEF Takes
    <3> QED
      BY <3>4 DEF r
  <2> HIDE DEF S
  <2>3. \A x \in 0 .. E : f[x] = S
    OBVIOUS
  <2>4. \A x \in 0 .. E - 1 : Takes(f[x], listen[x], f[x + 1])
    <3> SUFFICES ASSUME NEW x \in 0 .. E - 1 PROVE Takes(f[x], listen[x], f[x + 1])
      OBVIOUS
    <3>1. x \in 0 .. E /\ x + 1 \in 0 .. E
      BY <2>1
    <3>2. listen[x] = << >>
      OBVIOUS
    <3> HIDE DEF f, listen
    <3> QED
      BY <1>2, <2>3, <3>1, <3>2
  <2>5. \A x \in 0 .. E - c.m * c.n, tile \in Nat \X Nat :
          Takes(f[x], <<Read("lhs", BufferOf(c, "lhs", B), e, tile)>>, f[x])
    <3> SUFFICES ASSUME NEW x \in 0 .. E - c.m * c.n, NEW tile \in Nat \X Nat
                 PROVE  Takes(f[x], <<Read("lhs", BufferOf(c, "lhs", B), e, tile)>>, f[x])
      OBVIOUS
    <3>1. x \in 0 .. E
      <4>1. PICK s \in Nat : s = c.m * c.n
        BY <2>1
      <4>2. x \in 0 .. E - s
        BY <4>1
      <4> HIDE DEF E
      <4> QED
        BY <2>1, <4>2
    <3>2. "lhs" \in Operands
      BY DEF Operands
    <3> HIDE DEF f
    <3> QED
      BY <2>2, <2>3, <3>1, <3>2
  <2>6. \A x \in 0 .. E, tile \in Nat \X Nat : Takes(f[x], <<Read("rhs", B, e, tile)>>, f[x])
    <3>1. "rhs" \in Operands /\ BufferOf(c, "rhs", B) = B
      BY DEF Operands, BufferOf
    <3> HIDE DEF f
    <3> QED
      BY <2>2, <2>3, <3>1
  <2>7. f[0] = S /\ f[E] = S
    BY <2>1
  <2>8. \A x \in 0 .. E : f[x] \subseteq Seq(Instrs)
    BY <1>1, <2>3
  <2> DEFINE into == B
             none == << >>
  <2>9. into \in {A, B}
    OBVIOUS
  <2>10. Takes(f[E], none, S)
    BY <1>2, <2>7
  <2>11. ExecuteLast(c, role, e) = StageMatmul(c, e, into, listen, none)
    BY <1>4 DEF ExecuteLast
  <2>12. /\ \A x \in 0 .. E - c.m * c.n, tile \in Nat \X Nat :
             Takes(f[x], <<Read("lhs", BufferOf(c, "lhs", into), e, tile)>>, f[x])
         /\ \A x \in 0 .. E, tile \in Nat \X Nat : Takes(f[x], <<Read("rhs", into, e, tile)>>, f[x])
    BY <2>5, <2>6
  <2> HIDE DEF f, listen, into, none
  <2>13. Takes(f[0], StageMatmul(c, e, into, listen, none), S)
    BY <2>4, <2>8, <2>9, <2>10, <2>12, StageMatmulTakes
  <2> QED
    BY <2>7, <2>11, <2>13 DEF S
<1> QED
  BY <1>3, <1>4

\* The loops go by two stages.
LEMMA LoopsCount ==
  ASSUME NEW c, IsCase(c)
  PROVE  NumLoops(c) \in Nat
<1>1. PICK n \in Nat \ {0} : n = c.needed
  BY DEF IsCase
<1>2. n + (n % 2) - 2 \in Nat
  OBVIOUS
<1>3. \A x \in Nat : x \div 2 \in Nat
  OBVIOUS
<1> QED
  BY <1>1, <1>2, <1>3 DEF NumLoops

\* Every unit's program is scheduled, whatever its role.
LEMMA ProgramScheduled ==
  ASSUME NEW c, IsCase(c), NEW role \in Roles
  PROVE  Program(c, role) \in Seq(Instrs) /\ Scheduled(c, role, Program(c, role))
<1> DEFINE n == NumLoops(c)
           jobs == WholeJobs(c, Sides(c, role), A)
           one == Advances(c, FALSE)
           sync == <<SyncCube>>
           seqs == [i \in 1 .. n |-> Loop(c, role, i - 1)]
           loops == FlattenSeq(seqs)
           e == 2 * n
           more == ExecuteAndRead(c, role, e, A)
           final == ExecuteLast(c, role, e + 1)
           Empty == {P \in Seq(Instrs) : Scheduled(c, role, P) /\ Due(c, P, 0) /\ LhsSynced(c, P, 0)}
<1>1. Program(c, role) = jobs \o one \o sync \o loops \o more \o sync \o final
  BY DEF Program, Repeat
<1>2. n \in Nat /\ e \in Nat /\ e % 2 = A /\ (e + 1) % 2 = B /\ 0 % 2 = A /\ 0 % 2 # 1
  <2>1. PICK k \in Nat : k = n
    BY LoopsCount
  <2>2. 2 * k \in Nat /\ (2 * k) % 2 = 0 /\ (2 * k + 1) % 2 = 1
    OBVIOUS
  <2> QED
    BY <2>1, <2>2 DEF A, B
<1>3. << >> \in Empty
  <2>1. << >> \in Seq(Instrs) /\ Len(<< >>) = 0
    BY EmptySeq
  <2>2. 1 .. 0 = {}
    OBVIOUS
  <2>3. Scheduled(c, role, << >>) /\ LhsSynced(c, << >>, 0)
    BY <2>1, <2>2 DEF Scheduled, LhsSynced
  <2>4. Epoch(<< >>, EndOf(<< >>)) = 0
    BY <2>1, CountsNone DEF Epoch, EndOf
  <2>5. \A of \in Operands : Viewed(c, << >>, EndOf(<< >>), of) + BufferOf(c, of, 0 % 2) = 0
    <3>1. \A of \in Operands : Before(<< >>, 1, AdvanceView(of)) = 0
      BY CountsNone
    <3>2. \A of \in Operands : Stride(c, of) * 0 = 0
      BY DEF Stride
    <3>3. \A of \in Operands : BufferOf(c, of, 0 % 2) = 0
      BY <1>2 DEF BufferOf, A
    <3> QED
      BY <2>1, <3>1, <3>2, <3>3 DEF Viewed, EndOf
  <2> QED
    BY <2>1, <2>3, <2>4, <2>5 DEF Due
<1>4. Takes(Empty, jobs, Filled(c, role, 0))
  <2>1. Takes(Empty, WholeJobs(c, Sides(c, role), 0 % 2), Filled(c, role, 0))
    BY WholeJobsTake
  <2> QED
    BY <1>2, <2>1
<1>5. Empty \subseteq Seq(Instrs)
  OBVIOUS
<1> HIDE DEF Empty
<1>6. Takes(Filled(c, role, 0), one \o sync, Ready(c, role, 0 + 1))
  BY <1>2, AdvancesTake
<1>7. Takes(Ready(c, role, 1), loops, Ready(c, role, 2 * n + 1))
  <2> DEFINE f == [i \in 0 .. n |-> Ready(c, role, 2 * i + 1)]
  <2> HIDE DEF n
  <2>1. \A i \in Nat : Takes(Ready(c, role, 2 * i + 1), Loop(c, role, i), Ready(c, role, 2 * (i + 1) + 1))
    BY TurnTakes
  <2>2. seqs \in [1 .. n -> Seq(Instrs)]
    <3> SUFFICES ASSUME NEW i \in 1 .. n PROVE Loop(c, role, i - 1) \in Seq(Instrs)
      OBVIOUS
    <3>1. i - 1 \in Nat
      BY <1>2
    <3> QED
      BY <2>1, <3>1 DEF Takes
  <2>3. \A i \in 0 .. n : f[i] \subseteq Seq(Instrs)
    BY DEF Ready
  <2>4. ASSUME NEW i \in 0 .. n - 1 PROVE Takes(f[i], seqs[i + 1], f[i + 1])
    <3>1. i \in Nat /\ i \in 0 .. n /\ i + 1 \in 0 .. n /\ i + 1 \in 1 .. n /\ (i + 1) - 1 = i
      BY <1>2
    <3>2. f[i] = Ready(c, role, 2 * i + 1) /\ f[i + 1] = Ready(c, role, 2 * (i + 1) + 1) /\ seqs[i + 1] = Loop(c, role, i)
      BY <3>1
    <3> HIDE DEF f, seqs
    <3> QED
      BY <2>1, <3>1, <3>2
  <2>5. f[0] = Ready(c, role, 1) /\ f[n] = Ready(c, role, 2 * n + 1)
    BY <1>2
  <2> HIDE DEF f, seqs
  <2>6. Takes(f[0], FlattenSeq(seqs), f[n])
    BY <1>2, <2>2, <2>3, <2>4, LoopTakes
  <2> QED
    BY <2>5, <2>6
<1> HIDE DEF e
<1>8. Takes(Ready(c, role, e + 1), more, Filled(c, role, e + 1))
  BY <1>2, ExecuteAndReadTakes
<1>9. Takes(Filled(c, role, e + 1), sync, Final(c, role, (e + 1) + 1))
  <2>1. ASSUME NEW P \in Filled(c, role, e + 1) PROVE P \o <<SyncCube>> \in Final(c, role, (e + 1) + 1)
    <3>1. P \in Seq(Instrs) /\ Scheduled(c, role, P) /\ Epoch(P, EndOf(P)) = e + 1
          /\ WholeEpoch(c, Sides(c, role), P, e + 1)
      BY DEF Filled, Due
    <3> DEFINE Q == P \o <<SyncCube>>
    <3>2. Q \in Seq(Instrs) /\ Scheduled(c, role, Q) /\ Epoch(Q, EndOf(Q)) = (e + 1) + 1 /\ NoneAhead(c, Q, (e + 1) + 1)
      <4>1. e + 1 \in Nat
        BY <1>2
      <4> QED
        BY <3>1, <4>1, CubeStep
    <3> HIDE DEF Q
    <3> QED
      BY <3>2 DEF Final, Q
  <2>2. <<SyncCube>> \in Seq(Instrs)
    BY Made
  <2> QED
    BY <2>1, <2>2 DEF Takes
<1>10. Takes(Final(c, role, (e + 1) + 1), final, Final(c, role, (e + 1) + 1))
  <2>1. e + 1 \in Nat
    BY <1>2
  <2> QED
    BY <1>2, <2>1, ExecuteLastTakes
<1>11. \A k : Ready(c, role, k) \subseteq Seq(Instrs) /\ Filled(c, role, k) \subseteq Seq(Instrs)
              /\ Final(c, role, k) \subseteq Seq(Instrs)
  BY DEF Ready, Filled, Final
<1>12. sync \in Seq(Instrs)
  BY Made
<1>13. one \in Seq(Instrs)
  <2>1. << >> \in Seq(Instrs) /\ <<AdvanceView("lhs")>> \in Seq(Instrs)
    BY Made DEF Operands
  <2>2. <<AdvanceView("lhs")>> \o << >> \in Seq(Instrs)
    BY <2>1, ConcatProperties
  <2> QED
    BY <2>1, <2>2 DEF Advances
<1>14. jobs \in Seq(Instrs)
  BY <1>4 DEF Takes
<1> HIDE DEF jobs, one, sync, loops, seqs, more, final
<1>15. jobs \o (one \o sync) = jobs \o one \o sync
  <2>1. \A s, t, u \in Seq(Instrs) : (s \o t) \o u = s \o (t \o u)
    BY SMTT(30), ConcatAssociative
  <2> QED
    BY <1>12, <1>13, <1>14, <2>1
<1>16. Takes(Empty, jobs \o one \o sync, Ready(c, role, 1))
  <2>1. Takes(Empty, jobs \o (one \o sync), Ready(c, role, 0 + 1))
    BY <1>4, <1>5, <1>6, <1>11, ThenTakes
  <2>2. 0 + 1 = 1
    OBVIOUS
  <2> QED
    BY <1>15, <2>1, <2>2, Zenon
<1>17. Takes(Empty, jobs \o one \o sync \o loops, Ready(c, role, e + 1))
  <2>1. Takes(Ready(c, role, 1), loops, Ready(c, role, e + 1))
    BY <1>7 DEF e
  <2> QED
    BY <1>5, <1>11, <1>16, <2>1, ThenTakes
<1>18. Takes(Empty, jobs \o one \o sync \o loops \o more, Filled(c, role, e + 1))
  BY <1>5, <1>8, <1>11, <1>17, ThenTakes
<1>19. Takes(Empty, jobs \o one \o sync \o loops \o more \o sync, Final(c, role, (e + 1) + 1))
  BY <1>5, <1>9, <1>11, <1>18, ThenTakes
<1>20. Takes(Empty, Program(c, role), Final(c, role, (e + 1) + 1))
  BY <1>1, <1>5, <1>10, <1>11, <1>19, ThenTakes
<1>21. Program(c, role) \in Seq(Instrs) /\ << >> \o Program(c, role) \in Final(c, role, (e + 1) + 1)
  BY <1>3, <1>20 DEF Takes
<1>22. << >> \o Program(c, role) = Program(c, role)
  BY <1>21, ConcatEmptySeq
<1>23. Program(c, role) \in Final(c, role, (e + 1) + 1)
  BY <1>21, <1>22
<1> QED
  BY <1>21, <1>23 DEF Final

-----------------------------------------------------------------------------
(***************************************************************************)
(* What a program loads and reads in all, over the same texts.             *)
(***************************************************************************)
\* Programs that loaded n jobs of a role, and of the next so many of the tasks of
\* each operand, and that read so many stages.
Reads(P, stage) == \E i \in 1 .. Len(P) : P[i].op = "read" /\ P[i].stage = stage
Tally(c, role, n, done, stages) ==
  {P \in Seq(Instrs) :
     /\ \A of \in Sides(c, role) : \A task \in 0 .. c.tasks[of] - 1 :
          Loads(P, of, task) = n + (IF task < done[of] THEN 1 ELSE 0)
     /\ \A stage \in 0 .. stages - 1 : Reads(P, stage)}
Unbegun == [of \in Operands |-> 0]

\* A program that grows by an instruction.
LEMMA LoadsGrow ==
  ASSUME NEW P \in Seq(Instrs), NEW x \in Instrs, NEW of, NEW task
  PROVE  LET Q == P \o <<x>>
             is == x.op = "load" /\ x.of = of /\ x.task = task IN
         /\ Q \in Seq(Instrs) /\ Loads(P, of, task) \in Nat
         /\ is => Loads(Q, of, task) = Loads(P, of, task) + 1
         /\ ~is => Loads(Q, of, task) = Loads(P, of, task)
         /\ \A stage : Reads(P, stage) => Reads(Q, stage)
         /\ \A stage : x.op = "read" /\ x.stage = stage => Reads(Q, stage)
<1> DEFINE Q == P \o <<x>>
           n == Len(P)
           is == x.op = "load" /\ x.of = of /\ x.task = task
           S == {k \in 1 .. n : LoadsAt(P, k, of, task)}
           T == {k \in 1 .. n + 1 : LoadsAt(Q, k, of, task)}
<1>1. /\ Q \in Seq(Instrs) /\ Len(Q) = n + 1 /\ Q[n + 1] = x /\ n \in Nat
      /\ \A k \in 1 .. n : Q[k] = P[k]
  BY ConcatProperties
<1> HIDE DEF Q, n
<1>2. \A k \in 1 .. n : LoadsAt(Q, k, of, task) <=> LoadsAt(P, k, of, task)
  BY <1>1 DEF LoadsAt
<1>3. LoadsAt(Q, n + 1, of, task) <=> is
  BY <1>1 DEF LoadsAt
<1>4. IsFiniteSet(S) /\ Cardinality(S) \in Nat
  <2>1. IsFiniteSet(1 .. n)
    BY <1>1, FS_Interval
  <2>2. S \subseteq 1 .. n
    OBVIOUS
  <2> QED
    BY <2>1, <2>2, FS_Subset, FS_CardinalityType
<1>5. n + 1 \notin S
  BY <1>1
<1>6. is => T = S \cup {n + 1}
  BY <1>1, <1>2, <1>3
<1>7. ~is => T = S
  BY <1>1, <1>2, <1>3
<1>8. Loads(P, of, task) = Cardinality(S) /\ Loads(Q, of, task) = Cardinality(T)
  BY <1>1 DEF Loads, n
<1> HIDE DEF S, T, is
<1>9. is => Cardinality(T) = Cardinality(S) + 1
  BY <1>4, <1>5, <1>6, FS_AddElement
<1>10. ASSUME NEW stage, Reads(P, stage) PROVE Reads(Q, stage)
  <2>1. PICK k \in 1 .. n : P[k].op = "read" /\ P[k].stage = stage
    BY <1>10 DEF Reads, n
  <2>2. k \in 1 .. n + 1 /\ Q[k] = P[k]
    BY <1>1
  <2> QED
    BY <1>1, <2>1, <2>2 DEF Reads
<1>11. ASSUME NEW stage, x.op = "read", x.stage = stage PROVE Reads(Q, stage)
  <2>1. n + 1 \in 1 .. Len(Q)
    BY <1>1
  <2> QED
    BY <1>1, <1>11, <2>1 DEF Reads
<1> QED
  BY <1>1, <1>4, <1>7, <1>8, <1>9, <1>10, <1>11 DEF Q, is

\* What is no load counts for none; a read of the next stage counts for it.
LEMMA QuietTallies ==
  ASSUME NEW c, IsCase(c), NEW role \in Roles, NEW n \in Nat, NEW done, NEW stages \in Nat,
         NEW x \in Instrs, x.op # "load"
  PROVE  /\ Takes(Tally(c, role, n, done, stages), <<x>>, Tally(c, role, n, done, stages))
         /\ x.op = "read" /\ x.stage = stages =>
              Takes(Tally(c, role, n, done, stages), <<x>>, Tally(c, role, n, done, stages + 1))
<1>1. ASSUME NEW P \in Tally(c, role, n, done, stages)
      PROVE  /\ P \o <<x>> \in Tally(c, role, n, done, stages)
             /\ x.op = "read" /\ x.stage = stages => P \o <<x>> \in Tally(c, role, n, done, stages + 1)
  <2>1. /\ P \in Seq(Instrs)
        /\ \A of \in Sides(c, role) : \A task \in 0 .. c.tasks[of] - 1 :
             Loads(P, of, task) = n + (IF task < done[of] THEN 1 ELSE 0)
        /\ \A stage \in 0 .. stages - 1 : Reads(P, stage)
    BY DEF Tally
  <2> DEFINE Q == P \o <<x>>
  <2>2. /\ Q \in Seq(Instrs)
        /\ \A of, task : Loads(Q, of, task) = Loads(P, of, task)
        /\ \A stage : Reads(P, stage) => Reads(Q, stage)
        /\ \A stage : x.op = "read" /\ x.stage = stage => Reads(Q, stage)
    BY <2>1, LoadsGrow
  <2> HIDE DEF Q
  <2>3. \A of \in Sides(c, role) : \A task \in 0 .. c.tasks[of] - 1 :
          Loads(Q, of, task) = n + (IF task < done[of] THEN 1 ELSE 0)
    BY <2>1, <2>2
  <2>4. \A stage \in 0 .. stages - 1 : Reads(Q, stage)
    BY <2>1, <2>2
  <2>5. x.op = "read" /\ x.stage = stages => \A stage \in 0 .. (stages + 1) - 1 : Reads(Q, stage)
    <3>1. \A stage \in 0 .. (stages + 1) - 1 : stage \in 0 .. stages - 1 \/ stage = stages
      OBVIOUS
    <3> QED
      BY <2>2, <2>4, <3>1
  <2> QED
    BY <2>2, <2>3, <2>4, <2>5 DEF Tally, Q
<1>2. <<x>> \in Seq(Instrs)
  OBVIOUS
<1> QED
  BY <1>1, <1>2 DEF Takes

\* A task counts once, for itself.
LEMMA TaskTallies ==
  ASSUME NEW c, IsCase(c), NEW role \in Roles, NEW n \in Nat, NEW done \in [Operands -> Nat], NEW stages \in Nat,
         NEW of \in Sides(c, role), NEW into \in {A, B}, done[of] < c.tasks[of]
  PROVE  Takes(Tally(c, role, n, done, stages), <<LoadTask(of, into, done[of])>>,
               Tally(c, role, n, [done EXCEPT ![of] = @ + 1], stages))
<1> DEFINE x == LoadTask(of, into, done[of])
           more == [done EXCEPT ![of] = @ + 1]
<1>1. of \in Operands /\ c.tasks[of] \in Nat /\ done[of] \in Nat
  BY DEF IsCase, Sides, Roles
<1>2. Sides(c, role) \subseteq Operands
  BY DEF IsCase, Sides, Roles
<1>3. x \in Instrs /\ x.op = "load" /\ x.of = of /\ x.task = done[of]
  BY <1>1, Made
<1> HIDE DEF x
<1>4. ASSUME NEW P \in Tally(c, role, n, done, stages) PROVE P \o <<x>> \in Tally(c, role, n, more, stages)
  <2>1. /\ P \in Seq(Instrs)
        /\ \A o \in Sides(c, role) : \A task \in 0 .. c.tasks[o] - 1 :
             Loads(P, o, task) = n + (IF task < done[o] THEN 1 ELSE 0)
        /\ \A stage \in 0 .. stages - 1 : Reads(P, stage)
    BY DEF Tally
  <2> DEFINE Q == P \o <<x>>
  <2>2. /\ Q \in Seq(Instrs)
        /\ \A o, task : Loads(P, o, task) \in Nat
        /\ \A o, task : Loads(Q, o, task) = IF o = of /\ task = done[of] THEN Loads(P, o, task) + 1
                                            ELSE Loads(P, o, task)
        /\ \A stage : Reads(P, stage) => Reads(Q, stage)
    <3>1. /\ Q \in Seq(Instrs) /\ \A o, task : Loads(P, o, task) \in Nat
          /\ \A stage : Reads(P, stage) => Reads(Q, stage)
      BY <1>3, <2>1, LoadsGrow
    <3>2. ASSUME NEW o, NEW task
          PROVE  Loads(Q, o, task) = IF o = of /\ task = done[of] THEN Loads(P, o, task) + 1
                                     ELSE Loads(P, o, task)
      <4>1. x.op = "load" /\ x.of = o /\ x.task = task <=> o = of /\ task = done[of]
        BY <1>3
      <4>2. /\ x.op = "load" /\ x.of = o /\ x.task = task => Loads(Q, o, task) = Loads(P, o, task) + 1
            /\ ~(x.op = "load" /\ x.of = o /\ x.task = task) => Loads(Q, o, task) = Loads(P, o, task)
        BY <1>3, <2>1, LoadsGrow
      <4> HIDE DEF Q
      <4> QED
        BY <4>1, <4>2
    <3> QED
      BY <3>1, <3>2
  <2> HIDE DEF Q
  <2>3. ASSUME NEW o \in Sides(c, role), NEW task \in 0 .. c.tasks[o] - 1
        PROVE  Loads(Q, o, task) = n + (IF task < more[o] THEN 1 ELSE 0)
    <3>1. Loads(P, o, task) = n + (IF task < done[o] THEN 1 ELSE 0)
      BY <2>1
    <3>2. o \in Operands /\ done[o] \in Nat /\ more[o] = IF o = of THEN done[o] + 1 ELSE done[o]
      BY <1>2
    <3> HIDE DEF more
    <3>3. CASE o = of /\ task = done[of]
      BY <2>2, <3>1, <3>2, <3>3
    <3>4. CASE o = of /\ task # done[of]
      <4>1. task \in Int /\ (task < done[o] + 1 <=> task < done[o])
        BY <3>2, <3>4
      <4> QED
        BY <2>2, <3>1, <3>2, <3>4, <4>1
    <3>5. CASE o # of
      BY <2>2, <3>1, <3>2, <3>5
    <3> QED
      BY <3>3, <3>4, <3>5
  <2> HIDE DEF more
  <2> QED
    BY <2>1, <2>2, <2>3 DEF Tally, Q
<1>5. <<x>> \in Seq(Instrs)
  BY <1>3
<1> HIDE DEF more
<1>6. Takes(Tally(c, role, n, done, stages), <<x>>, Tally(c, role, n, more, stages))
  BY <1>4, <1>5 DEF Takes
<1> QED
  BY <1>6 DEF x, more

\* A job finished begins the next.
LEMMA JobTallied ==
  ASSUME NEW c, IsCase(c), NEW role \in Roles, NEW n \in Nat, NEW stages,
         NEW done, \A of \in Sides(c, role) : done[of] = c.tasks[of]
  PROVE  Tally(c, role, n, done, stages) \subseteq Tally(c, role, n + 1, Unbegun, stages)
<1>1. \A of \in Sides(c, role) : of \in Operands /\ c.tasks[of] \in Nat
  BY DEF IsCase, Sides, Roles
<1>2. \A of \in Sides(c, role) : Unbegun[of] = 0
  BY <1>1 DEF Unbegun
<1>3. \A of \in Sides(c, role) : \A task \in 0 .. c.tasks[of] - 1 :
        task < done[of] /\ ~(task < Unbegun[of])
  BY <1>1, <1>2
<1> QED
  BY <1>3 DEF Tally

\* What is left of a job.
LEMMA JobTallies ==
  ASSUME NEW c, IsCase(c), NEW role \in Roles, NEW n \in Nat, NEW done \in [Operands -> Nat], NEW stages \in Nat,
         NEW of \in Operands, NEW into \in {A, B}, done[of] <= TasksOf(c, Sides(c, role), of)
  PROVE  Takes(Tally(c, role, n, done, stages), Job(c, Sides(c, role), of, into, done[of]),
               Tally(c, role, n, [done EXCEPT ![of] = TasksOf(c, Sides(c, role), of)], stages))
<1> DEFINE left == TasksOf(c, Sides(c, role), of) - done[of]
           x(i) == LoadTask(of, BufferOf(c, of, into), done[of] + i)
           seqs == [i \in 1 .. left |-> <<x(i - 1)>>]
           so(i) == [done EXCEPT ![of] = @ + i]
           f == [i \in 0 .. left |-> Tally(c, role, n, so(i), stages)]
<1>1. Job(c, Sides(c, role), of, into, done[of]) = FlattenSeq(seqs)
  BY DEF Job, Repeat
<1>2. TasksOf(c, Sides(c, role), of) \in Nat /\ done[of] \in Nat /\ left \in Nat
  BY DEF IsCase, TasksOf
<1>10. BufferOf(c, of, into) \in {A, B}
  BY DEF BufferOf
<1>3. \A i \in Nat : x(i) \in Instrs
  <2>2. \A i \in Nat : done[of] + i \in Nat
    BY <1>2
  <2> QED
    BY <1>10, <2>2, Made
<1>4. seqs \in [1 .. left -> Seq(Instrs)]
  <2>1. \A i \in 1 .. left : i - 1 \in Nat
    BY <1>2
  <2> HIDE DEF x
  <2> QED
    BY <1>3, <2>1
<1>5. \A i \in 0 .. left : f[i] \subseteq Seq(Instrs)
  BY DEF Tally
<1>6. ASSUME NEW i \in 0 .. left - 1 PROVE Takes(f[i], seqs[i + 1], f[i + 1])
  <2>1. i \in Nat /\ i + 1 \in 0 .. left /\ i \in 0 .. left /\ i + 1 \in 1 .. left /\ (i + 1) - 1 = i
    BY <1>2
  <2>2. so(i) \in [Operands -> Nat] /\ so(i)[of] = done[of] + i
    BY <1>2, <2>1
  <2>3. of \in Sides(c, role) /\ so(i)[of] < c.tasks[of]
    BY <1>2, <2>1, <2>2 DEF TasksOf
  <2>4. [so(i) EXCEPT ![of] = @ + 1] = so(i + 1)
    BY <1>2, <2>1
  <2>5. Takes(Tally(c, role, n, so(i), stages), <<LoadTask(of, BufferOf(c, of, into), so(i)[of])>>,
              Tally(c, role, n, [so(i) EXCEPT ![of] = @ + 1], stages))
    <3> DEFINE b == BufferOf(c, of, into)
    <3>1. b \in {A, B}
      BY <1>10
    <3> HIDE DEF so, b
    <3>2. Takes(Tally(c, role, n, so(i), stages), <<LoadTask(of, b, so(i)[of])>>,
                Tally(c, role, n, [so(i) EXCEPT ![of] = @ + 1], stages))
      BY <2>2, <2>3, <3>1, TaskTallies
    <3> QED
      BY <3>2 DEF b
  <2>6. seqs[i + 1] = <<x(i)>> /\ x(i) = LoadTask(of, BufferOf(c, of, into), so(i)[of])
    BY <2>1, <2>2
  <2>7. f[i] = Tally(c, role, n, so(i), stages) /\ f[i + 1] = Tally(c, role, n, so(i + 1), stages)
    BY <2>1
  <2> HIDE DEF seqs, f, so, x
  <2> QED
    BY <2>4, <2>5, <2>6, <2>7
<1>7. Takes(f[0], FlattenSeq(seqs), f[left])
  <2> HIDE DEF seqs, f, left
  <2> QED
    BY <1>2, <1>4, <1>5, <1>6, LoopTakes
<1>8. so(0) = done /\ so(left) = [done EXCEPT ![of] = TasksOf(c, Sides(c, role), of)]
  <2>1. done[of] + 0 = done[of] /\ done[of] + left = TasksOf(c, Sides(c, role), of)
    BY <1>2
  <2>2. [done EXCEPT ![of] = done[of]] = done
    OBVIOUS
  <2> HIDE DEF left
  <2> QED
    BY <2>1, <2>2
<1>9. f[0] = Tally(c, role, n, so(0), stages) /\ f[left] = Tally(c, role, n, so(left), stages)
  BY <1>2
<1> HIDE DEF f, so, seqs, left
<1> QED
  BY <1>1, <1>7, <1>8, <1>9

\* What is left of both.
LEMMA JobsTally ==
  ASSUME NEW c, IsCase(c), NEW role \in Roles, NEW n \in Nat, NEW done \in [Operands -> Nat], NEW stages \in Nat,
         NEW into \in {A, B}, \A of \in Operands : done[of] <= TasksOf(c, Sides(c, role), of)
  PROVE  Takes(Tally(c, role, n, done, stages),
               Job(c, Sides(c, role), "lhs", into, done["lhs"]) \o Job(c, Sides(c, role), "rhs", into, done["rhs"]),
               Tally(c, role, n + 1, Unbegun, stages))
<1> DEFINE sides == Sides(c, role)
           half == [done EXCEPT !["lhs"] = TasksOf(c, sides, "lhs")]
           whole == [half EXCEPT !["rhs"] = TasksOf(c, sides, "rhs")]
           first == Job(c, sides, "lhs", into, done["lhs"])
           second == Job(c, sides, "rhs", into, done["rhs"])
<1>1. TasksOf(c, sides, "lhs") \in Nat /\ "lhs" \in Operands /\ "rhs" \in Operands
  BY DEF IsCase, TasksOf, Operands
<1>2. half \in [Operands -> Nat] /\ half["rhs"] = done["rhs"] /\ half["rhs"] <= TasksOf(c, sides, "rhs")
  BY <1>1
<1>3. Takes(Tally(c, role, n, done, stages), first, Tally(c, role, n, half, stages))
  BY <1>1, JobTallies
<1>4. Takes(Tally(c, role, n, half, stages), second, Tally(c, role, n, whole, stages))
  <2> HIDE DEF half
  <2>1. Takes(Tally(c, role, n, half, stages), Job(c, sides, "rhs", into, half["rhs"]),
              Tally(c, role, n, whole, stages))
    BY <1>1, <1>2, JobTallies
  <2> QED
    BY <1>2, <2>1
<1>5. \A of \in sides : whole[of] = c.tasks[of]
  <2>1. \A of \in sides : of = "lhs" \/ of = "rhs"
    BY DEF IsCase, Sides, Roles, Operands
  <2>2. whole["lhs"] = TasksOf(c, sides, "lhs") /\ whole["rhs"] = TasksOf(c, sides, "rhs")
    BY <1>1
  <2> HIDE DEF whole
  <2> QED
    BY <2>1, <2>2 DEF TasksOf
<1> HIDE DEF half, whole, first, second
<1>6. Tally(c, role, n, whole, stages) \subseteq Tally(c, role, n + 1, Unbegun, stages)
  BY <1>5, JobTallied
<1>7. Tally(c, role, n, done, stages) \subseteq Seq(Instrs) /\ Tally(c, role, n, half, stages) \subseteq Seq(Instrs)
  BY DEF Tally
<1>8. Takes(Tally(c, role, n, done, stages), first \o second, Tally(c, role, n, whole, stages))
  BY <1>3, <1>4, <1>7, ThenTakes
<1> HIDE DEF sides
<1>9. Takes(Tally(c, role, n, done, stages), first \o second, Tally(c, role, n + 1, Unbegun, stages))
  BY <1>6, <1>8 DEF Takes
<1> QED
  BY <1>9 DEF first, second, sides

\* Whole jobs.
LEMMA WholeJobsTally ==
  ASSUME NEW c, IsCase(c), NEW role \in Roles, NEW n \in Nat, NEW stages \in Nat, NEW into \in {A, B}
  PROVE  Takes(Tally(c, role, n, Unbegun, stages), WholeJobs(c, Sides(c, role), into),
               Tally(c, role, n + 1, Unbegun, stages))
<1>1. Unbegun \in [Operands -> Nat] /\ Unbegun["lhs"] = 0 /\ Unbegun["rhs"] = 0
  BY DEF Unbegun, Operands
<1>2. \A of \in Operands : Unbegun[of] <= TasksOf(c, Sides(c, role), of)
  <2>1. \A of \in Operands : TasksOf(c, Sides(c, role), of) \in Nat /\ Unbegun[of] = 0
    BY DEF TasksOf, IsCase, Unbegun
  <2> QED
    BY <2>1
<1>3. Takes(Tally(c, role, n, Unbegun, stages),
            Job(c, Sides(c, role), "lhs", into, Unbegun["lhs"]) \o Job(c, Sides(c, role), "rhs", into, Unbegun["rhs"]),
            Tally(c, role, n + 1, Unbegun, stages))
  BY <1>1, <1>2, JobsTally
<1> QED
  BY <1>1, <1>3 DEF WholeJobs

\* The synchronism before a task.
LEMMA PlaneSyncTallies ==
  ASSUME NEW c, IsCase(c), NEW role \in Roles, NEW n \in Nat, NEW done, NEW stages \in Nat
  PROVE  Takes(Tally(c, role, n, done, stages), PlaneSync(c), Tally(c, role, n, done, stages))
<1>1. SyncPlane \in Instrs /\ SyncPlane.op # "load"
  BY Made DEF SyncPlane
<1>2. Takes(Tally(c, role, n, done, stages), <<SyncPlane>>, Tally(c, role, n, done, stages))
  BY <1>1, QuietTallies
<1>3. Tally(c, role, n, done, stages) \subseteq Seq(Instrs)
  BY DEF Tally
<1>4. Takes(Tally(c, role, n, done, stages), << >>, Tally(c, role, n, done, stages))
  BY <1>3, NothingTakes
<1> QED
  BY <1>2, <1>4 DEF PlaneSync

\* The task an event runs.
LEMMA EventTaskTallies ==
  ASSUME NEW c, IsCase(c), NEW n \in Nat, NEW done \in [Operands -> Nat], NEW stages \in Nat,
         NEW of \in c.main, NEW into \in {A, B}, done[of] < c.tasks[of]
  PROVE  Takes(Tally(c, "main", n, done, stages),
               PlaneSync(c) \o <<LoadTask(of, BufferOf(c, of, into), done[of])>>,
               Tally(c, "main", n, [done EXCEPT ![of] = @ + 1], stages))
<1> DEFINE b == BufferOf(c, of, into)
           more == [done EXCEPT ![of] = @ + 1]
<1>1. "main" \in Roles /\ Sides(c, "main") = c.main /\ b \in {A, B}
  BY DEF Roles, Sides, BufferOf
<1> HIDE DEF b
<1>2. Takes(Tally(c, "main", n, done, stages), <<LoadTask(of, b, done[of])>>, Tally(c, "main", n, more, stages))
  BY <1>1, TaskTallies
<1> HIDE DEF more
<1>3. Takes(Tally(c, "main", n, done, stages), PlaneSync(c), Tally(c, "main", n, done, stages))
  BY <1>1, PlaneSyncTallies
<1>4. Tally(c, "main", n, done, stages) \subseteq Seq(Instrs)
  BY DEF Tally
<1>5. Takes(Tally(c, "main", n, done, stages), PlaneSync(c) \o <<LoadTask(of, b, done[of])>>,
            Tally(c, "main", n, more, stages))
  BY <1>2, <1>3, <1>4, ThenTakes
<1> QED
  BY <1>5 DEF b, more

\* An event: a task of each operand at most.
LEMMA OnEventTallies ==
  ASSUME NEW c, IsCase(c), NEW n \in Nat, NEW stages \in Nat, NEW into \in {A, B}, NEW x \in 0 .. Events(c) - 1
  PROVE  Takes(Tally(c, "main", n, RanAt(c, x), stages), OnEvent(c, c.main, into, x),
               Tally(c, "main", n, RanAt(c, x + 1), stages))
<1> DEFINE ran(of) == Ran(c, c.main, of)[x]
           should(of) == ShouldExecute(c, c.main, of, ran(of), x)
           task(of) == IF should(of)
                       THEN PlaneSync(c) \o <<LoadTask(of, BufferOf(c, of, into), ran(of))>> ELSE << >>
           half == [of \in Operands |-> IF of = "lhs" THEN Ran(c, c.main, of)[x + 1] ELSE ran(of)]
           At(done) == Tally(c, "main", n, done, stages)
<1>1. OnEvent(c, c.main, into, x) = task("lhs") \o task("rhs")
  BY DEF OnEvent
<1>2. x \in 0 .. Events(c) /\ x + 1 \in 0 .. Events(c) /\ x \in Nat
  BY EventsCount
<1>3. \A of \in Operands :
        /\ ran(of) \in 0 .. TasksOf(c, c.main, of)
        /\ Ran(c, c.main, of)[x + 1] \in 0 .. TasksOf(c, c.main, of)
        /\ Ran(c, c.main, of)[x + 1] = ran(of) + (IF should(of) THEN 1 ELSE 0)
  BY <1>2, RanSteps
<1>4. "lhs" \in Operands /\ "rhs" \in Operands /\ \A of \in Operands : of = "lhs" \/ of = "rhs"
  BY DEF Operands
<1>5. \A of \in Operands : TasksOf(c, c.main, of) \in Nat
  BY DEF TasksOf, IsCase
<1>6. RanAt(c, x) \in [Operands -> Nat] /\ half \in [Operands -> Nat]
  <2>1. \A of \in Operands : ran(of) \in Nat /\ Ran(c, c.main, of)[x + 1] \in Nat
    BY <1>3, <1>5
  <2> QED
    BY <2>1 DEF RanAt
<1>8. \A of \in Operands : should(of) => of \in c.main /\ ran(of) < c.tasks[of]
  BY DEF ShouldExecute, TasksOf
<1>9. \A done : At(done) \subseteq Seq(Instrs)
  BY DEF Tally
<1>10. Takes(At(RanAt(c, x)), task("lhs"), At(half))
  <2>1. RanAt(c, x)["lhs"] = ran("lhs")
    BY <1>4 DEF RanAt
  <2>2. CASE should("lhs")
    <3>1. Takes(At(RanAt(c, x)),
                PlaneSync(c) \o <<LoadTask("lhs", BufferOf(c, "lhs", into), RanAt(c, x)["lhs"])>>,
                At([RanAt(c, x) EXCEPT !["lhs"] = @ + 1]))
      <4>1. "lhs" \in c.main /\ RanAt(c, x)["lhs"] < c.tasks["lhs"]
        BY <1>4, <1>8, <2>1, <2>2
      <4> QED
        BY <1>6, <4>1, EventTaskTallies
    <3>2. [RanAt(c, x) EXCEPT !["lhs"] = @ + 1] = half
      BY <1>3, <1>4, <2>2 DEF RanAt
    <3> QED
      BY <2>1, <2>2, <3>1, <3>2
  <2>3. CASE ~should("lhs")
    <3>1. RanAt(c, x) = half
      BY <1>3, <1>4, <2>3, <1>5 DEF RanAt
    <3>3. task("lhs") = << >>
      BY <2>3
    <3> HIDE DEF task, half, At
    <3> QED
      BY <1>9, <3>1, <3>3, NothingTakes
  <2> QED
    BY <2>2, <2>3
<1>11. Takes(At(half), task("rhs"), At(RanAt(c, x + 1)))
  <2>1. half["rhs"] = ran("rhs") /\ half["lhs"] = Ran(c, c.main, "lhs")[x + 1]
    BY <1>4
  <2>2. CASE should("rhs")
    <3>1. Takes(At(half),
                PlaneSync(c) \o <<LoadTask("rhs", BufferOf(c, "rhs", into), half["rhs"])>>,
                At([half EXCEPT !["rhs"] = @ + 1]))
      <4>1. "rhs" \in c.main /\ half["rhs"] < c.tasks["rhs"]
        BY <1>4, <1>8, <2>1, <2>2
      <4> HIDE DEF half
      <4> QED
        BY <1>6, <4>1, EventTaskTallies
    <3>2. [half EXCEPT !["rhs"] = @ + 1] = RanAt(c, x + 1)
      BY <1>3, <1>4, <2>2 DEF RanAt
    <3> QED
      BY <2>1, <2>2, <3>1, <3>2
  <2>3. CASE ~should("rhs")
    <3>1. RanAt(c, x + 1) = half
      BY <1>3, <1>4, <2>3, <1>5 DEF RanAt
    <3>3. task("rhs") = << >>
      BY <2>3
    <3> HIDE DEF task, half, At
    <3> QED
      BY <1>9, <3>1, <3>3, NothingTakes
  <2> QED
    BY <2>2, <2>3
<1> HIDE DEF task, half, At
<1>14. Takes(At(RanAt(c, x)), task("lhs") \o task("rhs"), At(RanAt(c, x + 1)))
  BY <1>9, <1>10, <1>11, ThenTakes
<1> QED
  BY <1>1, <1>14 DEF At

\* The end of a stage matmul, which loads what no event was left for.
LEMMA OnFinishTallies ==
  ASSUME NEW c, IsCase(c), NEW n \in Nat, NEW stages \in Nat, NEW into \in {A, B}
  PROVE  Takes(Tally(c, "main", n, RanAt(c, Events(c)), stages), OnFinish(c, c.main, into),
               Tally(c, "main", n + 1, Unbegun, stages))
<1> DEFINE done == RanAt(c, Events(c))
           rest == Job(c, c.main, "lhs", into, done["lhs"]) \o Job(c, c.main, "rhs", into, done["rhs"])
<1>1. OnFinish(c, c.main, into) = IF rest = << >> THEN << >> ELSE PlaneSync(c) \o rest
  BY DEF OnFinish, RanAt, Operands
<1>2. "main" \in Roles /\ Sides(c, "main") = c.main
  BY DEF Roles, Sides
<1>3. done \in [Operands -> Nat] /\ \A of \in Operands : done[of] <= TasksOf(c, Sides(c, "main"), of)
  <2>1. Events(c) \in 0 .. Events(c)
    BY EventsCount
  <2>2. \A of \in Operands : Ran(c, c.main, of)[Events(c)] \in 0 .. TasksOf(c, c.main, of)
    BY <2>1, RanSteps
  <2>3. \A of \in Operands : TasksOf(c, c.main, of) \in Nat
    BY DEF TasksOf, IsCase
  <2> QED
    BY <1>2, <2>2, <2>3 DEF RanAt
<1> HIDE DEF done
<1>4. Takes(Tally(c, "main", n, done, stages), rest, Tally(c, "main", n + 1, Unbegun, stages))
  BY <1>2, <1>3, JobsTally
<1>5. Takes(Tally(c, "main", n, done, stages), PlaneSync(c), Tally(c, "main", n, done, stages))
  BY <1>2, PlaneSyncTallies
<1>6. Tally(c, "main", n, done, stages) \subseteq Seq(Instrs)
  BY DEF Tally
<1> HIDE DEF rest
<1>7. Takes(Tally(c, "main", n, done, stages), PlaneSync(c) \o rest, Tally(c, "main", n + 1, Unbegun, stages))
  BY <1>4, <1>5, <1>6, ThenTakes
<1>8. Takes(Tally(c, "main", n, done, stages), OnFinish(c, c.main, into), Tally(c, "main", n + 1, Unbegun, stages))
  BY <1>1, <1>4, <1>7
<1> QED
  BY <1>8 DEF done

\* `execute_current_and_read_next`: a stage read, and a job of each operand.
Past(c, role, e) == Tally(c, role, e + 1, Unbegun, IF role = "main" THEN e ELSE 0)

LEMMA ExecuteAndReadTallies ==
  ASSUME NEW c, IsCase(c), NEW role \in Roles, NEW e \in Nat, NEW at0 \in {A, B}
  PROVE  Takes(Past(c, role, e), ExecuteAndRead(c, role, e, at0), Past(c, role, e + 1))
<1>1. 1 - at0 \in {A, B} /\ e + 1 \in Nat
  BY DEF A, B
<1>2. CASE role = "load"
  <2>1. Sides(c, role) = c.loadOnly /\ role # "main"
    BY <1>2 DEF Sides
  <2>2. ExecuteAndRead(c, role, e, at0) = WholeJobs(c, Sides(c, role), 1 - at0)
    BY <2>1 DEF ExecuteAndRead
  <2>3. Takes(Tally(c, role, e + 1, Unbegun, 0), WholeJobs(c, Sides(c, role), 1 - at0),
              Tally(c, role, (e + 1) + 1, Unbegun, 0))
    <3>1. PICK b \in {A, B} : b = 1 - at0
      BY <1>1
    <3>2. 0 \in Nat
      OBVIOUS
    <3>3. Takes(Tally(c, role, e + 1, Unbegun, 0), WholeJobs(c, Sides(c, role), b),
                Tally(c, role, (e + 1) + 1, Unbegun, 0))
      BY <1>1, <3>1, <3>2, WholeJobsTally
    <3> QED
      BY <3>1, <3>3
  <2> QED
    BY <2>1, <2>2, <2>3 DEF Past
<1>3. CASE role = "main"
  <2> DEFINE E == Events(c)
             into == 1 - at0
             listen == [x \in 0 .. E - 1 |-> OnEvent(c, c.main, into, x)]
             finish == OnFinish(c, c.main, into)
             Ahead(x) == Tally(c, "main", e + 1, RanAt(c, x), e + 1)
             f == [x \in 0 .. E |-> Ahead(x)]
             U == Tally(c, "main", e + 1, Unbegun, e)
             T == Tally(c, "main", (e + 1) + 1, Unbegun, e + 1)
  <2>1. ExecuteAndRead(c, role, e, at0) = StageMatmul(c, e, at0, listen, finish)
    BY <1>3 DEF ExecuteAndRead
  <2>2. E \in Nat /\ c.m * c.n \in Nat /\ "main" \in Roles /\ into \in {A, B}
    BY <1>1, EventsCount DEF Roles
  <2>3. (\A x \in 0 .. E : f[x] = Ahead(x) /\ f[x] \subseteq Seq(Instrs)) /\ U \subseteq Seq(Instrs)
    BY DEF Tally
  <2> HIDE DEF into
  <2>4. \A x \in 0 .. E - 1 : Takes(Ahead(x), OnEvent(c, c.main, into, x), Ahead(x + 1))
    BY <1>1, <2>2, OnEventTallies
  <2>5. \A x \in 0 .. E - 1 : Takes(f[x], listen[x], f[x + 1])
    <3> SUFFICES ASSUME NEW x \in 0 .. E - 1 PROVE Takes(f[x], listen[x], f[x + 1])
      OBVIOUS
    <3>1. x \in 0 .. E /\ x + 1 \in 0 .. E
      BY <2>2
    <3>2. listen[x] = OnEvent(c, c.main, into, x)
      OBVIOUS
    <3> HIDE DEF f, listen, E, Ahead
    <3> QED
      BY <2>3, <2>4, <3>1, <3>2
  <2>6. ASSUME NEW of \in Operands, NEW b \in {A, B}, NEW tile \in Nat \X Nat
        PROVE  /\ \A x \in 0 .. E : Takes(f[x], <<Read(of, b, e, tile)>>, f[x])
               /\ Takes(U, <<Read(of, b, e, tile)>>, f[0])
    <3> DEFINE r == Read(of, b, e, tile)
    <3>1. r \in Instrs /\ r.op = "read" /\ r.stage = e
      BY Made
    <3>2. r.op # "load"
      BY <3>1
    <3> HIDE DEF r
    <3>3. \A x \in 0 .. E : Takes(Ahead(x), <<r>>, Ahead(x))
      BY <1>1, <2>2, <3>1, <3>2, QuietTallies
    <3>4. Takes(U, <<r>>, Tally(c, "main", e + 1, Unbegun, e + 1))
      BY <1>1, <2>2, <3>1, <3>2, QuietTallies
    <3>5. f[0] = Tally(c, "main", e + 1, Unbegun, e + 1)
      <4>1. RanAt(c, 0) = Unbegun
        BY RanSteps DEF RanAt, Unbegun
      <4>2. 0 \in 0 .. E
        BY <2>2
      <4> HIDE DEF f
      <4> QED
        BY <2>3, <4>1, <4>2
    <3>6. (\A x \in 0 .. E : Takes(f[x], <<r>>, f[x])) /\ Takes(U, <<r>>, f[0])
      <4> HIDE DEF f, U, Ahead
      <4> QED
        BY <2>3, <3>3, <3>4, <3>5
    <3> QED
      BY <3>6 DEF r
  <2>7. /\ "lhs" \in Operands /\ "rhs" \in Operands /\ BufferOf(c, "lhs", at0) \in {A, B}
        /\ \A x \in 0 .. E - c.m * c.n : x \in 0 .. E
    <3>1. PICK s \in Nat : s = c.m * c.n
      BY <2>2
    <3>2. \A x \in 0 .. E - s : x \in 0 .. E
      <4> HIDE DEF E
      <4> QED
        BY <2>2
    <3> QED
      BY <3>1, <3>2 DEF Operands, BufferOf
  <2>8. Takes(f[E], finish, T)
    <3>1. E \in 0 .. E
      BY <2>2
    <3>2. Takes(Ahead(E), finish, T)
      BY <1>1, <2>2, OnFinishTallies
    <3> HIDE DEF f, finish, T, Ahead
    <3> QED
      BY <2>3, <3>1, <3>2
  <2> HIDE DEF f, finish, listen, U, T, Ahead
  <2>9. \A x \in 0 .. E - c.m * c.n, tile \in Nat \X Nat :
          Takes(f[x], <<Read("lhs", BufferOf(c, "lhs", at0), e, tile)>>, f[x])
    BY <2>6, <2>7
  <2>10. \A x \in 0 .. E, tile \in Nat \X Nat : Takes(f[x], <<Read("rhs", at0, e, tile)>>, f[x])
    BY <2>6, <2>7
  <2>11. \A tile \in Nat \X Nat : Takes(U, <<Read("lhs", BufferOf(c, "lhs", at0), e, tile)>>, f[0])
    BY <2>6, <2>7
  <2>12. Takes(U, StageMatmul(c, e, at0, listen, finish), T)
    BY <2>3, <2>5, <2>8, <2>9, <2>10, <2>11, StageMatmulStarts
  <2> QED
    BY <1>3, <2>1, <2>12 DEF Past, U, T
<1> QED
  BY <1>2, <1>3 DEF Roles

\* `execute_last_and_write_results` reads the last stage.
LEMMA ExecuteLastTallies ==
  ASSUME NEW c, IsCase(c), NEW role \in Roles, NEW n \in Nat, NEW e \in Nat
  PROVE  Takes(Tally(c, role, n, Unbegun, IF role = "main" THEN e ELSE 0), ExecuteLast(c, role, e),
               Tally(c, role, n, Unbegun, IF role = "main" THEN e + 1 ELSE 0))
<1>1. CASE role # "main"
  <2>1. Tally(c, role, n, Unbegun, 0) \subseteq Seq(Instrs)
    BY DEF Tally
  <2>2. Takes(Tally(c, role, n, Unbegun, 0), << >>, Tally(c, role, n, Unbegun, 0))
    BY <2>1, NothingTakes
  <2> QED
    BY <1>1, <2>2 DEF ExecuteLast
<1>2. CASE role = "main"
  <2> DEFINE E == Events(c)
             into == B
             none == << >>
             listen == [x \in 0 .. E - 1 |-> << >>]
             U == Tally(c, role, n, Unbegun, e)
             T == Tally(c, role, n, Unbegun, e + 1)
             f == [x \in 0 .. E |-> T]
  <2>1. E \in Nat /\ c.m * c.n \in Nat /\ into \in {A, B}
    BY EventsCount
  <2>2. (\A x \in 0 .. E : f[x] = T) /\ T \subseteq Seq(Instrs) /\ U \subseteq Seq(Instrs)
    BY DEF Tally
  <2>3. Takes(T, << >>, T)
    <3> HIDE DEF T
    <3> QED
      BY <2>2, NothingTakes
  <2>4. ASSUME NEW of \in Operands, NEW b \in {A, B}, NEW tile \in Nat \X Nat
        PROVE  Takes(T, <<Read(of, b, e, tile)>>, T) /\ Takes(U, <<Read(of, b, e, tile)>>, T)
    <3> DEFINE r == Read(of, b, e, tile)
    <3>1. r \in Instrs /\ r.op = "read" /\ r.stage = e
      BY Made
    <3>2. r.op # "load" /\ e + 1 \in Nat
      BY <3>1
    <3> HIDE DEF r
    <3>3. Takes(T, <<r>>, T) /\ Takes(U, <<r>>, T)
      BY <3>1, <3>2, QuietTallies
    <3> QED
      BY <3>3 DEF r
  <2>5. /\ "lhs" \in Operands /\ "rhs" \in Operands /\ BufferOf(c, "lhs", into) \in {A, B}
        /\ \A x \in 0 .. E - c.m * c.n : x \in 0 .. E
        /\ 0 \in 0 .. E /\ E \in 0 .. E
    <3>1. PICK s \in Nat : s = c.m * c.n
      BY <2>1
    <3>2. (\A x \in 0 .. E - s : x \in 0 .. E) /\ 0 \in 0 .. E /\ E \in 0 .. E
      <4> HIDE DEF E
      <4> QED
        BY <2>1
    <3> QED
      BY <3>1, <3>2 DEF Operands, BufferOf
  <2>6. \A x \in 0 .. E - 1 : Takes(f[x], listen[x], f[x + 1])
    <3> SUFFICES ASSUME NEW x \in 0 .. E - 1 PROVE Takes(f[x], listen[x], f[x + 1])
      OBVIOUS
    <3>1. x \in 0 .. E /\ x + 1 \in 0 .. E
      BY <2>1
    <3>2. listen[x] = << >>
      OBVIOUS
    <3> HIDE DEF f, listen, T, E
    <3> QED
      BY <2>2, <2>3, <3>1, <3>2
  <2>7. ExecuteLast(c, role, e) = StageMatmul(c, e, into, listen, none)
    BY <1>2 DEF ExecuteLast
  <2>8. Takes(f[E], none, T)
    <3> HIDE DEF f, T
    <3> QED
      BY <2>2, <2>3, <2>5
  <2> HIDE DEF f, listen, U, T, into, none
  <2>9. \A x \in 0 .. E : f[x] \subseteq Seq(Instrs)
    BY <2>2
  <2>10. \A x \in 0 .. E - c.m * c.n, tile \in Nat \X Nat :
          Takes(f[x], <<Read("lhs", BufferOf(c, "lhs", into), e, tile)>>, f[x])
    BY <2>2, <2>4, <2>5
  <2>11. \A x \in 0 .. E, tile \in Nat \X Nat : Takes(f[x], <<Read("rhs", into, e, tile)>>, f[x])
    BY <2>1, <2>2, <2>4, <2>5
  <2>12. \A tile \in Nat \X Nat : Takes(U, <<Read("lhs", BufferOf(c, "lhs", into), e, tile)>>, f[0])
    BY <2>2, <2>4, <2>5
  <2>13. Takes(U, StageMatmul(c, e, into, listen, none), T)
    BY <2>1, <2>2, <2>6, <2>8, <2>9, <2>10, <2>11, <2>12, StageMatmulStarts
  <2> QED
    BY <1>2, <2>7, <2>13 DEF U, T
<1> QED
  BY <1>1, <1>2

\* Views advance, and the cube meets: nothing is loaded nor read.
LEMMA AdvancesTally ==
  ASSUME NEW c, IsCase(c), NEW role \in Roles, NEW n \in Nat, NEW stages \in Nat, NEW both \in BOOLEAN
  PROVE  LET S == Tally(c, role, n, Unbegun, stages) IN
         /\ Takes(S, Advances(c, both), S) /\ Takes(S, <<SyncCube>>, S)
         /\ Takes(S, Advances(c, both) \o <<SyncCube>>, S)
<1> DEFINE S == Tally(c, role, n, Unbegun, stages)
           lhs == <<AdvanceView("lhs")>>
           rhs == <<AdvanceView("rhs")>>
<1>1. /\ SyncCube \in Instrs /\ SyncCube.op # "load"
      /\ AdvanceView("lhs") \in Instrs /\ AdvanceView("lhs").op # "load"
      /\ AdvanceView("rhs") \in Instrs /\ AdvanceView("rhs").op # "load"
  BY Made DEF SyncCube, AdvanceView, Operands
<1>2. S \subseteq Seq(Instrs)
  BY DEF Tally
<1>3. Takes(S, lhs, S) /\ Takes(S, rhs, S) /\ Takes(S, <<SyncCube>>, S)
  BY <1>1, QuietTallies
<1>4. lhs \o rhs = <<AdvanceView("lhs"), AdvanceView("rhs")>>
  BY <1>1, OneThenOne
<1> HIDE DEF S, lhs, rhs
<1>5. Takes(S, << >>, S)
  BY <1>2, NothingTakes
<1>6. Takes(S, lhs \o rhs, S) /\ Takes(S, lhs \o << >>, S)
  BY <1>2, <1>3, <1>5, ThenTakes
<1>7. Advances(c, both) \in {lhs \o rhs, lhs \o << >>, << >>}
  BY <1>4 DEF Advances, lhs, rhs
<1>8. Takes(S, Advances(c, both), S)
  BY <1>5, <1>6, <1>7
<1>9. Takes(S, Advances(c, both) \o <<SyncCube>>, S)
  BY <1>2, <1>3, <1>8, ThenTakes
<1> QED
  BY <1>3, <1>8, <1>9 DEF S

\* A turn of the loop: two stages, and two jobs of each operand.
LEMMA TurnTallies ==
  ASSUME NEW c, IsCase(c), NEW role \in Roles, NEW i \in Nat
  PROVE  Takes(Past(c, role, 2 * i), Loop(c, role, i), Past(c, role, 2 * (i + 1)))
<1> DEFINE e == 2 * i
           first == ExecuteAndRead(c, role, e, A)
           second == ExecuteAndRead(c, role, e + 1, B)
           both == Advances(c, TRUE)
           one == Advances(c, FALSE)
           sync == <<SyncCube>>
           S(k) == Past(c, role, k)
<1>1. e \in Nat /\ e + 1 \in Nat /\ 2 * (i + 1) = (e + 1) + 1 /\ A \in {A, B} /\ B \in {A, B}
  OBVIOUS
<1>2. Loop(c, role, i) = first \o both \o sync \o second \o one \o sync
  BY DEF Loop
<1>3. \A k \in Nat : Takes(S(k), both, S(k)) /\ Takes(S(k), one, S(k)) /\ Takes(S(k), sync, S(k))
  <2> SUFFICES ASSUME NEW k \in Nat
               PROVE  Takes(S(k), both, S(k)) /\ Takes(S(k), one, S(k)) /\ Takes(S(k), sync, S(k))
    OBVIOUS
  <2>1. k + 1 \in Nat /\ (IF role = "main" THEN k ELSE 0) \in Nat
    OBVIOUS
  <2>2. PICK yes \in BOOLEAN, no \in BOOLEAN : yes = TRUE /\ no = FALSE
    OBVIOUS
  <2>3. Takes(S(k), Advances(c, yes), S(k)) /\ Takes(S(k), Advances(c, no), S(k)) /\ Takes(S(k), sync, S(k))
    BY <2>1, AdvancesTally DEF Past
  <2>4. Advances(c, yes) = both /\ Advances(c, no) = one
    BY <2>2 DEF Advances
  <2> HIDE DEF S, both, one, sync
  <2> QED
    BY <2>3, <2>4
<1> HIDE DEF e
<1>4. Takes(S(e), first, S(e + 1)) /\ Takes(S(e + 1), second, S((e + 1) + 1))
  BY <1>1, ExecuteAndReadTallies
<1>5. \A k : S(k) \subseteq Seq(Instrs)
  BY DEF Past, Tally
<1>6. (e + 1) + 1 \in Nat
  BY <1>1
<1> HIDE DEF first, second, both, one, sync, S
<1>7. Takes(S(e), first \o both, S(e + 1))
  BY <1>1, <1>3, <1>4, <1>5, ThenTakes
<1>8. Takes(S(e), first \o both \o sync, S(e + 1))
  BY <1>1, <1>3, <1>5, <1>7, ThenTakes
<1>9. Takes(S(e), first \o both \o sync \o second, S((e + 1) + 1))
  BY <1>4, <1>5, <1>8, ThenTakes
<1>10. Takes(S(e), first \o both \o sync \o second \o one, S((e + 1) + 1))
  BY <1>3, <1>5, <1>6, <1>9, ThenTakes
<1>11. Takes(S(e), first \o both \o sync \o second \o one \o sync, S((e + 1) + 1))
  BY <1>3, <1>5, <1>6, <1>10, ThenTakes
<1>12. Takes(S(e), Loop(c, role, i), S(2 * (i + 1)))
  BY <1>1, <1>2, <1>11
<1> QED
  BY <1>12 DEF S, e

\* A program brings every task of as many jobs as there are stages, made even,
\* once each, and the main flow reads every stage.
LEMMA ProgramTallies ==
  ASSUME NEW c, IsCase(c), NEW role \in Roles
  PROVE  /\ \A of \in Sides(c, role) : \A task \in 0 .. c.tasks[of] - 1 :
              Loads(Program(c, role), of, task) = c.needed + (c.needed % 2)
         /\ role = "main" => \A stage \in 0 .. c.needed - 1 : Reads(Program(c, role), stage)
<1> DEFINE n == NumLoops(c)
           jobs == WholeJobs(c, Sides(c, role), A)
           one == Advances(c, FALSE)
           sync == <<SyncCube>>
           seqs == [i \in 1 .. n |-> Loop(c, role, i - 1)]
           loops == FlattenSeq(seqs)
           e == 2 * n
           more == ExecuteAndRead(c, role, e, A)
           final == ExecuteLast(c, role, e + 1)
           Empty == Tally(c, role, 0, Unbegun, 0)
           S(k) == Past(c, role, k)
           Whole == Tally(c, role, e + 2, Unbegun, IF role = "main" THEN e + 2 ELSE 0)
<1>1. Program(c, role) = jobs \o one \o sync \o loops \o more \o sync \o final
  BY DEF Program, Repeat
<1>2. n \in Nat /\ e \in Nat /\ e + 2 = c.needed + (c.needed % 2) /\ c.needed \in Nat /\ c.needed <= e + 2
  <2>1. PICK k \in Nat : k = n
    BY LoopsCount
  <2>2. PICK m \in Nat \ {0} : m = c.needed
    BY DEF IsCase
  <2>3. m % 2 \in {0, 1} /\ k = (m + (m % 2) - 2) \div 2
    BY <2>1, <2>2 DEF NumLoops
  <2>4. 2 * k + 2 = m + (m % 2) /\ 2 * k \in Nat /\ m <= 2 * k + 2
    BY <2>3
  <2> HIDE DEF n
  <2>5. n \in Nat /\ e \in Nat /\ c.needed \in Nat /\ c.needed <= e + 2
    BY <2>1, <2>2, <2>4
  <2>6. e + 2 = c.needed + (c.needed % 2)
    BY <2>1, <2>2, <2>4, Zenon
  <2> QED
    BY <2>5, <2>6
<1>3. << >> \in Empty
  <2>1. << >> \in Seq(Instrs) /\ Len(<< >>) = 0 /\ 1 .. 0 = {} /\ 0 .. 0 - 1 = {}
    BY EmptySeq
  <2>2. \A of, task : Loads(<< >>, of, task) = 0
    <3>1. \A of, task : {k \in 1 .. Len(<< >>) : LoadsAt(<< >>, k, of, task)} = {}
      BY <2>1
    <3> QED
      BY <3>1, FS_EmptySet DEF Loads
  <2>3. \A of \in Sides(c, role) : \A task \in 0 .. c.tasks[of] - 1 : ~(task < Unbegun[of])
    <3>1. \A of \in Sides(c, role) : of \in Operands /\ c.tasks[of] \in Nat
      BY DEF IsCase, Sides, Roles
    <3> QED
      BY <3>1 DEF Unbegun
  <2> QED
    BY <2>1, <2>2, <2>3 DEF Tally
<1>4. Takes(Empty, jobs, S(0))
  <2>1. A \in {A, B} /\ 0 \in Nat
    OBVIOUS
  <2>2. Takes(Tally(c, role, 0, Unbegun, 0), jobs, Tally(c, role, 0 + 1, Unbegun, 0))
    BY <2>1, WholeJobsTally
  <2> QED
    BY <2>2 DEF Past
<1>5. \A k \in Nat : Takes(S(k), one, S(k)) /\ Takes(S(k), sync, S(k))
  <2> SUFFICES ASSUME NEW k \in Nat PROVE Takes(S(k), one, S(k)) /\ Takes(S(k), sync, S(k))
    OBVIOUS
  <2>1. k + 1 \in Nat /\ (IF role = "main" THEN k ELSE 0) \in Nat
    OBVIOUS
  <2>2. PICK no \in BOOLEAN : no = FALSE
    OBVIOUS
  <2>3. Takes(S(k), Advances(c, no), S(k)) /\ Takes(S(k), sync, S(k))
    BY <2>1, AdvancesTally DEF Past
  <2>4. Advances(c, no) = one
    BY <2>2 DEF Advances
  <2> HIDE DEF S, one, sync
  <2> QED
    BY <2>3, <2>4
<1>6. Takes(S(0), loops, S(e))
  <2> DEFINE f == [i \in 0 .. n |-> Past(c, role, 2 * i)]
  <2> HIDE DEF n
  <2>1. \A i \in Nat : Takes(Past(c, role, 2 * i), Loop(c, role, i), Past(c, role, 2 * (i + 1)))
    BY TurnTallies
  <2>2. seqs \in [1 .. n -> Seq(Instrs)]
    <3> SUFFICES ASSUME NEW i \in 1 .. n PROVE Loop(c, role, i - 1) \in Seq(Instrs)
      OBVIOUS
    <3>1. i - 1 \in Nat
      BY <1>2
    <3> QED
      BY <2>1, <3>1 DEF Takes
  <2>3. \A i \in 0 .. n : f[i] \subseteq Seq(Instrs)
    BY DEF Past, Tally
  <2>4. ASSUME NEW i \in 0 .. n - 1 PROVE Takes(f[i], seqs[i + 1], f[i + 1])
    <3>1. i \in Nat /\ i \in 0 .. n /\ i + 1 \in 0 .. n /\ i + 1 \in 1 .. n /\ (i + 1) - 1 = i
      BY <1>2
    <3>2. f[i] = Past(c, role, 2 * i) /\ f[i + 1] = Past(c, role, 2 * (i + 1)) /\ seqs[i + 1] = Loop(c, role, i)
      BY <3>1
    <3> HIDE DEF f, seqs
    <3> QED
      BY <2>1, <3>1, <3>2
  <2>5. f[0] = S(0) /\ f[n] = S(e)
    BY <1>2
  <2> HIDE DEF f, seqs
  <2>6. Takes(f[0], FlattenSeq(seqs), f[n])
    BY <1>2, <2>2, <2>3, <2>4, LoopTakes
  <2> QED
    BY <2>5, <2>6
<1> HIDE DEF e
<1>7. Takes(S(e), more, S(e + 1))
  <2>1. A \in {A, B}
    OBVIOUS
  <2> QED
    BY <1>2, <2>1, ExecuteAndReadTallies
<1>8. Takes(S(e + 1), final, Whole)
  <2>1. e + 1 \in Nat /\ e + 2 \in Nat /\ (e + 1) + 1 = e + 2
    BY <1>2
  <2>2. Takes(Tally(c, role, e + 2, Unbegun, IF role = "main" THEN e + 1 ELSE 0), final,
              Tally(c, role, e + 2, Unbegun, IF role = "main" THEN (e + 1) + 1 ELSE 0))
    BY <2>1, ExecuteLastTallies
  <2> HIDE DEF final
  <2> QED
    BY <2>1, <2>2 DEF Past
<1>9. (\A k : S(k) \subseteq Seq(Instrs)) /\ Empty \subseteq Seq(Instrs) /\ 0 \in Nat /\ e + 1 \in Nat
  BY <1>2 DEF Past, Tally
<1> HIDE DEF jobs, one, sync, loops, seqs, more, final, S, Empty
<1>10. Takes(Empty, jobs \o one, S(0))
  BY <1>4, <1>5, <1>9, ThenTakes
<1>11. Takes(Empty, jobs \o one \o sync, S(0))
  BY <1>5, <1>9, <1>10, ThenTakes
<1>12. Takes(Empty, jobs \o one \o sync \o loops, S(e))
  BY <1>6, <1>9, <1>11, ThenTakes
<1>13. Takes(Empty, jobs \o one \o sync \o loops \o more, S(e + 1))
  BY <1>7, <1>9, <1>12, ThenTakes
<1>14. Takes(Empty, jobs \o one \o sync \o loops \o more \o sync, S(e + 1))
  BY <1>5, <1>9, <1>13, ThenTakes
<1> HIDE DEF Whole
<1>15. Takes(Empty, Program(c, role), Whole)
  BY <1>1, <1>8, <1>9, <1>14, ThenTakes
<1>16. Program(c, role) \in Seq(Instrs) /\ << >> \o Program(c, role) \in Whole
  BY <1>3, <1>15 DEF Takes
<1>17. Program(c, role) \in Whole
  BY <1>16, ConcatEmptySeq
<1>18. \A of \in Sides(c, role) : \A task \in 0 .. c.tasks[of] - 1 : ~(task < Unbegun[of])
  <2>1. \A of \in Sides(c, role) : of \in Operands /\ c.tasks[of] \in Nat
    BY DEF IsCase, Sides, Roles
  <2> QED
    BY <2>1 DEF Unbegun
<1>19. \A of \in Sides(c, role) : \A task \in 0 .. c.tasks[of] - 1 : Loads(Program(c, role), of, task) = (e + 2) + 0
  BY <1>17, <1>18 DEF Whole, Tally
<1>20. role = "main" => \A stage \in 0 .. (e + 2) - 1 : Reads(Program(c, role), stage)
  BY <1>17 DEF Whole, Tally
<1>21. \A stage \in 0 .. c.needed - 1 : stage \in 0 .. (e + 2) - 1
  BY <1>2
<1> QED
  BY <1>2, <1>19, <1>20, <1>21

-----------------------------------------------------------------------------
(***************************************************************************)
(* The units.                                                              *)
(***************************************************************************)
\* Every case there is is one.
LEMMA CasesAre ==
  ASSUME NEW c \in Cases
  PROVE  IsCase(c)
BY CasesAssumption DEF IsCase, Operands

\* What a unit runs, and where it is.
LEMMA Shape ==
  ASSUME TypeOK
  PROVE  /\ IsCase(case)
         /\ \A u \in Units :
              /\ Role(u) \in Roles /\ Text(u) = Program(case, Role(u))
              /\ Text(u) \in Seq(Instrs) /\ Scheduled(case, Role(u), Text(u))
              /\ at[u] \in 1 .. Len(Text(u)) + 1
              /\ Runs(u) => at[u] \in 1 .. Len(Text(u)) /\ Instr(u) \in Instrs
              /\ Now(u) \in Nat
<1>1. IsCase(case)
  BY CasesAre DEF TypeOK
<1>2. ASSUME NEW u \in Units
      PROVE  /\ Role(u) \in Roles /\ Text(u) = Program(case, Role(u))
             /\ Text(u) \in Seq(Instrs) /\ Scheduled(case, Role(u), Text(u))
             /\ at[u] \in 1 .. Len(Text(u)) + 1
             /\ Runs(u) => at[u] \in 1 .. Len(Text(u)) /\ Instr(u) \in Instrs
             /\ Now(u) \in Nat
  <2>1. Role(u) \in Roles
    BY DEF Role, Roles
  <2>2. Text(u) = Program(case, Role(u))
    BY <2>1 DEF TypeOK, Text
  <2>3. Text(u) \in Seq(Instrs) /\ Scheduled(case, Role(u), Text(u))
    BY <1>1, <2>1, <2>2, ProgramScheduled
  <2>4. Len(Text(u)) \in Nat /\ at[u] \in Nat \ {0} /\ at[u] <= Len(Text(u)) + 1
    BY <2>3 DEF TypeOK
  <2>5. at[u] \in 1 .. Len(Text(u)) + 1
    BY <2>4
  <2>6. Runs(u) => at[u] \in 1 .. Len(Text(u)) /\ Instr(u) \in Instrs
    <3>1. Runs(u) => at[u] \in 1 .. Len(Text(u))
      BY <2>4 DEF Runs
    <3> QED
      BY <2>3, <3>1 DEF Instr
  <2>7. Now(u) \in Nat
    BY <2>3, <2>5, Counts DEF Now, Epoch
  <2> QED
    BY <2>1, <2>2, <2>3, <2>5, <2>6, <2>7
<1> QED
  BY <1>1, <1>2

\* Units that move past an instruction.
Moves(M) ==
  /\ UNCHANGED launch /\ M \subseteq Units /\ \A u \in M : Runs(u)
  /\ at' = [u \in Units |-> IF u \in M THEN at[u] + 1 ELSE at[u]]

\* What is counted, and loaded, by those that move.
LEMMA MovesCount ==
  ASSUME TypeOK, NEW M, Moves(M)
  PROVE  /\ case' = case /\ text' = text
         /\ at' \in [Units -> Nat \ {0}]
         /\ \A u \in Units :
              /\ Role(u)' = Role(u) /\ Text(u)' = Text(u) /\ at'[u] <= Len(Text(u)) + 1
              /\ \A y : Before(Text(u)', at'[u], y)
                          = Before(Text(u), at[u], y) + (IF u \in M /\ Instr(u) = y THEN 1 ELSE 0)
              /\ \A y : Before(Text(u), at[u], y) \in Nat
              /\ \A of, into, task, e :
                   LoadedInto(u, of, into, task, e)'
                     <=> \/ LoadedInto(u, of, into, task, e)
                         \/ /\ u \in M /\ LoadsAt(Text(u), at[u], of, task)
                            /\ Instr(u).at = into /\ Now(u) = e
<1>1. case' = case /\ text' = text
  BY DEF Moves, launch
<1>2. \A u \in Units : Role(u)' = Role(u) /\ Text(u)' = Text(u)
  BY <1>1 DEF Role, Text
<1>3. ASSUME NEW u \in Units
      PROVE  /\ at'[u] \in Nat \ {0} /\ at'[u] <= Len(Text(u)) + 1
             /\ \A y : Before(Text(u)', at'[u], y)
                          = Before(Text(u), at[u], y) + (IF u \in M /\ Instr(u) = y THEN 1 ELSE 0)
             /\ \A y : Before(Text(u), at[u], y) \in Nat
             /\ \A of, into, task, e :
                   LoadedInto(u, of, into, task, e)'
                     <=> \/ LoadedInto(u, of, into, task, e)
                         \/ /\ u \in M /\ LoadsAt(Text(u), at[u], of, task)
                            /\ Instr(u).at = into /\ Now(u) = e
  <2>1. Text(u) \in Seq(Instrs) /\ at[u] \in 1 .. Len(Text(u)) + 1 /\ Len(Text(u)) \in Nat
    BY Shape
  <2>2. \A y : Before(Text(u), at[u], y) \in Nat
    BY <2>1, Counts
  <2>3. Text(u)' = Text(u)
    BY <1>2
  <2>4. CASE u \in M
    <3>1. at[u] <= Len(Text(u)) /\ at'[u] = at[u] + 1
      BY <2>4 DEF Moves, Runs
    <3>2. \A y : Before(Text(u), at[u] + 1, y) = Before(Text(u), at[u], y) + (IF Text(u)[at[u]] = y THEN 1 ELSE 0)
      BY <2>1, <3>1, Counts
    <3>3. \A i : i \in 1 .. (at[u] + 1) - 1 <=> i \in 1 .. at[u] - 1 \/ i = at[u]
      BY <2>1
    <3>4. at[u] + 1 \in Nat \ {0} /\ at[u] + 1 <= Len(Text(u)) + 1
      BY <2>1, <3>1
    <3>5. \A of, into, task, e :
                   LoadedInto(u, of, into, task, e)'
                     <=> \/ LoadedInto(u, of, into, task, e)
                         \/ /\ LoadsAt(Text(u), at[u], of, task)
                            /\ Instr(u).at = into /\ Now(u) = e
      BY <2>3, <3>1, <3>3 DEF LoadedInto, Instr, Now
    <3> QED
      BY <2>2, <2>3, <2>4, <3>1, <3>2, <3>4, <3>5 DEF Instr
  <2>5. CASE u \notin M
    <3>1. at'[u] = at[u]
      BY <2>5 DEF Moves
    <3>2. \A of, into, task, e : LoadedInto(u, of, into, task, e)' <=> LoadedInto(u, of, into, task, e)
      BY <2>3, <3>1 DEF LoadedInto
    <3> QED
      BY <2>1, <2>2, <2>3, <2>5, <3>1, <3>2
  <2> QED
    BY <2>4, <2>5
<1>4. at' \in [Units -> Nat \ {0}]
  <2>1. at' = [u \in Units |-> at'[u]]
    BY DEF Moves
  <2> QED
    BY <1>3, <2>1
<1> QED
  BY <1>1, <1>2, <1>3, <1>4

\* A load is of the slice of its epoch, for a piece of the stage.
LEMMA LoadIsOfItsEpoch ==
  ASSUME TypeOK, ViewsFollow, NEW u \in Units, IsAt(u, "load")
  PROVE  /\ Instr(u).of \in Operands /\ Instr(u).of \in Sides(case, Role(u))
         /\ Instr(u).task \in 0 .. case.tasks[Instr(u).of] - 1
         /\ Instr(u).at = BufferOf(case, Instr(u).of, Now(u) % 2) /\ Instr(u).at \in {A, B}
         /\ SliceOf(u) = Now(u) /\ PieceOf(u) \in Pieces(Instr(u).of) /\ PieceOf(u) \in Units \X Nat
<1> DEFINE l == Instr(u)
<1>1. at[u] \in 1 .. Len(Text(u)) /\ l \in Instrs /\ l.op = "load" /\ Scheduled(case, Role(u), Text(u)) /\ Now(u) \in Nat
  BY Shape DEF IsAt
<1>2. LoadIsDue(case, Role(u), Text(u), at[u])
  BY <1>1 DEF Scheduled, Instr
<1>3. l.of \in Operands /\ l.task \in Nat
  BY <1>1, Kinds
<1>4. /\ l.of \in Sides(case, Role(u)) /\ l.task \in 0 .. case.tasks[l.of] - 1
      /\ l.at = BufferOf(case, l.of, Now(u) % 2) /\ Viewed(case, Text(u), at[u], l.of) + l.at = Now(u)
  BY <1>2 DEF LoadIsDue, Now, Instr
<1>5. SliceOf(u) = Now(u)
  BY <1>3, <1>4 DEF ViewsFollow, SliceOf
<1>6. PieceOf(u) \in Pieces(l.of) /\ PieceOf(u) \in Units \X Nat
  BY <1>3, <1>4 DEF PieceOf, Pieces, Loaders
<1>7. l.at \in {A, B}
  BY <1>1, <1>4, Buffers
<1> QED
  BY <1>3, <1>4, <1>5, <1>6, <1>7

\* So was whatever was loaded.
LEMMA LoadedIsOfItsEpoch ==
  ASSUME TypeOK, NEW u \in Units, NEW of, NEW into, NEW task, NEW e, LoadedInto(u, of, into, task, e)
  PROVE  /\ of \in Sides(case, Role(u)) /\ task \in 0 .. case.tasks[of] - 1
         /\ into = BufferOf(case, of, e % 2) /\ e \in Nat /\ e <= Now(u)
<1>1. PICK i \in 1 .. at[u] - 1 : LoadsAt(Text(u), i, of, task) /\ Text(u)[i].at = into /\ Epoch(Text(u), i) = e
  BY DEF LoadedInto
<1>2. Text(u) \in Seq(Instrs) /\ Scheduled(case, Role(u), Text(u)) /\ at[u] \in 1 .. Len(Text(u)) + 1
  BY Shape
<1>3. i \in 1 .. Len(Text(u)) /\ i \in 1 .. Len(Text(u)) + 1 /\ at[u] \in i .. Len(Text(u)) + 1
  BY <1>2
<1>4. LoadIsDue(case, Role(u), Text(u), i)
  BY <1>1, <1>2, <1>3 DEF Scheduled, LoadsAt
<1>5. of \in Sides(case, Role(u)) /\ task \in 0 .. case.tasks[of] - 1 /\ into = BufferOf(case, of, e % 2)
  BY <1>1, <1>4 DEF LoadIsDue, LoadsAt
<1>6. e \in Nat /\ e <= Now(u)
  BY <1>1, <1>2, <1>3, Counts, CountsGrow DEF Epoch, Now
<1> QED
  BY <1>5, <1>6

\* Where the units are in step they stay so, if they meet together.
LEMMA InStepKept ==
  ASSUME TypeOK, InStep, NEW M, Moves(M),
         \A u, v \in Units :
           /\ (u \in M /\ Instr(u) = SyncCube) <=> (v \in M /\ Instr(v) = SyncCube)
           /\ u[1] = v[1] => ((u \in M /\ Instr(u) = SyncPlane) <=> (v \in M /\ Instr(v) = SyncPlane))
  PROVE  InStep'
<1> SUFFICES ASSUME NEW u \in Units, NEW v \in Units
             PROVE  /\ Now(u)' = Now(v)'
                    /\ u[1] = v[1] => Before(Text(u), at[u], SyncPlane)' = Before(Text(v), at[v], SyncPlane)'
  BY DEF InStep
<1>1. \A w \in Units : \A y :
         Before(Text(w)', at'[w], y) = Before(Text(w), at[w], y) + (IF w \in M /\ Instr(w) = y THEN 1 ELSE 0)
  BY MovesCount
<1>2. /\ Before(Text(u), at[u], SyncCube) = Before(Text(v), at[v], SyncCube)
      /\ u[1] = v[1] => Before(Text(u), at[u], SyncPlane) = Before(Text(v), at[v], SyncPlane)
  BY DEF InStep, Now, Epoch
<1>3. Before(Text(u)', at'[u], SyncCube) = Before(Text(v)', at'[v], SyncCube)
  BY <1>1, <1>2
<1>4. u[1] = v[1] => Before(Text(u)', at'[u], SyncPlane) = Before(Text(v)', at'[v], SyncPlane)
  BY SMTT(30), <1>1, <1>2
<1>6. Now(u)' = Before(Text(u)', at'[u], SyncCube) /\ Now(v)' = Before(Text(v)', at'[v], SyncCube)
  BY DEF Now, Epoch, Before, SyncCube
<1>7. \A w : Before(Text(w), at[w], SyncPlane)' = Before(Text(w)', at'[w], SyncPlane)
  BY DEF Before, SyncPlane
<1> QED
  BY <1>3, <1>4, <1>6, <1>7

\* A move that neither loads nor meets the cube leaves the stages as they are.
LEMMA StagesKept ==
  ASSUME IInv, NEW M, Moves(M), UNCHANGED <<flying, memory>>,
         \A u \in M : ~IsAt(u, "load") /\ Instr(u) # SyncCube
  PROVE  CopiesAreDue' /\ LoadsAreThere'
<1>1. ASSUME NEW u \in Units PROVE Now(u)' = Now(u)
  <2>1. Before(Text(u)', at'[u], SyncCube)
          = Before(Text(u), at[u], SyncCube) + (IF u \in M /\ Instr(u) = SyncCube THEN 1 ELSE 0)
        /\ Before(Text(u), at[u], SyncCube) \in Nat
    BY MovesCount DEF IInv
  <2>2. Now(u)' = Before(Text(u)', at'[u], SyncCube)
    BY DEF Now, Epoch, Before, SyncCube
  <2> QED
    BY <2>1, <2>2 DEF Now, Epoch
<1>2. ASSUME NEW u \in Units
      PROVE  \A of, into, task, e : LoadedInto(u, of, into, task, e)' <=> LoadedInto(u, of, into, task, e)
  <2>1. u \in M => \A of, task : ~LoadsAt(Text(u), at[u], of, task)
    BY DEF IsAt, LoadsAt, Moves, Instr
  <2> QED
    BY <2>1, MovesCount DEF IInv
<1>3. case' = case
  BY MovesCount DEF IInv
<1>4. CopiesAreDue'
  BY <1>1, <1>3 DEF IInv, CopiesAreDue
<1>5. LoadsAreThere'
  BY <1>1, <1>2, <1>3 DEF IInv, LoadsAreThere
<1> QED
  BY <1>4, <1>5

\* The views follow, if they are advanced where the program says.
LEMMA ViewsKept ==
  ASSUME TypeOK, ViewsFollow, NEW M, Moves(M),
         \A u \in Units, of \in Operands :
           view'[u][of] = view[u][of] + (IF u \in M /\ Instr(u) = AdvanceView(of) THEN Stride(case, of) ELSE 0)
  PROVE  ViewsFollow'
<1> SUFFICES ASSUME NEW u \in Units, NEW of \in Operands
             PROVE  view'[u][of] = Viewed(case', Text(u)', at'[u], of)
  BY DEF ViewsFollow, Viewed, Before, AdvanceView, Stride
<1>1. PICK s \in Nat : s = Stride(case, of)
  BY DEF Stride
<1>2. PICK b \in Nat : b = Before(Text(u), at[u], AdvanceView(of))
  BY MovesCount
<1>3. case' = case /\ Before(Text(u)', at'[u], AdvanceView(of)) = b + (IF u \in M /\ Instr(u) = AdvanceView(of) THEN 1 ELSE 0)
  BY <1>2, MovesCount
<1>4. view[u][of] = s * b
  BY <1>1, <1>2 DEF ViewsFollow, Viewed
<1>5. s * (b + 1) = s * b + s /\ s * (b + 0) = s * b + 0
  OBVIOUS
<1>6. Viewed(case', Text(u)', at'[u], of) = s * (b + (IF u \in M /\ Instr(u) = AdvanceView(of) THEN 1 ELSE 0))
  BY <1>1, <1>3 DEF Viewed
<1> QED
  BY <1>1, <1>4, <1>5, <1>6

\* A unit's own step moves it past an instruction nobody meets it at.
LEMMA UnitMoves ==
  ASSUME TypeOK, NEW u \in Units, UnitStep(u)
  PROVE  /\ Moves({u}) /\ Runs(u) /\ Instr(u) # SyncCube /\ Instr(u) # SyncPlane
         /\ Instr(u).op \in {"load", "read", "advance"}
<1>1. Runs(u) /\ Instr(u).op \in {"load", "read", "advance"} /\ Step(u) /\ UNCHANGED launch
  BY DEF UnitStep, Load, Issue, ReadTile, Advance, IsAt
<1>2. at' = [v \in Units |-> IF v \in {u} THEN at[v] + 1 ELSE at[v]]
  BY <1>1 DEF Step, TypeOK
<1>3. SyncCube.op = "sync_cube" /\ SyncPlane.op = "sync_plane"
  BY DEF SyncCube, SyncPlane
<1> QED
  BY <1>1, <1>2, <1>3 DEF Moves

\* What is typed stays so.
LEMMA TypesKept ==
  ASSUME TypeOK, NEW M, Moves(M),
         view' \in [Units -> [Operands -> Nat]],
         flying' \subseteq [of : Operands, into : {A, B}, piece : Units \X Nat, slice : Nat],
         DOMAIN memory' = Operands, \A of \in Operands : DOMAIN memory'[of] = {A, B},
         \A of \in Operands, into \in {A, B} : memory'[of][into] \in [Pieces(of) -> Nat \cup {Nothing}]
  PROVE  TypeOK'
<1>1. /\ case' = case /\ text' = text /\ at' \in [Units -> Nat \ {0}]
      /\ \A u \in Units : Role(u)' = Role(u) /\ Text(u)' = Text(u) /\ at'[u] <= Len(Text(u)) + 1
  BY MovesCount
<1>2. \A of \in Operands : Pieces(of)' = Pieces(of)
  BY <1>1 DEF Pieces, Loaders
<1>3. case' \in Cases /\ text' = [role \in Roles |-> Program(case', role)]
  BY <1>1 DEF TypeOK
<1>4. (text = [role \in Roles |-> Program(case, role)])' <=> text' = [role \in Roles |-> Program(case', role)]
  BY <1>1 DEF TypeOK
<1> QED
  BY <1>1, <1>2, <1>3, <1>4 DEF TypeOK

\* A piece of a stage written.
Writes(of, into, piece, slice) == memory' = [memory EXCEPT ![of][into][piece] = slice]

\* A piece written is the only one that changes.
LEMMA PieceWritten ==
  ASSUME TypeOK, NEW of \in Operands, NEW into \in {A, B}, NEW piece, NEW slice \in Nat,
         Writes(of, into, piece, slice)
  PROVE  /\ DOMAIN memory' = Operands /\ \A o \in Operands : DOMAIN memory'[o] = {A, B}
         /\ \A o \in Operands, i \in {A, B} : memory'[o][i] \in [Pieces(o) -> Nat \cup {Nothing}]
         /\ piece \in Pieces(of) => memory'[of][into][piece] = slice
         /\ \A o \in Operands, i \in {A, B} : \A p : <<o, i, p>> # <<of, into, piece>> => memory'[o][i][p] = memory[o][i][p]
<1>1. DOMAIN memory = Operands /\ \A o \in Operands : DOMAIN memory[o] = {A, B}
  BY DEF TypeOK
<1>2. \A o \in Operands, i \in {A, B} : memory[o][i] \in [Pieces(o) -> Nat \cup {Nothing}]
  BY DEF TypeOK
<1>3. /\ DOMAIN memory' = Operands
      /\ \A o \in Operands : o # of => memory'[o] = memory[o]
      /\ memory'[of] = [memory[of] EXCEPT ![into][piece] = slice]
  BY <1>1 DEF Writes
<1>4. /\ DOMAIN memory'[of] = {A, B}
      /\ \A i \in {A, B} : i # into => memory'[of][i] = memory[of][i]
      /\ memory'[of][into] = [memory[of][into] EXCEPT ![piece] = slice]
  BY <1>1, <1>3
<1>5. memory'[of][into] \in [Pieces(of) -> Nat \cup {Nothing}]
  <2>1. PICK f \in [Pieces(of) -> Nat \cup {Nothing}] : f = memory[of][into]
    BY <1>2
  <2>2. [f EXCEPT ![piece] = slice] \in [Pieces(of) -> Nat \cup {Nothing}]
    OBVIOUS
  <2> QED
    BY <1>4, <2>1, <2>2
<1>6. piece \in Pieces(of) => memory'[of][into][piece] = slice
  BY <1>2, <1>4
<1>7. \A p : p # piece => memory'[of][into][p] = memory[of][into][p]
  BY <1>2, <1>4
<1>8. \A o \in Operands : DOMAIN memory'[o] = {A, B}
  BY <1>1, <1>3, <1>4
<1>9. \A o \in Operands, i \in {A, B} : memory'[o][i] \in [Pieces(o) -> Nat \cup {Nothing}]
  BY <1>2, <1>3, <1>4, <1>5
<1>10. \A o \in Operands, i \in {A, B} : \A p : <<o, i, p>> # <<of, into, piece>> => memory'[o][i][p] = memory[o][i][p]
  <2> SUFFICES ASSUME NEW o \in Operands, NEW i \in {A, B}, NEW p, <<o, i, p>> # <<of, into, piece>>
               PROVE  memory'[o][i][p] = memory[o][i][p]
    OBVIOUS
  <2>1. o # of \/ i # into \/ p # piece
    OBVIOUS
  <2>2. o # of => memory'[o] = memory[o]
    BY <1>3
  <2>3. o = of /\ i # into => memory'[o][i] = memory[o][i]
    BY <1>4
  <2>4. o = of /\ i = into /\ p # piece => memory'[o][i][p] = memory[o][i][p]
    BY <1>7
  <2> QED
    BY <2>1, <2>2, <2>3, <2>4
<1> QED
  BY <1>3, <1>6, <1>8, <1>9, <1>10

\* A unit's own step leaves everyone in their epoch.
LEMMA UnitKeepsStep ==
  ASSUME IInv, NEW u \in Units, UnitStep(u)
  PROVE  /\ InStep' /\ \A v \in Units : Now(v)' = Now(v) /\ Now(v) = Now(u) /\ Now(v) \in Nat
         /\ \A v \in Units : \A of, into, task, e :
              LoadedInto(v, of, into, task, e)'
                <=> \/ LoadedInto(v, of, into, task, e)
                    \/ v = u /\ LoadsAt(Text(u), at[u], of, task) /\ Instr(u).at = into /\ Now(u) = e
<1>1. TypeOK /\ InStep
  BY DEF IInv
<1>2. Moves({u}) /\ Instr(u) # SyncCube /\ Instr(u) # SyncPlane
  BY <1>1, UnitMoves
<1>3. InStep'
  BY <1>1, <1>2, InStepKept
<1>4. ASSUME NEW v \in Units PROVE Now(v)' = Now(v) /\ Now(v) = Now(u) /\ Now(v) \in Nat
  <2>1. Before(Text(v)', at'[v], SyncCube)
          = Before(Text(v), at[v], SyncCube) + (IF v \in {u} /\ Instr(v) = SyncCube THEN 1 ELSE 0)
        /\ Before(Text(v), at[v], SyncCube) \in Nat
    BY <1>1, <1>2, MovesCount
  <2>2. Now(v)' = Before(Text(v)', at'[v], SyncCube)
    BY DEF Now, Epoch, Before, SyncCube
  <2>3. Now(v)' = Now(v)
    BY <1>2, <2>1, <2>2 DEF Now, Epoch
  <2> QED
    BY <1>1, <2>1, <2>3 DEF InStep, Now, Epoch
<1>5. ASSUME NEW v \in Units
      PROVE  \A of, into, task, e :
              LoadedInto(v, of, into, task, e)'
                <=> \/ LoadedInto(v, of, into, task, e)
                    \/ v = u /\ LoadsAt(Text(u), at[u], of, task) /\ Instr(u).at = into /\ Now(u) = e
  <2>1. \A of, into, task, e :
              LoadedInto(v, of, into, task, e)'
                <=> \/ LoadedInto(v, of, into, task, e)
                    \/ v \in {u} /\ LoadsAt(Text(v), at[v], of, task) /\ Instr(v).at = into /\ Now(v) = e
    BY <1>1, <1>2, MovesCount
  <2>2. v \in {u} <=> v = u
    OBVIOUS
  <2> QED
    BY <2>1, <2>2
<1> QED
  BY <1>3, <1>4, <1>5

\* (`execute_task`) A task loaded: its piece is there.
LEMMA LoadKeeps ==
  ASSUME IInv, NEW u \in Units, Load(u)
  PROVE  IInv'
<1>1. TypeOK /\ InStep /\ ViewsFollow /\ CopiesAreDue /\ LoadsAreThere /\ IsAt(u, "load") /\ UnitStep(u)
  BY DEF IInv, Load, UnitStep
<1>2. Moves({u}) /\ Instr(u).op \in {"load", "read", "advance"}
  BY <1>1, UnitMoves
<1>3. /\ Instr(u).of \in Operands /\ Instr(u).at \in {A, B} /\ SliceOf(u) = Now(u)
      /\ PieceOf(u) \in Pieces(Instr(u).of) /\ PieceOf(u) = <<u, Instr(u).task>> /\ Instr(u).task \in Nat
  BY <1>1, LoadIsOfItsEpoch DEF PieceOf
<1>4. /\ InStep' /\ \A v \in Units : Now(v)' = Now(v) /\ Now(v) = Now(u) /\ Now(v) \in Nat
      /\ \A v \in Units : \A of, into, task, e :
              LoadedInto(v, of, into, task, e)'
                <=> \/ LoadedInto(v, of, into, task, e)
                    \/ v = u /\ LoadsAt(Text(u), at[u], of, task) /\ Instr(u).at = into /\ Now(u) = e
  BY <1>1, UnitKeepsStep
<1>5. PICK o \in Operands, i \in {A, B}, t, E \in Nat :
        o = Instr(u).of /\ i = Instr(u).at /\ t = Instr(u).task /\ E = Now(u)
  BY <1>3, <1>4
<1>6. \A v \in Units : Now(v) = E /\ Now(v)' = E
  BY <1>4, <1>5
<1>7. memory' = [memory EXCEPT ![o][i][<<u, t>>] = E] /\ UNCHANGED <<view, flying>> /\ case' = case
      /\ <<u, t>> \in Pieces(o)
  BY <1>3, <1>5 DEF Load, launch
<1>8. /\ DOMAIN memory' = Operands /\ \A of \in Operands : DOMAIN memory'[of] = {A, B}
      /\ \A of \in Operands, into \in {A, B} : memory'[of][into] \in [Pieces(of) -> Nat \cup {Nothing}]
      /\ memory'[o][i][<<u, t>>] = E
      /\ \A of \in Operands, into \in {A, B} : \A p :
           <<of, into, p>> # <<o, i, <<u, t>>>> => memory'[of][into][p] = memory[of][into][p]
  <2> DEFINE p == <<u, t>>
  <2>1. TypeOK /\ p \in Pieces(o) /\ Writes(o, i, p, E)
    BY <1>1, <1>7 DEF Writes
  <2> HIDE DEF p
  <2>2. /\ DOMAIN memory' = Operands /\ \A of \in Operands : DOMAIN memory'[of] = {A, B}
        /\ \A of \in Operands, into \in {A, B} : memory'[of][into] \in [Pieces(of) -> Nat \cup {Nothing}]
        /\ memory'[o][i][p] = E
        /\ \A of \in Operands, into \in {A, B} : \A q :
             <<of, into, q>> # <<o, i, p>> => memory'[of][into][q] = memory[of][into][q]
    BY <2>1, PieceWritten
  <2> QED
    BY <2>2 DEF p
<1>9. TypeOK'
  <2>1. view' \in [Units -> [Operands -> Nat]]
        /\ flying' \subseteq [of : Operands, into : {A, B}, piece : Units \X Nat, slice : Nat]
    BY <1>1, <1>7 DEF TypeOK
  <2> QED
    BY <1>1, <1>2, <1>8, <2>1, TypesKept
<1>10. ViewsFollow'
  <2>1. \A of : Instr(u) # AdvanceView(of)
    BY <1>1 DEF IsAt, AdvanceView
  <2>2. \A v \in Units, of \in Operands :
           view'[v][of] = view[v][of] + (IF v \in {u} /\ Instr(v) = AdvanceView(of) THEN Stride(case, of) ELSE 0)
    <3>1. \A v \in Units, of \in Operands : view[v][of] \in Nat
      BY <1>1 DEF TypeOK
    <3> QED
      BY <1>7, <2>1, <3>1
  <2> QED
    BY <1>1, <1>2, <2>2, ViewsKept
<1>11. CopiesAreDue'
  BY <1>1, <1>4, <1>7 DEF CopiesAreDue
<1>12. LoadsAreThere'
  <2> SUFFICES ASSUME NEW v \in Units, NEW of \in Operands, NEW into \in {A, B}, NEW task \in 0 .. case.tasks[of] - 1
               PROVE  /\ LoadedInto(v, of, into, task, E)' =>
                           \/ memory'[of][into][<<v, task>>] = E
                           \/ [of |-> of, into |-> into, piece |-> <<v, task>>, slice |-> E] \in flying'
                      /\ LoadedInto(v, of, into, task, E - 1)' /\ ~LoadedInto(v, of, into, task, E)' =>
                           memory'[of][into][<<v, task>>] = E - 1
    BY <1>6, <1>7 DEF LoadsAreThere
  <2>1. CASE <<of, into, <<v, task>>>> = <<o, i, <<u, t>>>>
    <3>1. v = u /\ of = o /\ into = i /\ task = t
      BY <2>1
    <3>2. LoadsAt(Text(u), at[u], of, task)
      BY <1>1, <1>5, <3>1 DEF LoadsAt, IsAt, Instr
    <3>3. LoadedInto(v, of, into, task, E)'
      BY <1>4, <1>5, <3>1, <3>2
    <3> QED
      BY <1>8, <3>1, <3>3
  <2>2. CASE <<of, into, <<v, task>>>> # <<o, i, <<u, t>>>>
    <3>1. memory'[of][into][<<v, task>>] = memory[of][into][<<v, task>>]
      BY <1>8, <2>2
    <3>2. ~(v = u /\ LoadsAt(Text(u), at[u], of, task) /\ Instr(u).at = into)
      BY <1>5, <2>2 DEF LoadsAt, Instr
    <3>3. \A e : LoadedInto(v, of, into, task, e)' <=> LoadedInto(v, of, into, task, e)
      BY <1>4, <3>2
    <3>4. /\ LoadedInto(v, of, into, task, E) =>
               \/ memory[of][into][<<v, task>>] = E
               \/ [of |-> of, into |-> into, piece |-> <<v, task>>, slice |-> E] \in flying
          /\ LoadedInto(v, of, into, task, E - 1) /\ ~LoadedInto(v, of, into, task, E) =>
               memory[of][into][<<v, task>>] = E - 1
      BY <1>1, <1>6 DEF LoadsAreThere
    <3> QED
      BY <1>7, <3>1, <3>3, <3>4
  <2> QED
    BY <2>1, <2>2
<1> QED
  BY <1>4, <1>9, <1>10, <1>11, <1>12 DEF IInv

\* (`execute_task`) A task issued: its piece flies.
LEMMA IssueKeeps ==
  ASSUME IInv, NEW u \in Units, Issue(u)
  PROVE  IInv'
<1>1. TypeOK /\ InStep /\ ViewsFollow /\ CopiesAreDue /\ LoadsAreThere /\ IsAt(u, "load") /\ UnitStep(u)
  BY DEF IInv, Issue, UnitStep
<1>2. Moves({u})
  BY <1>1, UnitMoves
<1>3. /\ Instr(u).of \in Operands /\ Instr(u).at \in {A, B} /\ SliceOf(u) = Now(u)
      /\ Instr(u).at = BufferOf(case, Instr(u).of, Now(u) % 2)
      /\ PieceOf(u) \in Units \X Nat /\ PieceOf(u) = <<u, Instr(u).task>> /\ Instr(u).task \in Nat
  BY <1>1, LoadIsOfItsEpoch DEF PieceOf
<1>4. /\ InStep' /\ \A v \in Units : Now(v)' = Now(v) /\ Now(v) = Now(u) /\ Now(v) \in Nat
      /\ \A v \in Units : \A of, into, task, e :
              LoadedInto(v, of, into, task, e)'
                <=> \/ LoadedInto(v, of, into, task, e)
                    \/ v = u /\ LoadsAt(Text(u), at[u], of, task) /\ Instr(u).at = into /\ Now(u) = e
  BY <1>1, UnitKeepsStep
<1>5. PICK o \in Operands, i \in {A, B}, t \in Nat, E \in Nat :
        o = Instr(u).of /\ i = Instr(u).at /\ t = Instr(u).task /\ E = Now(u)
  BY <1>3, <1>4
<1>6. \A v \in Units : Now(v) = E /\ Now(v)' = E
  BY <1>4, <1>5
<1> DEFINE copy == [of |-> o, into |-> i, piece |-> <<u, t>>, slice |-> E]
<1>7. flying' = flying \cup {copy} /\ UNCHANGED <<view, memory>> /\ case' = case /\ case.async
      /\ <<u, t>> \in Units \X Nat /\ i = BufferOf(case, o, E % 2)
  BY <1>3, <1>5 DEF Issue, launch
<1>8. TypeOK'
  <2>1. /\ view' \in [Units -> [Operands -> Nat]] /\ DOMAIN memory' = Operands
        /\ \A of \in Operands : DOMAIN memory'[of] = {A, B}
        /\ \A of \in Operands, into \in {A, B} : memory'[of][into] \in [Pieces(of) -> Nat \cup {Nothing}]
    BY <1>1, <1>7 DEF TypeOK
  <2>2. copy \in [of : Operands, into : {A, B}, piece : Units \X Nat, slice : Nat]
    BY <1>7
  <2> HIDE DEF copy
  <2>3. flying' \subseteq [of : Operands, into : {A, B}, piece : Units \X Nat, slice : Nat]
    BY <1>1, <1>7, <2>2 DEF TypeOK
  <2> QED
    BY <1>1, <1>2, <2>1, <2>3, TypesKept
<1>9. ViewsFollow'
  <2>1. \A of : Instr(u) # AdvanceView(of)
    BY <1>1 DEF IsAt, AdvanceView
  <2>2. \A v \in Units, of \in Operands :
           view'[v][of] = view[v][of] + (IF v \in {u} /\ Instr(v) = AdvanceView(of) THEN Stride(case, of) ELSE 0)
    <3>1. \A v \in Units, of \in Operands : view[v][of] \in Nat
      BY <1>1 DEF TypeOK
    <3> QED
      BY <1>7, <2>1, <3>1
  <2> QED
    BY <1>1, <1>2, <2>2, ViewsKept
<1>10. CopiesAreDue'
  <2> SUFFICES ASSUME NEW f \in flying', NEW v \in Units
               PROVE  case.async /\ f.slice = E /\ f.into = BufferOf(case, f.of, f.slice % 2)
    BY <1>6, <1>7 DEF CopiesAreDue, BufferOf, A
  <2>1. CASE f \in flying
    BY <1>1, <1>6, <2>1 DEF CopiesAreDue
  <2>2. CASE f = copy
    BY <1>7, <2>2
  <2> QED
    BY <1>7, <2>1, <2>2
<1>11. LoadsAreThere'
  <2> SUFFICES ASSUME NEW v \in Units, NEW of \in Operands, NEW into \in {A, B}, NEW task \in 0 .. case.tasks[of] - 1
               PROVE  /\ LoadedInto(v, of, into, task, E)' =>
                           \/ memory'[of][into][<<v, task>>] = E
                           \/ [of |-> of, into |-> into, piece |-> <<v, task>>, slice |-> E] \in flying'
                      /\ LoadedInto(v, of, into, task, E - 1)' /\ ~LoadedInto(v, of, into, task, E)' =>
                           memory'[of][into][<<v, task>>] = E - 1
    BY <1>6, <1>7 DEF LoadsAreThere
  <2>1. /\ LoadedInto(v, of, into, task, E) =>
               \/ memory[of][into][<<v, task>>] = E
               \/ [of |-> of, into |-> into, piece |-> <<v, task>>, slice |-> E] \in flying
        /\ LoadedInto(v, of, into, task, E - 1) /\ ~LoadedInto(v, of, into, task, E) =>
               memory[of][into][<<v, task>>] = E - 1
    BY <1>1, <1>6 DEF LoadsAreThere
  <2>2. E # E - 1
    BY <1>5
  <2>3. \A e : LoadedInto(v, of, into, task, e)'
                <=> \/ LoadedInto(v, of, into, task, e)
                    \/ v = u /\ LoadsAt(Text(u), at[u], of, task) /\ i = into /\ E = e
    BY <1>4, <1>5
  <2>4. v = u /\ LoadsAt(Text(u), at[u], of, task) /\ i = into =>
          [of |-> of, into |-> into, piece |-> <<v, task>>, slice |-> E] = copy
    BY <1>5 DEF LoadsAt, Instr
  <2> HIDE DEF copy
  <2> QED
    BY <1>7, <2>1, <2>2, <2>3, <2>4
<1> QED
  BY <1>4, <1>8, <1>9, <1>10, <1>11 DEF IInv

\* What no stage is touched by.
LEMMA QuietKeeps ==
  ASSUME IInv, NEW M, Moves(M), InStep', ViewsFollow', UNCHANGED <<flying, memory>>,
         view' \in [Units -> [Operands -> Nat]],
         \A u \in M : ~IsAt(u, "load") /\ Instr(u) # SyncCube
  PROVE  IInv'
<1>1. TypeOK
  BY DEF IInv
<1>2. TypeOK'
  <2>1. /\ flying' \subseteq [of : Operands, into : {A, B}, piece : Units \X Nat, slice : Nat]
        /\ DOMAIN memory' = Operands /\ \A of \in Operands : DOMAIN memory'[of] = {A, B}
        /\ \A of \in Operands, into \in {A, B} : memory'[of][into] \in [Pieces(of) -> Nat \cup {Nothing}]
    BY <1>1 DEF TypeOK
  <2> QED
    BY <1>1, <2>1, TypesKept
<1>3. CopiesAreDue' /\ LoadsAreThere'
  BY StagesKept
<1> QED
  BY <1>2, <1>3 DEF IInv

\* (`execute_single`) A fragment read moves its unit only.
LEMMA ReadTileKeeps ==
  ASSUME IInv, NEW u \in Units, ReadTile(u)
  PROVE  IInv'
<1>1. TypeOK /\ ViewsFollow /\ IsAt(u, "read") /\ UnitStep(u) /\ UNCHANGED <<view, flying, memory>>
  BY DEF IInv, ReadTile, UnitStep
<1>2. Moves({u}) /\ Instr(u) # SyncCube
  BY <1>1, UnitMoves
<1>3. InStep'
  BY <1>1, UnitKeepsStep
<1>4. view \in [Units -> [Operands -> Nat]]
  BY <1>1 DEF TypeOK
<1>5. ViewsFollow'
  <2>1. \A of : Instr(u) # AdvanceView(of)
    BY <1>1 DEF IsAt, AdvanceView
  <2>2. \A v \in Units, of \in Operands :
           view'[v][of] = view[v][of] + (IF v \in {u} /\ Instr(v) = AdvanceView(of) THEN Stride(case, of) ELSE 0)
    <3>1. \A v \in Units, of \in Operands : view[v][of] \in Nat
      BY <1>4
    <3> QED
      BY <1>1, <2>1, <3>1
  <2> QED
    BY <1>1, <1>2, <2>2, ViewsKept
<1>6. \A v \in {u} : ~IsAt(v, "load") /\ Instr(v) # SyncCube
  BY <1>1, <1>2 DEF IsAt
<1> QED
  BY <1>1, <1>2, <1>3, <1>4, <1>5, <1>6, QuietKeeps

\* (`advance_view`) An advanced view is counted as the program counts it.
LEMMA AdvanceKeeps ==
  ASSUME IInv, NEW u \in Units, Advance(u)
  PROVE  IInv'
<1>1. TypeOK /\ ViewsFollow /\ IsAt(u, "advance") /\ UnitStep(u) /\ UNCHANGED <<flying, memory>>
  BY DEF IInv, Advance, UnitStep
<1>2. Moves({u}) /\ Instr(u) # SyncCube
  BY <1>1, UnitMoves
<1>3. InStep'
  BY <1>1, UnitKeepsStep
<1>4. view \in [Units -> [Operands -> Nat]]
  BY <1>1 DEF TypeOK
<1>5. Instr(u).of \in Operands /\ Instr(u) = AdvanceView(Instr(u).of)
      /\ \A of : Instr(u) = AdvanceView(of) => Instr(u).of = of
  <2>1. Instr(u) \in Instrs /\ Instr(u).op = "advance"
    BY <1>1, Shape DEF IsAt
  <2> QED
    BY <2>1, Kinds
<1>6. PICK o \in Operands, s \in Nat : o = Instr(u).of /\ s = Stride(case, o)
  BY <1>5 DEF Stride
<1>7. view' = [view EXCEPT ![u][o] = @ + s]
  BY <1>6 DEF Advance
<1>8. /\ view' \in [Units -> [Operands -> Nat]]
      /\ \A v \in Units, of \in Operands : view'[v][of] = view[v][of] + (IF v = u /\ of = o THEN s ELSE 0)
  BY <1>4, <1>7
<1>9. ViewsFollow'
  <2>1. \A v \in Units, of \in Operands :
           view'[v][of] = view[v][of] + (IF v \in {u} /\ Instr(v) = AdvanceView(of) THEN Stride(case, of) ELSE 0)
    BY <1>5, <1>6, <1>8
  <2> QED
    BY <1>1, <1>2, <2>1, ViewsKept
<1>10. \A v \in {u} : ~IsAt(v, "load") /\ Instr(v) # SyncCube
  BY <1>1, <1>2 DEF IsAt
<1> QED
  BY <1>1, <1>2, <1>3, <1>8, <1>9, <1>10, QuietKeeps

\* The units of a plane meet at a synchronism of the plane.
LEMMA PlaneMeetsKeeps ==
  ASSUME IInv, NEW p \in Planes, PlaneMeets(p)
  PROVE  IInv'
<1> DEFINE M == {p} \X Lanes
<1>1. TypeOK /\ InStep /\ ViewsFollow
  BY DEF IInv
<1>2. \A lane \in Lanes : IsAt(<<p, lane>>, "sync_plane")
  BY DEF PlaneMeets
<1>3. \A v \in Units : v \in M <=> v[1] = p
  BY DEF Units
<1>4. M \subseteq Units
  BY DEF Units
<1>5. ASSUME NEW v \in M PROVE v \in Units /\ Runs(v) /\ Instr(v) = SyncPlane
  <2>1. PICK lane \in Lanes : v = <<p, lane>>
    OBVIOUS
  <2>2. IsAt(v, "sync_plane")
    BY <1>2, <2>1
  <2>3. v \in Units /\ Instr(v) \in Instrs
    BY <1>1, <1>4, <2>2, Shape DEF IsAt
  <2> QED
    BY <2>2, <2>3, Kinds DEF IsAt
<1>6. Moves(M) /\ UNCHANGED <<view, flying, memory>>
  BY <1>4, <1>5 DEF PlaneMeets, Meet, Moves
<1>7. SyncPlane # SyncCube /\ SyncPlane.op = "sync_plane" /\ \A of : SyncPlane # AdvanceView(of)
  <2>1. SyncPlane.op = "sync_plane" /\ SyncCube.op = "sync_cube" /\ \A of : AdvanceView(of).op = "advance"
    BY DEF SyncPlane, SyncCube, AdvanceView
  <2> QED
    BY <2>1
<1> HIDE DEF M
<1>8. InStep'
  <2>1. \A u, v \in Units :
           /\ (u \in M /\ Instr(u) = SyncCube) <=> (v \in M /\ Instr(v) = SyncCube)
           /\ u[1] = v[1] => ((u \in M /\ Instr(u) = SyncPlane) <=> (v \in M /\ Instr(v) = SyncPlane))
    BY <1>3, <1>5, <1>7
  <2> QED
    BY <1>1, <1>6, <2>1, InStepKept
<1>9. view \in [Units -> [Operands -> Nat]]
  BY <1>1 DEF TypeOK
<1>10. ViewsFollow'
  <2>1. \A v \in Units, of \in Operands :
           view'[v][of] = view[v][of] + (IF v \in M /\ Instr(v) = AdvanceView(of) THEN Stride(case, of) ELSE 0)
    <3>1. \A v \in Units, of \in Operands : view[v][of] \in Nat
      BY <1>9
    <3> QED
      BY <1>5, <1>6, <1>7, <3>1
  <2> QED
    BY <1>1, <1>6, <2>1, ViewsKept
<1>11. \A v \in M : ~IsAt(v, "load") /\ Instr(v) # SyncCube
  BY <1>5, <1>7 DEF IsAt
<1> QED
  BY <1>6, <1>8, <1>9, <1>10, <1>11, QuietKeeps

\* All units meet: the epoch ends, and what was loaded in it is there.
LEMMA CubeMeetsKeeps ==
  ASSUME IInv, CubeMeets
  PROVE  IInv'
<1>1. TypeOK /\ InStep /\ ViewsFollow /\ LoadsAreThere
  BY DEF IInv
<1>2. \A v \in Units : Runs(v) /\ Instr(v) = SyncCube
  <2> SUFFICES ASSUME NEW v \in Units PROVE Runs(v) /\ Instr(v) = SyncCube
    OBVIOUS
  <2>1. IsAt(v, "sync_cube")
    BY DEF CubeMeets
  <2>2. Instr(v) \in Instrs
    BY <1>1, <2>1, Shape DEF IsAt
  <2> QED
    BY <2>1, <2>2, Kinds DEF IsAt
<1>3. Moves(Units) /\ UNCHANGED <<view, flying, memory>> /\ flying = {}
  BY <1>2 DEF CubeMeets, Meet, Moves
<1>4. SyncPlane # SyncCube /\ SyncCube.op = "sync_cube" /\ \A of : SyncCube # AdvanceView(of)
  <2>1. SyncPlane.op = "sync_plane" /\ SyncCube.op = "sync_cube" /\ \A of : AdvanceView(of).op = "advance"
    BY DEF SyncPlane, SyncCube, AdvanceView
  <2> QED
    BY <2>1
<1>5. InStep'
  <2>1. \A u, v \in Units :
           /\ (u \in Units /\ Instr(u) = SyncCube) <=> (v \in Units /\ Instr(v) = SyncCube)
           /\ u[1] = v[1] => ((u \in Units /\ Instr(u) = SyncPlane) <=> (v \in Units /\ Instr(v) = SyncPlane))
    BY <1>2, <1>4
  <2> QED
    BY <1>1, <1>3, <2>1, InStepKept
<1>6. TypeOK'
  <2>1. /\ view' \in [Units -> [Operands -> Nat]]
        /\ flying' \subseteq [of : Operands, into : {A, B}, piece : Units \X Nat, slice : Nat]
        /\ DOMAIN memory' = Operands /\ \A of \in Operands : DOMAIN memory'[of] = {A, B}
        /\ \A of \in Operands, into \in {A, B} : memory'[of][into] \in [Pieces(of) -> Nat \cup {Nothing}]
    BY <1>1, <1>3 DEF TypeOK
  <2> QED
    BY <1>1, <1>3, <2>1, TypesKept
<1>7. ViewsFollow'
  <2>1. \A v \in Units, of \in Operands :
           view'[v][of] = view[v][of] + (IF v \in Units /\ Instr(v) = AdvanceView(of) THEN Stride(case, of) ELSE 0)
    <3>1. \A v \in Units, of \in Operands : view[v][of] \in Nat
      BY <1>1 DEF TypeOK
    <3> QED
      BY <1>2, <1>3, <1>4, <3>1
  <2> QED
    BY <1>1, <1>3, <2>1, ViewsKept
<1>8. CopiesAreDue'
  BY <1>3 DEF CopiesAreDue
<1>9. ASSUME NEW v \in Units
      PROVE  /\ Now(v)' = Now(v) + 1 /\ Now(v) \in Nat
             /\ \A of, into, task, e : LoadedInto(v, of, into, task, e)' <=> LoadedInto(v, of, into, task, e)
  <2>1. PICK M : M = Units
    OBVIOUS
  <2>2. Moves(M)
    BY <1>3, <2>1
  <2>3. Before(Text(v)', at'[v], SyncCube)
          = Before(Text(v), at[v], SyncCube) + (IF v \in M /\ Instr(v) = SyncCube THEN 1 ELSE 0)
        /\ Before(Text(v), at[v], SyncCube) \in Nat
    BY <1>1, <2>2, MovesCount
  <2>7. \A of, into, task, e :
          LoadedInto(v, of, into, task, e)'
            <=> \/ LoadedInto(v, of, into, task, e)
                \/ v \in M /\ LoadsAt(Text(v), at[v], of, task) /\ Instr(v).at = into /\ Now(v) = e
    BY <1>1, <2>2, MovesCount
  <2>4. Now(v)' = Before(Text(v)', at'[v], SyncCube)
    BY DEF Now, Epoch, Before, SyncCube
  <2>5. \A of, task : ~LoadsAt(Text(v), at[v], of, task)
    BY <1>2, <1>4 DEF LoadsAt, Instr
  <2>6. Now(v)' = Now(v) + 1 /\ Now(v) \in Nat
    BY <1>2, <2>1, <2>3, <2>4 DEF Now, Epoch
  <2> QED
    BY <2>5, <2>6, <2>7
<1>10. LoadsAreThere'
  <2> SUFFICES ASSUME NEW w \in Units PROVE LoadsAreThere'
    BY DEF LoadsAreThere
  <2>1. PICK E \in Nat : E = Now(w)
    BY <1>9
  <2>2. \A v \in Units : Now(v) = E /\ Now(v)' = E + 1
    BY <1>1, <1>9, <2>1 DEF InStep
  <2>3. case' = case /\ (E + 1) - 1 = E
    BY <1>3 DEF Moves, launch
  <2> SUFFICES ASSUME NEW v \in Units, NEW of \in Operands, NEW into \in {A, B}, NEW task \in 0 .. case.tasks[of] - 1
               PROVE  /\ ~LoadedInto(v, of, into, task, E + 1)'
                      /\ LoadedInto(v, of, into, task, E)' => memory'[of][into][<<v, task>>] = E
    BY <2>2, <2>3 DEF LoadsAreThere
  <2>4. ~LoadedInto(v, of, into, task, E + 1)
    <3>1. ~(E + 1 <= Now(v))
      BY <2>2
    <3> QED
      BY <1>1, <3>1, LoadedIsOfItsEpoch
  <2>5. LoadedInto(v, of, into, task, E) =>
          \/ memory[of][into][<<v, task>>] = E
          \/ [of |-> of, into |-> into, piece |-> <<v, task>>, slice |-> E] \in flying
    BY <1>1, <2>2 DEF LoadsAreThere
  <2>6. memory' = memory /\ flying = {}
    BY <1>3
  <2> QED
    BY <1>9, <2>4, <2>5, <2>6
<1> QED
  BY <1>5, <1>6, <1>7, <1>8, <1>10 DEF IInv

\* A copy lands: over the slice before the last, which nobody reads any more.
LEMMA LandsKeeps ==
  ASSUME IInv, NEW f \in flying, Lands(f)
  PROVE  IInv'
<1>1. TypeOK /\ InStep /\ ViewsFollow /\ CopiesAreDue /\ LoadsAreThere
  BY DEF IInv
<1>2. UNCHANGED <<case, text, at, view>> /\ flying' = flying \ {f}
  BY DEF Lands, launch
<1>3. f \in [of : Operands, into : {A, B}, piece : Units \X Nat, slice : Nat]
  BY <1>1 DEF TypeOK
<1>4. PICK o \in Operands, i \in {A, B}, p \in Units \X Nat, E \in Nat :
        f = [of |-> o, into |-> i, piece |-> p, slice |-> E]
  BY <1>3
<1>5. \A v \in Units : case.async /\ Now(v) = E /\ i = BufferOf(case, o, E % 2)
  BY <1>1, <1>4 DEF CopiesAreDue
<1>6. Writes(o, i, p, E)
  BY <1>4 DEF Lands, Writes
<1>7. /\ DOMAIN memory' = Operands /\ \A of \in Operands : DOMAIN memory'[of] = {A, B}
      /\ \A of \in Operands, into \in {A, B} : memory'[of][into] \in [Pieces(of) -> Nat \cup {Nothing}]
      /\ p \in Pieces(o) => memory'[o][i][p] = E
      /\ \A of \in Operands, into \in {A, B} : \A q :
           <<of, into, q>> # <<o, i, p>> => memory'[of][into][q] = memory[of][into][q]
  BY <1>1, <1>6, PieceWritten
<1>8. Moves({})
  <2>1. at' = [v \in Units |-> IF v \in {} THEN at[v] + 1 ELSE at[v]]
    BY <1>1, <1>2 DEF TypeOK
  <2> QED
    BY <1>2, <2>1 DEF Moves, launch
<1>9. TypeOK'
  <2>1. view' \in [Units -> [Operands -> Nat]]
        /\ flying' \subseteq [of : Operands, into : {A, B}, piece : Units \X Nat, slice : Nat]
    BY <1>1, <1>2 DEF TypeOK
  <2> QED
    BY <1>1, <1>7, <1>8, <2>1, TypesKept
<1>10. \A v \in Units : Now(v)' = Now(v)
  BY <1>2 DEF Now, Text, Role
<1>11. InStep' /\ ViewsFollow'
  BY <1>1, <1>2 DEF InStep, ViewsFollow, Now, Text, Role
<1>12. CopiesAreDue'
  BY <1>1, <1>2, <1>10 DEF CopiesAreDue
<1>13. LoadsAreThere'
  <2> SUFFICES ASSUME NEW v \in Units, NEW of \in Operands, NEW into \in {A, B}, NEW task \in 0 .. case.tasks[of] - 1
               PROVE  /\ LoadedInto(v, of, into, task, E) =>
                           \/ memory'[of][into][<<v, task>>] = E
                           \/ [of |-> of, into |-> into, piece |-> <<v, task>>, slice |-> E] \in flying'
                      /\ LoadedInto(v, of, into, task, E - 1) /\ ~LoadedInto(v, of, into, task, E) =>
                           memory'[of][into][<<v, task>>] = E - 1
    <3>1. \A v \in Units : \A of, into, task, e : LoadedInto(v, of, into, task, e)' <=> LoadedInto(v, of, into, task, e)
      BY <1>2 DEF LoadedInto, Text, Role
    <3> QED
      BY <1>2, <1>5, <1>10, <3>1 DEF LoadsAreThere
  <2>1. /\ LoadedInto(v, of, into, task, E) =>
               \/ memory[of][into][<<v, task>>] = E
               \/ [of |-> of, into |-> into, piece |-> <<v, task>>, slice |-> E] \in flying
        /\ LoadedInto(v, of, into, task, E - 1) /\ ~LoadedInto(v, of, into, task, E) =>
               memory[of][into][<<v, task>>] = E - 1
    BY <1>1, <1>5 DEF LoadsAreThere
  <2>2. CASE <<of, into, <<v, task>>>> = <<o, i, p>>
    <3>1. of = o /\ into = i /\ <<v, task>> = p
      BY <2>2
    <3>2. LoadedInto(v, of, into, task, E) => <<v, task>> \in Pieces(of)
      <4>1. LoadedInto(v, of, into, task, E) => of \in Sides(case, Role(v))
        BY <1>1, LoadedIsOfItsEpoch
      <4> QED
        BY <4>1 DEF Pieces, Loaders
    <3>3. ~LoadedInto(v, of, into, task, E - 1)
      <4> SUFFICES ASSUME LoadedInto(v, of, into, task, E - 1) PROVE FALSE
        OBVIOUS
      <4>1. into = BufferOf(case, of, (E - 1) % 2) /\ E - 1 \in Nat
        BY <1>1, LoadedIsOfItsEpoch
      <4>2. into = BufferOf(case, of, E % 2) /\ ~case.ordered
        <5>1. IsCase(case)
          BY <1>1, Shape
        <5> QED
          BY <1>5, <3>1, <5>1 DEF IsCase
      <4>3. (E - 1) % 2 # E % 2
        BY <4>1
      <4> QED
        BY <4>1, <4>2, <4>3 DEF BufferOf
    <3> QED
      BY <1>7, <3>1, <3>2, <3>3
  <2>3. CASE <<of, into, <<v, task>>>> # <<o, i, p>>
    <3>1. memory'[of][into][<<v, task>>] = memory[of][into][<<v, task>>]
      BY <1>7, <2>3
    <3>2. [of |-> of, into |-> into, piece |-> <<v, task>>, slice |-> E] # f
      BY <1>4, <2>3
    <3> QED
      BY <1>2, <2>1, <3>1, <3>2
  <2> QED
    BY <2>2, <2>3
<1> QED
  BY <1>9, <1>11, <1>12, <1>13 DEF IInv

\* Before the first instruction nothing is counted, loaded or viewed.
LEMMA InitHolds == Init => IInv
<1> SUFFICES ASSUME Init PROVE IInv
  OBVIOUS
<1>1. \A v \in Units : Role(v) \in Roles /\ at[v] = 1
  BY DEF Init, Role, Roles
<1>2. \A v \in Units : Len(Text(v)) \in Nat
  <2> SUFFICES ASSUME NEW v \in Units PROVE Len(Text(v)) \in Nat
    OBVIOUS
  <2>1. Text(v) = Program(case, Role(v))
    BY <1>1 DEF Init, Text
  <2>2. Text(v) \in Seq(Instrs)
    BY <1>1, <2>1, CasesAre, ProgramScheduled DEF Init
  <2> QED
    BY <2>2
<1>3. TypeOK
  <2>1. at \in [Units -> Nat \ {0}] /\ \A v \in Units : at[v] <= Len(Text(v)) + 1
    BY <1>1, <1>2 DEF Init
  <2>2. view \in [Units -> [Operands -> Nat]] /\ flying = {}
    BY DEF Init
  <2>3. DOMAIN memory = Operands /\ \A of \in Operands : DOMAIN memory[of] = {A, B}
    BY DEF Init
  <2>4. \A of \in Operands, into \in {A, B} : memory[of][into] \in [Pieces(of) -> Nat \cup {Nothing}]
    BY DEF Init
  <2> QED
    BY <2>1, <2>2, <2>3, <2>4 DEF TypeOK, Init
<1>4. \A v \in Units : \A y : Before(Text(v), at[v], y) = 0
  BY <1>1, CountsNone
<1>5. InStep
  BY <1>4 DEF InStep, Now, Epoch
<1>6. ViewsFollow
  <2> SUFFICES ASSUME NEW v \in Units, NEW of \in Operands
               PROVE  view[v][of] = Stride(case, of) * Before(Text(v), at[v], AdvanceView(of))
    BY DEF ViewsFollow, Viewed
  <2>1. Stride(case, of) * 0 = 0
    BY DEF Stride
  <2> QED
    BY <1>4, <2>1 DEF Init
<1>7. CopiesAreDue
  BY DEF Init, CopiesAreDue
<1>8. LoadsAreThere
  <2>1. \A v \in Units : 1 .. at[v] - 1 = {}
    BY <1>1
  <2> QED
    BY <2>1 DEF LoadsAreThere, LoadedInto
<1> QED
  BY <1>3, <1>5, <1>6, <1>7, <1>8 DEF IInv

\* Every step keeps the invariant.
LEMMA StepKeeps == IInv /\ [Next]_vars => IInv'
<1> SUFFICES ASSUME IInv, [Next]_vars PROVE IInv'
  OBVIOUS
<1>1. ASSUME NEW u \in Units, UnitStep(u) PROVE IInv'
  BY <1>1, LoadKeeps, IssueKeeps, ReadTileKeeps, AdvanceKeeps DEF UnitStep
<1>2. ASSUME NEW p \in Planes, PlaneMeets(p) PROVE IInv'
  BY <1>2, PlaneMeetsKeeps
<1>3. ASSUME CubeMeets PROVE IInv'
  BY <1>3, CubeMeetsKeeps
<1>4. ASSUME NEW f \in flying, Lands(f) PROVE IInv'
  BY <1>4, LandsKeeps
<1>5. ASSUME UNCHANGED vars PROVE IInv'
  <2>1. /\ case' = case /\ text' = text /\ at' = at /\ view' = view
        /\ flying' = flying /\ memory' = memory
    BY <1>5 DEF vars, launch
  <2>2. \A u : Role(u)' = Role(u)
    BY <2>1 DEF Role
  <2>3. \A u : Text(u)' = Text(u)
    BY <2>1, <2>2 DEF Text
  <2>4. \A u : Now(u)' = Now(u)
    BY <2>1, <2>3 DEF Now
  <2>5. \A v, of, into, task, e : LoadedInto(v, of, into, task, e)' <=> LoadedInto(v, of, into, task, e)
    BY <2>1, <2>3 DEF LoadedInto
  <2>6. \A of : Pieces(of)' = Pieces(of)
    BY <2>1, <2>2 DEF Pieces, Loaders
  <2>7. TypeOK'
    BY <2>1, <2>3, <2>6 DEF IInv, TypeOK
  <2>8. InStep' /\ ViewsFollow'
    BY <2>1, <2>3, <2>4 DEF IInv, InStep, ViewsFollow
  <2>9. CopiesAreDue' /\ LoadsAreThere'
    BY <2>1, <2>4, <2>5 DEF IInv, CopiesAreDue, LoadsAreThere
  <2> QED
    BY <2>7, <2>8, <2>9 DEF IInv
<1> QED
  BY <1>1, <1>2, <1>3, <1>4, <1>5 DEF Next, Meets, CopiesLand

\* The invariant holds throughout.
THEOREM Invariance == Spec => []IInv
BY InitHolds, StepKeeps, PTL DEF Spec
-----------------------------------------------------------------------------
(***************************************************************************)
(* What a read takes, and who may load under it.                           *)
(***************************************************************************)
\* An epoch that has begun was begun by the synchronism that ended the one before.
LEMMA EpochBegins ==
  ASSUME NEW P \in Seq(Instrs), NEW j \in 1 .. Len(P) + 1, Epoch(P, j) # 0
  PROVE  \E i \in 1 .. j - 1 : P[i] = SyncCube /\ Epoch(P, i) + 1 = Epoch(P, j)
<1> DEFINE T == {n \in Nat : 1 + n <= Len(P) + 1 /\ Epoch(P, 1 + n) # 0 =>
                    \E i \in 1 .. n : P[i] = SyncCube /\ Epoch(P, i) + 1 = Epoch(P, 1 + n)}
<1>1. 0 \in T
  BY CountsNone DEF Epoch
<1>2. ASSUME NEW n \in Nat, n \in T PROVE n + 1 \in T
  <2> SUFFICES ASSUME 1 + (n + 1) <= Len(P) + 1, Epoch(P, 1 + (n + 1)) # 0
               PROVE  \E i \in 1 .. n + 1 : P[i] = SyncCube /\ Epoch(P, i) + 1 = Epoch(P, 1 + (n + 1))
    OBVIOUS
  <2>1. 1 + n \in 1 .. Len(P) + 1 /\ 1 + n <= Len(P) /\ (1 + n) + 1 = 1 + (n + 1)
    OBVIOUS
  <2>2. Epoch(P, 1 + n) \in Nat
        /\ Epoch(P, 1 + (n + 1)) = Epoch(P, 1 + n) + (IF P[1 + n] = SyncCube THEN 1 ELSE 0)
    BY <2>1, Counts DEF Epoch
  <2>3. CASE P[1 + n] = SyncCube
    <3>1. 1 + n \in 1 .. n + 1 /\ Epoch(P, 1 + n) + 1 = Epoch(P, 1 + (n + 1))
      BY <2>2, <2>3
    <3> QED
      BY <2>3, <3>1
  <2>4. CASE P[1 + n] # SyncCube
    <3>1. Epoch(P, 1 + (n + 1)) = Epoch(P, 1 + n)
      BY <2>2, <2>4
    <3>2. PICK i \in 1 .. n : P[i] = SyncCube /\ Epoch(P, i) + 1 = Epoch(P, 1 + n)
      BY <1>2, <2>1, <3>1
    <3> QED
      BY <3>1, <3>2
  <2> QED
    BY <2>3, <2>4
<1>3. Nat \subseteq T
  <2> HIDE DEF T
  <2> QED
    BY <1>1, <1>2, Induct
<1>4. j - 1 \in T
  <2>1. j - 1 \in Nat
    OBVIOUS
  <2> HIDE DEF T
  <2> QED
    BY <1>3, <2>1
<1>5. 1 + (j - 1) = j /\ j <= Len(P) + 1
  OBVIOUS
<1> QED
  BY <1>4, <1>5

\* A read is of the slice of the epoch before, from the stage of that slice.
LEMMA ReadIsOfTheEpochBefore ==
  ASSUME TypeOK, NEW u \in Units, IsAt(u, "read")
  PROVE  /\ Instr(u).of \in Operands /\ Instr(u).stage \in Nat /\ Now(u) = Instr(u).stage + 1
         /\ Instr(u).at \in {A, B} /\ Instr(u).at = BufferOf(case, Instr(u).of, Instr(u).stage % 2)
<1>1. at[u] \in 1 .. Len(Text(u)) /\ Instr(u) \in Instrs /\ Instr(u).op = "read" /\ Scheduled(case, Role(u), Text(u))
  BY Shape DEF IsAt
<1>2. ReadIsDue(case, Text(u), at[u])
  BY <1>1 DEF Scheduled, Instr
<1>3. Instr(u).of \in Operands /\ Instr(u).stage \in Nat /\ Instr(u).at \in {A, B}
  BY <1>1, Kinds
<1> QED
  BY <1>2, <1>3 DEF ReadIsDue, Now, Instr

\* One slice and the next are on one stage only where the lhs is ordered.
LEMMA StagesTakeTurns ==
  ASSUME NEW c, NEW of, NEW s \in Nat, BufferOf(c, of, (s + 1) % 2) = BufferOf(c, of, s % 2)
  PROVE  c.ordered /\ of = "lhs"
<1>1. (s + 1) % 2 # s % 2
  OBVIOUS
<1> QED
  BY <1>1 DEF BufferOf

\* No unit has come to the load that would go over a piece a unit is reading:
\* it is on the other stage or, ordered, past a synchronism of the plane that
\* the reader has not come to.
LEMMA NothingLoadsOverARead ==
  ASSUME IInv, NEW u \in Units, IsAt(u, "read"), NEW v \in Units, NEW task, NEW j \in 1 .. at[v],
         j <= Len(Text(v)), LoadsAt(Text(v), j, Instr(u).of, task), Text(v)[j].at = Instr(u).at,
         Epoch(Text(v), j) = Now(u), case.ordered /\ Instr(u).of = "lhs" => v[1] = u[1]
  PROVE  FALSE
<1>1. TypeOK /\ InStep
  BY DEF IInv
<1>2. PICK o \in Operands, s \in Nat, b \in {A, B} :
        /\ o = Instr(u).of /\ s = Instr(u).stage /\ b = Instr(u).at
        /\ Now(u) = s + 1 /\ b = BufferOf(case, o, s % 2)
  BY <1>1, ReadIsOfTheEpochBefore
<1>3. /\ Text(v) \in Seq(Instrs) /\ Scheduled(case, Role(v), Text(v)) /\ at[v] \in 1 .. Len(Text(v)) + 1
      /\ at[u] \in 1 .. Len(Text(u)) /\ j \in 1 .. Len(Text(v))
  BY <1>1, Shape DEF IsAt
<1>4. LoadIsDue(case, Role(v), Text(v), j)
  BY <1>3 DEF Scheduled, LoadsAt
<1>5. b = BufferOf(case, o, (s + 1) % 2)
  BY <1>2, <1>4 DEF LoadIsDue, LoadsAt
<1>6. case.ordered /\ o = "lhs"
  BY <1>2, <1>5, StagesTakeTurns
<1>7. v[1] = u[1] /\ Text(v) = Text(u)
  BY <1>2, <1>6 DEF Text, Role
<1>8. PICK P, i : P = Text(v) /\ i = at[u]
  OBVIOUS
<1>9. PICK k \in i + 1 .. j - 1 : P[k] = SyncPlane
  <2>1. i \in 1 .. Len(P) /\ P[i].op = "read" /\ P[i].of = "lhs" /\ Epoch(P, i) = s + 1
    BY <1>2, <1>3, <1>6, <1>7, <1>8 DEF IsAt, Instr, Now
  <2>2. j \in 1 .. Len(P) /\ P[j].op = "load" /\ P[j].of = "lhs" /\ Epoch(P, j) = s + 1
    BY <1>2, <1>3, <1>6, <1>8 DEF LoadsAt
  <2> QED
    BY <1>3, <1>6, <1>8, <2>1, <2>2 DEF Scheduled
<1>10. PICK n : n = at[v]
  OBVIOUS
<1>11. P \in Seq(Instrs) /\ i \in 1 .. Len(P) + 1 /\ n \in i .. Len(P) + 1 /\ k \in i .. n - 1
  <2>1. P \in Seq(Instrs) /\ Len(P) \in Nat /\ i \in 1 .. Len(P) /\ n \in 1 .. Len(P) + 1 /\ j \in 1 .. n
    BY <1>3, <1>7, <1>8, <1>10
  <2> QED
    BY <2>1
<1>12. Before(P, i, SyncPlane) < Before(P, n, SyncPlane)
  BY <1>9, <1>11, CountsGrow
<1>13. Before(P, i, SyncPlane) = Before(P, n, SyncPlane)
  BY <1>1, <1>7, <1>8, <1>10 DEF InStep
<1>14. Before(P, i, SyncPlane) \in Nat
  BY <1>11, Counts
<1> QED
  BY <1>12, <1>13, <1>14

\* Every piece a read takes was loaded in the epoch before, into the stage read.
LEMMA PiecesWereLoaded ==
  ASSUME TypeOK, InStep, NEW u \in Units, IsAt(u, "read"),
         NEW v \in Loaders(Instr(u).of), NEW task \in 0 .. case.tasks[Instr(u).of] - 1
  PROVE  LoadedInto(v, Instr(u).of, Instr(u).at, task, Instr(u).stage)
<1>1. PICK o \in Operands, s \in Nat, b \in {A, B} :
        /\ o = Instr(u).of /\ s = Instr(u).stage /\ b = Instr(u).at
        /\ Now(u) = s + 1 /\ b = BufferOf(case, o, s % 2)
  BY ReadIsOfTheEpochBefore
<1>2. v \in Units /\ o \in Sides(case, Role(v))
  BY <1>1 DEF Loaders
<1>3. PICK P, n : P = Text(v) /\ n = at[v]
  OBVIOUS
<1>4. P \in Seq(Instrs) /\ Scheduled(case, Role(v), P) /\ n \in 1 .. Len(P) + 1
  BY <1>2, <1>3, Shape
<1>5. Epoch(P, n) = s + 1
  BY <1>1, <1>2, <1>3 DEF InStep, Now
<1>6. PICK i \in 1 .. n - 1 : P[i] = SyncCube /\ Epoch(P, i) + 1 = s + 1
  BY <1>4, <1>5, EpochBegins
<1>7. i \in 1 .. Len(P) /\ P[i].op = "sync_cube"
  BY <1>4, <1>6 DEF SyncCube
<1>8. Epoch(P, i) = s
  <2>1. i \in 1 .. Len(P) + 1
    BY <1>7
  <2>2. Epoch(P, i) \in Nat
    BY <1>4, <2>1, Counts DEF Epoch
  <2> QED
    BY <1>6, <2>2
<1>9. PICK k \in 1 .. i - 1 : LoadsAt(P, k, o, task) /\ Epoch(P, k) = s
  <2>1. task \in 0 .. case.tasks[o] - 1
    BY <1>1
  <2>2. PICK k \in 1 .. i - 1 : LoadsAt(P, k, o, task) /\ Epoch(P, k) = Epoch(P, i)
    BY <1>2, <1>4, <1>7, <2>1 DEF Scheduled
  <2>3. Epoch(P, k) = s
    BY <1>8, <2>2
  <2> QED
    BY <2>2, <2>3
<1>10. k \in 1 .. Len(P) /\ k \in 1 .. n - 1
  <2>1. Len(P) \in Nat /\ n \in Nat /\ i \in 1 .. Len(P)
    BY <1>4, <1>7
  <2> QED
    BY <2>1
<1>11. P[k].at = b
  <2>1. LoadIsDue(case, Role(v), P, k)
    BY <1>4, <1>9, <1>10 DEF Scheduled, LoadsAt
  <2> QED
    BY <1>1, <1>9, <2>1 DEF LoadIsDue, LoadsAt
<1> QED
  BY <1>1, <1>3, <1>9, <1>10, <1>11 DEF LoadedInto

\* What a read takes was loaded in the epoch before and not loaded over since.
LEMMA IInvReadsItsSlice == IInv => ReadsItsSlice
<1> SUFFICES ASSUME IInv, NEW u \in Units, IsAt(u, "read"), NEW piece \in ReadBy(u)
             PROVE  memory[Instr(u).of][Instr(u).at][piece] = Instr(u).stage
  BY DEF ReadsItsSlice
<1>1. TypeOK /\ InStep /\ LoadsAreThere
  BY DEF IInv
<1>2. PICK o \in Operands, s \in Nat, b \in {A, B} :
        o = Instr(u).of /\ s = Instr(u).stage /\ b = Instr(u).at /\ Now(u) = s + 1
  BY <1>1, ReadIsOfTheEpochBefore
<1>3. PICK v \in Loaders(o), task \in 0 .. case.tasks[o] - 1 : piece = <<v, task>>
  BY <1>2 DEF ReadBy, Pieces
<1>4. v \in Units /\ (case.ordered /\ o = "lhs" => v[1] = u[1])
  BY <1>2, <1>3 DEF Loaders, ReadBy
<1>5. Now(v) = s + 1 /\ (s + 1) - 1 = s
  BY <1>1, <1>2, <1>4 DEF InStep
<1>6. LoadedInto(v, o, b, task, s)
  BY <1>1, <1>2, PiecesWereLoaded
<1>7. ~LoadedInto(v, o, b, task, s + 1)
  <2> SUFFICES ASSUME NEW j \in 1 .. at[v] - 1, LoadsAt(Text(v), j, o, task), Text(v)[j].at = b,
                      Epoch(Text(v), j) = s + 1
               PROVE  FALSE
    BY DEF LoadedInto
  <2>1. j \in 1 .. at[v] /\ j <= Len(Text(v))
    <3>1. at[v] \in 1 .. Len(Text(v)) + 1 /\ Len(Text(v)) \in Nat
      BY <1>1, <1>4, Shape
    <3> QED
      BY <3>1
  <2> QED
    BY <1>2, <1>4, <2>1, NothingLoadsOverARead
<1>8. memory[o][b][<<v, task>>] = s
  <2>1. LoadedInto(v, o, b, task, Now(v) - 1) /\ ~LoadedInto(v, o, b, task, Now(v)) =>
          memory[o][b][<<v, task>>] = Now(v) - 1
    BY <1>1, <1>4 DEF LoadsAreThere
  <2> QED
    BY <1>5, <1>6, <1>7, <2>1
<1> QED
  BY <1>2, <1>3, <1>8

\* What is loaded, or flies, is for the next slice, and not where this one is read.
LEMMA IInvNoDataRace == IInv => NoDataRace
<1> SUFFICES ASSUME IInv, NEW u \in Units, IsAt(u, "read")
             PROVE  /\ \A v \in Units : IsAt(v, "load") =>
                         ~(Instr(v).of = Instr(u).of /\ Instr(v).at = Instr(u).at /\ PieceOf(v) \in ReadBy(u))
                    /\ \A f \in flying :
                         ~(f.of = Instr(u).of /\ f.into = Instr(u).at /\ f.piece \in ReadBy(u))
  BY DEF NoDataRace
<1>1. TypeOK /\ InStep /\ CopiesAreDue
  BY DEF IInv
<1>2. ASSUME NEW v \in Units, IsAt(v, "load"), Instr(v).of = Instr(u).of, Instr(v).at = Instr(u).at,
             PieceOf(v) \in ReadBy(u)
      PROVE  FALSE
  <2>1. PICK j, t : j = at[v] /\ t = Instr(v).task
    OBVIOUS
  <2>2. j \in 1 .. at[v] /\ j <= Len(Text(v))
    BY <1>1, <1>2, <2>1, Shape DEF IsAt
  <2>3. LoadsAt(Text(v), j, Instr(u).of, t) /\ Text(v)[j].at = Instr(u).at
    BY <1>2, <2>1 DEF LoadsAt, IsAt, Instr
  <2>4. Epoch(Text(v), j) = Now(u)
    BY <1>1, <2>1 DEF InStep, Now
  <2>5. case.ordered /\ Instr(u).of = "lhs" => v[1] = u[1]
    BY <1>2 DEF ReadBy, PieceOf
  <2> QED
    BY <2>2, <2>3, <2>4, <2>5, NothingLoadsOverARead
<1>3. ASSUME NEW f \in flying, f.of = Instr(u).of, f.into = Instr(u).at
      PROVE  FALSE
  <2>1. PICK o \in Operands, s \in Nat, b \in {A, B} :
          /\ o = Instr(u).of /\ s = Instr(u).stage /\ b = Instr(u).at
          /\ Now(u) = s + 1 /\ b = BufferOf(case, o, s % 2)
    BY <1>1, ReadIsOfTheEpochBefore
  <2>2. case.async /\ b = BufferOf(case, o, (s + 1) % 2)
    BY <1>1, <1>3, <2>1 DEF CopiesAreDue
  <2>3. case.ordered
    BY <2>1, <2>2, StagesTakeTurns
  <2> QED
    BY <1>1, <2>2, <2>3, Shape DEF IsCase
<1> QED
  BY <1>2, <1>3

\* (`execute_current_and_read_next`, `execute_last_and_write_results`) Whatever
\* the planes, the partition, the jobs and the number of stages, and however the
\* units interleave between the synchronisms, a unit that reads a stage finds
\* the slice of its stage matmul in every piece it takes: all were loaded in the
\* epoch before, and none of the next slice is over them.
THEOREM ReadsAreOfTheirSlice == Spec => []ReadsItsSlice
BY Invariance, IInvReadsItsSlice, PTL

\* (`DoubleBufferingEventListener`) No task an event launches writes a piece that
\* a unit is reading, and no copy in flight lands on one; ordered, because the
\* plane meets between its last read of the lhs and the first load over it.
THEOREM NothingRaces == Spec => []NoDataRace
BY Invariance, IInvNoDataRace, PTL

\* (`DoubleBufferingEventListener`) A cube that finished has loaded every task of
\* every stage once, by whoever was to load it, and contracted every stage: however
\* few the events of a stage matmul are, and wherever an ordered load had to wait.
THEOREM TasksAreLoadedOnce == Spec => []EveryTaskOnce
<1>1. ASSUME IInv PROVE EveryTaskOnce
  <2>1. IsCase(case) /\ text = [role \in Roles |-> Program(case, role)]
    BY <1>1, CasesAre DEF IInv, TypeOK
  <2>2. "main" \in Roles /\ \A role \in Roles : text[role] = Program(case, role)
    BY <2>1 DEF Roles
  <2>3. ASSUME NEW stage \in 0 .. case.needed - 1
        PROVE  stage \in {i.stage : i \in {j \in Range(text["main"]) : j.op = "read"}}
    <3>1. Reads(text["main"], stage)
      BY <2>1, <2>2, ProgramTallies
    <3>2. PICK k \in 1 .. Len(text["main"]) : text["main"][k].op = "read" /\ text["main"][k].stage = stage
      BY <3>1 DEF Reads
    <3>3. text["main"] \in Seq(Instrs)
      BY <2>1, <2>2, ProgramScheduled
    <3>4. k \in DOMAIN text["main"]
      BY <3>3
    <3> QED
      BY <3>2, <3>4 DEF Range
  <2>4. \A role \in Roles : \A of \in Sides(case, role) : \A task \in 0 .. case.tasks[of] - 1 :
          Loads(text[role], of, task) = case.needed + (case.needed % 2)
    BY <2>1, <2>2, ProgramTallies
  <2> QED
    BY <2>3, <2>4 DEF EveryTaskOnce
<1> QED
  BY <1>1, Invariance, PTL

=============================================================================
