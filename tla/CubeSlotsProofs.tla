-------------------------- MODULE CubeSlotsProofs --------------------------
(***************************************************************************)
(* Theorems about the slots that rendezvous on `sync_cube`: for any number *)
(* of units, of walks and of regions, and for every plan.                  *)
(*                                                                         *)
(* A text is reasoned about as it is unrolled, an operation at a time.     *)
(***************************************************************************)
EXTENDS CubeSlots, Unrolling, FiniteSetTheorems

(***************************************************************************)
(* A text as it grows.                                                     *)
(***************************************************************************)
Ops == [do : {"sync", "bring", "fetch", "store", "read"}, slot : Nat, region : Nat,
        only : {"EveryRegion", "Once"}]

\* What a text leaves behind it: of region x in buffer b, of the writes and of
\* the reads of b, of syncs, and of region x in the registers.
Holds(p, text, b, x) ==
  \E i \in 1 .. Len(text) : /\ b \in WrittenBy(p, text[i]) /\ text[i].region = x
                            /\ StaysUntil(p, text, b, i, Len(text) + 1)
WritesSynced(p, text, b) ==
  \A i \in 1 .. Len(text) : b \in WrittenBy(p, text[i]) => SyncBetween(text, i, Len(text) + 1)
ReadsSynced(p, text, b) ==
  \A i \in 1 .. Len(text) : b \in ReadBy(p, text[i]) => SyncBetween(text, i, Len(text) + 1)
Synced(text) == SyncBefore(text, Len(text) + 1)
Fetched(text, x) ==
  \E i \in 1 .. Len(text) : /\ text[i].do = "fetch" /\ text[i].region = x
                            /\ \A k \in i + 1 .. Len(text) : text[k].do # "fetch"

\* One operation more.
LEMMA Appended ==
  ASSUME NEW text \in Seq(Ops), NEW op \in Ops
  PROVE  /\ Append(text, op) \in Seq(Ops) /\ Len(text) \in Nat
         /\ Len(Append(text, op)) = Len(text) + 1
         /\ Append(text, op)[Len(text) + 1] = op
         /\ \A i \in 1 .. Len(text) : Append(text, op)[i] = text[i]
BY AppendProperties, LenProperties

\* What lies between two operations of a text stays as the text grows.
LEMMA BetweenKept ==
  ASSUME NEW p, NEW text \in Seq(Ops), NEW op \in Ops, NEW i \in Nat, NEW j \in Nat, j <= Len(text) + 1
  PROVE  /\ SyncBetween(Append(text, op), i, j) <=> SyncBetween(text, i, j)
         /\ \A b : StaysUntil(p, Append(text, op), b, i, j) <=> StaysUntil(p, text, b, i, j)
         /\ SyncBetween(text, i, j) => SyncBetween(Append(text, op), i, Len(text) + 2)
<1> DEFINE more == Append(text, op)
<1>1. /\ Len(text) \in Nat /\ \A k \in i + 1 .. j - 1 : k \in 1 .. Len(text)
      /\ \A k \in i + 1 .. j - 1 : k \in i + 1 .. (Len(text) + 2) - 1
  BY Appended
<1>2. \A k \in i + 1 .. j - 1 : more[k] = text[k]
  BY <1>1, Appended
<1> HIDE DEF more
<1>3. SyncBetween(more, i, j) <=> SyncBetween(text, i, j)
  BY <1>2 DEF SyncBetween
<1>4. \A b : StaysUntil(p, more, b, i, j) <=> StaysUntil(p, text, b, i, j)
  BY <1>2 DEF StaysUntil
<1>5. SyncBetween(text, i, j) => SyncBetween(more, i, Len(text) + 2)
  BY <1>1, <1>2 DEF SyncBetween
<1> QED
  BY <1>3, <1>4, <1>5 DEF more

\* What the text leaves behind it, unless the operation changes it.
LEMMA LeftKept ==
  ASSUME NEW p, NEW text \in Seq(Ops), NEW op \in Ops
  PROVE  LET more == Append(text, op) IN
         /\ Synced(text) => Synced(more)
         /\ \A b, x : b \notin WrittenBy(p, op) /\ Holds(p, text, b, x) => Holds(p, more, b, x)
         /\ \A b : b \notin WrittenBy(p, op) /\ WritesSynced(p, text, b) => WritesSynced(p, more, b)
         /\ \A b : b \notin ReadBy(p, op) /\ ReadsSynced(p, text, b) => ReadsSynced(p, more, b)
         /\ \A x : op.do # "fetch" /\ Fetched(text, x) => Fetched(more, x)
<1> DEFINE more == Append(text, op)
           n == Len(text)
<1>1. /\ n \in Nat /\ Len(more) = n + 1 /\ more[n + 1] = op
      /\ \A i \in 1 .. n : more[i] = text[i]
  BY Appended
<1>2. /\ \A i \in 1 .. n + 1 : i \in 1 .. n \/ i = n + 1
      /\ \A i \in 1 .. n : i \in 1 .. n + 1 /\ i \in Nat
      /\ (n + 1) + 1 = n + 2 /\ n + 1 \in Nat /\ n + 1 <= n + 1
  BY <1>1
<1>3. \A i \in Nat : SyncBetween(text, i, n + 1) => SyncBetween(more, i, n + 2)
  BY <1>2, BetweenKept
<1>4. \A b, i : i \in Nat => (StaysUntil(p, text, b, i, n + 1) <=> StaysUntil(p, more, b, i, n + 1))
  BY <1>2, BetweenKept
<1> HIDE DEF more, n
<1>5. Synced(text) => Synced(more)
  <2>1. 0 \in Nat
    OBVIOUS
  <2> QED
    BY <1>1, <1>2, <1>3, <2>1 DEF Synced, SyncBefore, n
<1>6. ASSUME NEW b, NEW x, b \notin WrittenBy(p, op), Holds(p, text, b, x)
      PROVE  Holds(p, more, b, x)
  <2>1. PICK i \in 1 .. n : /\ b \in WrittenBy(p, text[i]) /\ text[i].region = x
                            /\ StaysUntil(p, text, b, i, n + 1)
    BY <1>6 DEF Holds, n
  <2>2. /\ i \in 1 .. Len(more) /\ b \in WrittenBy(p, more[i]) /\ more[i].region = x
        /\ StaysUntil(p, more, b, i, n + 1)
    BY <1>1, <1>2, <1>4, <2>1
  <2>3. StaysUntil(p, more, b, i, n + 2)
    <3>1. \A k \in i + 1 .. (n + 2) - 1 : k \in i + 1 .. (n + 1) - 1 \/ k = n + 1
      BY <1>1, <1>2
    <3> QED
      BY <1>1, <1>6, <2>2, <3>1 DEF StaysUntil
  <2> QED
    BY <1>1, <1>2, <2>2, <2>3 DEF Holds
<1>7. ASSUME NEW b, b \notin WrittenBy(p, op), WritesSynced(p, text, b)
      PROVE  WritesSynced(p, more, b)
  <2> SUFFICES ASSUME NEW i \in 1 .. n + 1, b \in WrittenBy(p, more[i])
               PROVE  SyncBetween(more, i, n + 2)
    BY <1>1, <1>2 DEF WritesSynced
  <2>1. i \in 1 .. n /\ b \in WrittenBy(p, text[i])
    BY <1>1, <1>2, <1>7
  <2>2. SyncBetween(text, i, n + 1)
    BY <1>7, <2>1 DEF WritesSynced, n
  <2> QED
    BY <1>2, <1>3, <2>1, <2>2
<1>8. ASSUME NEW b, b \notin ReadBy(p, op), ReadsSynced(p, text, b)
      PROVE  ReadsSynced(p, more, b)
  <2> SUFFICES ASSUME NEW i \in 1 .. n + 1, b \in ReadBy(p, more[i])
               PROVE  SyncBetween(more, i, n + 2)
    BY <1>1, <1>2 DEF ReadsSynced
  <2>1. i \in 1 .. n /\ b \in ReadBy(p, text[i])
    BY <1>1, <1>2, <1>8
  <2>2. SyncBetween(text, i, n + 1)
    BY <1>8, <2>1 DEF ReadsSynced, n
  <2> QED
    BY <1>2, <1>3, <2>1, <2>2
<1>9. ASSUME NEW x, op.do # "fetch", Fetched(text, x) PROVE Fetched(more, x)
  <2>1. PICK i \in 1 .. n : /\ text[i].do = "fetch" /\ text[i].region = x
                            /\ \A k \in i + 1 .. n : text[k].do # "fetch"
    BY <1>9 DEF Fetched, n
  <2>2. i \in 1 .. Len(more) /\ more[i].do = "fetch" /\ more[i].region = x
    BY <1>1, <1>2, <2>1
  <2>3. ASSUME NEW k \in i + 1 .. Len(more) PROVE more[k].do # "fetch"
    <3>1. (k \in i + 1 .. n /\ k \in 1 .. n) \/ k = n + 1
      BY <1>1
    <3> QED
      BY <1>1, <1>9, <2>1, <3>1
  <2> QED
    BY <2>2, <2>3 DEF Fetched
<1> QED
  BY <1>5, <1>6, <1>7, <1>8, <1>9 DEF more

\* What the operation itself leaves behind it.
LEMMA LeftByOp ==
  ASSUME NEW p, NEW text \in Seq(Ops), NEW op \in Ops
  PROVE  LET more == Append(text, op) IN
         /\ \A b \in WrittenBy(p, op) : Holds(p, more, b, op.region)
         /\ op.do = "sync" => /\ Synced(more)
                              /\ \A b : WritesSynced(p, more, b) /\ ReadsSynced(p, more, b)
         /\ op.do = "fetch" => Fetched(more, op.region)
<1> DEFINE more == Append(text, op)
           n == Len(text)
<1>1. /\ n \in Nat /\ Len(more) = n + 1 /\ more[n + 1] = op
      /\ \A i \in 1 .. n : more[i] = text[i]
  BY Appended
<1> HIDE DEF more, n
<1>2. n + 1 \in 1 .. Len(more)
  BY <1>1
<1>3. ASSUME NEW b \in WrittenBy(p, op) PROVE Holds(p, more, b, op.region)
  <2>1. (n + 1) + 1 .. ((n + 1) + 1) - 1 = {}
    BY <1>1
  <2> QED
    BY <1>1, <1>2, <2>1 DEF Holds, StaysUntil
<1>4. ASSUME op.do = "sync"
      PROVE  Synced(more) /\ \A b : WritesSynced(p, more, b) /\ ReadsSynced(p, more, b)
  <2>1. \A i \in 0 .. n : SyncBetween(more, i, Len(more) + 1)
    <3>1. \A i \in 0 .. n : n + 1 \in i + 1 .. (Len(more) + 1) - 1
      BY <1>1
    <3> QED
      BY <1>1, <1>4, <3>1 DEF SyncBetween
  <2>2. 0 \in 0 .. n /\ \A i \in 1 .. Len(more) : i \in 0 .. n \/ i = n + 1
    BY <1>1
  <2>3. \A b : b \notin WrittenBy(p, op) /\ b \notin ReadBy(p, op)
    BY <1>4 DEF WrittenBy, ReadBy
  <2>4. Synced(more)
    BY <2>1, <2>2 DEF Synced, SyncBefore
  <2> QED
    BY <1>1, <2>1, <2>2, <2>3, <2>4 DEF WritesSynced, ReadsSynced
<1>5. ASSUME op.do = "fetch" PROVE Fetched(more, op.region)
  <2>1. (n + 1) + 1 .. n + 1 = {}
    BY <1>1
  <2> QED
    BY <1>1, <1>2, <1>5, <2>1 DEF Fetched
<1> QED
  BY <1>3, <1>4, <1>5 DEF more

\* An operation that finds what it needs keeps the text rendezvoused.
LEMMA OpRendezvous ==
  ASSUME NEW p, NEW text \in Seq(Ops), NEW op \in Ops, Rendezvoused(p, text), op.slot < p.depth,
         op.do \in {"bring", "store", "read"} => Synced(text),
         \A b \in WrittenBy(p, op) : ReadsSynced(p, text, b),
         \A b \in ReadBy(p, op) : WritesSynced(p, text, b),
         op.do = "read" => \A o \in OperandsOf(p) :
           Holds(p, text, BufferOf(p, o, op.slot), RegionWanted(p, o, op)),
         op.do = "store" => Fetched(text, op.region)
  PROVE  Rendezvoused(p, Append(text, op))
<1> DEFINE more == Append(text, op)
           n == Len(text)
<1>1. /\ n \in Nat /\ Len(more) = n + 1 /\ more[n + 1] = op
      /\ \A i \in 1 .. n : more[i] = text[i]
  BY Appended
<1>2. /\ \A i \in 1 .. n + 1 : i \in 1 .. n \/ i = n + 1
      /\ \A i \in 1 .. n + 1 : i \in Nat /\ i <= n + 1
      /\ 0 \in Nat /\ (n + 1) - 1 = n
  BY <1>1
<1>3. \A i, j : i \in Nat /\ j \in Nat /\ j <= n + 1 => (SyncBetween(more, i, j) <=> SyncBetween(text, i, j))
  BY BetweenKept
<1>4. \A b, i, j : i \in Nat /\ j \in Nat /\ j <= n + 1
        => (StaysUntil(p, more, b, i, j) <=> StaysUntil(p, text, b, i, j))
  BY BetweenKept
<1> HIDE DEF more, n
<1>5. ASSUME NEW i \in 1 .. n + 1, more[i].do \in {"bring", "store", "read"}
      PROVE  SyncBefore(more, i)
  <2>1. CASE i \in 1 .. n
    <3>1. SyncBefore(text, i)
      BY <1>1, <1>5, <2>1 DEF Rendezvoused, n
    <3> QED
      BY <1>2, <1>3, <3>1 DEF SyncBefore
  <2>2. CASE i = n + 1
    <3>1. SyncBefore(text, n + 1)
      BY <1>1, <1>5, <2>2 DEF Synced, n
    <3> QED
      BY <1>2, <1>3, <2>2, <3>1 DEF SyncBefore
  <2> QED
    BY <1>2, <2>1, <2>2
<1>6. ASSUME NEW i \in 1 .. n + 1, NEW j \in 1 .. n + 1, NEW b,
             b \in WrittenBy(p, more[i]), b \in ReadBy(p, more[j])
      PROVE  SyncBetween(more, i, j) \/ SyncBetween(more, j, i)
  <2>1. CASE i \in 1 .. n /\ j \in 1 .. n
    <3>1. WrittenBy(p, text[i]) \cap ReadBy(p, text[j]) # {}
      BY <1>1, <1>6, <2>1
    <3>2. SyncBetween(text, i, j) \/ SyncBetween(text, j, i)
      BY <2>1, <3>1 DEF Rendezvoused, n
    <3> QED
      BY <1>2, <1>3, <3>2
  <2>2. CASE i \in 1 .. n /\ j = n + 1
    <3>1. b \in WrittenBy(p, text[i]) /\ b \in ReadBy(p, op)
      BY <1>1, <1>6, <2>2
    <3>2. SyncBetween(text, i, n + 1)
      BY <2>2, <3>1 DEF WritesSynced, n
    <3> QED
      BY <1>2, <1>3, <2>2, <3>2
  <2>3. CASE i = n + 1 /\ j \in 1 .. n
    <3>1. b \in ReadBy(p, text[j]) /\ b \in WrittenBy(p, op)
      BY <1>1, <1>6, <2>3
    <3>2. SyncBetween(text, j, n + 1)
      BY <2>3, <3>1 DEF ReadsSynced, n
    <3> QED
      BY <1>2, <1>3, <2>3, <3>2
  <2>4. CASE i = n + 1 /\ j = n + 1
    <3>1. b \in WrittenBy(p, op) /\ b \in ReadBy(p, op)
      BY <1>1, <1>6, <2>4
    <3> QED
      BY <3>1 DEF WrittenBy, ReadBy
  <2> QED
    BY <1>2, <2>1, <2>2, <2>3, <2>4
<1>7. ASSUME NEW j \in 1 .. n + 1, more[j].do = "read", NEW o \in OperandsOf(p)
      PROVE  \E i \in 1 .. j - 1 :
               /\ BufferOf(p, o, more[j].slot) \in WrittenBy(p, more[i])
               /\ more[i].region = RegionWanted(p, o, more[j])
               /\ StaysUntil(p, more, BufferOf(p, o, more[j].slot), i, j)
  <2>1. CASE j \in 1 .. n
    <3>1. more[j] = text[j] /\ text[j].do = "read"
      BY <1>1, <1>7, <2>1
    <3>2. PICK i \in 1 .. j - 1 :
            /\ BufferOf(p, o, text[j].slot) \in WrittenBy(p, text[i])
            /\ text[i].region = RegionWanted(p, o, text[j])
            /\ StaysUntil(p, text, BufferOf(p, o, text[j].slot), i, j)
      BY <2>1, <3>1 DEF Rendezvoused, n
    <3>3. i \in 1 .. n /\ i \in Nat /\ more[i] = text[i]
      BY <1>1, <2>1
    <3> QED
      BY <1>2, <1>4, <3>1, <3>2, <3>3
  <2>2. CASE j = n + 1
    <3>1. more[j] = op /\ op.do = "read"
      BY <1>1, <1>7, <2>2
    <3>2. PICK i \in 1 .. n :
            /\ BufferOf(p, o, op.slot) \in WrittenBy(p, text[i])
            /\ text[i].region = RegionWanted(p, o, op)
            /\ StaysUntil(p, text, BufferOf(p, o, op.slot), i, n + 1)
      BY <3>1 DEF Holds, n
    <3>3. i \in 1 .. j - 1 /\ i \in Nat /\ more[i] = text[i]
      BY <1>1, <2>2
    <3>4. StaysUntil(p, more, BufferOf(p, o, op.slot), i, n + 1)
      BY <1>2, <1>4, <2>2, <3>2, <3>3
    <3> QED
      BY <2>2, <3>1, <3>2, <3>3, <3>4
  <2> QED
    BY <1>2, <2>1, <2>2
<1>8. ASSUME NEW j \in 1 .. n + 1, more[j].do = "store"
      PROVE  \E i \in 1 .. j - 1 : /\ more[i].do = "fetch" /\ more[i].region = more[j].region
                                   /\ \A k \in i + 1 .. j - 1 : more[k].do # "fetch"
  <2>1. CASE j \in 1 .. n
    <3>1. more[j] = text[j] /\ text[j].do = "store"
      BY <1>1, <1>8, <2>1
    <3>2. PICK i \in 1 .. j - 1 : /\ text[i].do = "fetch" /\ text[i].region = text[j].region
                                  /\ \A k \in i + 1 .. j - 1 : text[k].do # "fetch"
      BY <2>1, <3>1 DEF Rendezvoused, n
    <3>3. \A k \in i .. j - 1 : k \in 1 .. n
      BY <1>1, <2>1
    <3>4. i \in i .. j - 1 /\ \A k \in i + 1 .. j - 1 : k \in i .. j - 1
      BY <1>1, <2>1
    <3> QED
      BY <1>1, <3>1, <3>2, <3>3, <3>4
  <2>2. CASE j = n + 1
    <3>1. more[j] = op /\ op.do = "store"
      BY <1>1, <1>8, <2>2
    <3>2. PICK i \in 1 .. n : /\ text[i].do = "fetch" /\ text[i].region = op.region
                              /\ \A k \in i + 1 .. n : text[k].do # "fetch"
      BY <3>1 DEF Fetched, n
    <3>3. \A k \in i + 1 .. n : k \in 1 .. n
      BY <1>1
    <3> QED
      BY <1>1, <1>2, <2>2, <3>1, <3>2, <3>3
  <2> QED
    BY <1>2, <2>1, <2>2
<1>9. Rendezvoused(p, more)
  <2>0. \A i \in 1 .. n + 1 : more[i].slot < p.depth
    BY <1>1, <1>2 DEF Rendezvoused, n
  <2>1. \A i, j \in 1 .. n + 1 : WrittenBy(p, more[i]) \cap ReadBy(p, more[j]) # {} =>
          SyncBetween(more, i, j) \/ SyncBetween(more, j, i)
    BY <1>6
  <2> QED
    BY <1>1, <1>5, <1>7, <1>8, <2>0, <2>1 DEF Rendezvoused
<1> QED
  BY <1>9 DEF more
-----------------------------------------------------------------------------
(***************************************************************************)
(* What each operation of a schedule needs and leaves.                     *)
(***************************************************************************)
IsPlan(p) ==
  /\ p.depth \in Nat /\ p.entry \in {"pipelined", "prefetched"}
  /\ p.refills \in [OperandsOf(p) -> {"EveryRegion", "Once"}]
  /\ Supported(p)

Streamed(p) == {o \in OperandsOf(p) : p.refills[o] = "EveryRegion"}
Fixed(p) == {o \in OperandsOf(p) : p.refills[o] = "Once"}

Brought(slot, region, only) == [Op("bring", slot, region) EXCEPT !.only = only]

\* A sync leaves whatever was written or read behind it.
LEMMA SyncStep ==
  ASSUME NEW p, IsPlan(p), NEW text \in Seq(Ops), Rendezvoused(p, text)
  PROVE  LET more == Append(text, Sync) IN
         /\ more \in Seq(Ops) /\ Rendezvoused(p, more) /\ Synced(more)
         /\ \A b : WritesSynced(p, more, b) /\ ReadsSynced(p, more, b)
         /\ \A b, x : Holds(p, text, b, x) => Holds(p, more, b, x)
         /\ \A x : Fetched(text, x) => Fetched(more, x)
<1>1. /\ Sync \in Ops /\ Sync.do = "sync" /\ Sync.slot < p.depth
      /\ WrittenBy(p, Sync) = {} /\ ReadBy(p, Sync) = {}
  BY DEF Sync, Op, Ops, FirstSlot, WrittenBy, ReadBy, IsPlan, Supported
<1> HIDE DEF Sync
<1>2. Rendezvoused(p, Append(text, Sync))
  BY <1>1, OpRendezvous
<1>3. Append(text, Sync) \in Seq(Ops)
  BY <1>1, Appended
<1> QED
  BY <1>1, <1>2, <1>3, LeftKept, LeftByOp

\* A refill needs a sync since its buffers were read.
LEMMA BringStep ==
  ASSUME NEW p, NEW text \in Seq(Ops), Rendezvoused(p, text), Synced(text),
         NEW slot \in Nat, slot < p.depth, NEW region \in Nat, NEW only \in {"EveryRegion", "Once"}, NEW W,
         W = WrittenBy(p, Brought(slot, region, only)),
         \A b \in W : ReadsSynced(p, text, b)
  PROVE  LET more == Append(text, Brought(slot, region, only)) IN
         /\ more \in Seq(Ops) /\ Rendezvoused(p, more) /\ Synced(more)
         /\ \A b \in W : Holds(p, more, b, region)
         /\ \A b, x : b \notin W /\ Holds(p, text, b, x) => Holds(p, more, b, x)
         /\ \A b : b \notin W /\ WritesSynced(p, text, b) => WritesSynced(p, more, b)
         /\ \A b : ReadsSynced(p, text, b) => ReadsSynced(p, more, b)
<1> DEFINE op == Brought(slot, region, only)
<1>1. op \in Ops /\ op.do = "bring" /\ op.region = region /\ ReadBy(p, op) = {} /\ op.slot < p.depth
  BY DEF Brought, Op, Ops, ReadBy
<1> HIDE DEF op
<1>2. W = WrittenBy(p, op)
  BY DEF op
<1>3. Rendezvoused(p, Append(text, op))
  BY <1>1, <1>2, OpRendezvous
<1>4. Append(text, op) \in Seq(Ops)
  BY <1>1, Appended
<1>5. /\ Synced(Append(text, op))
      /\ \A b \in W : Holds(p, Append(text, op), b, region)
      /\ \A b, x : b \notin W /\ Holds(p, text, b, x) => Holds(p, Append(text, op), b, x)
      /\ \A b : b \notin W /\ WritesSynced(p, text, b) => WritesSynced(p, Append(text, op), b)
      /\ \A b : ReadsSynced(p, text, b) => ReadsSynced(p, Append(text, op), b)
  BY <1>1, <1>2, LeftKept, LeftByOp
<1> QED
  BY <1>3, <1>4, <1>5 DEF op

\* A read needs its region in the slot, and a sync since it was written.
LEMMA ReadStep ==
  ASSUME NEW p, NEW text \in Seq(Ops), Rendezvoused(p, text), Synced(text),
         NEW slot \in Nat, slot < p.depth, NEW region \in Nat,
         \A o \in OperandsOf(p) :
           /\ WritesSynced(p, text, BufferOf(p, o, slot))
           /\ Holds(p, text, BufferOf(p, o, slot), IF p.refills[o] = "Once" THEN 0 ELSE region)
  PROVE  LET more == Append(text, Op("read", slot, region)) IN
         /\ more \in Seq(Ops) /\ Rendezvoused(p, more) /\ Synced(more)
         /\ \A b, x : Holds(p, text, b, x) => Holds(p, more, b, x)
         /\ \A b : WritesSynced(p, text, b) => WritesSynced(p, more, b)
         /\ \A b : (\A o \in OperandsOf(p) : b # BufferOf(p, o, slot)) /\ ReadsSynced(p, text, b)
                     => ReadsSynced(p, more, b)
         /\ \A x : Fetched(text, x) => Fetched(more, x)
<1> DEFINE op == Op("read", slot, region)
<1>1. /\ op \in Ops /\ op.do = "read" /\ op.region = region /\ op.slot = slot
      /\ WrittenBy(p, op) = {} /\ ReadBy(p, op) = {BufferOf(p, o, slot) : o \in OperandsOf(p)}
  BY DEF Op, Ops, ReadBy, WrittenBy
<1> HIDE DEF op
<1>2. \A b \in ReadBy(p, op) : WritesSynced(p, text, b)
  BY <1>1
<1>3. \A o \in OperandsOf(p) : Holds(p, text, BufferOf(p, o, op.slot), RegionWanted(p, o, op))
  BY <1>1 DEF RegionWanted
<1>4. Rendezvoused(p, Append(text, op))
  BY <1>1, <1>2, <1>3, OpRendezvous
<1>5. Append(text, op) \in Seq(Ops)
  BY <1>1, Appended
<1>6. /\ Synced(Append(text, op))
      /\ \A b, x : Holds(p, text, b, x) => Holds(p, Append(text, op), b, x)
      /\ \A b : WritesSynced(p, text, b) => WritesSynced(p, Append(text, op), b)
      /\ \A b : b \notin ReadBy(p, op) /\ ReadsSynced(p, text, b) => ReadsSynced(p, Append(text, op), b)
      /\ \A x : Fetched(text, x) => Fetched(Append(text, op), x)
  BY <1>1, LeftKept
<1> QED
  BY <1>1, <1>4, <1>5, <1>6 DEF op

\* A fetch touches no buffer.
LEMMA FetchStep ==
  ASSUME NEW p, NEW text \in Seq(Ops), Rendezvoused(p, text), NEW slot \in Nat, slot < p.depth,
         NEW region \in Nat
  PROVE  LET more == Append(text, Op("fetch", slot, region)) IN
         /\ more \in Seq(Ops) /\ Rendezvoused(p, more) /\ Fetched(more, region)
         /\ Synced(text) => Synced(more)
         /\ \A b, x : Holds(p, text, b, x) => Holds(p, more, b, x)
         /\ \A b : WritesSynced(p, text, b) => WritesSynced(p, more, b)
         /\ \A b : ReadsSynced(p, text, b) => ReadsSynced(p, more, b)
<1> DEFINE op == Op("fetch", slot, region)
<1>1. /\ op \in Ops /\ op.do = "fetch" /\ op.region = region /\ op.slot < p.depth
      /\ WrittenBy(p, op) = {} /\ ReadBy(p, op) = {}
  BY DEF Op, Ops, ReadBy, WrittenBy
<1> HIDE DEF op
<1>2. Rendezvoused(p, Append(text, op))
  BY <1>1, OpRendezvous
<1>3. Append(text, op) \in Seq(Ops)
  BY <1>1, Appended
<1> QED
  BY <1>1, <1>2, <1>3, LeftKept, LeftByOp DEF op

\* A store needs its region in the registers, and a sync since its slot was read.
LEMMA StoreStep ==
  ASSUME NEW p, IsPlan(p), NEW text \in Seq(Ops), Rendezvoused(p, text), Synced(text),
         NEW slot \in 0 .. p.depth - 1, NEW region \in Nat, Fixed(p) = {}, Fetched(text, region),
         \A o \in OperandsOf(p) : ReadsSynced(p, text, <<o, slot>>)
  PROVE  LET more == Append(text, Op("store", slot, region)) IN
         /\ more \in Seq(Ops) /\ Rendezvoused(p, more) /\ Synced(more)
         /\ \A o \in OperandsOf(p) : Holds(p, more, <<o, slot>>, region)
<1> DEFINE op == Op("store", slot, region)
<1>1. /\ op \in Ops /\ op.do = "store" /\ op.region = region /\ ReadBy(p, op) = {} /\ op.slot < p.depth
      /\ WrittenBy(p, op) = {b \in BuffersOf(p) : b[2] = slot}
  BY DEF Op, Ops, ReadBy, WrittenBy, IsPlan
<1>2. \A b \in BuffersOf(p) : b = <<b[1], b[2]>> /\ b[1] \in OperandsOf(p)
  BY DEF BuffersOf
<1>3. \A o \in OperandsOf(p) : <<o, slot>> \in BuffersOf(p)
  BY DEF BuffersOf, Fixed
<1> HIDE DEF op
<1>4. \A b \in WrittenBy(p, op) : ReadsSynced(p, text, b)
  BY <1>1, <1>2
<1>5. Rendezvoused(p, Append(text, op))
  BY <1>1, <1>4, OpRendezvous
<1>6. Append(text, op) \in Seq(Ops) /\ Synced(Append(text, op))
  BY <1>1, Appended, LeftKept
<1>7. \A o \in OperandsOf(p) : <<o, slot>> \in WrittenBy(p, op)
  BY <1>1, <1>3
<1>8. \A o \in OperandsOf(p) : Holds(p, Append(text, op), <<o, slot>>, region)
  BY <1>1, <1>7, LeftByOp
<1> QED
  BY <1>5, <1>6, <1>8 DEF op
-----------------------------------------------------------------------------
(***************************************************************************)
(* The parts the schedules are put together from.                          *)
(***************************************************************************)
\* Texts put one after the other.
LEMMA Puts ==
  ASSUME NEW text \in Seq(Ops)
  PROVE  /\ \A a \in Ops : <<a>> \in Seq(Ops) /\ text \o <<a>> = Append(text, a)
         /\ \A s, t \in Seq(Ops) : s \o t \in Seq(Ops) /\ text \o (s \o t) = (text \o s) \o t
         /\ text \o << >> = text /\ << >> \in Seq(Ops)
<1>1. \A a \in Ops : <<a>> \in Seq(Ops) /\ text \o <<a>> = Append(text, a)
  BY AppendIsConcat
<1>2. \A s, t \in Seq(Ops) : s \o t \in Seq(Ops)
  BY ConcatProperties
<1>3. \A s, t \in Seq(Ops) : text \o (s \o t) = (text \o s) \o t
  BY SMTT(30), ConcatAssociative
<1>4. text \o << >> = text /\ << >> \in Seq(Ops)
  BY ConcatEmptySeq, EmptySeq
<1> QED
  BY <1>1, <1>2, <1>3, <1>4

\* The operations and the buffers they touch.
LEMMA Kinds ==
  ASSUME NEW p, IsPlan(p), NEW slot \in Nat, NEW region \in Nat
  PROVE  /\ Sync \in Ops /\ Op("read", slot, region) \in Ops /\ Op("fetch", slot, region) \in Ops
         /\ Op("store", slot, region) \in Ops
         /\ \A only \in {"EveryRegion", "Once"} : Brought(slot, region, only) \in Ops
         /\ WrittenBy(p, Brought(slot, region, "EveryRegion")) = {<<o, slot>> : o \in Streamed(p)}
         /\ WrittenBy(p, Brought(FirstSlot, region, "Once")) = {<<o, FirstSlot>> : o \in Fixed(p)}
         /\ HasFixed(p) <=> Fixed(p) # {}
         /\ OperandsOf(p) = Streamed(p) \cup Fixed(p) /\ Streamed(p) \cap Fixed(p) = {}
<1>1. /\ Sync \in Ops /\ Op("read", slot, region) \in Ops /\ Op("fetch", slot, region) \in Ops
      /\ Op("store", slot, region) \in Ops
      /\ \A only \in {"EveryRegion", "Once"} : Brought(slot, region, only) \in Ops
  BY DEF Sync, Op, Ops, FirstSlot, Brought
<1>2. \A o \in OperandsOf(p) : p.refills[o] \in {"EveryRegion", "Once"}
  BY DEF IsPlan
<1>3. \A x \in Nat, only \in {"EveryRegion", "Once"} :
        /\ Brought(x, region, only).do = "bring" /\ Brought(x, region, only).slot = x
        /\ Brought(x, region, only).only = only
  BY DEF Brought, Op
<1>4. WrittenBy(p, Brought(slot, region, "EveryRegion")) = {<<o, slot>> : o \in Streamed(p)}
  <2>1. {x \in OperandsOf(p) : RefillsOf(p, slot)[x] = "EveryRegion"} = Streamed(p)
    BY <1>2 DEF RefillsOf, Streamed, OperandsOf
  <2>2. \A o \in Streamed(p) : BufferOf(p, o, slot) = <<o, slot>>
    BY DEF BufferOf, Streamed
  <2>3. WrittenBy(p, Brought(slot, region, "EveryRegion"))
          = {BufferOf(p, o, slot) : o \in {x \in OperandsOf(p) : RefillsOf(p, slot)[x] = "EveryRegion"}}
    BY <1>3 DEF WrittenBy
  <2> QED
    BY <2>1, <2>2, <2>3
<1>5. WrittenBy(p, Brought(FirstSlot, region, "Once")) = {<<o, FirstSlot>> : o \in Fixed(p)}
  <2>1. {x \in OperandsOf(p) : RefillsOf(p, FirstSlot)[x] = "Once"} = Fixed(p)
    BY <1>2 DEF RefillsOf, Fixed, OperandsOf, FirstSlot
  <2>2. \A o \in Fixed(p) : BufferOf(p, o, FirstSlot) = <<o, FirstSlot>>
    BY DEF BufferOf, Fixed
  <2>3. WrittenBy(p, Brought(FirstSlot, region, "Once"))
          = {BufferOf(p, o, FirstSlot) : o \in {x \in OperandsOf(p) : RefillsOf(p, FirstSlot)[x] = "Once"}}
    BY <1>3 DEF WrittenBy, FirstSlot
  <2> QED
    BY <2>1, <2>2, <2>3
<1>6. HasFixed(p) <=> Fixed(p) # {}
  BY DEF HasFixed, Fixed, OperandsOf
<1>7. OperandsOf(p) = Streamed(p) \cup Fixed(p) /\ Streamed(p) \cap Fixed(p) = {}
  BY <1>2 DEF Streamed, Fixed
<1> QED
  BY <1>1, <1>4, <1>5, <1>6, <1>7

\* A streamed refill, whatever came before it.
LEMMA StreamedFill ==
  ASSUME NEW p, IsPlan(p), NEW text \in Seq(Ops), Rendezvoused(p, text),
         NEW slot \in Nat, slot < p.depth, NEW region \in Nat
  PROVE  LET more == text \o FillStreamed(p, slot, region) IN
         /\ FillStreamed(p, slot, region) \in Seq(Ops)
         /\ more \in Seq(Ops) /\ Rendezvoused(p, more) /\ Synced(more)
         /\ \A o \in Streamed(p) : Holds(p, more, <<o, slot>>, region)
         /\ \A b, x : (\A o \in Streamed(p) : b # <<o, slot>>) /\ Holds(p, text, b, x)
                        => Holds(p, more, b, x)
         /\ \A b : (\A o \in Streamed(p) : b # <<o, slot>>) => WritesSynced(p, more, b)
         /\ \A b : ReadsSynced(p, more, b)
<1> DEFINE op == Brought(slot, region, "EveryRegion")
           W == {<<o, slot>> : o \in Streamed(p)}
           mid == Append(text, Sync)
           more == Append(mid, op)
<1>1. FillStreamed(p, slot, region) = <<Sync>> \o <<op>>
  BY DEF FillStreamed, Refill, When, Acquire, Brought
<1>2. Sync \in Ops /\ op \in Ops /\ W = WrittenBy(p, op)
  BY Kinds
<1>3. /\ mid \in Seq(Ops) /\ Rendezvoused(p, mid) /\ Synced(mid)
      /\ \A b : WritesSynced(p, mid, b) /\ ReadsSynced(p, mid, b)
      /\ \A b, x : Holds(p, text, b, x) => Holds(p, mid, b, x)
  <2> HIDE DEF Sync
  <2> QED
    BY SyncStep
<1>4. text \o FillStreamed(p, slot, region) = more /\ FillStreamed(p, slot, region) \in Seq(Ops)
  <2> HIDE DEF Sync, op
  <2>1. <<Sync>> \in Seq(Ops) /\ <<op>> \in Seq(Ops) /\ text \o <<Sync>> = mid
    BY <1>2, Puts
  <2>2. text \o (<<Sync>> \o <<op>>) = (text \o <<Sync>>) \o <<op>> /\ <<Sync>> \o <<op>> \in Seq(Ops)
    BY <2>1, Puts
  <2>3. mid \o <<op>> = more
    BY <1>2, <1>3, Puts
  <2> QED
    BY <1>1, <2>1, <2>2, <2>3, Zenon
<1> HIDE DEF mid
<1>5. /\ more \in Seq(Ops) /\ Rendezvoused(p, more) /\ Synced(more)
      /\ \A b \in W : Holds(p, more, b, region)
      /\ \A b, x : b \notin W /\ Holds(p, mid, b, x) => Holds(p, more, b, x)
      /\ \A b : b \notin W /\ WritesSynced(p, mid, b) => WritesSynced(p, more, b)
      /\ \A b : ReadsSynced(p, mid, b) => ReadsSynced(p, more, b)
  <2>1. "EveryRegion" \in {"EveryRegion", "Once"}
    OBVIOUS
  <2>2. \A b \in W : ReadsSynced(p, mid, b)
    BY <1>3
  <2> HIDE DEF W
  <2> QED
    BY <1>2, <1>3, <2>1, <2>2, BringStep
<1> HIDE DEF more
<1> QED
  BY <1>3, <1>4, <1>5

\* The fixed operands are brought into the first slot, and no other has any.
LEMMA FixedFill ==
  ASSUME NEW p, IsPlan(p), NEW text \in Seq(Ops), Rendezvoused(p, text), NEW slot \in Nat, HasFixed(p)
  PROVE  LET more == text \o FillFixed(p, slot, 0) IN
         /\ FillFixed(p, slot, 0) \in Seq(Ops)
         /\ slot # 0 => more = text
         /\ slot = 0 => /\ more \in Seq(Ops) /\ Rendezvoused(p, more)
                        /\ \A o \in Fixed(p) : Holds(p, more, <<o, 0>>, 0)
<1> DEFINE op == Brought(FirstSlot, 0, "Once")
           W == {<<o, FirstSlot>> : o \in Fixed(p)}
           mid == Append(text, Sync)
           more == Append(mid, op)
<1>1. CASE slot # 0
  <2>1. FillFixed(p, slot, 0) = << >>
    BY <1>1 DEF FillFixed, Refill, When, RefillsOf, FirstSlot
  <2> QED
    BY <1>1, <2>1, Puts
<1>2. CASE slot = 0
  <2>1. FillFixed(p, slot, 0) = <<Sync>> \o <<op>>
    <3>1. \E o \in DOMAIN p.refills : RefillsOf(p, slot)[o] = "Once"
      BY <1>2 DEF HasFixed, RefillsOf, FirstSlot
    <3> QED
      BY <1>2, <3>1 DEF FillFixed, Refill, When, Acquire, Brought, FirstSlot
  <2>2. Sync \in Ops /\ op \in Ops /\ W = WrittenBy(p, op) /\ FirstSlot \in Nat /\ 0 \in Nat
        /\ FirstSlot < p.depth
    BY Kinds DEF FirstSlot, IsPlan, Supported
  <2>3. /\ mid \in Seq(Ops) /\ Rendezvoused(p, mid) /\ Synced(mid)
        /\ \A b : WritesSynced(p, mid, b) /\ ReadsSynced(p, mid, b)
        /\ \A b, x : Holds(p, text, b, x) => Holds(p, mid, b, x)
    <3> HIDE DEF Sync
    <3> QED
      BY SyncStep
  <2>4. text \o FillFixed(p, slot, 0) = more /\ FillFixed(p, slot, 0) \in Seq(Ops)
    <3> HIDE DEF Sync, op
    <3>1. <<Sync>> \in Seq(Ops) /\ <<op>> \in Seq(Ops) /\ text \o <<Sync>> = mid
      BY <2>2, Puts
    <3>2. text \o (<<Sync>> \o <<op>>) = (text \o <<Sync>>) \o <<op>> /\ <<Sync>> \o <<op>> \in Seq(Ops)
      BY <3>1, Puts
    <3>3. mid \o <<op>> = more
      BY <2>2, <2>3, Puts
    <3> QED
      BY <2>1, <3>1, <3>2, <3>3, Zenon
  <2> HIDE DEF mid
  <2>5. /\ more \in Seq(Ops) /\ Rendezvoused(p, more)
        /\ \A b \in W : Holds(p, more, b, 0)
    <3>1. "Once" \in {"EveryRegion", "Once"}
      OBVIOUS
    <3>2. \A b \in W : ReadsSynced(p, mid, b)
      BY <2>3
    <3> HIDE DEF W
    <3> QED
      BY <2>2, <2>3, <3>1, <3>2, BringStep
  <2> HIDE DEF more
  <2> QED
    BY <1>2, <2>4, <2>5 DEF FirstSlot
<1> QED
  BY <1>1, <1>2
-----------------------------------------------------------------------------
(***************************************************************************)
(* The pipelined schedule.                                                 *)
(***************************************************************************)
\* A number has one quotient and one remainder.
LEMMA DivisionIsUnique ==
  ASSUME NEW d \in Nat \ {0}, NEW a \in Nat, NEW b \in Nat, NEW r \in 0 .. d - 1, NEW s \in 0 .. d - 1,
         a * d + r = b * d + s
  PROVE  a = b /\ r = s
<1>1. ASSUME NEW x \in Nat, NEW y \in Nat, x < y PROVE x * d + d <= y * d /\ x * d \in Nat /\ y * d \in Nat
  <2>1. PICK e \in Nat : y = x + 1 + e
    <3>1. y - x - 1 \in Nat /\ y = x + 1 + (y - x - 1)
      BY <1>1
    <3> QED
      BY <3>1
  <2>2. (x + 1 + e) * d = x * d + d + e * d /\ e * d \in Nat /\ x * d \in Nat
    OBVIOUS
  <2> QED
    BY <2>1, <2>2
<1>2. a * d \in Nat /\ b * d \in Nat
  OBVIOUS
<1>3. ~(a < b)
  <2> SUFFICES ASSUME a < b PROVE FALSE
    OBVIOUS
  <2>1. a * d + d <= b * d
    BY <1>1
  <2> QED
    BY <1>2, <2>1
<1>4. ~(b < a)
  <2> SUFFICES ASSUME b < a PROVE FALSE
    OBVIOUS
  <2>1. b * d + d <= a * d
    BY <1>1
  <2> QED
    BY <1>2, <2>1
<1>5. a = b
  BY <1>3, <1>4
<1>6. a * d = b * d
  BY <1>5
<1>7. \A n \in Nat : n + r = n + s => r = s
  OBVIOUS
<1> QED
  BY <1>2, <1>5, <1>6, <1>7

\* The slots of regions less than a ring apart differ.
LEMMA Remainders ==
  ASSUME NEW d \in Nat \ {0}, NEW x \in Nat
  PROVE  /\ x % d \in 0 .. d - 1
         /\ x < d => x % d = x
         /\ \A y \in Nat : x < y /\ y < x + d => x % d # y % d
         /\ \A k \in Nat : ((x % d) + k) % d = (x + k) % d
<1>1. \A n \in Nat : n \div d \in Nat /\ n % d \in 0 .. d - 1 /\ n = (n \div d) * d + (n % d)
  OBVIOUS
<1>2. ASSUME x < d PROVE x % d = x
  <2> DEFINE a == x \div d
             r == x % d
  <2>1. a \in Nat /\ r \in 0 .. d - 1 /\ x = a * d + r
    BY <1>1
  <2> HIDE DEF a, r
  <2>2. CASE a = 0
    <3>1. 0 * d = 0 /\ r \in Nat
      BY <2>1
    <3>2. x = r
      BY <2>1, <2>2, <3>1
    <3> QED
      BY <3>2 DEF r
  <2>3. CASE a # 0
    <3>1. PICK e \in Nat : a = 1 + e
      <4>1. a - 1 \in Nat /\ a = 1 + (a - 1)
        BY <2>1, <2>3
      <4> QED
        BY <4>1
    <3>2. (1 + e) * d = d + e * d /\ e * d \in Nat
      OBVIOUS
    <3> QED
      BY <1>2, <2>1, <3>1, <3>2
  <2> QED
    BY <2>2, <2>3
<1>3. ASSUME NEW y \in Nat, x < y, y < x + d, x % d = y % d PROVE FALSE
  <2> DEFINE a == x \div d
             b == y \div d
             r == x % d
  <2>1. a \in Nat /\ b \in Nat /\ r \in 0 .. d - 1 /\ x = a * d + r /\ y = b * d + r
    BY <1>1, <1>3
  <2> HIDE DEF a, b, r
  <2>2. a * d \in Nat /\ b * d \in Nat /\ (a + 1) * d = a * d + d
    BY <2>1
  <2>3. CASE b <= a
    <3>1. PICK e \in Nat : a = b + e
      <4>1. a - b \in Nat /\ a = b + (a - b)
        BY <2>1, <2>3
      <4> QED
        BY <4>1
    <3>2. (b + e) * d = b * d + e * d /\ e * d \in Nat
      BY <2>1
    <3> QED
      BY <1>3, <2>1, <2>2, <3>1, <3>2
  <2>4. CASE a < b
    <3>1. PICK e \in Nat : b = a + 1 + e
      <4>1. b - a - 1 \in Nat /\ b = a + 1 + (b - a - 1)
        BY <2>1, <2>4
      <4> QED
        BY <4>1
    <3>2. (a + 1 + e) * d = a * d + d + e * d /\ e * d \in Nat
      BY <2>1
    <3> QED
      BY <1>3, <2>1, <2>2, <3>1, <3>2
  <2> QED
    BY <2>1, <2>3, <2>4
<1>4. ASSUME NEW k \in Nat PROVE ((x % d) + k) % d = (x + k) % d
  <2> DEFINE a == x \div d
             r == x % d
             b == (r + k) \div d
             s == (r + k) % d
             c == (x + k) \div d
             t == (x + k) % d
  <2>1. /\ a \in Nat /\ r \in 0 .. d - 1 /\ x = a * d + r
    BY <1>1
  <2>2. r + k \in Nat /\ x + k \in Nat
    BY <2>1
  <2>3. /\ b \in Nat /\ s \in 0 .. d - 1 /\ r + k = b * d + s
        /\ c \in Nat /\ t \in 0 .. d - 1 /\ x + k = c * d + t
    BY <1>1, <2>2
  <2> HIDE DEF a, r, b, s, c, t
  <2>4. (a + b) * d = a * d + b * d /\ a * d \in Nat /\ b * d \in Nat /\ c * d \in Nat /\ a + b \in Nat
    BY <2>1, <2>3
  <2>5. (a + b) * d + s = c * d + t
    BY <2>1, <2>3, <2>4
  <2>6. s = t
    BY SMTT(30), <2>3, <2>4, <2>5, DivisionIsUnique
  <2> QED
    BY <2>6 DEF r, s, t
<1> QED
  BY <1>1, <1>2, <1>3, <1>4

\* What the slots hold for the reads to come.
FixedReady(p, text) == \A o \in Fixed(p) : Holds(p, text, <<o, 0>>, 0)
Ready(p, text, x) == \A o \in Streamed(p) : Holds(p, text, <<o, x % p.depth>>, x)

\* The read of a region that is ready, and of which no write is unsynced.
LEMMA ReadyRead ==
  ASSUME NEW p, IsPlan(p), NEW text \in Seq(Ops), Rendezvoused(p, text), Synced(text),
         NEW x \in Nat, NEW slot \in Nat, slot = x % p.depth, slot < p.depth,
         FixedReady(p, text), Ready(p, text, x),
         \A o \in OperandsOf(p) : WritesSynced(p, text, BufferOf(p, o, slot))
  PROVE  LET more == text \o Consume(slot, x) IN
         /\ Consume(slot, x) \in Seq(Ops)
         /\ more \in Seq(Ops) /\ Rendezvoused(p, more) /\ Synced(more)
         /\ \A b, y : Holds(p, text, b, y) => Holds(p, more, b, y)
         /\ \A b : WritesSynced(p, text, b) => WritesSynced(p, more, b)
         /\ \A b : (\A o \in OperandsOf(p) : b # BufferOf(p, o, slot)) /\ ReadsSynced(p, text, b)
                     => ReadsSynced(p, more, b)
         /\ \A y : Fetched(text, y) => Fetched(more, y)
<1> DEFINE op == Op("read", slot, x)
<1>1. op \in Ops
  BY Kinds
<1>2. Consume(slot, x) \in Seq(Ops) /\ text \o Consume(slot, x) = Append(text, op)
  <2> HIDE DEF op
  <2>1. Consume(slot, x) = <<op>>
    BY DEF Consume, op
  <2>2. <<op>> \in Seq(Ops) /\ text \o <<op>> = Append(text, op)
    BY <1>1, Puts
  <2> QED
    BY <2>1, <2>2, Zenon
<1>3. ASSUME NEW o \in OperandsOf(p)
      PROVE  Holds(p, text, BufferOf(p, o, slot), IF p.refills[o] = "Once" THEN 0 ELSE x)
  <2>1. CASE o \in Streamed(p)
    <3>1. BufferOf(p, o, slot) = <<o, slot>> /\ p.refills[o] # "Once"
      BY <2>1 DEF BufferOf, Streamed
    <3> QED
      BY <2>1, <3>1 DEF Ready
  <2>2. CASE o \in Fixed(p)
    <3>1. BufferOf(p, o, slot) = <<o, 0>> /\ p.refills[o] = "Once"
      BY <2>2 DEF BufferOf, Fixed, FirstSlot
    <3> QED
      BY <2>2, <3>1 DEF FixedReady
  <2> QED
    BY <2>1, <2>2, Kinds
<1>4. \A o \in OperandsOf(p) :
        /\ WritesSynced(p, text, BufferOf(p, o, slot))
        /\ Holds(p, text, BufferOf(p, o, slot), IF p.refills[o] = "Once" THEN 0 ELSE x)
  BY <1>3
<1>5. LET more == Append(text, op) IN
      /\ more \in Seq(Ops) /\ Rendezvoused(p, more) /\ Synced(more)
      /\ \A b, y : Holds(p, text, b, y) => Holds(p, more, b, y)
      /\ \A b : WritesSynced(p, text, b) => WritesSynced(p, more, b)
      /\ \A b : (\A o \in OperandsOf(p) : b # BufferOf(p, o, slot)) /\ ReadsSynced(p, text, b)
                  => ReadsSynced(p, more, b)
      /\ \A y : Fetched(text, y) => Fetched(more, y)
  BY <1>4, ReadStep
<1> QED
  BY <1>2, <1>5, Zenon

\* A text after r laps of the pipelined loop.
Lapped(p, total, text, r) ==
  /\ Rendezvoused(p, text) /\ FixedReady(p, text)
  /\ \A x \in Nat : r <= x /\ x < total /\ x + 1 < r + p.depth => Ready(p, text, x)

\* The lap with slots to spare.
LEMMA DeepLap ==
  ASSUME NEW p, IsPlan(p), p.depth # 1, NEW total \in Nat, NEW text \in Seq(Ops), NEW r \in Nat,
         Lapped(p, total, text, r)
  PROVE  /\ PipelinedLap(p, total, r) \in Seq(Ops)
         /\ Lapped(p, total, text \o PipelinedLap(p, total, r), r + 1)
<1> DEFINE d == p.depth
           slot == r % d
           ahead == r + d - 1
           far == (slot + d - 1) % d
<1>1. d \in Nat /\ d > 1 /\ d \in Nat \ {0}
  BY DEF IsPlan, Supported
<1> HIDE DEF d
<1>2. slot \in 0 .. d - 1 /\ slot \in Nat /\ slot < d /\ ahead \in Nat
  BY <1>1, Remainders
<1>3. far = ahead % d /\ far \in Nat /\ far < d
  <2>1. d - 1 \in Nat /\ slot + d - 1 = (r % d) + (d - 1) /\ ahead = r + (d - 1)
    BY <1>1, <1>2
  <2>2. ((r % d) + (d - 1)) % d = (r + (d - 1)) % d
    BY <1>1, <2>1, Remainders
  <2>3. (r + (d - 1)) % d \in 0 .. d - 1
    BY <1>1, <2>1, Remainders
  <2> QED
    BY <1>1, <2>1, <2>2, <2>3
<1>4. \A x \in Nat : r <= x /\ x < ahead => x % d # far
  <2> SUFFICES ASSUME NEW x \in Nat, r <= x, x < ahead PROVE x % d # ahead % d
    BY <1>3
  <2>1. ahead < x + d
    BY <1>1, <1>2
  <2>2. \A y \in Nat : x < y /\ y < x + d => x % d # y % d
    BY <1>1, Remainders
  <2> QED
    BY <1>2, <2>1, <2>2
<1>5. slot # far
  <2>1. r < ahead
    BY <1>1
  <2> QED
    BY <1>2, <1>4, <2>1
<1>6. PipelinedLap(p, total, r)
        = (IF ahead < total THEN FillStreamed(p, far, ahead) ELSE IF r < total THEN Publish ELSE << >>)
          \o (IF r < total THEN Consume(slot, r) ELSE << >>)
  BY <1>1 DEF PipelinedLap, When, d
<1> HIDE DEF slot, ahead, far
<1>7. CASE ahead < total
  <2> DEFINE mid == text \o FillStreamed(p, far, ahead)
  <2>1. r < total
    BY <1>1, <1>7 DEF ahead
  <2>2. PipelinedLap(p, total, r) = FillStreamed(p, far, ahead) \o Consume(slot, r)
    BY <1>6, <1>7, <2>1
  <2>3. /\ FillStreamed(p, far, ahead) \in Seq(Ops)
        /\ mid \in Seq(Ops) /\ Rendezvoused(p, mid) /\ Synced(mid)
        /\ \A o \in Streamed(p) : Holds(p, mid, <<o, far>>, ahead)
        /\ \A b, x : (\A o \in Streamed(p) : b # <<o, far>>) /\ Holds(p, text, b, x) => Holds(p, mid, b, x)
        /\ \A b : (\A o \in Streamed(p) : b # <<o, far>>) => WritesSynced(p, mid, b)
    BY <1>2, <1>3, StreamedFill DEF Lapped, d
  <2> HIDE DEF mid
  <2>4. FixedReady(p, mid)
    <3>1. \A o \in Fixed(p), q \in Streamed(p) : <<o, 0>> # <<q, far>>
      BY <1>2, Kinds
    <3> QED
      BY <2>3, <3>1 DEF FixedReady, Lapped
  <2>5. ASSUME NEW x \in Nat, r <= x, x < ahead PROVE Ready(p, mid, x)
    <3>1. Ready(p, text, x)
      BY <1>1, <1>2, <1>7, <2>5 DEF Lapped, ahead, d
    <3>2. \A o \in Streamed(p), q \in Streamed(p) : <<o, x % p.depth>> # <<q, far>>
      BY <1>4, <2>5 DEF d
    <3> QED
      BY <2>3, <3>1, <3>2 DEF Ready
  <2>6. Ready(p, mid, ahead)
    BY <1>3, <2>3 DEF Ready, d
  <2>7. Ready(p, mid, r)
    BY <1>1, <2>5 DEF ahead
  <2>8. \A o \in OperandsOf(p) : WritesSynced(p, mid, BufferOf(p, o, slot))
    <3>1. \A o \in OperandsOf(p), q \in Streamed(p) : BufferOf(p, o, slot) # <<q, far>>
      BY <1>5 DEF BufferOf, Streamed
    <3> QED
      BY <2>3, <3>1
  <2> DEFINE more == mid \o Consume(slot, r)
  <2>9. /\ Consume(slot, r) \in Seq(Ops) /\ Rendezvoused(p, more)
        /\ \A b, x : Holds(p, mid, b, x) => Holds(p, more, b, x)
    BY <1>2, <2>3, <2>4, <2>7, <2>8, ReadyRead DEF slot, d
  <2>10. PipelinedLap(p, total, r) \in Seq(Ops) /\ text \o PipelinedLap(p, total, r) = more
    <3> DEFINE fill == FillStreamed(p, far, ahead)
               read == Consume(slot, r)
    <3>1. PipelinedLap(p, total, r) = fill \o read
      BY <2>2
    <3>2. fill \in Seq(Ops) /\ read \in Seq(Ops)
      BY <2>3, <2>9
    <3>3. more = (text \o fill) \o read
      BY DEF mid
    <3> HIDE DEF fill, read, more
    <3>4. fill \o read \in Seq(Ops) /\ text \o (fill \o read) = (text \o fill) \o read
      BY <3>2, Puts
    <3> QED
      BY <3>1, <3>3, <3>4, Zenon
  <2> HIDE DEF more
  <2>11. Lapped(p, total, more, r + 1)
    <3>1. FixedReady(p, more)
      BY <2>4, <2>9 DEF FixedReady
    <3>2. ASSUME NEW x \in Nat, r + 1 <= x, x < total, x + 1 < r + 1 + d PROVE Ready(p, more, x)
      <4>1. r <= x /\ (x < ahead \/ x = ahead)
        BY <1>1, <1>2, <3>2 DEF ahead
      <4>2. Ready(p, mid, x)
        BY <2>5, <2>6, <4>1
      <4> QED
        BY <2>9, <4>2 DEF Ready
    <3> QED
      BY <2>9, <3>1, <3>2 DEF Lapped, d
  <2> QED
    BY <2>10, <2>11
<1>8. CASE ~(ahead < total) /\ r < total
  <2> DEFINE mid == Append(text, Sync)
             more == mid \o Consume(slot, r)
  <2>1. PipelinedLap(p, total, r) = Publish \o Consume(slot, r)
    BY <1>6, <1>8
  <2>2. Publish \in Seq(Ops) /\ text \o Publish = mid
    <3>1. Sync \in Ops
      BY <1>2, Kinds
    <3> HIDE DEF Sync
    <3> QED
      BY <3>1, Puts DEF Publish
  <2>3. /\ mid \in Seq(Ops) /\ Rendezvoused(p, mid) /\ Synced(mid)
        /\ \A b : WritesSynced(p, mid, b)
        /\ \A b, x : Holds(p, text, b, x) => Holds(p, mid, b, x)
    <3> HIDE DEF Sync
    <3> QED
      BY SyncStep DEF Lapped
  <2> HIDE DEF mid
  <2>4. FixedReady(p, mid) /\ \A x : Ready(p, text, x) => Ready(p, mid, x)
    BY <2>3 DEF FixedReady, Ready, Lapped
  <2>5. Ready(p, mid, r)
    <3>1. r <= r /\ r + 1 < r + d
      BY <1>1
    <3> QED
      BY <1>8, <2>4, <3>1 DEF Lapped, d
  <2>6. /\ Consume(slot, r) \in Seq(Ops) /\ Rendezvoused(p, more)
        /\ \A b, x : Holds(p, mid, b, x) => Holds(p, more, b, x)
    BY <1>2, <2>3, <2>4, <2>5, ReadyRead DEF slot, d
  <2>7. PipelinedLap(p, total, r) \in Seq(Ops) /\ text \o PipelinedLap(p, total, r) = more
    <3>1. \A s, t \in Seq(Ops) : s \o t \in Seq(Ops) /\ text \o (s \o t) = (text \o s) \o t
      BY Puts
    <3>2. text \o (Publish \o Consume(slot, r)) = (text \o Publish) \o Consume(slot, r)
      BY <2>2, <2>6, <3>1, Zenon
    <3>3. Publish \o Consume(slot, r) \in Seq(Ops)
      BY <2>2, <2>6, <3>1, Zenon
    <3> QED
      BY <2>1, <2>2, <3>2, <3>3, Zenon
  <2> HIDE DEF more
  <2>8. Lapped(p, total, more, r + 1)
    <3>1. FixedReady(p, more)
      BY <2>4, <2>6 DEF FixedReady
    <3>2. ASSUME NEW x \in Nat, r + 1 <= x, x < total, x + 1 < r + 1 + d PROVE Ready(p, more, x)
      <4>1. r <= x /\ x + 1 < r + d
        BY <1>1, <1>8, <3>2 DEF ahead
      <4>2. Ready(p, mid, x)
        BY <2>4, <3>2, <4>1 DEF Lapped, d
      <4> QED
        BY <2>6, <4>2 DEF Ready
    <3> QED
      BY <2>6, <3>1, <3>2 DEF Lapped, d
  <2> QED
    BY <2>7, <2>8
<1>9. CASE ~(ahead < total) /\ ~(r < total)
  <2>1. PipelinedLap(p, total, r) = << >> \o << >>
    BY <1>6, <1>9
  <2>2. << >> \o << >> = << >>
    BY Puts
  <2>3. text \o PipelinedLap(p, total, r) = text /\ PipelinedLap(p, total, r) \in Seq(Ops)
    BY <2>1, <2>2, Puts
  <2>4. \A x \in Nat : ~(r + 1 <= x /\ x < total)
    BY <1>9
  <2> QED
    BY <2>3, <2>4 DEF Lapped
<1> QED
  BY <1>7, <1>8, <1>9

\* The lap of a single slot, which syncs before the fill and before the read.
LEMMA FlatLap ==
  ASSUME NEW p, IsPlan(p), p.depth = 1, NEW total \in Nat, NEW text \in Seq(Ops), NEW r \in Nat,
         Lapped(p, total, text, r)
  PROVE  /\ PipelinedLap(p, total, r) \in Seq(Ops)
         /\ Lapped(p, total, text \o PipelinedLap(p, total, r), r + 1)
<1> DEFINE F == FillStreamed(p, FirstSlot, r)
           C == Consume(FirstSlot, r)
           low == text \o F
           mid == Append(low, Sync)
           more == mid \o C
<1>1. PipelinedLap(p, total, r) = (F \o Publish) \o C
  BY DEF PipelinedLap
<1>2. FirstSlot \in Nat /\ FirstSlot = 0 /\ r % p.depth = FirstSlot /\ FirstSlot < p.depth
  BY DEF FirstSlot
<1>3. /\ F \in Seq(Ops)
      /\ low \in Seq(Ops) /\ Rendezvoused(p, low) /\ Synced(low)
      /\ \A o \in Streamed(p) : Holds(p, low, <<o, FirstSlot>>, r)
      /\ \A b, x : (\A o \in Streamed(p) : b # <<o, FirstSlot>>) /\ Holds(p, text, b, x)
                     => Holds(p, low, b, x)
  BY <1>2, StreamedFill DEF Lapped
<1> HIDE DEF low
<1>4. FixedReady(p, low) /\ Ready(p, low, r)
  <2>1. \A o \in Fixed(p), q \in Streamed(p) : <<o, 0>> # <<q, FirstSlot>>
    BY <1>2, Kinds
  <2> QED
    BY <1>2, <1>3, <2>1 DEF FixedReady, Ready, Lapped
<1>5. Publish \in Seq(Ops) /\ low \o Publish = mid
  <2>1. Sync \in Ops
    BY <1>2, Kinds
  <2> HIDE DEF Sync
  <2> QED
    BY <1>3, <2>1, Puts DEF Publish
<1>6. /\ mid \in Seq(Ops) /\ Rendezvoused(p, mid) /\ Synced(mid)
      /\ \A b : WritesSynced(p, mid, b)
      /\ \A b, x : Holds(p, low, b, x) => Holds(p, mid, b, x)
  <2> HIDE DEF Sync
  <2> QED
    BY <1>3, SyncStep
<1> HIDE DEF mid
<1>7. FixedReady(p, mid) /\ Ready(p, mid, r)
  BY <1>4, <1>6 DEF FixedReady, Ready
<1>8. /\ C \in Seq(Ops) /\ more \in Seq(Ops) /\ Rendezvoused(p, more)
      /\ \A b, x : Holds(p, mid, b, x) => Holds(p, more, b, x)
  BY <1>2, <1>6, <1>7, ReadyRead
<1> HIDE DEF F, C
<1>9. PipelinedLap(p, total, r) \in Seq(Ops) /\ text \o PipelinedLap(p, total, r) = more
  <2>1. \A s, t \in Seq(Ops) : s \o t \in Seq(Ops) /\ text \o (s \o t) = (text \o s) \o t
    BY Puts
  <2>2. F \o Publish \in Seq(Ops) /\ text \o (F \o Publish) = low \o Publish
    BY <1>3, <1>5, <2>1, Zenon DEF low
  <2>3. /\ (F \o Publish) \o C \in Seq(Ops)
        /\ text \o ((F \o Publish) \o C) = (text \o (F \o Publish)) \o C
    BY <1>8, <2>1, <2>2, Zenon
  <2> QED
    BY <1>1, <1>5, <2>2, <2>3, Zenon
<1> HIDE DEF more
<1>10. FixedReady(p, more)
  BY <1>7, <1>8 DEF FixedReady
<1>11. \A x \in Nat : ~(r + 1 <= x /\ x + 1 < r + 1 + p.depth)
  OBVIOUS
<1> QED
  BY <1>8, <1>9, <1>10, <1>11 DEF Lapped

\* The fixed operands, brought once above the loop.
LEMMA FixedAbove ==
  ASSUME NEW p, IsPlan(p), NEW A,
         A = When(HasFixed(p), Loop(p.depth, LAMBDA slot : FillFixed(p, slot, 0)))
  PROVE  A \in Seq(Ops) /\ Rendezvoused(p, A) /\ FixedReady(p, A)
<1>1. << >> \in Seq(Ops) /\ Len(<< >>) = 0 /\ Rendezvoused(p, << >>)
  BY EmptySeq DEF Rendezvoused
<1>2. CASE ~HasFixed(p)
  <2>1. A = << >> /\ Fixed(p) = {}
    BY <1>2 DEF When, HasFixed, Fixed, OperandsOf
  <2> QED
    BY <1>1, <2>1 DEF FixedReady
<1>3. CASE HasFixed(p)
  <2> DEFINE d == p.depth
             seqs == [i \in 1 .. d |-> FillFixed(p, i - 1, 0)]
             S == {s \in Seq(Ops) \X Nat :
                     Rendezvoused(p, s[1]) /\ (s[2] > 0 => FixedReady(p, s[1]))}
  <2>1. A = FlattenSeq(seqs)
    BY <1>3 DEF When, Loop
  <2>2. d \in Nat /\ d > 0
    BY DEF IsPlan, Supported
  <2>3. ASSUME NEW slot \in Nat PROVE FillFixed(p, slot, 0) \in Seq(Ops)
    BY <1>1, <1>3, FixedFill
  <2>4. seqs \in [1 .. d -> Seq(Ops)]
    BY <2>2, <2>3
  <2>5. <<<< >>, 0>> \in S
    <3> DEFINE none == << >>
    <3>1. none \in Seq(Ops) /\ Rendezvoused(p, none)
      BY <1>1
    <3> HIDE DEF none
    <3>2. <<none, 0>> \in S
      BY <3>1
    <3> QED
      BY <3>2 DEF none
  <2>6. ASSUME NEW k \in 0 .. d - 1, NEW text \in Seq(Ops), <<text, k>> \in S
        PROVE  <<text \o seqs[k + 1], k + 1>> \in S
    <3>1. k \in Nat /\ seqs[k + 1] = FillFixed(p, k, 0) /\ k + 1 > 0
      BY <2>2
    <3>2. Rendezvoused(p, text) /\ (k > 0 => FixedReady(p, text))
      BY <2>6
    <3> DEFINE more == text \o FillFixed(p, k, 0)
    <3>3. /\ k # 0 => more = text
          /\ k = 0 => /\ more \in Seq(Ops) /\ Rendezvoused(p, more)
                      /\ \A o \in Fixed(p) : Holds(p, more, <<o, 0>>, 0)
      BY <1>3, <3>1, <3>2, FixedFill
    <3> HIDE DEF more
    <3>4. more \in Seq(Ops) /\ Rendezvoused(p, more) /\ FixedReady(p, more)
      BY <3>1, <3>2, <3>3 DEF FixedReady
    <3>5. text \o seqs[k + 1] = more
      BY <3>1 DEF more
    <3> HIDE DEF seqs, more
    <3>6. <<more, k + 1>> \in S
      BY <3>1, <3>4
    <3> QED
      BY <3>5, <3>6, Zenon
  <2> HIDE DEF seqs, d
  <2>7. /\ FlattenSeq(seqs) \in Seq(Ops) /\ << >> \o FlattenSeq(seqs) \in Seq(Ops)
        /\ <<<< >> \o FlattenSeq(seqs), d>> \in S
    <3> HIDE DEF S
    <3> QED
      BY <1>1, <2>2, <2>4, <2>5, <2>6, LoopInduct
  <2>8. << >> \o FlattenSeq(seqs) \in Seq(Ops) /\ Rendezvoused(p, << >> \o FlattenSeq(seqs))
        /\ FixedReady(p, << >> \o FlattenSeq(seqs))
    BY <2>2, <2>7
  <2>9. << >> \o FlattenSeq(seqs) = FlattenSeq(seqs)
    BY <2>7, ConcatEmptySeq
  <2> QED
    BY <2>1, <2>8, <2>9, Zenon
<1> QED
  BY <1>2, <1>3

\* A text after the first k fills of the prologue.
Primed(p, total, text, k) ==
  /\ Rendezvoused(p, text) /\ FixedReady(p, text)
  /\ \A x \in Nat : x < k /\ x < total => Ready(p, text, x)

\* A fill of the prologue, of a slot nothing was filled into before.
LEMMA PrologueFill ==
  ASSUME NEW p, IsPlan(p), NEW total \in Nat, NEW text \in Seq(Ops), NEW k \in Nat,
         k < p.depth - 1, Primed(p, total, text, k), NEW fill,
         fill = When(k < total, FillStreamed(p, k, k))
  PROVE  fill \in Seq(Ops) /\ Primed(p, total, text \o fill, k + 1)
<1> DEFINE d == p.depth
<1>1. d \in Nat \ {0} /\ k < d - 1
  BY DEF IsPlan, Supported
<1> HIDE DEF d
<1>2. \A x \in Nat : x <= k => x % d = x
  <2>1. \A x \in Nat : x <= k => x < d
    BY <1>1
  <2> QED
    BY <1>1, <2>1, Remainders
<1>3. CASE ~(k < total)
  <2>1. fill = << >>
    BY <1>3 DEF When
  <2>2. fill \in Seq(Ops) /\ text \o fill = text
    BY <2>1, Puts
  <2>3. \A x \in Nat : x < k + 1 /\ x < total => x < k
    BY <1>3
  <2> QED
    BY <2>2, <2>3 DEF Primed
<1>4. CASE k < total
  <2> DEFINE F == FillStreamed(p, k, k)
             more == text \o F
  <2>1. fill = F
    BY <1>4 DEF When
  <2>2. /\ F \in Seq(Ops) /\ more \in Seq(Ops) /\ Rendezvoused(p, more)
        /\ \A o \in Streamed(p) : Holds(p, more, <<o, k>>, k)
        /\ \A b, x : (\A o \in Streamed(p) : b # <<o, k>>) /\ Holds(p, text, b, x) => Holds(p, more, b, x)
    <3>1. k < p.depth
      BY <1>1 DEF d
    <3> QED
      BY <3>1, StreamedFill DEF Primed
  <2> HIDE DEF more, F
  <2>3. FixedReady(p, more)
    <3>1. \A o \in Fixed(p), q \in Streamed(p) : <<o, 0>> # <<q, k>>
      BY Kinds
    <3> QED
      BY <2>2, <3>1 DEF FixedReady, Primed
  <2>4. ASSUME NEW x \in Nat, x < k + 1, x < total PROVE Ready(p, more, x)
    <3>1. x % p.depth = x
      BY <1>2, <2>4 DEF d
    <3>2. CASE x = k
      BY <2>2, <3>1, <3>2 DEF Ready
    <3>3. CASE x # k
      <4>1. Ready(p, text, x)
        BY <2>4, <3>3 DEF Primed
      <4>2. \A o, q \in Streamed(p) : <<o, x>> # <<q, k>>
        BY <3>3
      <4> QED
        BY <2>2, <3>1, <4>1, <4>2 DEF Ready
    <3> QED
      BY <3>2, <3>3
  <2>5. Primed(p, total, more, k + 1)
    BY <2>2, <2>3, <2>4 DEF Primed
  <2> QED
    BY <2>1, <2>2, <2>5, Zenon DEF more
<1> QED
  BY <1>3, <1>4

\* A lap of the pipelined loop is a text whatever came before it.
LEMMA PipelinedLapIsText ==
  ASSUME NEW p, IsPlan(p), NEW total \in Nat, NEW r \in Nat
  PROVE  PipelinedLap(p, total, r) \in Seq(Ops)
<1> DEFINE d == p.depth
           j == r % d
           ahead == r + d - 1
           far == (j + d - 1) % d
<1>1. d \in Nat \ {0} /\ FirstSlot \in Nat /\ FirstSlot < d
  BY DEF IsPlan, Supported, FirstSlot
<1> HIDE DEF d
<1>2. j \in Nat /\ ahead \in Nat
  BY <1>1, Remainders
<1>3. far \in Nat /\ far < d
  <2>1. j + d - 1 \in Nat
    BY <1>1, <1>2
  <2> QED
    BY <1>1, <2>1, Remainders
<1>4. << >> \in Seq(Ops) /\ Rendezvoused(p, << >>)
  BY EmptySeq DEF Rendezvoused
<1>5. \A slot, x \in Nat : slot < d => FillStreamed(p, slot, x) \in Seq(Ops)
  BY <1>4, StreamedFill DEF d
<1>6. \A slot, x \in Nat : Consume(slot, x) \in Seq(Ops)
  <2> SUFFICES ASSUME NEW slot \in Nat, NEW x \in Nat PROVE <<Op("read", slot, x)>> \in Seq(Ops)
    BY DEF Consume
  <2>1. Op("read", slot, x) \in Ops
    BY Kinds
  <2> QED
    BY <1>4, <2>1, Puts
<1>7. Publish \in Seq(Ops)
  <2>1. Sync \in Ops
    BY <1>1, Kinds
  <2> HIDE DEF Sync
  <2> QED
    BY <1>4, <2>1, Puts DEF Publish
<1>8. \A s, t \in Seq(Ops) : s \o t \in Seq(Ops)
  BY <1>4, Puts
<1>9. PipelinedLap(p, total, r)
        = IF d = 1 THEN (FillStreamed(p, FirstSlot, r) \o Publish) \o Consume(FirstSlot, r)
          ELSE (IF ahead < total THEN FillStreamed(p, far, ahead)
                ELSE IF r < total THEN Publish ELSE << >>)
               \o (IF r < total THEN Consume(j, r) ELSE << >>)
  BY DEF PipelinedLap, When, d
<1> HIDE DEF j, ahead, far
<1>10. (IF ahead < total THEN FillStreamed(p, far, ahead) ELSE IF r < total THEN Publish ELSE << >>) \in Seq(Ops)
  BY <1>2, <1>3, <1>4, <1>5, <1>7
<1>11. (IF r < total THEN Consume(j, r) ELSE << >>) \in Seq(Ops)
  BY <1>2, <1>4, <1>6
<1>12. (FillStreamed(p, FirstSlot, r) \o Publish) \o Consume(FirstSlot, r) \in Seq(Ops)
  <2>1. FillStreamed(p, FirstSlot, r) \in Seq(Ops)
    BY <1>1, <1>5
  <2>2. FillStreamed(p, FirstSlot, r) \o Publish \in Seq(Ops)
    BY <1>7, <1>8, <2>1, Zenon
  <2> QED
    BY <1>1, <1>6, <1>8, <2>2, Zenon
<1>13. CASE d = 1
  BY <1>9, <1>12, <1>13
<1>14. CASE d # 1
  <2>1. \A s, t : s \in Seq(Ops) /\ t \in Seq(Ops) => s \o t \in Seq(Ops)
    BY <1>8
  <2> QED
    BY <1>9, <1>10, <1>11, <1>14, <2>1, Zenon
<1> QED
  BY <1>13, <1>14

\* The pipelined schedule, whatever the plan and the total.
LEMMA PipelinedRendezvous ==
  ASSUME NEW p, IsPlan(p), NEW total \in Nat
  PROVE  Pipelined(p, total) \in Seq(Ops) /\ Rendezvoused(p, Pipelined(p, total))
<1> DEFINE d == p.depth
           laps == Laps(p, total) * d
           A == When(HasFixed(p), Loop(d, LAMBDA slot : FillFixed(p, slot, 0)))
           fills == [i \in 1 .. d - 1 |->
                       When(i - 1 < total, FillStreamed(p, i - 1, i - 1))]
           texts == [i \in 1 .. laps |-> PipelinedLap(p, total, i - 1)]
           B == A \o FlattenSeq(fills)
           C == B \o FlattenSeq(texts)
<1>1. d \in Nat \ {0} /\ laps \in Nat /\ d - 1 \in Nat
  <2>1. d \in Nat \ {0}
    BY DEF IsPlan, Supported
  <2>2. Laps(p, total) \in Nat
    <3>1. total + d - 1 \in Nat
      BY <2>1
    <3> QED
      BY <2>1, <3>1 DEF Laps
  <2> QED
    BY <2>1, <2>2
<1>2. Pipelined(p, total) = C
  BY DEF Pipelined, Prologue, Loop
<1>3. A \in Seq(Ops) /\ Rendezvoused(p, A) /\ FixedReady(p, A)
  BY FixedAbove
<1> HIDE DEF A
<1>4. B \in Seq(Ops) /\ Lapped(p, total, B, 0)
  <2> DEFINE S == {s \in Seq(Ops) \X Nat : s[2] <= d - 1 => Primed(p, total, s[1], s[2])}
  <2>1. Primed(p, total, A, 0)
    BY <1>3 DEF Primed
  <2>2. <<A, 0>> \in S
    BY <1>3, <2>1
  <2>3. ASSUME NEW k \in 0 .. (d - 1) - 1, NEW text \in Seq(Ops), <<text, k>> \in S
        PROVE  <<text \o fills[k + 1], k + 1>> \in S
    <3>1. k \in Nat /\ k < d - 1 /\ k <= d - 1 /\ Primed(p, total, text, k)
      BY <1>1, <2>3
    <3>2. fills[k + 1] = When(k < total, FillStreamed(p, k, k))
      BY <1>1
    <3> DEFINE fill == fills[k + 1]
    <3> HIDE DEF fills
    <3>3. fill \in Seq(Ops) /\ Primed(p, total, text \o fill, k + 1)
      BY <3>1, <3>2, PrologueFill
    <3> DEFINE more == text \o fill
    <3> HIDE DEF fill
    <3>4. more \in Seq(Ops) /\ Primed(p, total, more, k + 1)
      BY <3>3, Puts
    <3> HIDE DEF more
    <3>5. <<more, k + 1>> \in S
      BY <3>1, <3>4
    <3> QED
      BY <3>5, Zenon DEF fill, more
  <2>4. fills \in [1 .. d - 1 -> Seq(Ops)]
    <3>1. \A i \in 1 .. d - 1 : i - 1 \in Nat
      OBVIOUS
    <3>2. \A k \in Nat : k < d => When(k < total, FillStreamed(p, k, k)) \in Seq(Ops)
      BY <1>3, StreamedFill, Puts DEF When
    <3>3. \A i \in 1 .. d - 1 : i - 1 < d
      BY <1>1
    <3> QED
      BY <3>1, <3>2, <3>3
  <2> HIDE DEF fills
  <2>5. B \in Seq(Ops) /\ <<B, d - 1>> \in S
    <3> DEFINE rest == d - 1
    <3> HIDE DEF S
    <3>1. /\ rest \in Nat /\ fills \in [1 .. rest -> Seq(Ops)]
          /\ \A k \in 0 .. rest - 1, P \in Seq(Ops) : <<P, k>> \in S => <<P \o fills[k + 1], k + 1>> \in S
      BY <1>1, <2>3, <2>4
    <3> HIDE DEF rest, A
    <3>2. B \in Seq(Ops) /\ <<B, rest>> \in S
      BY <1>3, <2>2, <3>1, LoopInduct
    <3> QED
      BY <3>2 DEF rest
  <2> HIDE DEF B
  <2>6. Primed(p, total, B, d - 1)
    BY <1>1, <2>5
  <2>7. \A x \in Nat : x + 1 < 0 + d => x < d - 1
    BY <1>1
  <2> QED
    BY <2>5, <2>6, <2>7 DEF Primed, Lapped
<1> HIDE DEF B
<1>5. C \in Seq(Ops) /\ Lapped(p, total, C, laps)
  <2> DEFINE S == {s \in Seq(Ops) \X Nat : Lapped(p, total, s[1], s[2])}
  <2>1. <<B, 0>> \in S
    BY <1>4
  <2>2. ASSUME NEW k \in Nat, NEW text \in Seq(Ops), Lapped(p, total, text, k)
        PROVE  /\ PipelinedLap(p, total, k) \in Seq(Ops)
               /\ Lapped(p, total, text \o PipelinedLap(p, total, k), k + 1)
    BY <2>2, FlatLap, DeepLap
  <2>3. ASSUME NEW k \in 0 .. laps - 1, NEW text \in Seq(Ops), <<text, k>> \in S
        PROVE  <<text \o texts[k + 1], k + 1>> \in S
    <3>1. k \in Nat /\ texts[k + 1] = PipelinedLap(p, total, k) /\ Lapped(p, total, text, k)
      BY <1>1, <2>3
    <3> DEFINE lap == texts[k + 1]
    <3> HIDE DEF texts
    <3>2. lap \in Seq(Ops) /\ Lapped(p, total, text \o lap, k + 1)
      BY <2>2, <3>1
    <3> DEFINE more == text \o lap
    <3> HIDE DEF lap
    <3>3. more \in Seq(Ops) /\ Lapped(p, total, more, k + 1)
      BY <3>2, Puts
    <3> HIDE DEF more
    <3>4. <<more, k + 1>> \in S
      BY <3>1, <3>3
    <3> QED
      BY <3>4, Zenon DEF lap, more
  <2>4. texts \in [1 .. laps -> Seq(Ops)]
    <3>1. \A i \in 1 .. laps : i - 1 \in Nat
      OBVIOUS
    <3>2. \A k \in Nat : PipelinedLap(p, total, k) \in Seq(Ops)
      BY PipelinedLapIsText
    <3> QED
      BY <3>1, <3>2
  <2> HIDE DEF texts, laps
  <2>5. C \in Seq(Ops) /\ <<C, laps>> \in S
    <3> HIDE DEF S
    <3> QED
      BY <1>1, <1>4, <2>1, <2>3, <2>4, LoopInduct
  <2> QED
    BY <2>5
<1> QED
  BY <1>2, <1>5 DEF Lapped
-----------------------------------------------------------------------------
(***************************************************************************)
(* The prefetching schedule, which has no fixed operand and two slots at   *)
(* most.                                                                   *)
(***************************************************************************)
LapEnd(p, slot, x) ==
  (When(p.depth = 1, Publish) \o <<Op("store", slot, x)>>) \o Publish

\* What was fetched is stored in its slot, and synced.
LEMMA StoredAndSynced ==
  ASSUME NEW p, IsPlan(p), Fixed(p) = {}, NEW text \in Seq(Ops), Rendezvoused(p, text), Synced(text),
         NEW slot \in 0 .. p.depth - 1, NEW x \in Nat, Fetched(text, x),
         p.depth # 1 => \A o \in OperandsOf(p) : ReadsSynced(p, text, <<o, slot>>)
  PROVE  LET more == text \o LapEnd(p, slot, x) IN
         /\ LapEnd(p, slot, x) \in Seq(Ops)
         /\ more \in Seq(Ops) /\ Rendezvoused(p, more) /\ Synced(more)
         /\ \A b : WritesSynced(p, more, b) /\ ReadsSynced(p, more, b)
         /\ \A o \in OperandsOf(p) : Holds(p, more, <<o, slot>>, x)
<1> DEFINE W == When(p.depth = 1, Publish)
           st == Op("store", slot, x)
           low == text \o W
           mid == Append(low, st)
           more == Append(mid, Sync)
<1>1. slot \in Nat /\ Sync \in Ops /\ st \in Ops
  <2>1. p.depth \in Nat /\ slot \in Nat
    BY DEF IsPlan
  <2> QED
    BY <2>1, Kinds
<1>2. /\ W \in Seq(Ops) /\ low \in Seq(Ops) /\ Rendezvoused(p, low) /\ Synced(low)
      /\ Fetched(low, x) /\ \A o \in OperandsOf(p) : ReadsSynced(p, low, <<o, slot>>)
  <2>1. CASE p.depth = 1
    <3> DEFINE next == Append(text, Sync)
    <3>1. W = <<Sync>>
      BY <2>1 DEF When, Publish
    <3>2. <<Sync>> \in Seq(Ops) /\ text \o <<Sync>> = next
      <4> HIDE DEF Sync
      <4> QED
        BY <1>1, Puts
    <3>3. /\ next \in Seq(Ops) /\ Rendezvoused(p, next) /\ Synced(next)
          /\ \A b : ReadsSynced(p, next, b)
          /\ \A y : Fetched(text, y) => Fetched(next, y)
      <4> HIDE DEF Sync
      <4> QED
        BY SyncStep
    <3>4. low = next /\ W \in Seq(Ops)
      BY <3>1, <3>2, Zenon
    <3> HIDE DEF next, low, W
    <3> QED
      BY <3>3, <3>4
  <2>2. CASE p.depth # 1
    <3>1. W = << >>
      BY <2>2 DEF When
    <3>2. low = text /\ W \in Seq(Ops)
      BY <3>1, Puts
    <3> HIDE DEF low, W
    <3> QED
      BY <2>2, <3>2
  <2> QED
    BY <2>1, <2>2
<1> HIDE DEF low, W
<1>3. /\ mid \in Seq(Ops) /\ Rendezvoused(p, mid) /\ Synced(mid)
      /\ \A o \in OperandsOf(p) : Holds(p, mid, <<o, slot>>, x)
  <2> HIDE DEF st
  <2> QED
    BY <1>2, StoreStep DEF st
<1> HIDE DEF mid
<1>4. /\ more \in Seq(Ops) /\ Rendezvoused(p, more) /\ Synced(more)
      /\ \A b : WritesSynced(p, more, b) /\ ReadsSynced(p, more, b)
      /\ \A b, y : Holds(p, mid, b, y) => Holds(p, more, b, y)
  <2> HIDE DEF Sync
  <2> QED
    BY <1>3, SyncStep
<1>5. Publish \in Seq(Ops) /\ mid \o Publish = more
  <2> HIDE DEF Sync
  <2> QED
    BY <1>1, <1>3, Puts DEF Publish
<1>6. <<st>> \in Seq(Ops) /\ low \o <<st>> = mid
  <2> HIDE DEF st
  <2> QED
    BY <1>1, <1>2, Puts DEF mid
<1> HIDE DEF st
<1>7. LapEnd(p, slot, x) \in Seq(Ops) /\ text \o LapEnd(p, slot, x) = more
  <2>1. \A s, t \in Seq(Ops) : s \o t \in Seq(Ops) /\ text \o (s \o t) = (text \o s) \o t
    BY Puts
  <2>2. W \o <<st>> \in Seq(Ops) /\ text \o (W \o <<st>>) = low \o <<st>>
    BY <1>2, <1>6, <2>1, Zenon DEF low
  <2>3. /\ (W \o <<st>>) \o Publish \in Seq(Ops)
        /\ text \o ((W \o <<st>>) \o Publish) = (text \o (W \o <<st>>)) \o Publish
    BY <1>5, <2>1, <2>2, Zenon
  <2>4. LapEnd(p, slot, x) = (W \o <<st>>) \o Publish
    BY DEF LapEnd, W, st
  <2> QED
    BY <1>5, <1>6, <2>2, <2>3, <2>4, Zenon
<1> HIDE DEF more
<1> QED
  BY <1>3, <1>4, <1>7

\* A text after n laps of the prefetching loop.
Prepared(p, total, text, n) ==
  /\ Rendezvoused(p, text)
  /\ n < total => /\ Synced(text) /\ Ready(p, text, n)
                  /\ \A b : WritesSynced(p, text, b)
                  /\ p.depth # 1 => \A o \in OperandsOf(p) :
                                      ReadsSynced(p, text, <<o, (n + 1) % p.depth>>)

\* A lap: fetch the next region, read this one, store the next.
LEMMA PrefetchedLap ==
  ASSUME NEW p, IsPlan(p), Fixed(p) = {}, p.depth <= 2, NEW total \in Nat,
         NEW text \in Seq(Ops), NEW n \in Nat, Prepared(p, total, text, n)
  PROVE  /\ PrefetchingLap(p, total, n) \in Seq(Ops)
         /\ Prepared(p, total, text \o PrefetchingLap(p, total, n), n + 1)
<1> DEFINE d == p.depth
           slot == n % d
           next == (slot + 1) % d
           fet == Op("fetch", next, n + 1)
           C == Consume(slot, n)
           T == LapEnd(p, next, n + 1)
<1>0. d = p.depth
  OBVIOUS
<1>1. d \in Nat \ {0} /\ d <= 2
  BY DEF IsPlan, Supported
<1> HIDE DEF d
<1>2. slot \in Nat /\ slot \in 0 .. d - 1 /\ slot < d /\ n + 1 \in Nat
  BY <1>1, Remainders
<1>3. next = (n + 1) % d /\ next \in 0 .. d - 1 /\ next \in Nat /\ next < d
  <2>1. \A k \in Nat : ((n % d) + k) % d = (n + k) % d
    BY <1>1, Remainders
  <2>2. next = (n + 1) % d
    BY <2>1
  <2>3. (n + 1) % d \in 0 .. d - 1
    BY <1>1, <1>2, Remainders
  <2> QED
    BY <1>1, <2>2, <2>3
<1>4. d # 1 => slot # next
  <2>1. d # 1 => n < n + 1 /\ n + 1 < n + d
    BY <1>1
  <2> QED
    BY <1>1, <1>2, <1>3, <2>1, Remainders
<1>5. PrefetchingLap(p, total, n)
        = IF n < total
          THEN ((IF n + 1 < total THEN <<fet>> ELSE << >>) \o C)
               \o (IF n + 1 < total THEN T ELSE << >>)
          ELSE << >>
  BY <1>0 DEF PrefetchingLap, When, LapEnd
<1> HIDE DEF slot, next
<1>6. OperandsOf(p) = Streamed(p) /\ \A o \in OperandsOf(p) : BufferOf(p, o, slot) = <<o, slot>>
  <2>1. OperandsOf(p) = Streamed(p)
    BY <1>2, Kinds
  <2> QED
    BY <2>1 DEF BufferOf, Streamed
<1>7. \A t : FixedReady(p, t)
  BY DEF FixedReady
<1>8. CASE ~(n < total)
  <2>1. PrefetchingLap(p, total, n) \in Seq(Ops) /\ text \o PrefetchingLap(p, total, n) = text
    BY <1>5, <1>8, Puts
  <2>2. ~(n + 1 < total)
    BY <1>8
  <2> QED
    BY <2>1, <2>2 DEF Prepared
<1>9. CASE n < total /\ ~(n + 1 < total)
  <2> DEFINE more == text \o C
  <2>1. /\ C \in Seq(Ops) /\ Rendezvoused(p, more)
    BY <1>0, <1>2, <1>7, <1>9, ReadyRead DEF Prepared, slot
  <2> HIDE DEF more, C
  <2>2. PrefetchingLap(p, total, n) = (<< >> \o C) \o << >>
    BY <1>5, <1>9
  <2>3. (<< >> \o C) \o << >> = C
    BY <2>1, ConcatEmptySeq
  <2> QED
    BY <1>9, <2>1, <2>2, <2>3 DEF Prepared, more
<1>10. CASE n < total /\ n + 1 < total
  <2> DEFINE low == Append(text, fet)
             mid == low \o C
             more == mid \o T
  <2>1. fet \in Ops
    BY <1>2, <1>3, Kinds
  <2>2. /\ low \in Seq(Ops) /\ Rendezvoused(p, low) /\ Fetched(low, n + 1) /\ Synced(low)
        /\ \A b, x : Holds(p, text, b, x) => Holds(p, low, b, x)
        /\ \A b : WritesSynced(p, low, b)
        /\ \A b : ReadsSynced(p, text, b) => ReadsSynced(p, low, b)
    <3> DEFINE f == fet
    <3> HIDE DEF f
    <3> QED
      BY <1>0, <1>2, <1>3, <1>10, FetchStep DEF Prepared
  <2>3. <<fet>> \in Seq(Ops) /\ text \o <<fet>> = low
    <3> HIDE DEF fet
    <3> QED
      BY <2>1, Puts
  <2> HIDE DEF low, fet
  <2>4. Ready(p, low, n)
    BY <1>10, <2>2 DEF Ready, Prepared
  <2>5. /\ C \in Seq(Ops) /\ mid \in Seq(Ops) /\ Rendezvoused(p, mid) /\ Synced(mid)
        /\ \A b : (\A o \in OperandsOf(p) : b # BufferOf(p, o, slot)) /\ ReadsSynced(p, low, b)
                    => ReadsSynced(p, mid, b)
        /\ \A y : Fetched(low, y) => Fetched(mid, y)
    BY <1>0, <1>2, <1>7, <2>2, <2>4, ReadyRead DEF slot
  <2> HIDE DEF mid, C
  <2>6. d # 1 => \A o \in OperandsOf(p) : ReadsSynced(p, mid, <<o, next>>)
    <3>1. d # 1 => \A o, q \in OperandsOf(p) : <<o, next>> # BufferOf(p, q, slot)
      BY <1>4, <1>6
    <3>2. d # 1 => \A o \in OperandsOf(p) : ReadsSynced(p, low, <<o, next>>)
      BY <1>0, <1>3, <1>10, <2>2 DEF Prepared
    <3> QED
      BY <2>5, <3>1, <3>2
  <2>7. /\ T \in Seq(Ops) /\ more \in Seq(Ops) /\ Rendezvoused(p, more) /\ Synced(more)
        /\ \A b : WritesSynced(p, more, b) /\ ReadsSynced(p, more, b)
        /\ \A o \in OperandsOf(p) : Holds(p, more, <<o, next>>, n + 1)
    BY <1>0, <1>2, <1>3, <2>2, <2>5, <2>6, StoredAndSynced
  <2> HIDE DEF T
  <2>8. /\ PrefetchingLap(p, total, n) \in Seq(Ops)
        /\ text \o PrefetchingLap(p, total, n) = more
    <3>1. PrefetchingLap(p, total, n) = (<<fet>> \o C) \o T
      BY <1>5, <1>10
    <3>2. \A s, t \in Seq(Ops) : s \o t \in Seq(Ops) /\ text \o (s \o t) = (text \o s) \o t
      BY Puts
    <3>3. <<fet>> \o C \in Seq(Ops) /\ text \o (<<fet>> \o C) = mid
      BY <2>3, <2>5, <3>2, Zenon DEF mid
    <3>4. (<<fet>> \o C) \o T \in Seq(Ops) /\ text \o ((<<fet>> \o C) \o T) = (text \o (<<fet>> \o C)) \o T
      BY <2>7, <3>2, <3>3, Zenon
    <3> QED
      BY <3>1, <3>3, <3>4, Zenon DEF more
  <2> HIDE DEF more
  <2>9. Ready(p, more, n + 1)
    BY <1>0, <1>3, <1>6, <2>7 DEF Ready
  <2> QED
    BY <2>7, <2>8, <2>9 DEF Prepared
<1> QED
  BY <1>8, <1>9, <1>10

\* A lap of the prefetching loop is a text whatever came before it.
LEMMA PrefetchingLapIsText ==
  ASSUME NEW p, IsPlan(p), NEW total \in Nat, NEW n \in Nat
  PROVE  PrefetchingLap(p, total, n) \in Seq(Ops)
<1> DEFINE d == p.depth
           slot == n % d
           next == (slot + 1) % d
           fet == Op("fetch", next, n + 1)
           st == Op("store", next, n + 1)
           re == Op("read", slot, n)
<1>1. d \in Nat \ {0}
  BY DEF IsPlan, Supported
<1>2. slot \in Nat /\ next \in Nat /\ n + 1 \in Nat
  <2> HIDE DEF d
  <2>1. slot \in Nat
    BY <1>1, Remainders
  <2>2. slot + 1 \in Nat
    BY <2>1
  <2> HIDE DEF slot
  <2> QED
    BY <1>1, <2>1, <2>2, Remainders
<1>3. PrefetchingLap(p, total, n)
        = IF n < total
          THEN ((IF n + 1 < total THEN <<fet>> ELSE << >>) \o <<re>>)
               \o (IF n + 1 < total
                   THEN ((IF d = 1 THEN <<Sync>> ELSE << >>) \o <<st>>) \o <<Sync>> ELSE << >>)
          ELSE << >>
  BY DEF PrefetchingLap, When, Consume, Publish
<1>4. fet \in Ops /\ st \in Ops /\ re \in Ops /\ Sync \in Ops
  BY <1>2, Kinds
<1> HIDE DEF fet, st, re, Sync, d
<1>5. << >> \in Seq(Ops)
  BY EmptySeq
<1>6. /\ <<fet>> \in Seq(Ops) /\ <<st>> \in Seq(Ops) /\ <<re>> \in Seq(Ops) /\ <<Sync>> \in Seq(Ops)
      /\ \A s, t : s \in Seq(Ops) /\ t \in Seq(Ops) => s \o t \in Seq(Ops)
  BY <1>4, <1>5, Puts
<1>7. (IF n + 1 < total THEN <<fet>> ELSE << >>) \o <<re>> \in Seq(Ops)
  <2>1. (IF n + 1 < total THEN <<fet>> ELSE << >>) \in Seq(Ops)
    BY <1>5, <1>6
  <2> QED
    BY <1>6, <2>1, Zenon
<1>8. ((IF d = 1 THEN <<Sync>> ELSE << >>) \o <<st>>) \o <<Sync>> \in Seq(Ops)
  <2>1. (IF d = 1 THEN <<Sync>> ELSE << >>) \in Seq(Ops)
    BY <1>5, <1>6
  <2>2. (IF d = 1 THEN <<Sync>> ELSE << >>) \o <<st>> \in Seq(Ops)
    BY <1>6, <2>1, Zenon
  <2> QED
    BY <1>6, <2>2, Zenon
<1>9. CASE n < total
  <2>1. (IF n + 1 < total
         THEN ((IF d = 1 THEN <<Sync>> ELSE << >>) \o <<st>>) \o <<Sync>> ELSE << >>) \in Seq(Ops)
    BY <1>5, <1>8
  <2> QED
    BY <1>3, <1>6, <1>7, <1>9, <2>1, Zenon
<1>10. CASE ~(n < total)
  BY <1>3, <1>5, <1>10, Zenon
<1> QED
  BY <1>9, <1>10

\* The first region, filled and synced above the loop.
LEMMA PrimeFill ==
  ASSUME NEW p, IsPlan(p), Fixed(p) = {}, NEW total \in Nat
  PROVE  Prime(p, total) \in Seq(Ops) /\ Prepared(p, total, Prime(p, total), 0)
<1>1. << >> \in Seq(Ops) /\ Rendezvoused(p, << >>) /\ FirstSlot \in Nat /\ 0 \in Nat
      /\ FirstSlot < p.depth
  BY EmptySeq DEF Rendezvoused, FirstSlot, IsPlan, Supported
<1>2. CASE ~(0 < total)
  <2>1. Prime(p, total) = << >>
    BY <1>2 DEF Prime, When
  <2> QED
    BY <1>1, <1>2, <2>1 DEF Prepared
<1>3. CASE 0 < total
  <2> DEFINE F == FillStreamed(p, FirstSlot, 0)
             low == << >> \o F
             more == Append(low, Sync)
  <2>1. /\ F \in Seq(Ops) /\ low \in Seq(Ops) /\ Rendezvoused(p, low)
        /\ \A o \in Streamed(p) : Holds(p, low, <<o, FirstSlot>>, 0)
    <3> DEFINE none == << >>
    <3>1. none \in Seq(Ops) /\ Rendezvoused(p, none)
      BY <1>1
    <3> HIDE DEF none
    <3>2. /\ F \in Seq(Ops) /\ none \o F \in Seq(Ops) /\ Rendezvoused(p, none \o F)
          /\ \A o \in Streamed(p) : Holds(p, none \o F, <<o, FirstSlot>>, 0)
      BY <1>1, <3>1, StreamedFill
    <3> HIDE DEF F
    <3> QED
      BY <3>2 DEF none
  <2> HIDE DEF F
  <2>2. low = F
    BY <2>1, ConcatEmptySeq
  <2> HIDE DEF low
  <2>3. /\ more \in Seq(Ops) /\ Rendezvoused(p, more) /\ Synced(more)
        /\ \A b : WritesSynced(p, more, b) /\ ReadsSynced(p, more, b)
        /\ \A b, y : Holds(p, low, b, y) => Holds(p, more, b, y)
    <3> HIDE DEF Sync
    <3> QED
      BY <2>1, SyncStep
  <2>4. Prime(p, total) = F \o Publish
    BY <1>3 DEF Prime, When, F
  <2>5. F \o Publish = more
    <3>1. Sync \in Ops
      BY <1>1, Kinds
    <3>2. F \o <<Sync>> = Append(F, Sync)
      <4> HIDE DEF Sync
      <4> QED
        BY <2>1, <3>1, Puts
    <3> QED
      BY <2>2, <3>2, Zenon DEF Publish
  <2> HIDE DEF more
  <2>6. Ready(p, more, 0)
    <3>1. 0 % p.depth = FirstSlot
      <4>1. p.depth \in Nat \ {0} /\ 0 < p.depth
        BY DEF IsPlan, Supported
      <4> QED
        BY <1>1, <4>1, Remainders DEF FirstSlot
    <3> QED
      BY <2>1, <2>3, <3>1 DEF Ready
  <2> QED
    BY <2>3, <2>4, <2>5, <2>6 DEF Prepared
<1> QED
  BY <1>2, <1>3

\* The prefetching schedule, whatever the plan it supports and the total.
LEMMA PrefetchedRendezvous ==
  ASSUME NEW p, IsPlan(p), p.entry = "prefetched", NEW total \in Nat
  PROVE  Prefetched(p, total) \in Seq(Ops) /\ Rendezvoused(p, Prefetched(p, total))
<1>1. CASE HasFixed(p)
  BY <1>1, PipelinedRendezvous DEF Prefetched
<1>2. CASE ~HasFixed(p)
  <2> DEFINE d == p.depth
             laps == Laps(p, total) * d
             A == Prime(p, total)
             texts == [i \in 1 .. laps |-> PrefetchingLap(p, total, i - 1)]
             C == A \o FlattenSeq(texts)
             S == {s \in Seq(Ops) \X Nat : Prepared(p, total, s[1], s[2])}
  <2>1. Fixed(p) = {} /\ p.depth <= 2
    BY <1>2 DEF HasFixed, Fixed, OperandsOf, IsPlan, Supported
  <2>2. laps \in Nat
    <3>1. d \in Nat \ {0} /\ total + d - 1 \in Nat
      BY DEF IsPlan, Supported
    <3>2. Laps(p, total) \in Nat
      BY <3>1 DEF Laps
    <3> QED
      BY <3>1, <3>2
  <2>3. Prefetched(p, total) = C
    BY <1>2 DEF Prefetched, Loop
  <2>4. A \in Seq(Ops) /\ Prepared(p, total, A, 0)
    BY <2>1, PrimeFill
  <2> HIDE DEF A, laps
  <2>5. <<A, 0>> \in S
    BY <2>4
  <2>6. ASSUME NEW k \in 0 .. laps - 1, NEW text \in Seq(Ops), <<text, k>> \in S
        PROVE  <<text \o texts[k + 1], k + 1>> \in S
    <3>1. k \in Nat /\ texts[k + 1] = PrefetchingLap(p, total, k) /\ Prepared(p, total, text, k)
      BY <2>2, <2>6
    <3> DEFINE lap == texts[k + 1]
    <3> HIDE DEF texts
    <3>2. lap \in Seq(Ops) /\ Prepared(p, total, text \o lap, k + 1)
      BY <2>1, <3>1, PrefetchedLap
    <3> DEFINE more == text \o lap
    <3> HIDE DEF lap
    <3>3. more \in Seq(Ops) /\ Prepared(p, total, more, k + 1)
      BY <3>2, Puts
    <3> HIDE DEF more
    <3>4. <<more, k + 1>> \in S
      BY <3>1, <3>3
    <3> QED
      BY <3>4, Zenon DEF lap, more
  <2>7. texts \in [1 .. laps -> Seq(Ops)]
    <3>1. \A i \in 1 .. laps : i - 1 \in Nat
      OBVIOUS
    <3>2. \A k \in Nat : PrefetchingLap(p, total, k) \in Seq(Ops)
      BY PrefetchingLapIsText
    <3> QED
      BY <3>1, <3>2
  <2> HIDE DEF texts
  <2>8. C \in Seq(Ops) /\ <<C, laps>> \in S
    <3> HIDE DEF S
    <3> QED
      BY <2>2, <2>4, <2>5, <2>6, <2>7, LoopInduct
  <2> QED
    BY <2>3, <2>8 DEF Prepared
<1> QED
  BY <1>1, <1>2

\* The text of every plan rendezvous, by either schedule.
LEMMA ScheduleRendezvous ==
  ASSUME NEW p, IsPlan(p), NEW total \in Nat
  PROVE  Schedule(p, total) \in Seq(Ops) /\ Rendezvoused(p, Schedule(p, total))
BY PipelinedRendezvous, PrefetchedRendezvous DEF Schedule, IsPlan
-----------------------------------------------------------------------------
(***************************************************************************)
(* The units on their way through the texts.                               *)
(***************************************************************************)
\* The programs of a run are texts that rendezvous.
LEMMA Texts ==
  ASSUME TypeOK
  PROVE  /\ IsPlan(plan)
         /\ \A w \in 1 .. Walks : program[w] \in Seq(Ops) /\ Rendezvoused(plan, program[w])
         /\ \A w \in 1 .. Walks : Len(program[w]) \in Nat /\ \A i \in 1 .. Len(program[w]) : program[w][i] \in Ops
<1>1. IsPlan(plan)
  BY PlansAssumption DEF TypeOK, IsPlan, OperandsOf
<1>2. ASSUME NEW w \in 1 .. Walks
      PROVE  program[w] \in Seq(Ops) /\ Rendezvoused(plan, program[w])
  <2>1. totals[w] \in Nat /\ program[w] = Schedule(plan, totals[w])
    BY BoundsAssumption DEF TypeOK
  <2> QED
    BY <1>1, <2>1, ScheduleRendezvous
<1>3. ASSUME NEW w \in 1 .. Walks
      PROVE  Len(program[w]) \in Nat /\ \A i \in 1 .. Len(program[w]) : program[w][i] \in Ops
  <2> DEFINE text == program[w]
  <2>1. text \in Seq(Ops)
    BY <1>2
  <2> HIDE DEF text
  <2>2. Len(text) \in Nat /\ \A i \in 1 .. Len(text) : text[i] \in Ops
    BY <2>1, LenProperties, ElementOfSeq
  <2> QED
    BY <2>2 DEF text
<1> QED
  BY <1>1, <1>2, <1>3

\* A unit that runs is at an operation of the walk it is in.
LEMMA WhereItIs ==
  ASSUME TypeOK, NEW u \in Units, Runs(u)
  PROVE  /\ walk[u] \in 1 .. Walks /\ pc[u] \in Nat
         /\ pc[u] + 1 \in 1 .. Len(program[walk[u]]) /\ Len(program[walk[u]]) \in Nat
         /\ Current(u) = program[walk[u]][pc[u] + 1] /\ Current(u) \in Ops
<1>1. walk[u] \in 1 .. Walks + 1 /\ walk[u] <= Walks /\ pc[u] \in Nat /\ pc[u] < Len(program[walk[u]])
  BY BoundsAssumption DEF TypeOK, Runs, Finished
<1>2. walk[u] \in 1 .. Walks
  BY <1>1, BoundsAssumption
<1>3. Len(program[walk[u]]) \in Nat
  BY <1>2, Texts
<1>4. pc[u] + 1 \in 1 .. Len(program[walk[u]])
  BY <1>1, <1>3
<1> QED
  BY <1>1, <1>2, <1>3, <1>4, Texts DEF Current

\* The initial state.
LEMMA InitIInv ==
  ASSUME Init
  PROVE  IInv
<1> USE DEF Init
<1>1. Walks \in Nat /\ 1 <= Walks /\ MaxTotal \in Nat
  BY BoundsAssumption
<1>2. \A u \in Units : ~Finished(u) /\ walk[u] = 1 /\ pc[u] = 0
  BY <1>1 DEF Finished
<1>3. TypeOK
  <2>1. \A u \in Units : pc[u] <= IF Finished(u) THEN 0 ELSE Len(program[walk[u]])
    <3>1. totals[1] \in Nat /\ program[1] = Schedule(plan, totals[1])
      BY <1>1
    <3>2. IsPlan(plan)
      BY PlansAssumption DEF IsPlan, OperandsOf
    <3>3. program[1] \in Seq(Ops)
      BY <3>1, <3>2, ScheduleRendezvous
    <3>4. Len(program[1]) \in Nat
      BY <3>3, LenProperties
    <3> QED
      BY <1>2, <3>4
  <2>2. /\ walk \in [Units -> 1 .. Walks + 1] /\ pc \in [Units -> Nat]
        /\ fetched \in [Units -> Nat \X Nat] /\ share \in [Buffers -> [Units -> Nat \X Nat]]
    BY <1>1 DEF Nothing
  <2> QED
    BY <2>1, <2>2 DEF TypeOK
<1>4. \A u \in Units, w \in 1 .. Walks : \A i \in 1 .. Len(program[w]) : ~Past(u, w, i)
  <2> SUFFICES ASSUME NEW u \in Units, NEW w \in 1 .. Walks, NEW i \in 1 .. Len(program[w]), Past(u, w, i)
               PROVE  FALSE
    OBVIOUS
  <2>1. Len(program[w]) \in Nat
    BY <1>3, Texts
  <2>2. i >= 1 /\ w >= 1 /\ i \in Nat /\ w \in Nat
    BY <1>1, <2>1
  <2> QED
    BY <1>2, <2>2 DEF Past
<1>5. InTheSameEpoch
  BY <1>4 DEF InTheSameEpoch
<1>6. SharesAreWritten
  BY <1>4 DEF SharesAreWritten, LastWrite
<1>7. FetchesAreHeld
  BY <1>2 DEF FetchesAreHeld
<1> QED
  BY <1>3, <1>5, <1>6, <1>7 DEF IInv

\* What a unit that takes an operation, and no other, is past.
LEMMA PastByOp ==
  ASSUME IInv, NEW u \in Units, Runs(u), Advance(u), walk' = walk, program' = program
  PROVE  \A v \in Units, w \in 1 .. Walks : \A i \in 1 .. Len(program[w]) :
           Past(v, w, i)' <=> Past(v, w, i) \/ (v = u /\ w = walk[u] /\ i = pc[u] + 1)
<1>1. walk \in [Units -> 1 .. Walks + 1] /\ pc \in [Units -> Nat]
  BY DEF IInv, TypeOK
<1>2. pc' = [pc EXCEPT ![u] = pc[u] + 1]
  BY DEF Advance
<1> SUFFICES ASSUME NEW v \in Units, NEW w \in 1 .. Walks, NEW i \in 1 .. Len(program[w])
             PROVE  Past(v, w, i)' <=> Past(v, w, i) \/ (v = u /\ w = walk[u] /\ i = pc[u] + 1)
  OBVIOUS
<1>3. Len(program[w]) \in Nat /\ i \in Nat /\ w \in Nat
  <2>1. Len(program[w]) \in Nat
    BY Texts DEF IInv
  <2> QED
    BY <2>1, BoundsAssumption
<1>4. walk[u] \in Nat /\ walk[v] \in Nat /\ pc[u] \in Nat /\ pc[v] \in Nat
  BY <1>1, BoundsAssumption
<1>5. CASE v = u
  <2>1. pc'[v] = pc[u] + 1
    BY <1>1, <1>2, <1>5
  <2> QED
    BY <1>3, <1>4, <1>5, <2>1 DEF Past
<1>6. CASE v # u
  <2>1. pc'[v] = pc[v]
    BY <1>1, <1>2, <1>6
  <2> QED
    BY <1>6, <2>1 DEF Past
<1> QED
  BY <1>5, <1>6

\* An operation that is no sync leaves the units in one epoch.
LEMMA OpKeepsEpoch ==
  ASSUME IInv, NEW u \in Units, Runs(u), Current(u).do # "sync",
         Advance(u), walk' = walk, program' = program
  PROVE  InTheSameEpoch'
<1> SUFFICES ASSUME NEW v \in Units, NEW t \in Units, NEW w \in 1 .. Walks, NEW i \in 1 .. Len(program[w]),
                    program[w][i].do = "sync", Past(v, w, i)'
             PROVE  Past(t, w, i)'
  BY DEF InTheSameEpoch
<1>1. ~(v = u /\ w = walk[u] /\ i = pc[u] + 1)
  BY WhereItIs DEF IInv
<1>2. Past(v, w, i)
  BY <1>1, PastByOp
<1>3. Past(t, w, i)
  BY <1>2 DEF IInv, InTheSameEpoch
<1> QED
  BY <1>3, PastByOp

\* An operation that leaves of what it writes its own region, and no other
\* share changed, is the last write of it.
LEMMA OpKeepsShares ==
  ASSUME IInv, NEW u \in Units, Runs(u), Advance(u),
         plan' = plan, walk' = walk, program' = program,
         \A b \in Buffers, v \in Units :
           share'[b][v] = IF v = u /\ b \in WrittenBy(plan, Current(u))
                          THEN <<walk[u], Current(u).region>> ELSE share[b][v]
  PROVE  SharesAreWritten'
<1>0. PICK W, J : W = walk[u] /\ J = pc[u] + 1
  OBVIOUS
<1> SUFFICES ASSUME NEW v \in Units, NEW b \in Buffers, NEW w \in 1 .. Walks, NEW i \in 1 .. Len(program[w]),
                    LastWrite(v, b, w, i)'
             PROVE  share'[b][v] = <<w, program[w][i].region>>
  BY DEF SharesAreWritten, Buffers
<1>1. /\ W \in 1 .. Walks /\ J \in 1 .. Len(program[W]) /\ Current(u) = program[W][J]
  BY <1>0, WhereItIs DEF IInv
<1>2. \A t \in Units, x \in 1 .. Walks : \A k \in 1 .. Len(program[x]) :
        Past(t, x, k)' <=> Past(t, x, k) \/ (t = u /\ x = W /\ k = J)
  BY <1>0, PastByOp
<1>3. /\ Past(v, w, i)' /\ b \in WrittenBy(plan, program[w][i])
      /\ \A x \in 1 .. Walks : \A k \in 1 .. Len(program[x]) :
           Past(v, x, k)' /\ (w < x \/ (w = x /\ i < k)) => b \notin WrittenBy(plan, program[x][k])
  BY DEF LastWrite
<1>4. CASE v = u /\ w = W /\ i = J
  BY <1>0, <1>1, <1>3, <1>4
<1>5. CASE ~(v = u /\ w = W /\ i = J)
  <2>1. Past(v, w, i)
    BY <1>2, <1>3, <1>5
  <2>2. LastWrite(v, b, w, i)
    BY <1>2, <1>3, <2>1 DEF LastWrite
  <2>3. share[b][v] = <<w, program[w][i].region>>
    BY <2>2 DEF IInv, SharesAreWritten
  <2>4. ~(v = u /\ b \in WrittenBy(plan, Current(u)))
    <3> SUFFICES ASSUME v = u, b \in WrittenBy(plan, Current(u)) PROVE FALSE
      OBVIOUS
    <3>1. Past(v, W, J)'
      BY <1>1, <1>2
    <3>2. w < W \/ (w = W /\ i < J)
      <4>1. w < W \/ (w = W /\ i <= pc[u])
        BY <1>0, <2>1 DEF Past
      <4>2. i <= pc[u] => i < J
        <5>1. pc[u] \in Nat /\ Len(program[w]) \in Nat
          BY Texts DEF IInv, TypeOK
        <5> QED
          BY <1>0, <5>1
      <4> QED
        BY <4>1, <4>2
    <3> QED
      BY <1>1, <1>3, <3>1, <3>2
  <2> QED
    BY <2>3, <2>4
<1> QED
  BY <1>4, <1>5

\* An operation keeps what a unit fetched last in its registers.
LEMMA OpKeepsFetches ==
  ASSUME IInv, NEW u \in Units, Runs(u), Advance(u), walk' = walk, program' = program,
         IF Current(u).do = "fetch"
         THEN fetched' = [fetched EXCEPT ![u] = <<walk[u], Current(u).region>>]
         ELSE fetched' = fetched
  PROVE  FetchesAreHeld'
<1> SUFFICES ASSUME NEW v \in Units, ~Finished(v)', NEW i \in 1 .. pc'[v],
                    program[walk[v]][i].do = "fetch",
                    \A k \in i + 1 .. pc'[v] : program[walk[v]][k].do # "fetch"
             PROVE  fetched'[v] = <<walk[v], program[walk[v]][i].region>>
  BY DEF FetchesAreHeld
<1>1. pc \in [Units -> Nat] /\ fetched \in [Units -> Nat \X Nat] /\ ~Finished(v)
  BY DEF IInv, TypeOK, Finished
<1>2. CASE v # u
  <2>1. pc'[v] = pc[v] /\ fetched'[v] = fetched[v]
    BY <1>1, <1>2 DEF Advance
  <2> QED
    BY <1>1, <2>1 DEF IInv, FetchesAreHeld
<1>3. CASE v = u
  <2>1. pc'[v] = pc[u] + 1 /\ pc[u] \in Nat
    BY <1>1, <1>3 DEF Advance
  <2>2. Current(u) = program[walk[u]][pc[u] + 1]
    BY DEF Current
  <2>3. CASE i = pc[u] + 1
    <3>1. Current(u).do = "fetch"
      BY <1>3, <2>2, <2>3
    <3>2. fetched'[u] = <<walk[u], Current(u).region>>
      BY <1>1, <3>1
    <3> QED
      BY <1>3, <2>2, <2>3, <3>2
  <2>4. CASE i # pc[u] + 1
    <3>1. i \in 1 .. pc[u] /\ \A k \in i + 1 .. pc[u] : k \in i + 1 .. pc'[v]
      BY <2>1, <2>4
    <3>2. Current(u).do # "fetch"
      <4>1. pc[u] + 1 \in i + 1 .. pc'[v]
        BY <2>1, <2>4
      <4> QED
        BY <1>3, <2>2, <4>1
    <3>3. fetched[u] = <<walk[u], program[walk[u]][i].region>>
      BY <1>1, <1>3, <3>1 DEF IInv, FetchesAreHeld
    <3> QED
      BY <1>3, <3>2, <3>3
  <2> QED
    BY <2>3, <2>4
<1> QED
  BY <1>2, <1>3

\* An operation keeps the types, when what it leaves has them.
LEMMA OpKeepsTypes ==
  ASSUME IInv, NEW u \in Units, Runs(u), Advance(u),
         plan' = plan, totals' = totals, walk' = walk, program' = program,
         share' \in [Buffers -> [Units -> Nat \X Nat]], fetched' \in [Units -> Nat \X Nat]
  PROVE  TypeOK'
<1>1. pc \in [Units -> Nat] /\ pc' = [pc EXCEPT ![u] = pc[u] + 1]
  BY DEF IInv, TypeOK, Advance
<1>2. pc' \in [Units -> Nat] /\ \A v \in Units : pc'[v] = IF v = u THEN pc[u] + 1 ELSE pc[v]
  BY <1>1
<1>3. ~Finished(u) /\ pc[u] + 1 <= Len(program[walk[u]])
  BY WhereItIs DEF IInv, Runs
<1>4. ASSUME NEW v \in Units
      PROVE  pc'[v] <= IF Finished(v)' THEN 0 ELSE Len(program'[walk'[v]])
  <2>1. Finished(v)' <=> Finished(v)
    BY DEF Finished
  <2>2. CASE v = u
    BY <1>2, <1>3, <2>1, <2>2
  <2>3. CASE v # u
    BY <1>2, <2>1, <2>3 DEF IInv, TypeOK
  <2> QED
    BY <2>2, <2>3
<1>5. Buffers' = Buffers
  BY DEF Buffers
<1> QED
  BY <1>2, <1>4, <1>5 DEF IInv, TypeOK

\* What `Store` finds in the registers is the region it stores.
LEMMA StoreFindsItsRegion ==
  ASSUME IInv, NEW u \in Units, AtOp(u, "store")
  PROVE  fetched[u] = <<walk[u], Current(u).region>>
<1> DEFINE w == walk[u]
           j == pc[u] + 1
           text == program[w]
<1>1. Runs(u) /\ Current(u).do = "store"
  BY DEF AtOp
<1>2. /\ w \in 1 .. Walks /\ pc[u] \in Nat /\ j \in 1 .. Len(text)
      /\ Current(u) = text[j]
  BY <1>1, WhereItIs DEF IInv
<1>3. Rendezvoused(plan, text)
  BY <1>2, Texts DEF IInv
<1> HIDE DEF text
<1>4. PICK i \in 1 .. j - 1 :
        /\ text[i].do = "fetch" /\ text[i].region = text[j].region
        /\ \A k \in i + 1 .. j - 1 : text[k].do # "fetch"
  BY <1>1, <1>2, <1>3 DEF Rendezvoused
<1>5. j - 1 = pc[u]
  BY <1>2
<1>6. fetched[u] = <<walk[u], text[i].region>>
  BY <1>1, <1>4, <1>5 DEF IInv, FetchesAreHeld, Runs, text
<1> QED
  BY <1>2, <1>4, <1>6

\* `Payload::bring`.
LEMMA BringKeeps ==
  ASSUME IInv, NEW u \in Units, Bring(u)
  PROVE  IInv'
<1>1. Runs(u) /\ Current(u).do = "bring" /\ Advance(u)
  BY DEF Bring, AtOp
<1>2. /\ plan' = plan /\ totals' = totals /\ program' = program /\ walk' = walk /\ fetched' = fetched
      /\ share' = [b \in Buffers |-> IF b \in WrittenBy(plan, Current(u))
                     THEN [share[b] EXCEPT ![u] = <<walk[u], Current(u).region>>] ELSE share[b]]
  BY DEF Bring
<1>3. <<walk[u], Current(u).region>> \in Nat \X Nat
  BY <1>1, WhereItIs, BoundsAssumption DEF IInv, Ops
<1>4. share \in [Buffers -> [Units -> Nat \X Nat]] /\ fetched \in [Units -> Nat \X Nat]
  BY DEF IInv, TypeOK
<1>5. share' \in [Buffers -> [Units -> Nat \X Nat]]
  BY <1>2, <1>3, <1>4
<1>6. \A b \in Buffers, v \in Units :
        share'[b][v] = IF v = u /\ b \in WrittenBy(plan, Current(u))
                       THEN <<walk[u], Current(u).region>> ELSE share[b][v]
  BY <1>2, <1>4
<1>7. TypeOK'
  BY <1>1, <1>2, <1>4, <1>5, OpKeepsTypes
<1>8. InTheSameEpoch'
  BY <1>1, <1>2, OpKeepsEpoch
<1>9. SharesAreWritten'
  BY <1>1, <1>2, <1>6, OpKeepsShares
<1>10. FetchesAreHeld'
  BY <1>1, <1>2, OpKeepsFetches
<1> QED
  BY <1>7, <1>8, <1>9, <1>10 DEF IInv

\* `Stages::fetch`.
LEMMA FetchKeeps ==
  ASSUME IInv, NEW u \in Units, Fetch(u)
  PROVE  IInv'
<1>1. Runs(u) /\ Current(u).do = "fetch" /\ Advance(u) /\ WrittenBy(plan, Current(u)) = {}
  BY DEF Fetch, AtOp, WrittenBy
<1>2. /\ plan' = plan /\ totals' = totals /\ program' = program /\ walk' = walk /\ share' = share
      /\ fetched' = [fetched EXCEPT ![u] = <<walk[u], Current(u).region>>]
  BY DEF Fetch
<1>3. <<walk[u], Current(u).region>> \in Nat \X Nat
  BY <1>1, WhereItIs, BoundsAssumption DEF IInv, Ops
<1>4. share \in [Buffers -> [Units -> Nat \X Nat]] /\ fetched \in [Units -> Nat \X Nat]
  BY DEF IInv, TypeOK
<1>5. fetched' \in [Units -> Nat \X Nat]
  BY <1>2, <1>3, <1>4
<1>6. TypeOK'
  BY <1>1, <1>2, <1>4, <1>5, OpKeepsTypes
<1>7. InTheSameEpoch'
  BY <1>1, <1>2, OpKeepsEpoch
<1>8. SharesAreWritten'
  BY <1>1, <1>2, OpKeepsShares
<1>9. FetchesAreHeld'
  BY <1>1, <1>2, OpKeepsFetches
<1> QED
  BY <1>6, <1>7, <1>8, <1>9 DEF IInv

\* `Stages::store`.
LEMMA StoreKeeps ==
  ASSUME IInv, NEW u \in Units, Store(u)
  PROVE  IInv'
<1>1. Runs(u) /\ Current(u).do = "store" /\ Advance(u) /\ AtOp(u, "store")
  BY DEF Store, AtOp
<1>2. /\ plan' = plan /\ totals' = totals /\ program' = program /\ walk' = walk /\ fetched' = fetched
      /\ share' = [b \in Buffers |-> IF b \in WrittenBy(plan, Current(u))
                     THEN [share[b] EXCEPT ![u] = fetched[u]] ELSE share[b]]
  BY DEF Store
<1>3. fetched[u] = <<walk[u], Current(u).region>>
  BY <1>1, StoreFindsItsRegion
<1>4. share \in [Buffers -> [Units -> Nat \X Nat]] /\ fetched \in [Units -> Nat \X Nat]
  BY DEF IInv, TypeOK
<1>5. share' \in [Buffers -> [Units -> Nat \X Nat]]
  BY <1>2, <1>4
<1>6. \A b \in Buffers, v \in Units :
        share'[b][v] = IF v = u /\ b \in WrittenBy(plan, Current(u))
                       THEN <<walk[u], Current(u).region>> ELSE share[b][v]
  BY <1>2, <1>3, <1>4
<1>7. TypeOK'
  BY <1>1, <1>2, <1>4, <1>5, OpKeepsTypes
<1>8. InTheSameEpoch'
  BY <1>1, <1>2, OpKeepsEpoch
<1>9. SharesAreWritten'
  BY <1>1, <1>2, <1>6, OpKeepsShares
<1>10. FetchesAreHeld'
  BY <1>1, <1>2, OpKeepsFetches
<1> QED
  BY <1>7, <1>8, <1>9, <1>10 DEF IInv

\* The kernel's contraction over a slot.
LEMMA ComputeKeeps ==
  ASSUME IInv, NEW u \in Units, Compute(u)
  PROVE  IInv'
<1>1. Runs(u) /\ Current(u).do = "read" /\ Advance(u) /\ WrittenBy(plan, Current(u)) = {}
  BY DEF Compute, AtOp, WrittenBy
<1>2. /\ plan' = plan /\ totals' = totals /\ program' = program /\ walk' = walk /\ share' = share
      /\ fetched' = fetched
  BY DEF Compute
<1>3. share \in [Buffers -> [Units -> Nat \X Nat]] /\ fetched \in [Units -> Nat \X Nat]
  BY DEF IInv, TypeOK
<1>4. TypeOK'
  BY <1>1, <1>2, <1>3, OpKeepsTypes
<1>5. InTheSameEpoch'
  BY <1>1, <1>2, OpKeepsEpoch
<1>6. SharesAreWritten'
  BY <1>1, <1>2, OpKeepsShares
<1>7. FetchesAreHeld'
  BY <1>1, <1>2, OpKeepsFetches
<1> QED
  BY <1>4, <1>5, <1>6, <1>7 DEF IInv

\* The start of the next walk: the unit is past all of this one already.
LEMMA NextWalkKeeps ==
  ASSUME IInv, NEW u \in Units, NextWalk(u)
  PROVE  IInv'
<1>1. /\ ~Finished(u) /\ pc[u] = Len(program[walk[u]])
      /\ walk' = [walk EXCEPT ![u] = walk[u] + 1] /\ pc' = [pc EXCEPT ![u] = 0]
      /\ plan' = plan /\ totals' = totals /\ program' = program /\ share' = share /\ fetched' = fetched
  BY DEF NextWalk
<1>2. /\ walk \in [Units -> 1 .. Walks + 1] /\ pc \in [Units -> Nat] /\ Walks \in Nat
      /\ walk[u] \in 1 .. Walks
  BY <1>1, BoundsAssumption DEF IInv, TypeOK, Finished
<1>3. \A v \in Units : /\ walk'[v] = IF v = u THEN walk[u] + 1 ELSE walk[v]
                       /\ pc'[v] = IF v = u THEN 0 ELSE pc[v]
  BY <1>1, <1>2
<1>4. ASSUME NEW v \in Units, NEW w \in 1 .. Walks, NEW i \in 1 .. Len(program[w])
      PROVE  Past(v, w, i)' <=> Past(v, w, i)
  <2>1. Len(program[w]) \in Nat /\ w \in Nat /\ i \in Nat /\ i >= 1
    BY <1>2, Texts DEF IInv
  <2>2. CASE v = u
    <3>1. walk[u] \in Nat /\ pc[u] \in Nat /\ w = walk[u] => i <= pc[u]
      BY <1>1, <1>2
    <3>2. walk'[v] = walk[u] + 1 /\ pc'[v] = 0
      BY <1>3, <2>2
    <3>3. Past(v, w, i)' <=> w < walk[u] + 1 \/ (w = walk[u] + 1 /\ i <= 0)
      BY <3>2 DEF Past
    <3>4. Past(v, w, i) <=> w < walk[u] \/ (w = walk[u] /\ i <= pc[u])
      BY <2>2 DEF Past
    <3> QED
      BY <1>2, <2>1, <3>1, <3>3, <3>4
  <2>3. CASE v # u
    BY <1>3, <2>3 DEF Past
  <2> QED
    BY <2>2, <2>3
<1>5. TypeOK'
  <2>1. walk' \in [Units -> 1 .. Walks + 1] /\ pc' \in [Units -> Nat]
    BY <1>1, <1>2
  <2>2. ASSUME NEW v \in Units
        PROVE  pc'[v] <= IF Finished(v)' THEN 0 ELSE Len(program'[walk'[v]])
    <3>1. CASE v = u
      <4>1. pc'[v] = 0 /\ walk'[v] \in 1 .. Walks + 1
        BY <1>2, <1>3, <2>1, <3>1
      <4>2. CASE Finished(v)'
        BY <4>1, <4>2
      <4>3. CASE ~Finished(v)'
        <5>1. walk'[v] \in 1 .. Walks
          BY <1>2, <4>1, <4>3 DEF Finished
        <5>2. Len(program[walk'[v]]) \in Nat
          BY <5>1, Texts DEF IInv
        <5> QED
          BY <1>1, <4>1, <4>3, <5>2
      <4> QED
        BY <4>2, <4>3
    <3>2. CASE v # u
      BY <1>1, <1>3, <3>2 DEF IInv, TypeOK, Finished
    <3> QED
      BY <3>1, <3>2
  <2>3. Buffers' = Buffers
    BY <1>1 DEF Buffers
  <2> QED
    BY <1>1, <2>1, <2>2, <2>3 DEF IInv, TypeOK
<1>6. InTheSameEpoch'
  BY <1>1, <1>4 DEF IInv, InTheSameEpoch
<1>7. SharesAreWritten'
  <2>1. ASSUME NEW v \in Units, NEW b, NEW w \in 1 .. Walks, NEW i \in 1 .. Len(program[w])
        PROVE  LastWrite(v, b, w, i)' <=> LastWrite(v, b, w, i)
    BY <1>1, <1>4 DEF LastWrite
  <2>2. Buffers' = Buffers
    BY <1>1 DEF Buffers
  <2> QED
    BY <1>1, <2>1, <2>2 DEF IInv, SharesAreWritten
<1>8. FetchesAreHeld'
  <2> SUFFICES ASSUME NEW v \in Units, ~Finished(v)', NEW i \in 1 .. pc'[v],
                      program[walk'[v]][i].do = "fetch",
                      \A k \in i + 1 .. pc'[v] : program[walk'[v]][k].do # "fetch"
               PROVE  fetched[v] = <<walk'[v], program[walk'[v]][i].region>>
    BY <1>1 DEF FetchesAreHeld
  <2>1. v # u
    BY <1>3
  <2>2. walk'[v] = walk[v] /\ pc'[v] = pc[v] /\ ~Finished(v)
    BY <1>3, <2>1 DEF Finished
  <2> QED
    BY <2>2 DEF IInv, FetchesAreHeld
<1> QED
  BY <1>5, <1>6, <1>7, <1>8 DEF IInv

\* `sync_cube`, which finds every unit at one sync of one walk.
LEMMA SyncCubeKeeps ==
  ASSUME IInv, SyncCube
  PROVE  IInv'
<1>1. /\ \A u \in Units : Runs(u) /\ Current(u).do = "sync"
      /\ pc' = [u \in Units |-> pc[u] + 1]
      /\ plan' = plan /\ totals' = totals /\ program' = program /\ walk' = walk /\ share' = share
      /\ fetched' = fetched
  BY DEF SyncCube, AtOp
<1>2. /\ walk \in [Units -> 1 .. Walks + 1] /\ pc \in [Units -> Nat] /\ Walks \in Nat
      /\ \A u \in Units : walk[u] \in 1 .. Walks
  BY <1>1, WhereItIs, BoundsAssumption DEF IInv, TypeOK
<1>3. ASSUME NEW u \in Units, NEW v \in Units
      PROVE  ~(walk[u] < walk[v] \/ (walk[u] = walk[v] /\ pc[u] < pc[v]))
  <2> SUFFICES ASSUME walk[u] < walk[v] \/ (walk[u] = walk[v] /\ pc[u] < pc[v]) PROVE FALSE
    OBVIOUS
  <2>1. /\ walk[u] \in 1 .. Walks /\ pc[u] + 1 \in 1 .. Len(program[walk[u]])
        /\ program[walk[u]][pc[u] + 1].do = "sync"
    BY <1>1, WhereItIs DEF IInv
  <2>2. pc[u] \in Nat /\ pc[v] \in Nat /\ walk[u] \in Nat /\ walk[v] \in Nat
    BY <1>2
  <2>3. Past(v, walk[u], pc[u] + 1)
    BY <2>2 DEF Past
  <2>4. Past(u, walk[u], pc[u] + 1)
    BY <2>1, <2>3 DEF IInv, InTheSameEpoch
  <2> QED
    BY <2>2, <2>4 DEF Past
<1>4. \A u, v \in Units : walk[u] = walk[v] /\ pc[u] = pc[v]
  <2> SUFFICES ASSUME NEW u \in Units, NEW v \in Units PROVE walk[u] = walk[v] /\ pc[u] = pc[v]
    OBVIOUS
  <2>1. pc[u] \in Nat /\ pc[v] \in Nat /\ walk[u] \in Nat /\ walk[v] \in Nat
    BY <1>2
  <2> QED
    BY <1>3, <2>1
<1>5. ASSUME NEW v \in Units, NEW w \in 1 .. Walks, NEW i \in 1 .. Len(program[w])
      PROVE  Past(v, w, i)' <=> Past(v, w, i) \/ (w = walk[v] /\ i = pc[v] + 1)
  <2>1. Len(program[w]) \in Nat /\ w \in Nat /\ i \in Nat
    BY <1>2, Texts DEF IInv
  <2>2. walk[v] \in Nat /\ pc[v] \in Nat /\ pc'[v] = pc[v] + 1
    BY <1>1, <1>2
  <2> QED
    BY <1>1, <2>1, <2>2 DEF Past
<1>6. TypeOK'
  <2>1. pc' \in [Units -> Nat]
    BY <1>1, <1>2
  <2>2. ASSUME NEW v \in Units
        PROVE  pc'[v] <= IF Finished(v)' THEN 0 ELSE Len(program'[walk'[v]])
    <3>1. ~Finished(v) /\ pc[v] + 1 \in 1 .. Len(program[walk[v]]) /\ Len(program[walk[v]]) \in Nat
      BY <1>1, WhereItIs DEF IInv, Runs
    <3>2. ~Finished(v)' /\ pc'[v] = pc[v] + 1
      BY <1>1, <3>1 DEF Finished
    <3> QED
      BY <1>1, <3>1, <3>2
  <2>3. Buffers' = Buffers
    BY <1>1 DEF Buffers
  <2> QED
    BY <1>1, <2>1, <2>2, <2>3 DEF IInv, TypeOK
<1>7. InTheSameEpoch'
  <2> SUFFICES ASSUME NEW u \in Units, NEW v \in Units, NEW w \in 1 .. Walks, NEW i \in 1 .. Len(program[w]),
                      program[w][i].do = "sync", Past(u, w, i)'
               PROVE  Past(v, w, i)'
    BY <1>1 DEF InTheSameEpoch
  <2>1. CASE Past(u, w, i)
    <3>1. Past(v, w, i)
      BY <2>1 DEF IInv, InTheSameEpoch
    <3> QED
      BY <1>5, <3>1
  <2>2. CASE w = walk[u] /\ i = pc[u] + 1
    BY <1>4, <1>5, <2>2
  <2> QED
    BY <1>5, <2>1, <2>2
<1>8. SharesAreWritten'
  <2> SUFFICES ASSUME NEW v \in Units, NEW b \in Buffers, NEW w \in 1 .. Walks, NEW i \in 1 .. Len(program[w]),
                      LastWrite(v, b, w, i)'
               PROVE  share[b][v] = <<w, program[w][i].region>>
    BY <1>1 DEF SharesAreWritten, Buffers
  <2>1. /\ Past(v, w, i)' /\ b \in WrittenBy(plan, program[w][i])
        /\ \A x \in 1 .. Walks : \A k \in 1 .. Len(program[x]) :
             Past(v, x, k)' /\ (w < x \/ (w = x /\ i < k)) => b \notin WrittenBy(plan, program[x][k])
    BY <1>1 DEF LastWrite
  <2>2. ~(w = walk[v] /\ i = pc[v] + 1)
    <3>1. program[walk[v]][pc[v] + 1].do = "sync"
      BY <1>1 DEF Current
    <3> QED
      BY <2>1, <3>1 DEF WrittenBy
  <2>3. Past(v, w, i)
    BY <1>5, <2>1, <2>2
  <2>4. LastWrite(v, b, w, i)
    BY <1>5, <2>1, <2>3 DEF LastWrite
  <2> QED
    BY <2>4 DEF IInv, SharesAreWritten
<1>9. FetchesAreHeld'
  <2> SUFFICES ASSUME NEW v \in Units, NEW i \in 1 .. pc'[v],
                      program[walk[v]][i].do = "fetch",
                      \A k \in i + 1 .. pc'[v] : program[walk[v]][k].do # "fetch"
               PROVE  fetched[v] = <<walk[v], program[walk[v]][i].region>>
    BY <1>1 DEF FetchesAreHeld, Finished
  <2>1. pc'[v] = pc[v] + 1 /\ pc[v] \in Nat /\ ~Finished(v) /\ program[walk[v]][pc[v] + 1].do = "sync"
    BY <1>1, <1>2 DEF Current, Runs
  <2>2. i # pc[v] + 1
    BY <2>1
  <2>3. i \in 1 .. pc[v] /\ \A k \in i + 1 .. pc[v] : k \in i + 1 .. pc'[v]
    BY <2>1, <2>2
  <2> QED
    BY <2>1, <2>3 DEF IInv, FetchesAreHeld
<1> QED
  BY <1>6, <1>7, <1>8, <1>9 DEF IInv
-----------------------------------------------------------------------------
(***************************************************************************)
(* The theorems.                                                           *)
(***************************************************************************)
\* The units stay in one epoch of syncs over every walk, each share of a
\* buffer is what its unit's last write left, and the registers hold what was
\* fetched last: the state behind `sync_cube` as the one rendezvous of a
\* `Meeting::Cube` slot.
THEOREM Invariance == Spec => []IInv
<1>1. Init => IInv
  BY InitIInv
<1>2. IInv /\ [Next]_vars => IInv'
  <2> SUFFICES ASSUME IInv, [Next]_vars PROVE IInv'
    OBVIOUS
  <2>1. CASE SyncCube
    BY <2>1, SyncCubeKeeps
  <2>2. ASSUME NEW u \in Units, UnitStep(u) PROVE IInv'
    BY <2>2, BringKeeps, FetchKeeps, StoreKeeps, ComputeKeeps, NextWalkKeeps DEF UnitStep
  <2>3. CASE UNCHANGED vars
    <3>1. /\ plan' = plan /\ totals' = totals /\ program' = program /\ walk' = walk /\ pc' = pc
          /\ share' = share /\ fetched' = fetched
      BY <2>3 DEF vars
    <3>2. TypeOK'
      BY <3>1 DEF IInv, TypeOK, Buffers, Finished
    <3>3. \A u, w, i : Past(u, w, i)' <=> Past(u, w, i)
      BY <3>1 DEF Past
    <3>4. InTheSameEpoch'
      BY <3>1, <3>3 DEF IInv, InTheSameEpoch
    <3>5. SharesAreWritten'
      <4>1. \A u, b, w, i : LastWrite(u, b, w, i)' <=> LastWrite(u, b, w, i)
        BY <3>1, <3>3 DEF LastWrite
      <4>2. Buffers' = Buffers
        BY <3>1 DEF Buffers
      <4> QED
        BY <3>1, <4>1, <4>2 DEF IInv, SharesAreWritten
    <3>6. FetchesAreHeld'
      BY <3>1 DEF IInv, FetchesAreHeld, Finished
    <3> QED
      BY <3>2, <3>4, <3>5, <3>6 DEF IInv
  <2> QED
    BY <2>1, <2>2, <2>3 DEF Next, AllFinished
<1> QED
  BY <1>1, <1>2, PTL DEF Spec

\* Of two units that run, neither is past a sync the other has yet to reach.
LEMMA SyncsPassedTogether ==
  ASSUME IInv, NEW u \in Units, Runs(u), NEW v \in Units, NEW w \in 1 .. Walks,
         NEW k \in 1 .. Len(program[w]), program[w][k].do = "sync", Past(v, w, k)
  PROVE  w < walk[u] \/ (w = walk[u] /\ k < pc[u] + 1)
<1>1. Past(u, w, k)
  BY DEF IInv, InTheSameEpoch
<1>2. pc[u] \in Nat /\ k \in Nat
  BY WhereItIs, Texts DEF IInv
<1> QED
  BY <1>1, <1>2 DEF Past

\* No unit writes a buffer while another reads it: neither the fill before the
\* read nor the refill after it, in one walk or from one walk to the next.
THEOREM NothingRaces == Spec => []NoDataRace
<1>1. IInv => NoDataRace
  <2> SUFFICES ASSUME IInv, NEW u \in Units, NEW v \in Units, NEW b, b \in Writing(u), b \in Reading(v)
               PROVE  FALSE
    BY DEF NoDataRace
  <2>1. /\ Runs(u) /\ b \in WrittenBy(plan, Current(u))
        /\ Runs(v) /\ b \in ReadBy(plan, Current(v))
    BY DEF Writing, Reading
  <2> DEFINE x == walk[u]
             i == pc[u] + 1
             y == walk[v]
             j == pc[v] + 1
  <2>2. /\ x \in 1 .. Walks /\ i \in 1 .. Len(program[x]) /\ Current(u) = program[x][i] /\ pc[u] \in Nat
        /\ y \in 1 .. Walks /\ j \in 1 .. Len(program[y]) /\ Current(v) = program[y][j] /\ pc[v] \in Nat
        /\ Len(program[x]) \in Nat /\ Len(program[y]) \in Nat
    BY <2>1, WhereItIs DEF IInv
  <2>3. /\ program[x][i].do \in {"bring", "store"} /\ program[y][j].do = "read"
    BY <2>1, <2>2 DEF WrittenBy, ReadBy
  <2> HIDE DEF x, i, y, j
  <2>4. Rendezvoused(plan, program[x]) /\ Rendezvoused(plan, program[y])
    BY <2>2, Texts DEF IInv
  <2>5. ASSUME NEW k \in 1 .. Len(program[y]), program[y][k].do = "sync", k < j
        PROVE  y < x \/ (y = x /\ k < i)
    <3>1. Past(v, y, k)
      BY <2>2, <2>5 DEF Past, y, j
    <3> QED
      BY <2>1, <2>2, <2>5, <3>1, SyncsPassedTogether DEF x, i
  <2>6. ASSUME NEW k \in 1 .. Len(program[x]), program[x][k].do = "sync", k < i
        PROVE  x < y \/ (x = y /\ k < j)
    <3>1. Past(u, x, k)
      BY <2>2, <2>6 DEF Past, x, i
    <3> QED
      BY <2>1, <2>2, <2>6, <3>1, SyncsPassedTogether DEF y, j
  <2>7. PICK k : k \in 0 + 1 .. i - 1 /\ program[x][k].do = "sync"
    <3>1. \A n \in 1 .. Len(program[x]) :
            program[x][n].do \in {"bring", "store", "read"} => SyncBefore(program[x], n)
      BY <2>4 DEF Rendezvoused
    <3>2. SyncBefore(program[x], i)
      BY <2>2, <2>3, <3>1
    <3> QED
      BY <3>2 DEF SyncBefore, SyncBetween
  <2>8. PICK l : l \in 0 + 1 .. j - 1 /\ program[y][l].do = "sync"
    <3>1. \A n \in 1 .. Len(program[y]) :
            program[y][n].do \in {"bring", "store", "read"} => SyncBefore(program[y], n)
      BY <2>4 DEF Rendezvoused
    <3>2. SyncBefore(program[y], j)
      BY <2>2, <2>3, <3>1
    <3> QED
      BY <3>2 DEF SyncBefore, SyncBetween
  <2>9. x = y
    <3>1. k \in 1 .. Len(program[x]) /\ k < i /\ l \in 1 .. Len(program[y]) /\ l < j
      BY <2>2, <2>7, <2>8
    <3>2. (x < y \/ x = y) /\ (y < x \/ y = x)
      BY <2>5, <2>6, <2>7, <2>8, <3>1
    <3> QED
      BY <2>2, <3>2, BoundsAssumption
  <2>10. SyncBetween(program[x], i, j) \/ SyncBetween(program[x], j, i)
    <3>1. WrittenBy(plan, program[x][i]) \cap ReadBy(plan, program[x][j]) # {}
      BY <2>1, <2>2, <2>9
    <3> QED
      BY <2>2, <2>4, <2>9, <3>1 DEF Rendezvoused
  <2>11. CASE SyncBetween(program[x], i, j)
    <3>1. PICK m : m \in i + 1 .. j - 1 /\ program[x][m].do = "sync"
      BY <2>11 DEF SyncBetween
    <3>2. m \in 1 .. Len(program[x]) /\ m < j /\ ~(m < i) /\ ~(x < x)
      BY <2>2, <2>9, <3>1, BoundsAssumption
    <3> QED
      BY <2>5, <2>9, <3>1, <3>2
  <2>12. CASE SyncBetween(program[x], j, i)
    <3>1. PICK m : m \in j + 1 .. i - 1 /\ program[x][m].do = "sync"
      BY <2>12 DEF SyncBetween
    <3>2. m \in 1 .. Len(program[x]) /\ m < i /\ ~(m < j) /\ ~(x < x)
      BY <2>2, <2>9, <3>1, BoundsAssumption
    <3> QED
      BY <2>6, <2>9, <3>1, <3>2
  <2> QED
    BY <2>10, <2>11, <2>12
<1> QED
  BY <1>1, Invariance, PTL

\* A read finds every unit's share of every operand: of the region and the
\* walk it reads for a streamed one, of the walk for a fixed one.
THEOREM ReadsAreWhole == Spec => []ReadsItsRegion
<1>1. IInv => ReadsItsRegion
  <2> SUFFICES ASSUME IInv, NEW u \in Units, AtOp(u, "read"), NEW o \in Operands, NEW v \in Units
               PROVE  share[BufferOf(plan, o, Current(u).slot)][v]
                        = <<walk[u], RegionWanted(plan, o, Current(u))>>
    BY DEF ReadsItsRegion
  <2> DEFINE w == walk[u]
             j == pc[u] + 1
             text == program[w]
             b == BufferOf(plan, o, Current(u).slot)
  <2>1. Runs(u) /\ Current(u).do = "read"
    BY DEF AtOp
  <2>2. /\ w \in 1 .. Walks /\ j \in 1 .. Len(text) /\ Current(u) = text[j] /\ text[j] \in Ops
        /\ pc[u] \in Nat /\ Len(text) \in Nat
    BY <2>1, WhereItIs DEF IInv
  <2>3. Rendezvoused(plan, text) /\ IsPlan(plan)
    BY <2>2, Texts DEF IInv
  <2>4. b \in Buffers /\ b \in ReadBy(plan, text[j])
    <3>1. text[j].slot \in 0 .. plan.depth - 1
      <4>1. text[j].slot \in Nat /\ text[j].slot < plan.depth /\ plan.depth \in Nat
        BY <2>2, <2>3 DEF Rendezvoused, IsPlan, Ops
      <4> QED
        BY <4>1
    <3>2. o \in OperandsOf(plan) /\ 0 \in 0 .. plan.depth - 1
      <4>1. plan.depth \in Nat /\ plan.depth > 0
        BY <2>3 DEF IsPlan, Supported
      <4> QED
        BY <4>1 DEF Operands
    <3>3. b \in Buffers
      BY <2>2, <3>1, <3>2 DEF BufferOf, Buffers, BuffersOf, FirstSlot
    <3> QED
      BY <2>1, <2>2, <3>2, <3>3 DEF ReadBy
  <2> HIDE DEF text, b
  <2>5. PICK i \in 1 .. j - 1 :
          /\ b \in WrittenBy(plan, text[i]) /\ text[i].region = RegionWanted(plan, o, text[j])
          /\ StaysUntil(plan, text, b, i, j)
    BY <2>1, <2>2, <2>3 DEF Rendezvoused, Operands, b
  <2>6. i \in 1 .. Len(text) /\ i < j /\ i \in Nat
    BY <2>2
  <2>7. PICK k : k \in i + 1 .. j - 1 /\ text[k].do = "sync"
    <3>1. SyncBetween(text, i, j) \/ SyncBetween(text, j, i)
      BY <2>2, <2>3, <2>4, <2>5, <2>6 DEF Rendezvoused
    <3>2. j + 1 .. i - 1 = {}
      BY <2>2, <2>6
    <3> QED
      BY <3>1, <3>2 DEF SyncBetween
  <2>8. Past(v, w, i)
    <3>1. k \in 1 .. Len(program[w]) /\ i < k /\ Past(u, w, k) /\ program[w][k].do = "sync"
      BY <2>2, <2>6, <2>7 DEF Past, text
    <3>2. Past(v, w, k)
      BY <2>2, <3>1 DEF IInv, InTheSameEpoch
    <3>3. pc[v] \in Nat
      BY DEF IInv, TypeOK
    <3> QED
      BY <2>6, <2>7, <3>1, <3>2, <3>3 DEF Past
  <2>9. ASSUME NEW x \in 1 .. Walks, NEW m \in 1 .. Len(program[x]), Past(v, x, m),
               w < x \/ (w = x /\ i < m), b \in WrittenBy(plan, program[x][m])
        PROVE  FALSE
    <3>1. /\ Len(program[x]) \in Nat /\ Rendezvoused(plan, program[x]) /\ x \in Nat /\ w \in Nat
          /\ walk[v] \in Nat /\ pc[v] \in Nat
      <4>1. Walks \in Nat /\ walk[v] \in 1 .. Walks + 1 /\ pc[v] \in Nat
        BY BoundsAssumption DEF IInv, TypeOK
      <4>2. Len(program[x]) \in Nat /\ Rendezvoused(plan, program[x])
        BY Texts DEF IInv
      <4>3. \A n \in 1 .. Walks : n \in Nat
        BY <4>1
      <4>4. w \in Nat /\ x \in Nat
        BY <2>2, <4>3
      <4> QED
        BY <4>1, <4>2, <4>4
    <3>2. ASSUME NEW n \in 1 .. m - 1, program[x][n].do = "sync"
          PROVE  x < w \/ (x = w /\ n < j)
      <4>1. n \in 1 .. Len(program[x]) /\ Past(v, x, n)
        BY <2>9, <3>1 DEF Past
      <4> QED
        BY <2>1, <3>2, <4>1, SyncsPassedTogether
    <3>3. CASE w < x
      <4>1. program[x][m].do \in {"bring", "store"}
        BY <2>9 DEF WrittenBy
      <4>2. PICK n : n \in 0 + 1 .. m - 1 /\ program[x][n].do = "sync"
        BY <3>1, <4>1 DEF Rendezvoused, SyncBefore, SyncBetween
      <4>3. n \in 1 .. m - 1
        BY <4>2
      <4> QED
        BY <3>1, <3>2, <3>3, <4>2, <4>3
    <3>4. CASE w = x /\ i < m
      <4>1. program[x] = text /\ m \in 1 .. Len(text) /\ b \in WrittenBy(plan, text[m])
        BY <2>9, <3>4 DEF text
      <4>2. CASE m < j
        <5>1. m \in i + 1 .. j - 1
          BY <2>2, <2>6, <3>4, <4>1, <4>2
        <5> QED
          BY <2>5, <4>1, <5>1 DEF StaysUntil
      <4>3. CASE m = j
        BY <2>1, <2>2, <4>1, <4>3 DEF WrittenBy
      <4>4. CASE m > j
        <5>1. SyncBetween(text, m, j) \/ SyncBetween(text, j, m)
          BY <2>2, <2>3, <2>4, <4>1 DEF Rendezvoused
        <5>2. m + 1 .. j - 1 = {}
          BY <2>2, <4>1, <4>4
        <5>3. PICK n : n \in j + 1 .. m - 1 /\ text[n].do = "sync"
          BY <5>1, <5>2 DEF SyncBetween
        <5>4. n \in 1 .. m - 1 /\ ~(n < j)
          BY <2>2, <4>1, <5>3
        <5> QED
          BY <3>1, <3>2, <3>4, <4>1, <5>3, <5>4
      <4> QED
        BY <2>2, <4>1, <4>2, <4>3, <4>4
    <3> QED
      BY <2>9, <3>3, <3>4
  <2>10. LastWrite(v, b, w, i)
    BY <2>5, <2>8, <2>9 DEF LastWrite, text
  <2>11. share[b][v] = <<w, text[i].region>>
    BY <2>2, <2>4, <2>6, <2>10 DEF IInv, SharesAreWritten, text
  <2> QED
    BY <2>2, <2>5, <2>11 DEF b
<1> QED
  BY <1>1, Invariance, PTL
-----------------------------------------------------------------------------
(***************************************************************************)
(* The order of the loops.                                                 *)
(***************************************************************************)
\* A text that did so many fills and so many reads of a walk, in the order of
\* the rule.
Followed(p, total, text, f, r) ==
  /\ f <= total /\ r <= total
  /\ Fills(text, Len(text)) = f /\ Reads(text, Len(text)) = r
  /\ \A i \in 1 .. Len(text) : IsFill(text[i]) \/ IsRead(text[i]) =>
       <<text[i].do, text[i].slot, text[i].region>>
         = FillsFirst(p.depth, total, Fills(text, i - 1), Reads(text, i - 1))

\* As many of a text's places as there are.
LEMMA BoundedText ==
  ASSUME NEW n \in Nat, NEW S, S \subseteq 1 .. n
  PROVE  IsFiniteSet(S) /\ Cardinality(S) \in Nat
<1>1. IsFiniteSet(1 .. n)
  BY FS_Interval
<1> QED
  BY <1>1, FS_Subset, FS_CardinalityType

\* An operation more is one fill more, one read more, or neither.
LEMMA CountedOp ==
  ASSUME NEW text \in Seq(Ops), NEW op \in Ops
  PROVE  LET more == Append(text, op) IN
         /\ \A i \in 0 .. Len(text) : Fills(more, i) = Fills(text, i) /\ Reads(more, i) = Reads(text, i)
         /\ Fills(more, Len(text) + 1) = Fills(text, Len(text)) + (IF IsFill(op) THEN 1 ELSE 0)
         /\ Reads(more, Len(text) + 1) = Reads(text, Len(text)) + (IF IsRead(op) THEN 1 ELSE 0)
<1> DEFINE more == Append(text, op)
           n == Len(text)
<1>1. /\ n \in Nat /\ more[n + 1] = op /\ \A k \in 1 .. n : more[k] = text[k]
  BY Appended
<1> HIDE DEF more, n
<1>2. \A i \in 0 .. n : Fills(more, i) = Fills(text, i) /\ Reads(more, i) = Reads(text, i)
  <2> SUFFICES ASSUME NEW i \in 0 .. n
               PROVE  Fills(more, i) = Fills(text, i) /\ Reads(more, i) = Reads(text, i)
    OBVIOUS
  <2>1. \A k \in 1 .. i : more[k] = text[k]
    BY <1>1
  <2>2. {k \in 1 .. i : IsFill(more[k])} = {k \in 1 .. i : IsFill(text[k])}
    BY <2>1
  <2>3. {k \in 1 .. i : IsRead(more[k])} = {k \in 1 .. i : IsRead(text[k])}
    BY <2>1
  <2> QED
    BY <2>2, <2>3 DEF Fills, Reads
<1>3. ASSUME NEW was, NEW is, was \subseteq 1 .. n, is = was \cup {n + 1}
      PROVE  Cardinality(is) = Cardinality(was) + 1
  <2>1. IsFiniteSet(was)
    BY <1>1, <1>3, BoundedText
  <2>2. n + 1 \notin was
    BY <1>1, <1>3
  <2> QED
    BY <1>3, <2>1, <2>2, FS_AddElement
<1>4. Fills(more, n + 1) = Fills(text, n) + (IF IsFill(op) THEN 1 ELSE 0)
  <2> DEFINE was == {k \in 1 .. n : IsFill(text[k])}
             is == {k \in 1 .. n + 1 : IsFill(more[k])}
  <2>1. Fills(more, n + 1) = Cardinality(is) /\ Fills(text, n) = Cardinality(was) /\ was \subseteq 1 .. n
    BY DEF Fills
  <2>2. is = IF IsFill(op) THEN was \cup {n + 1} ELSE was
    BY <1>1
  <2>3. Cardinality(was) \in Nat
    BY <1>1, <2>1, BoundedText
  <2> HIDE DEF was, is
  <2>4. IsFill(op) => Cardinality(is) = Cardinality(was) + 1
    BY <1>3, <2>1, <2>2
  <2>5. ~IsFill(op) => Cardinality(is) = Cardinality(was)
    BY <2>2
  <2> QED
    BY <2>1, <2>3, <2>4, <2>5
<1>5. Reads(more, n + 1) = Reads(text, n) + (IF IsRead(op) THEN 1 ELSE 0)
  <2> DEFINE was == {k \in 1 .. n : IsRead(text[k])}
             is == {k \in 1 .. n + 1 : IsRead(more[k])}
  <2>1. Reads(more, n + 1) = Cardinality(is) /\ Reads(text, n) = Cardinality(was) /\ was \subseteq 1 .. n
    BY DEF Reads
  <2>2. is = IF IsRead(op) THEN was \cup {n + 1} ELSE was
    BY <1>1
  <2>3. Cardinality(was) \in Nat
    BY <1>1, <2>1, BoundedText
  <2> HIDE DEF was, is
  <2>4. IsRead(op) => Cardinality(is) = Cardinality(was) + 1
    BY <1>3, <2>1, <2>2
  <2>5. ~IsRead(op) => Cardinality(is) = Cardinality(was)
    BY <2>2
  <2> QED
    BY <2>1, <2>3, <2>4, <2>5
<1> QED
  BY <1>2, <1>4, <1>5 DEF more, n

\* An operation that is what the rule has next, or one that it is not about.
LEMMA RuledOp ==
  ASSUME NEW p, NEW total \in Nat, NEW text \in Seq(Ops), NEW f \in Nat, NEW r \in Nat,
         Followed(p, total, text, f, r), NEW op \in Ops,
         IsFill(op) \/ IsRead(op) =>
           <<op.do, op.slot, op.region>> = FillsFirst(p.depth, total, f, r)
  PROVE  LET more == Append(text, op) IN
         /\ more \in Seq(Ops)
         /\ IsFill(op) /\ f < total => Followed(p, total, more, f + 1, r)
         /\ IsRead(op) /\ r < total => Followed(p, total, more, f, r + 1)
         /\ ~IsFill(op) /\ ~IsRead(op) => Followed(p, total, more, f, r)
<1> DEFINE more == Append(text, op)
           n == Len(text)
<1>1. /\ more \in Seq(Ops) /\ n \in Nat /\ Len(more) = n + 1 /\ more[n + 1] = op
      /\ \A i \in 1 .. n : more[i] = text[i]
  BY Appended
<1>2. /\ \A i \in 0 .. n : Fills(more, i) = Fills(text, i) /\ Reads(more, i) = Reads(text, i)
      /\ Fills(more, n + 1) = Fills(text, n) + (IF IsFill(op) THEN 1 ELSE 0)
      /\ Reads(more, n + 1) = Reads(text, n) + (IF IsRead(op) THEN 1 ELSE 0)
  BY CountedOp
<1>3. /\ f <= total /\ r <= total /\ Fills(text, n) = f /\ Reads(text, n) = r
      /\ \A i \in 1 .. n : IsFill(text[i]) \/ IsRead(text[i]) =>
           <<text[i].do, text[i].slot, text[i].region>>
             = FillsFirst(p.depth, total, Fills(text, i - 1), Reads(text, i - 1))
  BY DEF Followed
<1>4. ~(IsFill(op) /\ IsRead(op))
  BY DEF IsFill, IsRead
<1> HIDE DEF more, n
<1>5. ASSUME NEW i \in 1 .. n + 1, IsFill(more[i]) \/ IsRead(more[i])
      PROVE  <<more[i].do, more[i].slot, more[i].region>>
               = FillsFirst(p.depth, total, Fills(more, i - 1), Reads(more, i - 1))
  <2>1. CASE i = n + 1
    <3>1. more[i] = op /\ i - 1 = n /\ n \in 0 .. n
      BY <1>1, <2>1
    <3>2. Fills(more, i - 1) = f /\ Reads(more, i - 1) = r
      BY <1>2, <1>3, <3>1
    <3> QED
      BY <1>5, <3>1, <3>2
  <2>2. CASE i # n + 1
    <3>1. i \in 1 .. n /\ i - 1 \in 0 .. n /\ more[i] = text[i]
      BY <1>1, <2>2
    <3>2. Fills(more, i - 1) = Fills(text, i - 1) /\ Reads(more, i - 1) = Reads(text, i - 1)
      BY <1>2, <3>1
    <3> QED
      BY <1>3, <1>5, <3>1, <3>2
  <2> QED
    BY <2>1, <2>2
<1>6. IsFill(op) /\ f < total => Followed(p, total, more, f + 1, r)
  BY <1>1, <1>2, <1>3, <1>4, <1>5 DEF Followed
<1>7. IsRead(op) /\ r < total => Followed(p, total, more, f, r + 1)
  BY <1>1, <1>2, <1>3, <1>4, <1>5 DEF Followed
<1>8. ~IsFill(op) /\ ~IsRead(op) => Followed(p, total, more, f, r)
  BY <1>1, <1>2, <1>3, <1>5 DEF Followed
<1> QED
  BY <1>1, <1>6, <1>7, <1>8 DEF more

\* A rendezvous, a refill, a read and a fill of the fixed operands.
LEMMA RuledParts ==
  ASSUME NEW p, IsPlan(p), NEW total \in Nat, NEW text \in Seq(Ops), NEW f \in Nat, NEW r \in Nat,
         Followed(p, total, text, f, r)
  PROVE  /\ /\ <<Sync>> \in Seq(Ops) /\ text \o <<Sync>> \in Seq(Ops)
            /\ Followed(p, total, text \o <<Sync>>, f, r)
         /\ f < total /\ f < r + p.depth =>
              \A slot \in Nat : slot = f % p.depth =>
                /\ FillStreamed(p, slot, f) \in Seq(Ops) /\ text \o FillStreamed(p, slot, f) \in Seq(Ops)
                /\ Followed(p, total, text \o FillStreamed(p, slot, f), f + 1, r)
         /\ r < total /\ ~(f < total /\ f < r + p.depth) =>
              \A slot \in Nat : slot = r % p.depth =>
                /\ Consume(slot, r) \in Seq(Ops) /\ text \o Consume(slot, r) \in Seq(Ops)
                /\ Followed(p, total, text \o Consume(slot, r), f, r + 1)
         /\ \A slot \in Nat :
              /\ FillFixed(p, slot, 0) \in Seq(Ops) /\ text \o FillFixed(p, slot, 0) \in Seq(Ops)
              /\ Followed(p, total, text \o FillFixed(p, slot, 0), f, r)
<1> DEFINE synced == Append(text, Sync)
<1>1. Sync \in Ops /\ FirstSlot \in Nat
  BY Kinds DEF FirstSlot
<1>2. ~IsFill(Sync) /\ ~IsRead(Sync)
  BY DEF IsFill, IsRead, Sync, Op
<1>3. synced \in Seq(Ops) /\ Followed(p, total, synced, f, r)
  BY <1>1, <1>2, RuledOp
<1>4. <<Sync>> \in Seq(Ops) /\ text \o <<Sync>> = synced
  <2> HIDE DEF Sync
  <2> QED
    BY <1>1, Puts
<1>5. ASSUME NEW op \in Ops
      PROVE  /\ <<Sync>> \o <<op>> \in Seq(Ops)
             /\ text \o (<<Sync>> \o <<op>>) = Append(synced, op)
  <2>1. <<op>> \in Seq(Ops) /\ synced \o <<op>> = Append(synced, op)
    <3> HIDE DEF synced
    <3> QED
      BY <1>3, Puts
  <2> HIDE DEF Sync, synced
  <2>2. /\ <<Sync>> \o <<op>> \in Seq(Ops)
        /\ text \o (<<Sync>> \o <<op>>) = (text \o <<Sync>>) \o <<op>>
    BY <1>4, <2>1, Puts
  <2> QED
    BY <1>4, <2>1, <2>2, Zenon
<1> HIDE DEF synced
<1>6. ASSUME f < total, f < r + p.depth, NEW slot \in Nat, slot = f % p.depth
      PROVE  /\ FillStreamed(p, slot, f) \in Seq(Ops) /\ text \o FillStreamed(p, slot, f) \in Seq(Ops)
             /\ Followed(p, total, text \o FillStreamed(p, slot, f), f + 1, r)
  <2> DEFINE op == Brought(slot, f, "EveryRegion")
             more == Append(synced, op)
  <2>1. op \in Ops
    BY Kinds
  <2>2. FillStreamed(p, slot, f) = <<Sync>> \o <<op>>
    BY DEF FillStreamed, Refill, When, Acquire, Brought
  <2>3. op.do = "bring" /\ op.slot = slot /\ op.region = f /\ op.only = "EveryRegion"
    BY DEF Brought, Op
  <2> HIDE DEF op
  <2>4. IsFill(op) /\ <<op.do, op.slot, op.region>> = FillsFirst(p.depth, total, f, r)
    BY <1>6, <2>3 DEF IsFill, FillsFirst
  <2>5. more \in Seq(Ops) /\ Followed(p, total, more, f + 1, r)
    BY <1>3, <1>6, <2>1, <2>4, RuledOp
  <2>6. <<Sync>> \o <<op>> \in Seq(Ops) /\ text \o (<<Sync>> \o <<op>>) = more
    BY <1>5, <2>1
  <2> HIDE DEF more
  <2> QED
    BY <2>2, <2>5, <2>6, Zenon
<1>7. ASSUME r < total, ~(f < total /\ f < r + p.depth), NEW slot \in Nat, slot = r % p.depth
      PROVE  /\ Consume(slot, r) \in Seq(Ops) /\ text \o Consume(slot, r) \in Seq(Ops)
             /\ Followed(p, total, text \o Consume(slot, r), f, r + 1)
  <2> DEFINE op == Op("read", slot, r)
             more == Append(text, op)
  <2>1. op \in Ops
    BY Kinds
  <2>2. Consume(slot, r) = <<op>>
    BY DEF Consume
  <2>3. op.do = "read" /\ op.slot = slot /\ op.region = r
    BY DEF Op
  <2> HIDE DEF op
  <2>4. IsRead(op) /\ <<op.do, op.slot, op.region>> = FillsFirst(p.depth, total, f, r)
    BY <1>7, <2>3 DEF IsRead, FillsFirst
  <2>5. more \in Seq(Ops) /\ Followed(p, total, more, f, r + 1)
    BY <1>7, <2>1, <2>4, RuledOp
  <2>6. <<op>> \in Seq(Ops) /\ text \o <<op>> = more
    BY <2>1, Puts
  <2> HIDE DEF more
  <2> QED
    BY <2>2, <2>5, <2>6, Zenon
<1>8. ASSUME NEW slot \in Nat
      PROVE  /\ FillFixed(p, slot, 0) \in Seq(Ops) /\ text \o FillFixed(p, slot, 0) \in Seq(Ops)
             /\ Followed(p, total, text \o FillFixed(p, slot, 0), f, r)
  <2> DEFINE op == Brought(slot, 0, "Once")
             more == Append(synced, op)
  <2>1. op \in Ops
    BY Kinds
  <2>2. FillFixed(p, slot, 0) = << >> \/ FillFixed(p, slot, 0) = <<Sync>> \o <<op>>
    BY DEF FillFixed, Refill, When, Acquire, Brought
  <2>3. ~IsFill(op) /\ ~IsRead(op)
    BY DEF Brought, Op, IsFill, IsRead
  <2> HIDE DEF op
  <2>4. more \in Seq(Ops) /\ Followed(p, total, more, f, r)
    BY <1>3, <2>1, <2>3, RuledOp
  <2>5. <<Sync>> \o <<op>> \in Seq(Ops) /\ text \o (<<Sync>> \o <<op>>) = more
    BY <1>5, <2>1
  <2>6. << >> \in Seq(Ops) /\ text \o << >> = text
    BY Puts
  <2> HIDE DEF more
  <2>7. CASE FillFixed(p, slot, 0) = << >>
    BY <2>6, <2>7, Zenon
  <2>8. CASE FillFixed(p, slot, 0) = <<Sync>> \o <<op>>
    BY <2>4, <2>5, <2>8, Zenon
  <2> QED
    BY <2>2, <2>7, <2>8
<1>9. text \o <<Sync>> \in Seq(Ops) /\ Followed(p, total, text \o <<Sync>>, f, r)
  BY <1>3, <1>4, Zenon
<1> QED
  BY <1>4, <1>6, <1>7, <1>8, <1>9

Least(x, y) == IF x < y THEN x ELSE y

\* A text before lap r: as many fills as r + depth - 1, r reads, or all.
UpToLap(p, total, text, r) == Followed(p, total, text, Least(r + p.depth - 1, total), Least(r, total))

\* A lap.
LEMMA RuledLap ==
  ASSUME NEW p, IsPlan(p), NEW total \in Nat, NEW text \in Seq(Ops), NEW r \in Nat,
         p.depth = 1 => r < total, UpToLap(p, total, text, r)
  PROVE  LET lap == PipelinedLap(p, total, r) IN
         lap \in Seq(Ops) /\ text \o lap \in Seq(Ops) /\ UpToLap(p, total, text \o lap, r + 1)
<1> DEFINE d == p.depth
           j == r % d
           ahead == r + d - 1
           far == (j + d - 1) % d
           lap == PipelinedLap(p, total, r)
<1>1. d \in Nat \ {0} /\ FirstSlot \in Nat /\ FirstSlot = 0
  BY DEF IsPlan, Supported, FirstSlot
<1>2. lap = IF d = 1 THEN (FillStreamed(p, FirstSlot, r) \o Publish) \o Consume(FirstSlot, r)
            ELSE (IF ahead < total THEN FillStreamed(p, far, ahead)
                  ELSE IF r < total THEN Publish ELSE << >>)
                 \o (IF r < total THEN Consume(j, r) ELSE << >>)
  BY DEF PipelinedLap, When
<1>3. lap \in Seq(Ops)
  BY PipelinedLapIsText
<1> HIDE DEF d, lap
<1>4. j \in Nat /\ ahead \in Nat /\ far \in Nat /\ far = ahead % d
  <2>1. j \in 0 .. d - 1 /\ \A k \in Nat : (j + k) % d = (r + k) % d
    BY <1>1, Remainders
  <2>2. d - 1 \in Nat /\ j + (d - 1) = j + d - 1 /\ r + (d - 1) = r + d - 1
    BY <1>1, <2>1
  <2>3. (j + (d - 1)) % d = (r + (d - 1)) % d
    BY <2>1, <2>2
  <2>4. far = ahead % d
    BY <2>2, <2>3, Zenon
  <2>5. ahead \in Nat
    BY <1>1
  <2>6. ahead % d \in 0 .. d - 1
    BY <1>1, <2>5, Remainders
  <2> QED
    BY <1>1, <2>1, <2>4, <2>5, <2>6
<1>5. j = r % d
  OBVIOUS
<1>6. ahead = r + d - 1
  OBVIOUS
<1>7. <<Sync>> = Publish
  BY DEF Publish
<1>8. Followed(p, total, text, Least(ahead, total), Least(r, total))
  BY DEF UpToLap, d
<1> HIDE DEF j, ahead, far
<1>9. \A s, t \in Seq(Ops) : s \o t \in Seq(Ops) /\ text \o (s \o t) = (text \o s) \o t
  BY Puts
<1>10. text \o << >> = text /\ << >> \in Seq(Ops)
  BY Puts
<1>11. CASE d = 1
  <2> DEFINE fill == FillStreamed(p, FirstSlot, r)
             read == Consume(FirstSlot, r)
             filled == text \o fill
             synced == filled \o Publish
  <2>1. r < total /\ Least(ahead, total) = r /\ Least(r, total) = r /\ ahead = r
    BY <1>1, <1>6, <1>11 DEF Least, d
  <2>2. r % p.depth = FirstSlot
    <3>1. r % d \in 0 .. d - 1
      BY <1>1, Remainders
    <3> QED
      BY <1>1, <1>11, <3>1 DEF d
  <2>3. fill \in Seq(Ops) /\ filled \in Seq(Ops) /\ Followed(p, total, filled, r + 1, r)
    <3>1. Followed(p, total, text, r, r)
      BY <1>8, <2>1
    <3>2. r < r + p.depth
      BY <1>1 DEF d
    <3> QED
      BY <1>1, <2>1, <2>2, <3>1, <3>2, RuledParts
  <2> HIDE DEF fill, filled
  <2>4. Publish \in Seq(Ops) /\ synced \in Seq(Ops) /\ Followed(p, total, synced, r + 1, r)
    <3>1. r + 1 \in Nat
      OBVIOUS
    <3> QED
      BY <1>7, <2>3, <3>1, RuledParts
  <2> HIDE DEF synced
  <2>5. read \in Seq(Ops) /\ synced \o read \in Seq(Ops) /\ Followed(p, total, synced \o read, r + 1, r + 1)
    <3>1. r + 1 \in Nat /\ ~(r + 1 < total /\ r + 1 < r + p.depth)
      BY <1>11 DEF d
    <3> QED
      BY <1>1, <2>1, <2>2, <2>4, <3>1, RuledParts
  <2> HIDE DEF read
  <2>6. lap = (fill \o Publish) \o read
    BY <1>2, <1>11 DEF fill, read
  <2>7. text \o ((fill \o Publish) \o read) = (text \o (fill \o Publish)) \o read
    <3>1. fill \o Publish \in Seq(Ops)
      BY <1>9, <2>3, <2>4, Zenon
    <3> QED
      BY <1>9, <2>5, <3>1, Zenon
  <2>8. text \o (fill \o Publish) = synced
    BY <1>9, <2>3, <2>4, Zenon DEF filled, synced
  <2>9. text \o lap = synced \o read
    BY <2>6, <2>7, <2>8, Zenon
  <2>10. Least(r + 1 + p.depth - 1, total) = r + 1 /\ Least(r + 1, total) = r + 1
    BY <1>11, <2>1 DEF Least, d
  <2>11. UpToLap(p, total, synced \o read, r + 1)
    BY <2>5, <2>10 DEF UpToLap
  <2> QED
    BY <1>3, <2>5, <2>9, <2>11, Zenon DEF lap
<1>12. CASE d # 1
  <2> DEFINE first == IF ahead < total THEN FillStreamed(p, far, ahead)
                      ELSE IF r < total THEN Publish ELSE << >>
             last == IF r < total THEN Consume(j, r) ELSE << >>
             mid == text \o first
             f == Least(r + 1 + p.depth - 1, total)
  <2>1. lap = first \o last
    BY <1>2, <1>12
  <2>2. f \in Nat /\ f <= total /\ Least(r, total) \in Nat
    BY <1>1 DEF Least, d
  <2>3. first \in Seq(Ops) /\ mid \in Seq(Ops) /\ Followed(p, total, mid, f, Least(r, total))
    <3>1. CASE ahead < total
      <4>1. Least(ahead, total) = ahead /\ Least(r, total) = r /\ f = ahead + 1 /\ ahead < r + p.depth
        <5>1. p.depth \in Nat \ {0} /\ ahead = r + p.depth - 1
          BY <1>1, <1>6 DEF d
        <5>2. r + 1 + p.depth - 1 = ahead + 1 /\ ahead + 1 <= total /\ r < total /\ ahead < r + p.depth
          <6> DEFINE depth == p.depth
          <6>1. depth \in Nat \ {0} /\ ahead = r + depth - 1 /\ ahead < total
            BY <3>1, <5>1
          <6> HIDE DEF depth, first, last, mid, f
          <6>2. r + 1 + depth - 1 = ahead + 1 /\ ahead + 1 <= total /\ r < total /\ ahead < r + depth
            BY <6>1
          <6> QED
            BY <6>2 DEF depth
        <5>3. f = Least(ahead + 1, total)
          BY <5>2
        <5>4. Least(ahead + 1, total) = ahead + 1
          BY <1>4, <5>2 DEF Least
        <5>5. Least(ahead, total) = ahead /\ Least(r, total) = r
          BY <3>1, <5>2 DEF Least
        <5> QED
          BY <5>2, <5>3, <5>4, <5>5
      <4>2. Followed(p, total, text, ahead, r) /\ far = ahead % p.depth
        BY <1>4, <1>8, <4>1 DEF d
      <4>3. LET F == FillStreamed(p, far, ahead) IN
            F \in Seq(Ops) /\ text \o F \in Seq(Ops) /\ Followed(p, total, text \o F, ahead + 1, r)
        BY <1>4, <3>1, <4>1, <4>2, RuledParts
      <4>4. first = FillStreamed(p, far, ahead)
        BY <3>1
      <4> HIDE DEF first, f
      <4> QED
        BY <4>1, <4>3, <4>4
    <3>2. CASE ~(ahead < total)
      <4>1. Least(ahead, total) = total /\ f = total
        BY <1>1, <1>4, <1>6, <3>2 DEF Least, d
      <4>2. Followed(p, total, text, f, Least(r, total))
        BY <1>8, <4>1
      <4>3. /\ Publish \in Seq(Ops) /\ text \o Publish \in Seq(Ops)
            /\ Followed(p, total, text \o Publish, f, Least(r, total))
        <5> HIDE DEF f
        <5> QED
          BY <1>7, <2>2, <4>2, RuledParts
      <4>4. first = Publish \/ first = << >>
        BY <3>2
      <4> HIDE DEF first, f
      <4>5. CASE first = Publish
        BY <4>3, <4>5, Zenon
      <4>6. CASE first = << >>
        BY <1>10, <4>2, <4>6, Zenon
      <4> QED
        BY <4>4, <4>5, <4>6
    <3> QED
      BY <3>1, <3>2
  <2> HIDE DEF first
  <2>4. /\ last \in Seq(Ops) /\ mid \o last \in Seq(Ops)
        /\ Followed(p, total, mid \o last, f, Least(r + 1, total))
    <3> HIDE DEF mid
    <3>1. CASE r < total
      <4>1. Least(r, total) = r /\ Least(r + 1, total) = r + 1 /\ ~(f < total /\ f < r + p.depth)
        BY <1>1, <3>1 DEF Least, d
      <4>2. j = r % p.depth
        BY <1>5 DEF d
      <4> HIDE DEF f
      <4>3. LET R == Consume(j, r) IN
            R \in Seq(Ops) /\ mid \o R \in Seq(Ops) /\ Followed(p, total, mid \o R, f, r + 1)
        BY <1>4, <2>2, <2>3, <3>1, <4>1, <4>2, RuledParts
      <4>4. last = Consume(j, r)
        BY <3>1
      <4> HIDE DEF last
      <4> QED
        BY <4>1, <4>3, <4>4
    <3>2. CASE ~(r < total)
      <4>1. Least(r, total) = Least(r + 1, total)
        BY <3>2 DEF Least
      <4>2. last = << >>
        BY <3>2
      <4>3. mid \o << >> = mid
        BY <2>3, Puts
      <4> HIDE DEF last, f
      <4> QED
        BY <1>10, <2>3, <4>1, <4>2, <4>3, Zenon
    <3> QED
      BY <3>1, <3>2
  <2> HIDE DEF last, f
  <2>5. text \o lap = mid \o last
    BY <1>9, <2>1, <2>3, <2>4, Zenon DEF mid
  <2>6. UpToLap(p, total, mid \o last, r + 1)
    BY <2>4 DEF UpToLap, f
  <2> QED
    BY <1>3, <2>4, <2>5, <2>6, Zenon DEF lap
<1> QED
  BY <1>11, <1>12

\* The pipelined schedule fills and reads in the order of the rule.
LEMMA PipelinedIsRuled ==
  ASSUME NEW p, IsPlan(p), NEW total \in Nat
  PROVE  FollowsTheRule(p, total, Pipelined(p, total))
<1> DEFINE d == p.depth
           laps == Laps(p, total) * d
           once == [i \in 1 .. d |-> FillFixed(p, i - 1, 0)]
           A == When(HasFixed(p), Loop(d, LAMBDA slot : FillFixed(p, slot, 0)))
           fills == [i \in 1 .. d - 1 |->
                       When(i - 1 < total, FillStreamed(p, i - 1, i - 1))]
           texts == [i \in 1 .. laps |-> PipelinedLap(p, total, i - 1)]
           B == A \o FlattenSeq(fills)
           C == B \o FlattenSeq(texts)
<1>1. /\ d \in Nat \ {0} /\ d - 1 \in Nat /\ laps \in Nat /\ laps >= total
      /\ d = 1 => laps = total
  <2>1. d \in Nat \ {0}
    BY DEF IsPlan, Supported
  <2> DEFINE n == total + d - 1
             q == n \div d
  <2>2. n \in Nat
    BY <2>1
  <2> HIDE DEF n
  <2>3. q \in Nat /\ n % d \in 0 .. d - 1 /\ n = q * d + (n % d) /\ q * d \in Nat
    BY <2>1, <2>2
  <2>4. Laps(p, total) = q
    BY DEF Laps, n
  <2> HIDE DEF q
  <2>5. q * d >= total
    BY <2>1, <2>3 DEF n
  <2>6. d = 1 => q * d = total
    BY <2>1, <2>3 DEF n
  <2> HIDE DEF d
  <2>7. laps = q * d
    BY <2>4
  <2> QED
    BY <2>1, <2>3, <2>5, <2>6, <2>7
<1>2. Pipelined(p, total) = C
  BY DEF Pipelined, Prologue, Loop
<1>3. A \in Seq(Ops) /\ Followed(p, total, A, 0, 0)
  <2>1. << >> \in Seq(Ops) /\ Followed(p, total, << >>, 0, 0)
    <3>1. << >> \in Seq(Ops) /\ Len(<< >>) = 0
      BY EmptySeq
    <3>2. 1 .. 0 = {} /\ Cardinality({}) = 0
      BY FS_EmptySet
    <3>3. Fills(<< >>, 0) = 0 /\ Reads(<< >>, 0) = 0
      <4>1. {k \in 1 .. 0 : IsFill(<< >>[k])} = {} /\ {k \in 1 .. 0 : IsRead(<< >>[k])} = {}
        BY <3>2
      <4> QED
        BY <3>2, <4>1 DEF Fills, Reads
    <3> QED
      BY <3>1, <3>2, <3>3 DEF Followed
  <2>2. CASE ~HasFixed(p)
    BY <2>1, <2>2 DEF When
  <2>3. CASE HasFixed(p)
    <3> DEFINE none == << >>
               S == {s \in Seq(Ops) \X Nat : Followed(p, total, s[1], 0, 0)}
    <3>1. A = FlattenSeq(once)
      BY <2>3 DEF When, Loop
    <3>2. none \in Seq(Ops) /\ Followed(p, total, none, 0, 0)
      BY <2>1
    <3>3. once \in [1 .. d -> Seq(Ops)]
      <4>1. \A i \in 1 .. d : i - 1 \in Nat
        OBVIOUS
      <4>2. \A k \in Nat : FillFixed(p, k, 0) \in Seq(Ops)
        BY <2>1, RuledParts
      <4> QED
        BY <4>1, <4>2
    <3> HIDE DEF none
    <3>4. <<none, 0>> \in S
      BY <3>2
    <3>5. ASSUME NEW k \in 0 .. d - 1, NEW text \in Seq(Ops), <<text, k>> \in S
          PROVE  <<text \o once[k + 1], k + 1>> \in S
      <4>1. k \in Nat /\ once[k + 1] = FillFixed(p, k, 0) /\ Followed(p, total, text, 0, 0)
        BY <1>1, <3>5
      <4> DEFINE more == text \o once[k + 1]
      <4>2. more \in Seq(Ops) /\ Followed(p, total, more, 0, 0)
        <5> HIDE DEF once
        <5> QED
          BY <4>1, RuledParts
      <4> HIDE DEF more
      <4>3. <<more, k + 1>> \in S
        BY <4>1, <4>2
      <4> QED
        BY <4>3, Zenon DEF more
    <3> HIDE DEF once, d
    <3>6. /\ FlattenSeq(once) \in Seq(Ops) /\ none \o FlattenSeq(once) \in Seq(Ops)
          /\ <<none \o FlattenSeq(once), d>> \in S
      <4>1. d \in Nat /\ none \in Seq(Ops)
        BY <1>1, <3>2
      <4> HIDE DEF S
      <4> QED
        BY <3>3, <3>4, <3>5, <4>1, LoopInduct
    <3>7. none \o FlattenSeq(once) = FlattenSeq(once)
      BY <3>6, ConcatEmptySeq DEF none
    <3>8. Followed(p, total, none \o FlattenSeq(once), 0, 0)
      BY <3>6
    <3> QED
      BY <3>1, <3>6, <3>7, <3>8, Zenon
  <2> QED
    BY <2>2, <2>3
<1> HIDE DEF A
<1>4. B \in Seq(Ops) /\ UpToLap(p, total, B, 0)
  <2> DEFINE S == {s \in Seq(Ops) \X Nat : s[2] <= d - 1 => Followed(p, total, s[1], Least(s[2], total), 0)}
  <2>1. <<A, 0>> \in S
    <3>1. Least(0, total) = 0
      BY DEF Least
    <3> QED
      BY <1>3, <3>1
  <2>2. ASSUME NEW k \in 0 .. (d - 1) - 1, NEW text \in Seq(Ops), <<text, k>> \in S
        PROVE  <<text \o fills[k + 1], k + 1>> \in S
    <3>1. k \in Nat /\ k < d - 1 /\ k <= d - 1 /\ Followed(p, total, text, Least(k, total), 0)
      BY <1>1, <2>2
    <3>2. fills[k + 1] = IF k < total THEN FillStreamed(p, k, k) ELSE << >>
      BY <1>1 DEF When
    <3> DEFINE more == text \o fills[k + 1]
    <3>3. more \in Seq(Ops) /\ Followed(p, total, more, Least(k + 1, total), 0)
      <4> HIDE DEF fills
      <4>1. CASE k < total
        <5>1. Least(k, total) = k /\ Least(k + 1, total) = k + 1 /\ k < 0 + p.depth
          BY <1>1, <3>1, <4>1 DEF Least
        <5>2. k = k % p.depth
          <6>1. p.depth \in Nat \ {0} /\ k \in Nat /\ k < p.depth
            BY <1>1, <3>1
          <6> QED
            BY <6>1, Remainders
        <5>3. LET F == FillStreamed(p, k, k) IN
              text \o F \in Seq(Ops) /\ Followed(p, total, text \o F, k + 1, 0)
          <6>1. Followed(p, total, text, k, 0)
            BY <3>1, <5>1
          <6> QED
            BY <3>1, <4>1, <5>1, <5>2, <6>1, RuledParts
        <5>4. more = text \o FillStreamed(p, k, k)
          BY <3>2, <4>1
        <5> HIDE DEF more
        <5> QED
          BY <5>1, <5>3, <5>4
      <4>2. CASE ~(k < total)
        <5>1. Least(k, total) = Least(k + 1, total)
          BY <4>2, <3>1 DEF Least
        <5>2. more = text
          BY <3>2, <4>2, Puts
        <5> HIDE DEF more
        <5> QED
          BY <3>1, <5>1, <5>2
      <4> QED
        BY <4>1, <4>2
    <3> HIDE DEF more
    <3>4. <<more, k + 1>> \in S
      BY <3>1, <3>3
    <3> QED
      BY <3>4, Zenon DEF more
  <2>3. fills \in [1 .. d - 1 -> Seq(Ops)]
    <3>1. \A i \in 1 .. d - 1 : i - 1 \in Nat
      OBVIOUS
    <3>2. << >> \in Seq(Ops) /\ Rendezvoused(p, << >>)
      BY EmptySeq DEF Rendezvoused
    <3>3. \A k \in Nat : k < d => When(k < total, FillStreamed(p, k, k)) \in Seq(Ops)
      BY <3>2, StreamedFill, Puts DEF When
    <3>4. \A i \in 1 .. d - 1 : i - 1 < d
      BY <1>1
    <3> QED
      BY <3>1, <3>3, <3>4
  <2> HIDE DEF fills
  <2>4. B \in Seq(Ops) /\ <<B, d - 1>> \in S
    <3> DEFINE rest == d - 1
    <3> HIDE DEF S
    <3>1. /\ rest \in Nat /\ fills \in [1 .. rest -> Seq(Ops)]
          /\ \A k \in 0 .. rest - 1, P \in Seq(Ops) : <<P, k>> \in S => <<P \o fills[k + 1], k + 1>> \in S
      BY <1>1, <2>2, <2>3
    <3> HIDE DEF rest
    <3>2. B \in Seq(Ops) /\ <<B, rest>> \in S
      BY <1>3, <2>1, <3>1, LoopInduct
    <3> QED
      BY <3>2 DEF rest
  <2> HIDE DEF B
  <2>5. Followed(p, total, B, Least(d - 1, total), 0)
    BY <1>1, <2>4
  <2>6. 0 + d - 1 = d - 1 /\ Least(0, total) = 0
    BY <1>1 DEF Least
  <2> QED
    BY <2>4, <2>5, <2>6 DEF UpToLap
<1> HIDE DEF B
<1>5. C \in Seq(Ops) /\ UpToLap(p, total, C, laps)
  <2> DEFINE S == {s \in Seq(Ops) \X Nat : UpToLap(p, total, s[1], s[2])}
  <2>1. <<B, 0>> \in S
    BY <1>4
  <2>2. ASSUME NEW k \in 0 .. laps - 1, NEW text \in Seq(Ops), <<text, k>> \in S
        PROVE  <<text \o texts[k + 1], k + 1>> \in S
    <3>1. /\ k \in Nat /\ texts[k + 1] = PipelinedLap(p, total, k) /\ UpToLap(p, total, text, k)
          /\ p.depth = 1 => k < total
      BY <1>1, <2>2
    <3> DEFINE more == text \o texts[k + 1]
    <3> HIDE DEF texts
    <3>2. more \in Seq(Ops) /\ UpToLap(p, total, more, k + 1)
      BY <3>1, RuledLap
    <3> HIDE DEF more
    <3>3. <<more, k + 1>> \in S
      BY <3>1, <3>2
    <3> QED
      BY <3>3, Zenon DEF more
  <2>3. texts \in [1 .. laps -> Seq(Ops)]
    <3>1. \A i \in 1 .. laps : i - 1 \in Nat
      OBVIOUS
    <3>2. \A k \in Nat : PipelinedLap(p, total, k) \in Seq(Ops)
      BY PipelinedLapIsText
    <3> QED
      BY <3>1, <3>2
  <2> HIDE DEF texts, laps
  <2>4. C \in Seq(Ops) /\ <<C, laps>> \in S
    <3> HIDE DEF S
    <3> QED
      BY <1>1, <1>4, <2>1, <2>2, <2>3, LoopInduct
  <2> QED
    BY <2>4
<1> HIDE DEF laps, C
<1>6. Least(laps + d - 1, total) = total /\ Least(laps, total) = total
  BY <1>1 DEF Least
<1>7. Followed(p, total, C, total, total)
  BY <1>5, <1>6 DEF UpToLap
<1> QED
  BY <1>2, <1>7 DEF Followed, FollowsTheRule

\* The loops of every plan that runs them fill and read the regions of the
\* walk each once, each in its slot, in the order the barrier slots are
\* modelled over.
THEOREM TheLoopsFollowTheRule == Spec => []LoopsFollowTheRule
<1>1. IInv => LoopsFollowTheRule
  <2> SUFFICES ASSUME IInv, NEW w \in 1 .. Walks, plan.entry = "pipelined" \/ HasFixed(plan)
               PROVE  FollowsTheRule(plan, totals[w], program[w])
    BY DEF LoopsFollowTheRule
  <2>1. IsPlan(plan) /\ totals[w] \in Nat /\ program[w] = Schedule(plan, totals[w])
    <3>1. TypeOK
      BY DEF IInv
    <3>2. IsPlan(plan)
      BY <3>1, Texts
    <3>3. totals[w] \in Nat /\ program[w] = Schedule(plan, totals[w])
      BY <3>1, BoundsAssumption DEF TypeOK
    <3> QED
      BY <3>2, <3>3
  <2>2. Schedule(plan, totals[w]) = Pipelined(plan, totals[w])
    BY DEF Schedule, Prefetched
  <2> QED
    BY <2>1, <2>2, PipelinedIsRuled
<1> QED
  BY <1>1, Invariance, PTL
=============================================================================
