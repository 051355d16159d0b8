------------------------------ MODULE Unrolling ------------------------------
(***************************************************************************)
(* What a loop unrolls to.  A kernel's expansion repeats a text for each   *)
(* of a loop's counts; `FlattenSeq` puts them one after the other.  What   *)
(* each of them keeps, the whole keeps: `LoopInduct`.                      *)
(***************************************************************************)
EXTENDS Integers, SequencesExt, WellFoundedInduction, SequenceTheorems, TLAPS

\* A set of naturals has a least member.
LEMMA LeastOf ==
  ASSUME NEW T, T \subseteq Nat, T # {}
  PROVE  \E x \in T : \A y \in T : x <= y
<1> DEFINE R == OpToRel(<, Nat)
<1>1. IsWellFoundedOn(R, Nat)
  BY NatLessThanWellFounded
<1>2. PICK x \in T : \A y \in T : ~(<<y, x>> \in R)
  <2> HIDE DEF R
  <2> QED
    BY <1>1, WFMin
<1>3. \A y \in T : <<y, x>> \in R <=> y < x
  BY DEF OpToRel
<1> HIDE DEF R
<1>4. \A y \in T : ~(y < x)
  BY <1>2, <1>3
<1>5. \A y \in T : y \in Nat
  OBVIOUS
<1> QED
  BY <1>2, <1>4, <1>5

\* Whatever holds 0, and n + 1 with n, holds every natural.
LEMMA Induct ==
  ASSUME NEW S, 0 \in S, \A n \in Nat : n \in S => n + 1 \in S
  PROVE  Nat \subseteq S
<1> SUFFICES ASSUME Nat \ S # {} PROVE FALSE
  OBVIOUS
<1>1. PICK x \in Nat \ S : \A y \in Nat \ S : x <= y
  BY LeastOf
<1>2. x # 0 /\ x - 1 \in Nat
  BY <1>1
<1> QED
  BY <1>1, <1>2

\* The partial results of flattening a sequence of texts.
IsPartial(seqs, n, part) ==
  part = [i \in 1 .. n |-> IF i = 1 THEN seqs[i] ELSE part[i - 1] \o seqs[i]]

\* Every sequence of sequences has its partial concatenations.
LEMMA PartialExists ==
  ASSUME NEW seqs, NEW n \in Nat
  PROVE  \E part : IsPartial(seqs, n, part)
<1> DEFINE S == {k \in Nat : \E part : IsPartial(seqs, k, part)}
<1>1. 0 \in S
  <2>1. IsPartial(seqs, 0, [i \in 1 .. 0 |-> 0])
    BY DEF IsPartial
  <2> QED
    BY <2>1
<1>2. ASSUME NEW k \in Nat, k \in S PROVE k + 1 \in S
  <2>1. PICK part : IsPartial(seqs, k, part)
    BY <1>2
  <2> DEFINE more == [i \in 1 .. k + 1 |->
                        IF i = k + 1 THEN IF i = 1 THEN seqs[i] ELSE part[i - 1] \o seqs[i]
                                     ELSE part[i]]
  <2>2. ASSUME NEW i \in 1 .. k + 1
        PROVE  more[i] = IF i = 1 THEN seqs[i] ELSE more[i - 1] \o seqs[i]
    <3>1. CASE i = k + 1
      <4>1. CASE i = 1
        BY <3>1, <4>1
      <4>2. CASE i # 1
        <5>1. more[i - 1] = part[i - 1]
          BY <3>1, <4>2
        <5> QED
          BY <3>1, <4>2, <5>1
      <4> QED
        BY <4>1, <4>2
    <3>2. CASE i # k + 1
      <4>1. i \in 1 .. k /\ more[i] = part[i]
        BY <3>2
      <4>2. part[i] = IF i = 1 THEN seqs[i] ELSE part[i - 1] \o seqs[i]
        BY <2>1, <4>1 DEF IsPartial
      <4>3. i # 1 => more[i - 1] = part[i - 1]
        BY <4>1
      <4> QED
        BY <4>1, <4>2, <4>3
    <3> QED
      BY <3>1, <3>2
  <2>3. DOMAIN more = 1 .. k + 1 /\ more = [i \in 1 .. k + 1 |-> more[i]]
    OBVIOUS
  <2>4. IsPartial(seqs, k + 1, more)
    <3> HIDE DEF more
    <3> QED
      BY <2>2, <2>3 DEF IsPartial
  <2> QED
    BY <2>4
<1>3. Nat \subseteq S
  <2> HIDE DEF S
  <2> QED
    BY <1>1, <1>2, Induct
<1> QED
  BY <1>3

\* Flattening appends one text after the other.
LEMMA FlattenAppends ==
  ASSUME NEW seqs, Len(seqs) \in Nat \ {0}
  PROVE  \E part : IsPartial(seqs, Len(seqs), part) /\ FlattenSeq(seqs) = part[Len(seqs)]
<1> DEFINE n == Len(seqs)
           chosen == CHOOSE g : g = [i \in 1 .. n |-> IF i = 1 THEN seqs[i] ELSE g[i - 1] \o seqs[i]]
<1>1. \E g : g = [i \in 1 .. n |-> IF i = 1 THEN seqs[i] ELSE g[i - 1] \o seqs[i]]
  BY PartialExists DEF IsPartial
<1>2. chosen = [i \in 1 .. n |-> IF i = 1 THEN seqs[i] ELSE chosen[i - 1] \o seqs[i]]
  BY <1>1
<1>3. FlattenSeq(seqs) = chosen[n]
  BY DEF FlattenSeq
<1> HIDE DEF chosen
<1> QED
  BY <1>2, <1>3 DEF IsPartial

\* What holds of a text and of 0, and with the text of i of it followed by the
\* next, holds of the text followed by all.
LEMMA LoopInduct ==
  ASSUME NEW X, NEW A \in Seq(X), NEW n \in Nat, NEW seqs \in [1 .. n -> Seq(X)], NEW S,
         <<A, 0>> \in S,
         \A i \in 0 .. n - 1, P \in Seq(X) : <<P, i>> \in S => <<P \o seqs[i + 1], i + 1>> \in S
  PROVE  /\ FlattenSeq(seqs) \in Seq(X) /\ A \o FlattenSeq(seqs) \in Seq(X)
         /\ <<A \o FlattenSeq(seqs), n>> \in S
<1>1. Len(seqs) = n /\ seqs \in Seq(Seq(X))
  OBVIOUS
<1>2. CASE n = 0
  <2>1. seqs = << >>
    BY <1>1, <1>2, EmptySeq
  <2>2. FlattenSeq(seqs) = << >>
    BY <1>1, <1>2, <2>1 DEF FlattenSeq
  <2>3. A \o << >> = A /\ << >> \in Seq(X)
    BY ConcatEmptySeq, EmptySeq
  <2> QED
    BY <1>2, <2>2, <2>3
<1>3. CASE n # 0
  <2>1. PICK part : IsPartial(seqs, n, part) /\ FlattenSeq(seqs) = part[n]
    BY <1>1, <1>3, FlattenAppends
  <2> DEFINE T == {k \in Nat : k + 1 <= n =>
                     /\ part[k + 1] \in Seq(X) /\ <<A \o part[k + 1], k + 1>> \in S}
  <2>2. 0 \in T
    <3>1. part[1] = seqs[1] /\ seqs[1] \in Seq(X)
      BY <1>3, <2>1 DEF IsPartial
    <3>2. 0 \in 0 .. n - 1 /\ 0 + 1 = 1
      BY <1>3
    <3>3. <<A \o seqs[0 + 1], 0 + 1>> \in S
      BY <3>2
    <3>4. part[0 + 1] \in Seq(X) /\ <<A \o part[0 + 1], 0 + 1>> \in S
      BY <3>1, <3>2, <3>3
    <3> QED
      BY <3>4
  <2>3. ASSUME NEW k \in Nat, k \in T PROVE k + 1 \in T
    <3> SUFFICES ASSUME k + 2 <= n
                 PROVE  part[k + 2] \in Seq(X) /\ <<A \o part[k + 2], k + 2>> \in S
      OBVIOUS
    <3>1. part[k + 1] \in Seq(X) /\ <<A \o part[k + 1], k + 1>> \in S
      BY <2>3
    <3>2. part[k + 2] = part[k + 1] \o seqs[k + 2] /\ seqs[k + 2] \in Seq(X)
      <4>1. k + 2 \in 1 .. n /\ k + 2 # 1 /\ (k + 2) - 1 = k + 1
        OBVIOUS
      <4> QED
        BY <2>1, <4>1 DEF IsPartial
    <3>3. <<(A \o part[k + 1]) \o seqs[k + 2], k + 2>> \in S
      <4>1. k + 1 \in 0 .. n - 1 /\ (k + 1) + 1 = k + 2 /\ A \o part[k + 1] \in Seq(X)
        BY <3>1
      <4> QED
        BY <3>1, <4>1
    <3>4. (A \o part[k + 1]) \o seqs[k + 2] = A \o part[k + 2]
      <4>1. \A s, t, u \in Seq(X) : (s \o t) \o u = s \o (t \o u)
        BY SMTT(30), ConcatAssociative
      <4>2. (A \o part[k + 1]) \o seqs[k + 2] = A \o (part[k + 1] \o seqs[k + 2])
        BY <3>1, <3>2, <4>1, Zenon
      <4> QED
        BY <3>2, <4>2, Zenon
    <3>5. part[k + 2] \in Seq(X)
      BY <3>1, <3>2, ConcatProperties
    <3> QED
      BY <3>3, <3>4, <3>5
  <2>4. Nat \subseteq T
    <3> HIDE DEF T
    <3> QED
      BY <2>2, <2>3, Induct
  <2>5. n - 1 \in T /\ (n - 1) + 1 = n
    <3> HIDE DEF T
    <3> QED
      BY <1>3, <2>4
  <2>6. part[n] \in Seq(X) /\ <<A \o part[n], n>> \in S
    BY <2>5
  <2> QED
    BY <2>1, <2>6, ConcatProperties
<1> QED
  BY <1>2, <1>3
=============================================================================
