--------------------------- MODULE MCDoubleBuffer ---------------------------
(***************************************************************************)
(* Two planes of two units, both computing or one set aside to load.  The  *)
(* cases take partitions of two or four tile matmuls, jobs with fewer      *)
(* tasks than events, as many and more, one and two rhs fragments, and     *)
(* ranges of one to four stages.                                           *)
(***************************************************************************)
EXTENDS DoubleBuffer
CONSTANTS p0, p1, l0, l1

Partition(m, n, k, fragments) == [m |-> m, n |-> n, k |-> k, fragments |-> fragments]
Jobs(lhs, rhs, needed) == [tasks |-> [lhs |-> lhs, rhs |-> rhs], needed |-> needed]
Flow(main, loadOnly, ordered, async) ==
  [main |-> main, loadOnly |-> loadOnly, ordered |-> ordered, async |-> async]

Relaxed == Flow(Operands, {}, FALSE, FALSE)
Ordered == Flow(Operands, {}, TRUE, FALSE)
Async == Flow(Operands, {}, FALSE, TRUE)

FlatCases ==
  { Partition(1, 2, 1, 1) @@ Jobs(1, 1, 3) @@ Relaxed,
    Partition(1, 2, 1, 2) @@ Jobs(1, 2, 2) @@ Relaxed,
    Partition(1, 1, 2, 1) @@ Jobs(1, 1, 4) @@ Ordered,
    Partition(1, 2, 2, 2) @@ Jobs(1, 1, 3) @@ Ordered,
    Partition(2, 1, 2, 1) @@ Jobs(1, 2, 2) @@ Ordered,
    Partition(1, 1, 1, 1) @@ Jobs(2, 1, 1) @@ Ordered }

SpecializedCases ==
  { Partition(1, 2, 2, 2) @@ Jobs(1, 2, 3) @@ Flow({"lhs"}, {"rhs"}, FALSE, FALSE),
    Partition(1, 2, 1, 1) @@ Jobs(2, 1, 4) @@ Flow({}, Operands, FALSE, FALSE),
    Partition(1, 1, 2, 1) @@ Jobs(1, 1, 2) @@ Flow(Operands, {"lhs"}, FALSE, FALSE),
    Partition(1, 2, 2, 1) @@ Jobs(2, 1, 4) @@ Flow({"lhs"}, {"rhs"}, TRUE, FALSE) }

AsyncCases ==
  { Partition(1, 1, 1, 1) @@ Jobs(1, 1, 4) @@ Async,
    Partition(1, 1, 1, 1) @@ Jobs(1, 1, 1) @@ Flow({"lhs"}, {"rhs"}, FALSE, TRUE) }

EveryCase == FlatCases \cup SpecializedCases \cup AsyncCases
=============================================================================
