----------------------------- MODULE MatrixMatmul -----------------------------
(***************************************************************************)
(* The matmuls of matrices: a problem whose operands are read, and whose   *)
(* output is written, as they are laid out in memory.                      *)
(***************************************************************************)
EXTENDS MatmulMemory

Stages == INSTANCE MatmulKernels WITH ReadView <- ReadVector, WriteView <- WriteVector

\* (wrong) a stage at a time whatever the loop takes.
SingleStages(r) == 1

\* The stages along k that a loop takes.
StageBuffering(r) == IF r.kernel = "simple" THEN 1 ELSE 2

\* The bounds the blueprint has checked: of what its stages do not divide.
CheckM(r) == r.m % Stages!StageM(r) # 0
CheckN(r) == r.n % Stages!StageN(r) # 0
CheckK(r) == r.k % (Stages!StageK(r) * StageBuffering(r)) # 0
Lhs(r) == Tensor("lhs", r.lhsBatches, r.m, r.k, r.lhs.colmajor, r.lhs.vector, <<CheckM(r), CheckK(r)>>)
Rhs(r) == Tensor("rhs", r.rhsBatches, r.k, r.n, r.rhs.colmajor, r.rhs.vector, <<CheckK(r), CheckN(r)>>)
Acc(r) == Tensor("acc", Stages!OutBatches(r), r.m, r.n, r.acc.colmajor, r.acc.vector, <<CheckM(r), CheckN(r)>>)
Out(r) == Tensor("output", Stages!OutBatches(r), r.m, r.n, FALSE, r.vector, <<CheckM(r), CheckN(r)>>)
Views(r) == [lhs |-> Lhs(r), rhs |-> Rhs(r), acc |-> Acc(r), out |-> Out(r)]

\* What the output starts from, acc where there is one.
Start(r) ==
  [at \in (0 .. Volume(Stages!OutBatches(r)) - 1) \X (0 .. r.m - 1) \X (0 .. r.n - 1) |->
     IF r.fused THEN Input(GlobalLayout([Acc(r) EXCEPT !.vector = 1], Stages!OutBatches(r), at[1], at[2], at[3])[1]) ELSE Zero]

MatmulKernel(r) ==
  Kernel(Stages!Launch([views |-> Views(r)] @@ r),
         Contents(Lhs(r)) @@ Contents(Rhs(r)) @@ Contents(Acc(r)), {"output"},
         WantedProducts(Lhs(r), Rhs(r), Out(r), Stages!OutBatches(r), Start(r)), 1)

MatmulKernels(problems) == {MatmulKernel(r) : r \in {p \in problems : Stages!ValidMatmul(p)}}
=============================================================================
