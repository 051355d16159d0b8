------------------------- MODULE AttentionGradients -------------------------
(***************************************************************************)
(* The backward pass of attention: four kernels launched one after the     *)
(* other, a unit to a row of queries or of keys, each recomputing the      *)
(* weights of the forward pass from the scores and from the logarithm of   *)
(* the row's sum, `lse`, that was saved.                                   *)
(*                                                                         *)
(* A problem g has `heads` matrices (batches times heads) of seqQ queries  *)
(* and seqKv keys of `dim` numbers, with values of `val`, a whole `scale`, *)
(* whether the mask is causal, and units left over in a launch.  Queries,  *)
(* keys and `lse` are numbers, the other tensors inputs.                   *)
(***************************************************************************)
EXTENDS CubeSteps

CONSTANT Turns  \* more than any difference of scores

Units(g) ==
  0 .. g.heads * (IF g.seqQ > g.seqKv THEN g.seqQ ELSE g.seqKv) - 1 + g.spare
Queries(g) == g.heads * g.seqQ
Keys(g) == g.heads * g.seqKv
Masked(g, i, j) == g.causal /\ j + g.seqQ > i + g.seqKv

\* Row `row` of a tensor of `width` columns, and the cells of unit u.
At(name, width, row, x) == <<name, row * width + x>>
Own(name, u, x) == <<"own", u, name, x>>
Products(width, A(_), B(_)) == [x \in 1 .. width |-> Product(A(x - 1), B(x - 1))]
Scaled(g, terms) == [x \in DOMAIN terms |-> [terms[x] EXCEPT !.times = g.scale * @]]
Less(cell) == [Of(cell) EXCEPT !.times = -1]

\* `flash_attention_backward_prepass_kernel`.
Prepass(g, u) ==
  When(u < Queries(g),
       <<Do(u, <<"sums", u>> :> Products(g.val, LAMBDA x : At("out", g.val, u, x),
                                         LAMBDA x : At("dout", g.val, u, x)))>>)

\* The pairs a unit goes over: the query of each, its key, and which it is of
\* the unit's own.
QueryPairs(g, u) ==
  LET i == u % g.seqQ
      seen == SelectSeq([j \in 1 .. g.seqKv |-> j - 1], LAMBDA j : ~Masked(g, i, j)) IN
  [x \in DOMAIN seen |-> [q |-> u, k |-> (u \div g.seqQ) * g.seqKv + seen[x], nth |-> x]]
KeyPairs(g, u) ==
  LET j == u % g.seqKv
      seen == SelectSeq([i \in 1 .. g.seqQ |-> i - 1], LAMBDA i : ~Masked(g, i, j)) IN
  [x \in DOMAIN seen |-> [q |-> (u \div g.seqKv) * g.seqQ + seen[x], k |-> u, nth |-> x]]

\* Each pair's score and how far the gradient of its weight is from the row's
\* sum; and a term weighed by e to that score, less the row's `lse`.
Scores(g, u, pairs) ==
  Do(u, Sets({<<Own("score", u, p.nth),
                Scaled(g, Products(g.dim, LAMBDA x : At("q", g.dim, p.q, x), LAMBDA x : At("k", g.dim, p.k, x)))>> :
                p \in ToSet(pairs)}))
Gaps(g, u, pairs) ==
  Do(u, Sets({<<Own("gap", u, p.nth),
                Products(g.val, LAMBDA x : At("dout", g.val, p.q, x), LAMBDA x : At("v", g.val, p.k, x))
                  \o <<Less(<<"sums", p.q>>)>>>> : p \in ToSet(pairs)}))
Weighed(u, p, cell) == Exponential(cell, Own("score", u, p.nth), <<<<"lse", p.q>>>>)
ScoreGradients(g, u, pairs) ==
  Do(u, Sets({<<Own("ds", u, p.nth), Scaled(g, <<Weighed(u, p, Own("gap", u, p.nth))>>)>> : p \in ToSet(pairs)}))

\* What a row of a gradient sums over its pairs, in one write per column.
Gradient(name, width, u, pairs, OfPair(_, _)) ==
  Do(u, Sets({<<At(name, width, u, x), [n \in DOMAIN pairs |-> OfPair(pairs[n], x)]>> : x \in 0 .. width - 1}))

\* `flash_attention_backward_dq_kernel`.
QueryGradient(g, u) ==
  LET pairs == QueryPairs(g, u) IN
  When(u < Queries(g),
       <<Scores(g, u, pairs), Gaps(g, u, pairs), ScoreGradients(g, u, pairs),
         Gradient("dq", g.dim, u, pairs, LAMBDA p, x : Product(Own("ds", u, p.nth), At("k", g.dim, p.k, x)))>>)

\* `flash_attention_backward_dv_kernel`.
ValueGradient(g, u) ==
  LET pairs == KeyPairs(g, u) IN
  When(u < Keys(g),
       <<Scores(g, u, pairs),
         Gradient("dv", g.val, u, pairs, LAMBDA p, x : Weighed(u, p, At("dout", g.val, p.q, x)))>>)

\* `flash_attention_backward_dk_kernel`.
KeyGradient(g, u) ==
  LET pairs == KeyPairs(g, u) IN
  When(u < Keys(g),
       <<Scores(g, u, pairs), Gaps(g, u, pairs), ScoreGradients(g, u, pairs),
         Gradient("dk", g.dim, u, pairs, LAMBDA p, x : Product(Own("ds", u, p.nth), At("q", g.dim, p.q, x)))>>)

\* `flash_attention_backward`: what is launched, in order.
Backward(g, u) ==
  Prepass(g, u) \o <<Sync(Units(g))>> \o QueryGradient(g, u) \o <<Sync(Units(g))>>
    \o ValueGradient(g, u) \o <<Sync(Units(g))>> \o KeyGradient(g, u)
-----------------------------------------------------------------------------
(* By the definition: the derivative of what the forward pass computes.     *)

Given(g, c) == ((c[2] * 5 + (IF c[1] = "q" THEN 1 ELSE 2)) % 3) - 1
Numbers(g) ==
  {<<"q", x>> : x \in 0 .. Queries(g) * g.dim - 1} \union {<<"k", x>> : x \in 0 .. Keys(g) * g.dim - 1}
Lse(row) == (row * 2) % 3
Symbols(g) ==
  {<<name, x>> : name \in {"out", "dout"}, x \in 0 .. Queries(g) * g.val - 1}
    \union {<<"v", x>> : x \in 0 .. Keys(g) * g.val - 1}

Seen(g) ==
  {p \in (0 .. Queries(g) - 1) \X (0 .. Keys(g) - 1) :
     p[1] \div g.seqQ = p[2] \div g.seqKv
       /\ (g.causal => (p[2] % g.seqKv) <= (p[1] % g.seqQ) + (g.seqKv - g.seqQ))}
Sum(S, Value(_)) == FoldSet(LAMBDA x, sum : SumOfBags(<<sum, Value(x)>>), Zero, S)
Dot(g, name, row, other, column) ==
  Sum(0 .. g.val - 1, LAMBDA x : ProductOfBags(Input(At(name, g.val, row, x)), Input(At(other, g.val, column, x)), Turns))
ScoreOf(g, p) ==
  g.scale * FoldSet(LAMBDA x, s : s + Given(g, At("q", g.dim, p[1], x)) * Given(g, At("k", g.dim, p[2], x)), 0, 0 .. g.dim - 1)
WeightOf(g, p, bag) == Turned(bag, ScoreOf(g, p) - Lse(p[1]), Turns)
ScoreGradientOf(g, p) ==
  WeightOf(g, p, Times(SumOfBags(<<Dot(g, "dout", p[1], "v", p[2]), Times(Dot(g, "out", p[1], "dout", p[1]), -1, 1)>>), g.scale, 1))

WantedGradients(g) ==
  LET Pairs(side, row) == {p \in Seen(g) : p[side] = row}
      ByScore(p, c) == Times(ScoreGradientOf(g, p), Given(g, c), 1) IN
  Sets({<<At("dq", g.dim, row, x), Sum(Pairs(1, row), LAMBDA p : ByScore(p, At("k", g.dim, p[2], x)))>> :
          row \in 0 .. Queries(g) - 1, x \in 0 .. g.dim - 1}
       \union {<<At("dk", g.dim, row, x), Sum(Pairs(2, row), LAMBDA p : ByScore(p, At("q", g.dim, p[1], x)))>> :
          row \in 0 .. Keys(g) - 1, x \in 0 .. g.dim - 1}
       \union {<<At("dv", g.val, row, x), Sum(Pairs(2, row), LAMBDA p : WeightOf(g, p, Input(At("dout", g.val, p[1], x))))>> :
          row \in 0 .. Keys(g) - 1, x \in 0 .. g.val - 1})

BackwardKernel(g) ==
  Kernel([u \in Units(g) |-> Backward(g, u)],
         [c \in Numbers(g) |-> Number(Given(g, c))] @@ [c \in Symbols(g) |-> Input(c)]
           @@ Sets({<<<<"lse", row>>, Number(Lse(row))>> : row \in 0 .. Queries(g) - 1}),
         {"dq", "dk", "dv"}, WantedGradients(g), Turns)
=============================================================================
