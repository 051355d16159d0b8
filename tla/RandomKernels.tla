---------------------------- MODULE RandomKernels ----------------------------
(***************************************************************************)
(* A tensor filled with random numbers, whose units each advance streams   *)
(* of their own, one per lane of a line.                                   *)
(*                                                                         *)
(* A problem r has `len` numbers in lines of `lanes`; a distribution makes *)
(* `perDraw` lines of a draw: one, or the pair of the Box-Muller transform.*)
(* A launch is interleaved, of `perThread` numbers to a unit, neighbours   *)
(* next to one another, or blocked, of one run to a unit, as long as the   *)
(* budget of units and the smallest run worth one (minRun lines) make it.  *)
(***************************************************************************)
EXTENDS CubeSteps

Lines(r) == CeilDiv(r.len, r.lanes)

\* `PrngState::next`, the n-th of a lane: unit u's stream of that lane.
Drawn(r, u, lane, n) == <<"stream", u * r.lanes + lane, n>>

\* Line p of the output from the n-th draw of unit u: the k-th line it makes.
\* The two of a pair are told apart by a turn.
LineOf(r, u, n, k, p) ==
  LET Value(lane) ==
        IF r.perDraw = 1 THEN Of(Drawn(r, u, lane, n))
        ELSE [Product(Drawn(r, u, lane, 2 * n), Drawn(r, u, lane, 2 * n + 1)) EXCEPT !.turn = k] IN
  {<<<<"output", p * r.lanes + lane>>, <<Value(lane)>>>> : lane \in 0 .. r.lanes - 1}

\* `OutputSlots::write`, of each line of draw n: past the output nothing when
\* that is checked.
Draw(r, u, first, stride, checked, n) ==
  Do(u, Sets(UNION {LET p == first + (r.perDraw * n + k) * stride IN
                    IF checked /\ p >= Lines(r) THEN {} ELSE LineOf(r, u, n, k, p) : k \in 0 .. r.perDraw - 1}))
-----------------------------------------------------------------------------
\* `PrngLaunchSettings::interleaved`, in cubes of r.x units, r.spare of which
\* the spread of the cubes over the grid adds.
InterleavedUnits(r) == (CeilDiv(CeilDiv(r.len, r.perThread), r.x) + r.spare) * r.x

Interleaved(r, u) ==
  LET cubeOffset == (u \div r.x) * r.x IN
  Loop((r.perThread \div r.lanes) \div r.perDraw, LAMBDA n :
         <<Draw(r, u, (cubeOffset * r.perThread) \div r.lanes + (u % r.x), r.x, TRUE, n)>>)

\* `PrngLaunchSettings::blocked`.
VectorsPerUnit(r) ==
  LET wanted == Lines(r) \div r.minRun
      units == IF wanted < 1 THEN 1 ELSE IF wanted < r.budget THEN wanted ELSE r.budget
      run == CeilDiv(CeilDiv(Lines(r), units), r.perDraw) * r.perDraw IN
  IF run > r.perDraw THEN run ELSE r.perDraw
BlockedUnits(r) ==
  LET units == CeilDiv(Lines(r), VectorsPerUnit(r))
      launched == IF units > 1 THEN units ELSE 1
      perCube == IF launched < r.x THEN launched ELSE r.x IN
  CeilDiv(launched, perCube) * perCube

Blocked(r, u) ==
  LET first == u * VectorsPerUnit(r)
      draws == VectorsPerUnit(r) \div r.perDraw
      left == (IF Lines(r) > first THEN Lines(r) - first ELSE 0) \div r.perDraw
      inside == IF left < draws THEN left ELSE draws IN
  Loop(inside, LAMBDA n : <<Draw(r, u, first, 1, FALSE, n)>>)
    \o Loop(draws - inside, LAMBDA n : <<Draw(r, u, first, 1, TRUE, inside + n)>>)
-----------------------------------------------------------------------------
Units(r) == 0 .. (IF r.blocked THEN BlockedUnits(r) ELSE InterleavedUnits(r)) - 1
Streams(r) == {Drawn(r, u, lane, n) : u \in Units(r), lane \in 0 .. r.lanes - 1, n \in 0 .. 2 * r.perThread - 1}

\* Whose line p is, and where it is among that unit's lines.
Owner(r, p) ==
  IF r.blocked THEN <<p \div VectorsPerUnit(r), p % VectorsPerUnit(r)>>
  ELSE LET perCube == r.x * (r.perThread \div r.lanes) IN
       <<(p \div perCube) * r.x + (p % r.x), (p % perCube) \div r.x>>

\* Every number of the output is of its lane's own stream, and no draw of a
\* stream is used in two places but the two of a pair.
Filled(r, i) ==
  LET p == i \div r.lanes
      lane == i % r.lanes
      u == Owner(r, p)[1]
      nth == Owner(r, p)[2]
      Stream(n) == <<"stream", u * r.lanes + lane, n>> IN
  IF r.perDraw = 1 THEN Input(Stream(nth))
  ELSE <<<<Stream(2 * (nth \div 2)), Stream(2 * (nth \div 2) + 1)>>, nth % 2>> :> 1

RandomKernel(r) ==
  Kernel([u \in Units(r) |-> IF r.blocked THEN Blocked(r, u) ELSE Interleaved(r, u)],
         [c \in Streams(r) |-> Input(c)], {"output"},
         Sets({<<<<"output", i>>, Filled(r, i)>> : i \in 0 .. r.len - 1}), 2)
=============================================================================
