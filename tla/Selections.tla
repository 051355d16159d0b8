----------------------------- MODULE Selections -----------------------------
(***************************************************************************)
(* How reductions that do not add a row up get what they keep: the     *)
(* lists of the largest a unit inserts into, what the units of a plane     *)
(* agree on and the merging of lists; and the reductions to one number.    *)
(*                                                                         *)
(* A candidate is an item and where it is in its row, as one number: the   *)
(* item times Far, less its coordinate.  The order of these numbers is the *)
(* one every select of the code follows: the larger item first and, of two *)
(* equal ones, the lower coordinate.  When coordinates are not wanted they *)
(* are all zero.  The smallest items are the largest of their opposites.   *)
(* The items here are of no floating type that has NaNs, which would be    *)
(* larger than any, and smaller.                                           *)
(***************************************************************************)
EXTENDS Integers, SequencesExt

Far == 100
Nowhere == Far - 1  \* the coordinate no item has, `u32::MAX`
Lowest == -2        \* `min_value` of the items
Candidate(item, coordinate) == item * Far - coordinate
Null(tracked) == Candidate(Lowest, IF tracked THEN Nowhere ELSE 0)
ItemOf(candidate) == -((-candidate) \div Far)

LargerOf(a, b) == IF a > b THEN a ELSE b
Largest(candidates) == FoldLeft(LargerOf, Head(candidates), candidates)
-----------------------------------------------------------------------------
(* A list of the largest, in order.                                        *)

\* One more, pushed through the list.
Pushed(list, candidate) ==
  LET carried[j \in 0 .. Len(list)] ==
        IF j = 0 THEN candidate
        ELSE IF list[j] > carried[j - 1] THEN carried[j - 1] ELSE list[j] IN
  [j \in DOMAIN list |-> LargerOf(list[j], carried[j - 1])]

Reaches(list, candidate) == ~(ItemOf(candidate) < ItemOf(list[Len(list)]))

\* `topk_insert`, and the same for each of several.
Inserted(list, candidate) == IF Reaches(list, candidate) THEN Pushed(list, candidate) ELSE list
AllInserted(list, candidates) == FoldLeft(Inserted, list, candidates)

\* What a lane has left once the winner is masked: with coordinates every lane
\* that holds it loses it, without them the lowest such lane.
Masked(left, winner, tracked) ==
  LET first == CHOOSE v \in DOMAIN left : left[v] = winner /\ \A w \in 1 .. v - 1 : left[w] # winner IN
  [v \in DOMAIN left |->
     IF (IF tracked THEN left[v] = winner ELSE v = first)
     THEN Null(tracked) ELSE left[v]]

\* `plane_topk_insert`: the winners among the items of a plane, one after the
\* other, pushed through the list every unit has.
PlaneInserted(list, items, tracked) ==
  LET round[i \in 0 .. Len(list)] ==
        IF i = 0 THEN [list |-> list, left |-> items]
        ELSE LET before == round[i - 1]
                 winner == Largest(before.left) IN
             [list |-> Pushed(before.list, winner), left |-> Masked(before.left, winner, tracked)] IN
  IF \E v \in DOMAIN items : Reaches(list, items[v]) THEN round[Len(list)].list ELSE list

\* `plane_topk_merge`: each lane points into its list, and the first one whose
\* candidate wins moves on.
PlaneMerged(lists, k, tracked) ==
  LET Pointed(cursors) == [v \in DOMAIN lists |-> IF cursors[v] > k THEN Null(tracked) ELSE lists[v][cursors[v]]]
      round[i \in 0 .. k] ==
        IF i = 0 THEN [won |-> <<>>, cursors |-> [v \in DOMAIN lists |-> 1]]
        ELSE LET before == round[i - 1]
                 pointed == Pointed(before.cursors)
                 winner == Largest(pointed)
                 lane == CHOOSE v \in DOMAIN lists : pointed[v] = winner /\ \A w \in 1 .. v - 1 : pointed[w] # winner IN
             [won |-> Append(before.won, winner), cursors |-> [before.cursors EXCEPT ![lane] = @ + 1]] IN
  round[k].won

\* `topk_finalize`: the candidates of all lanes, from nothing.
Finalized(list, candidates) == FoldLeft(Pushed, list, candidates)
-----------------------------------------------------------------------------
(* The largest alone.                                                      *)

\* `advance_argmax`: for a candidate after all those seen.
Advanced(current, candidate) ==
  IF ItemOf(current) > ItemOf(candidate) THEN current
  ELSE IF ItemOf(current) = ItemOf(candidate) /\ current # Candidate(ItemOf(current), Nowhere)
  THEN current ELSE candidate

\* `Max`: items come one after the other, or a plane's at once.
MaxOf(how, entries) ==
  CASE how = "reduce" -> FoldLeft(Advanced, Head(entries), Tail(entries))
    [] how = "plane" -> Advanced(Head(entries), Largest(Tail(entries)))
    [] OTHER -> Largest(entries)
-----------------------------------------------------------------------------
(* Reductions to one number, of the accumulator first and then of items or *)
(* of other accumulators.                                                  *)

\* `null_input`, at a coordinate.
NullItem(op, coordinate) ==
  CASE op \in {"top", "max", "min"} -> Candidate(Lowest, coordinate)
    [] op \in {"prod", "all"} -> 1
    [] OTHER -> 0

\* Accumulators are what `after` made of items, and are put together as they are.
WithItems(how, entries, After(_)) ==
  CASE how = "merge" -> [i \in DOMAIN entries |-> After(entries[i])]
    [] how \in {"reduce", "plane"} -> <<Head(entries)>> \o [i \in 1 .. Len(entries) - 1 |-> After(entries[i + 1])]
    [] OTHER -> entries

ProdOf(how, entries) == FoldLeft(LAMBDA a, b : a * b, 1, entries)

Abs(item) == IF item < 0 THEN -item ELSE item
MaxAbsOf(how, entries) == Largest(WithItems(how, entries, Abs))

\* `normalize_to_flag`: a flag is a flag of itself.
Flag(item) == IF item # 0 THEN 1 ELSE 0
AnyOf(how, entries) == Largest(WithItems(how, entries, Flag))
AllOf(how, entries) == -Largest(WithItems(how, [i \in DOMAIN entries |-> -entries[i]], LAMBDA item : -Flag(item)))
-----------------------------------------------------------------------------
\* What a rule gives for the entries of a choice: a list to start from and the
\* candidates for it, or the lists of a plane's units.
Selected(rule, entries) ==
  LET own == SubSeq(entries, 1, rule.k)
      others == SubSeq(entries, rule.k + 1, Len(entries))
      lists == [v \in 1 .. Len(entries) \div rule.k |-> SubSeq(entries, (v - 1) * rule.k + 1, v * rule.k)] IN
  CASE rule.op = "top" /\ rule.how \in {"reduce", "fuse"} -> AllInserted(own, others)
    [] rule.op = "top" /\ rule.how = "plane" -> PlaneInserted(own, others, rule.tracked)
    [] rule.op = "top" /\ rule.how = "merge" -> PlaneMerged(lists, rule.k, rule.tracked)
    [] rule.op = "top" /\ rule.how = "final" -> Finalized(own, others)
    [] rule.op \in {"max", "min"} -> <<MaxOf(rule.how, entries)>>
    [] rule.op = "prod" -> <<ProdOf(rule.how, entries)>>
    [] rule.op = "maxabs" -> <<MaxAbsOf(rule.how, entries)>>
    [] rule.op = "any" -> <<AnyOf(rule.how, entries)>>
    [] rule.op = "all" -> <<AllOf(rule.how, entries)>>
    [] OTHER -> <<Largest(entries)>>
=============================================================================
