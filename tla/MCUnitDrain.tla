----------------------------- MODULE MCUnitDrain -----------------------------
(***************************************************************************)
(* Two planes of eight units: levels that fold every unit bit, none, the   *)
(* lowest, the highest, or the outer two around a carried one; a plane     *)
(* with no units level; and tiles taken in turns.                          *)
(***************************************************************************)
EXTENDS UnitDrain
CONSTANTS p0, p1

Contracted(n) == [units |-> n, spanned |-> FALSE, turns |-> FALSE]
Carried(n) == [units |-> n, spanned |-> TRUE, turns |-> FALSE]

StatedLevels ==
  { << >>, <<Contracted(8)>>, <<Carried(8)>>,
    <<Carried(4), Contracted(2)>>, <<Contracted(2), Carried(4)>>,
    <<Contracted(2), Carried(2), Contracted(2)>>,
    <<Carried(1), Contracted(8)>>, <<Contracted(1)>>,
    <<[Contracted(8) EXCEPT !.turns = TRUE]>> }

TurnsLevels == {<<[Carried(8) EXCEPT !.turns = TRUE]>>}
=============================================================================
