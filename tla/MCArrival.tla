------------------------------ MODULE MCArrival ------------------------------
(***************************************************************************)
(* Two cubes of two units that meet, beside a cube that is alone.          *)
(***************************************************************************)
EXTENDS Arrival, TLC
CONSTANTS c1, c2, c3, u0, u1, row1, row2

ThreeCubes == {c1, c2, c3}
TwoAndOne == (c1 :> row1) @@ (c2 :> row1) @@ (c3 :> row2)
=============================================================================
