------------------------------ MODULE MCStreamK ------------------------------
(***************************************************************************)
(* Grids of up to four regions of up to three steps, shared by up to four  *)
(* cubes: portions that end inside a region, regions shared by three       *)
(* cubes, and more cubes than steps.                                       *)
(***************************************************************************)
EXTENDS StreamK
CONSTANT k1

SmallGrids == [instances : 1 .. 4, total : 0 .. 4, stride : 1 .. 3]
OneCell == {k1}
=============================================================================
