----------------------------- MODULE MCCubeSlots -----------------------------
(***************************************************************************)
(* Three units, both schedules, one to four slots, and every choice of the *)
(* operands the walk leaves fixed.                                         *)
(***************************************************************************)
EXTENDS CubeSlots
CONSTANTS u1, u2, u3, lhs, rhs

ThreeUnits == {u1, u2, u3}

AllPlans(depths) ==
  {p \in [depth : depths, refills : [{lhs, rhs} -> {"EveryRegion", "Once"}],
          entry : {"pipelined", "prefetched"}] : Supported(p)}

EveryPlan == AllPlans(1 .. 2) \cup {p \in AllPlans(3 .. 4) : p.entry = "pipelined"}
=============================================================================
