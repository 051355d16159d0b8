----------------------------- MODULE RegionFeed -----------------------------
(***************************************************************************)
(* What the slots of a buffered walk promise the code written over them,   *)
(* whatever they rendezvous on: the regions of the walk are fed to every   *)
(* reader in order and whole, and at most Depth of them are held for the   *)
(* slowest reader.  Nothing is said of slots, barriers or parities.        *)
(***************************************************************************)
EXTENDS Integers

CONSTANTS
  Readers,  \* the units that read
  Depth,    \* how many regions are held at a time
  Total     \* regions of the walk

VARIABLES
  fed,      \* the regions that may be read
  at,       \* per reader, the region it reads next
  inside    \* per reader, whether it is reading it

vars == <<fed, at, inside>>

Regions == 0 .. Total - 1

Init ==
  /\ fed = {}
  /\ at = [u \in Readers |-> 0]
  /\ inside = [u \in Readers |-> FALSE]

\* A region is fed once its place is free: every reader is past the region
\* that was held there.
Feed(r) ==
  /\ r \notin fed
  /\ \A u \in Readers : r < at[u] + Depth
  /\ fed' = fed \cup {r}
  /\ UNCHANGED <<at, inside>>

Enter(u) ==
  /\ ~inside[u] /\ at[u] \in fed
  /\ inside' = [inside EXCEPT ![u] = TRUE]
  /\ UNCHANGED <<fed, at>>

Leave(u) ==
  /\ inside[u]
  /\ inside' = [inside EXCEPT ![u] = FALSE]
  /\ at' = [at EXCEPT ![u] = @ + 1]
  /\ UNCHANGED fed

Next == (\E r \in Regions : Feed(r)) \/ \E u \in Readers : Enter(u) \/ Leave(u)

Spec == Init /\ [][Next]_vars
=============================================================================
