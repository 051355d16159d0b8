------------------------------- MODULE Arrival -------------------------------
(***************************************************************************)
(* The last cube in (`Arrival::count_in`): cubes that fall into groups     *)
(* each publish their partials and count in on their group's counter; the  *)
(* last of a group reads the partials of all of it.                        *)
(*                                                                         *)
(* A store is in its own cube's view of global memory until a              *)
(* synchronization of device scope: the first one of a count releases the  *)
(* cube's stores to the device, the second brings the device's into the    *)
(* cube's view.  What a cube may see earlier is not counted on: seen[c] is *)
(* what it is sure to see.                                                 *)
(***************************************************************************)
EXTENDS Integers, FiniteSets

CONSTANTS
  Cubes,
  Units,      \* of one cube
  Leader,     \* the unit at position 0
  Groups,     \* one counter each
  GroupOf     \* the group of each cube

ASSUME CubesAssumption == IsFiniteSet(Cubes) /\ GroupOf \in [Cubes -> Groups]
ASSUME LeaderAssumption == Leader \in Units

VARIABLES
  pc,        \* per cube and unit
  counter,   \* per group, arrivals counted up from zero
  arrived,   \* per cube, the shared value its leader counted at, or Unset
  device,    \* the partials released to the device
  seen,      \* per cube, the partials of others its units are sure to see
  merged     \* per cube and unit, the partials it merged

vars == <<pc, counter, arrived, device, seen, merged>>

Unset == -1
Partials == Cubes \X Units
GroupCubes(g) == {c \in Cubes : GroupOf[c] = g}

\* (wrong) the grid counted where the group is meant.
LastOfGrid(g) == Cardinality(Cubes) - 1

\* `arrival.cubes - 1`: the count before the last of a group.
LastCount(g) == Cardinality(GroupCubes(g)) - 1

Init ==
  /\ pc = [c \in Cubes |-> [u \in Units |-> "write"]]
  /\ counter = [g \in Groups |-> 0]
  /\ arrived = [c \in Cubes |-> Unset]
  /\ device = {}
  /\ seen = [c \in Cubes |-> {}]
  /\ merged = [c \in Cubes |-> [u \in Units |-> {}]]

At(c, u, label) == pc[c][u] = label
Goes(c, u, label) == pc' = [pc EXCEPT ![c][u] = label]
Meet(c, label) == \A u \in Units : At(c, u, label)

\* A unit stores its partial and comes to the first synchronization: any unit
\* may have one (`every unit of this cube has written its partial`), as any
\* may merge; the softmax of the tests leaves both to the leader.
Write(c, u) ==
  /\ At(c, u, "write") /\ Goes(c, u, "release")
  /\ UNCHANGED <<counter, arrived, device, seen, merged>>

\* (wrong) a synchronization of the cube's own scope, which releases nothing.
CubeScope(c) ==
  /\ Meet(c, "release")
  /\ pc' = [pc EXCEPT ![c] = [u \in Units |-> IF u = Leader THEN "count" ELSE "acquire"]]
  /\ UNCHANGED <<counter, arrived, device, seen, merged>>

\* The cube's units have met: what they stored is the device's.  The leader
\* counts, the others go on to the second synchronization.
Release(c) ==
  /\ Meet(c, "release")
  /\ pc' = [pc EXCEPT ![c] = [u \in Units |-> IF u = Leader THEN "count" ELSE "acquire"]]
  /\ device' = device \cup ({c} \X Units)
  /\ UNCHANGED <<counter, arrived, seen, merged>>

Count(c) ==
  /\ At(c, Leader, "count")
  /\ arrived' = [arrived EXCEPT ![c] = counter[GroupOf[c]]]
  /\ counter' = [counter EXCEPT ![GroupOf[c]] = @ + 1]
  /\ Goes(c, Leader, "acquire")
  /\ UNCHANGED <<device, seen, merged>>

\* (wrong) a barrier without the acquire: the cube keeps its own view.
StaleView(c) ==
  /\ Meet(c, "acquire")
  /\ pc' = [pc EXCEPT ![c] = [u \in Units |-> "decide"]]
  /\ seen' = [seen EXCEPT ![c] = {c} \X Units]
  /\ UNCHANGED <<counter, arrived, device, merged>>

Acquire(c) ==
  /\ Meet(c, "acquire")
  /\ pc' = [pc EXCEPT ![c] = [u \in Units |-> "decide"]]
  /\ seen' = [seen EXCEPT ![c] = device]
  /\ UNCHANGED <<counter, arrived, device, merged>>

\* (wrong) the counter read again where the cube's own count is due.
ReadsAgain(c) == counter[GroupOf[c]] = LastCount(GroupOf[c]) + 1

\* `*arrived == arrival.cubes - 1`, each unit for itself.
IsLast(c) == arrived[c] = LastCount(GroupOf[c])

Decide(c, u) ==
  /\ At(c, u, "decide")
  /\ Goes(c, u, IF IsLast(c) THEN "merge" ELSE "returned")
  /\ UNCHANGED <<counter, arrived, device, seen, merged>>

\* What the merge is sure to read of its group's partials.
Merge(c, u) ==
  /\ At(c, u, "merge") /\ Goes(c, u, "returned")
  /\ merged' = [merged EXCEPT ![c][u] = seen[c] \cap (GroupCubes(GroupOf[c]) \X Units)]
  /\ UNCHANGED <<counter, arrived, device, seen>>

Returned == \A c \in Cubes, u \in Units : At(c, u, "returned")

CubeStep(c) ==
  \/ Release(c) \/ Count(c) \/ Acquire(c)
  \/ \E u \in Units : Write(c, u) \/ Decide(c, u) \/ Merge(c, u)

Next == \/ \E c \in Cubes : CubeStep(c)
        \/ Returned /\ UNCHANGED vars

Spec == Init /\ [][Next]_vars
FairSpec == Spec /\ \A c \in Cubes : WF_vars(CubeStep(c))
-----------------------------------------------------------------------------
Labels == {"write", "release", "count", "acquire", "decide", "merge", "returned"}

\* The type invariant: only the leader counts, and a counter never passes its
\* group.
TypeOK ==
  /\ pc \in [Cubes -> [Units -> Labels]]
  /\ \A c \in Cubes, u \in Units : At(c, u, "count") => u = Leader
  /\ counter \in [Groups -> Nat]
  /\ \A g \in Groups : counter[g] <= Cardinality(GroupCubes(g))
  /\ arrived \in [Cubes -> Nat \cup {Unset}]
  /\ device \subseteq Partials
  /\ seen \in [Cubes -> SUBSET Partials]
  /\ merged \in [Cubes -> [Units -> SUBSET Partials]]

Counted(c) == arrived[c] # Unset
Merges(c) == \E u \in Units : At(c, u, "merge") \/ merged[c][u] # {}

\* Of a group's cubes at most one takes the merge upon itself, whatever the
\* order they come in.
OneMerges ==
  \A c, d \in Cubes : Merges(c) /\ Merges(d) /\ GroupOf[c] = GroupOf[d] => c = d

\* A unit about to merge sees every partial of every unit of its group.
SeesEveryPartial ==
  \A c \in Cubes, u \in Units :
    At(c, u, "merge") => GroupCubes(GroupOf[c]) \X Units \subseteq seen[c]

\* Where a cube's units are, what they released and whether their leader counted.
Phases ==
  \A c \in Cubes, u \in Units :
    /\ pc[c][u] \in {"count", "acquire", "decide", "merge", "returned"}
         => {c} \X Units \subseteq device
    /\ pc[c][u] \in {"decide", "merge", "returned"} => Counted(c)
    /\ pc[c][Leader] \in {"acquire", "decide", "merge", "returned"} <=> Counted(c)

\* A group's cubes counted 0, 1, 2 ... up to its counter, each once.
Counts ==
  /\ \A g \in Groups : counter[g] = Cardinality({c \in GroupCubes(g) : Counted(c)})
  /\ \A c \in Cubes : Counted(c) => arrived[c] < counter[GroupOf[c]]
  /\ \A c, d \in Cubes :
       Counted(c) /\ arrived[c] = arrived[d] /\ GroupOf[c] = GroupOf[d] => c = d

\* Past the second synchronization the last of a group sees all of it, and
\* nobody else merges.
LastSees ==
  \A c \in Cubes, u \in Units :
    /\ pc[c][u] \in {"decide", "merge", "returned"} /\ IsLast(c)
         => GroupCubes(GroupOf[c]) \X Units \subseteq seen[c]
    /\ At(c, u, "merge") \/ merged[c][u] # {} => IsLast(c) /\ Counted(c)

\* The inductive invariant: where each cube stands, how it counted, and what
\* the last one sees.
IInv == TypeOK /\ Phases /\ Counts /\ LastSees

\* The partials of every group with a cube come to be merged, whole.
GroupsAreMerged ==
  \A g \in {GroupOf[c] : c \in Cubes} :
    <>(\E c \in GroupCubes(g) : \A u \in Units : merged[c][u] = GroupCubes(g) \X Units)
=============================================================================
