--------------------------- MODULE MCHostObjects ----------------------------
(***************************************************************************)
(* Instances of HostObjects for TLC.                                       *)
(***************************************************************************)
EXTENDS HostObjects, TLC

\* In Unreal the game may destroy its own simulation (an actor, say), in
\* Godot any node.
MCMayFree == [a \in Adapters |-> IF a = "unreal" THEN {SimObj} ELSE Simulations]

\* Geometries that are not compounds are alike.
Alike == Permutations(Geometry \ Compound)
=============================================================================
