-------------------------- MODULE WorldRefinement --------------------------
(***************************************************************************)
(* RollbackWorld implements SimulationContract: a simulation's state is    *)
(* Box3D's world with the side state, and a slot holds one when load_state *)
(* would accept it.                                                        *)
(***************************************************************************)
EXTENDS RollbackWorld

StateOf(w, d) == [past |-> w.motion, view |-> <<w, d>>]

ContractState == IF HasWorld THEN StateOf(world, SideState) ELSE NoWorld

ContractSlots ==
  [s \in DOMAIN side_slots |->
     IF Loadable(s) THEN StateOf(rollback[s], side_slots[s]) ELSE NoWorld]

C == INSTANCE SimulationContract
       WITH state <- ContractState, slots <- ContractSlots,
            NoState <- NoWorld, Op <- MotionOp

\* Whatever is done to a world, loading a slot brings back the whole state
\* that was last saved in it, and only a slot saved since the world and its
\* slots were made can be loaded.
ImplementsContract == C!Spec
=============================================================================
