---------------------------- MODULE HostObjects -----------------------------
(***************************************************************************)
(* The objects of the two adapters around one core world: the Unreal       *)
(* plugin, whose objects are collected when nothing reachable refers to    *)
(* them, and the Godot extension, whose objects the game frees itself.     *)
(*                                                                         *)
(* WorldObj is the host's wrapper of the core world of SnapshotContext     *)
(* (UBox3DRollbackWorld, Box3DRollbackWorld), SimObj an object of the game *)
(* that implements the simulation interface and refers to WorldObj, and    *)
(* Session are the host's wrappers of core sessions.  A core session holds *)
(* a pointer either to the core world itself or to the bridge in its own   *)
(* wrapper, which refers to its object weakly: by TWeakObjectPtr in        *)
(* Unreal, by object id in Godot.                                          *)
(***************************************************************************)
EXTENDS SnapshotContext

CONSTANTS
  WorldObj, SimObj, Session,
  NoObject,   \* a null reference
  MayFree     \* for each adapter, the objects the game may free at any time

Adapters == {"unreal", "godot"}
Simulations == {WorldObj, SimObj}
Objects == Simulations \cup Session

ASSUME HostAssumption ==
  /\ NoObject \notin Objects
  /\ WorldObj # SimObj /\ Simulations \cap Session = {}
  /\ MayFree \in [Adapters -> SUBSET Simulations]
  /\ WorldObj \notin MayFree["unreal"]

VARIABLES
  adapter,  \* which of the two adapters this is
  status,   \* of an object: live, condemned by the collector or freed, gone
  held,     \* the objects the game refers to
  bound,    \* BoundSimulation: what a session refers to
  weak,     \* the bridge's SimObject or instance_id
  direct,   \* whether the core session points to the core world itself
  active    \* is_active() of the core session

hostVars == <<adapter, status, held, bound, weak, direct, active>>
vars == <<world, context, contexts, objects, closing,
          adapter, status, held, bound, weak, direct, active>>

Live(o) == o \in Objects /\ status[o] = "live"

\* What a live object keeps from being collected.
Refers(o) ==
  IF o \in Session THEN {bound[o]} ELSE IF o = SimObj THEN {WorldObj} ELSE {}

RefersFrom(S) == S \cup {x \in Objects : \E o \in S : Live(o) /\ x \in Refers(o)}

\* The chains of references from a session over SimObj to WorldObj have
\* length two.
Reachable == RefersFrom(RefersFrom(held))

\* is_alive() of the simulation the core session has: a core world always
\* says yes, the bridge asks whether its object is still there.
Answers(s) == direct[s] \/ Live(weak[s])
-----------------------------------------------------------------------------
Init ==
  /\ ContextInit
  /\ adapter \in Adapters
  /\ status = [o \in Objects |-> "live"]
  /\ held = Objects
  /\ bound = [s \in Session |-> NoObject]
  /\ weak = [s \in Session |-> NoObject]
  /\ direct = [s \in Session |-> FALSE]
  /\ active = [s \in Session |-> FALSE]

\* Code runs in the host only between the two halves of no destroy_world.
Running == ~closing

\* Mutant of Refer: the session does not refer to what it is bound to.
ReferToNothing(s, o) == bound' = bound

\* The session refers to o, so that o is not collected.
Refer(s, o) == bound' = [bound EXCEPT ![s] = o]

\* SetSimulationWorld of Unreal: the core session gets the core world
\* itself, or the bridge without an object.
SetSimulationWorld(s, o) ==
  /\ adapter = "unreal" /\ Running
  /\ s \in held /\ Live(s) /\ ~active[s]
  /\ o = NoObject \/ (o = WorldObj /\ Live(o) /\ o \in Reachable)
  /\ Refer(s, o)
  /\ weak' = [weak EXCEPT ![s] = NoObject]
  /\ direct' = [direct EXCEPT ![s] = (o = WorldObj)]
  /\ UNCHANGED <<contextVars, adapter, status, held, active>>

\* SetSimulationInterface of Unreal.
SetSimulationInterface(s, o) ==
  /\ adapter = "unreal" /\ Running
  /\ s \in held /\ Live(s) /\ ~active[s]
  /\ o = NoObject \/ (o \in Simulations /\ Live(o) /\ o \in Reachable)
  /\ Refer(s, o)
  /\ weak' = [weak EXCEPT ![s] = o]
  /\ direct' = [direct EXCEPT ![s] = FALSE]
  /\ UNCHANGED <<contextVars, adapter, status, held, active>>

\* set_simulation of Godot.
SetSimulation(s, o) ==
  /\ adapter = "godot" /\ Running
  /\ s \in held /\ Live(s) /\ ~active[s]
  /\ o = NoObject \/ (o \in Simulations /\ Live(o))
  /\ weak' = [weak EXCEPT ![s] = o]
  /\ UNCHANGED <<contextVars, adapter, status, held, bound, direct, active>>

\* Start, as far as the core world is concerned: new snapshot slots, and
\* the initial state saved in the first; the session is active only if that
\* succeeded.
Start(s) ==
  /\ Running /\ s \in held /\ Live(s) /\ ~active[s]
  /\ Answers(s) /\ Live(WorldObj)
  /\ \E n \in SlotCounts :
       /\ Reinit(n)
       /\ context' \in Saves(NewContext(contexts', n), 0, DOMAIN world)
  /\ active' = [active EXCEPT ![s] = (context'.slots[0] # NoImage)]
  /\ UNCHANGED <<world, closing, adapter, status, held, bound, weak, direct>>

\* A save or a load that the session makes while it ticks.
Call(s) ==
  /\ Running /\ s \in held /\ Live(s) /\ active[s]
  /\ Answers(s) /\ Live(WorldObj)
  /\ \E slot \in Slots : SaveState(slot) \/ LoadState(slot)
  /\ UNCHANGED hostVars

\* The game uses the world without a session.
GameCall ==
  /\ Running /\ WorldObj \in Reachable /\ Live(WorldObj)
  /\ \/ CreateWorld \/ DestroyWorld
     \/ \E g \in Geometry : RawAddShape(g) \/ RawDestroyShape(g)
     \/ \E n \in SlotCounts : InitSnapshots(n)
     \/ \E slot \in Slots : SaveState(slot) \/ LoadState(slot)
  /\ UNCHANGED hostVars

FinishDestroyWorld == DestroyRest /\ UNCHANGED hostVars

\* The game lets go of an object; in Godot it has to free it instead.
Drop(o) ==
  /\ adapter = "unreal" /\ Running /\ o \in held
  /\ held' = held \ {o}
  /\ UNCHANGED <<contextVars, adapter, status, bound, weak, direct, active>>

\* Object o ends; when it is the wrapper of the core world, so does that.
End(o) ==
  /\ status' = [status EXCEPT ![o] = "gone"]
  /\ IF o = WorldObj THEN DestroyWorld ELSE UNCHANGED contextVars

\* The game frees an object itself.  In Unreal this leaves it to the
\* collector, but weak references to it are void at once.
Free(o) ==
  /\ Running /\ o \in MayFree[adapter] /\ Live(o)
  /\ IF adapter = "godot" THEN End(o)
     ELSE /\ status' = [status EXCEPT ![o] = "condemned"]
          /\ UNCHANGED contextVars
  /\ held' = held \ {o}
  /\ UNCHANGED <<adapter, bound, weak, direct, active>>

\* The collector condemns whatever cannot be reached.
Collect ==
  /\ adapter = "unreal" /\ Running
  /\ \E o \in Objects \ Reachable : Live(o)
  /\ status' = [o \in Objects |->
       IF Live(o) /\ o \notin Reachable THEN "condemned" ELSE status[o]]
  /\ UNCHANGED <<contextVars, adapter, held, bound, weak, direct, active>>

\* BeginDestroy of a condemned object, in any order and at any time.
BeginDestroy(o) ==
  /\ Running /\ adapter = "unreal" /\ status[o] = "condemned"
  /\ End(o)
  /\ UNCHANGED <<adapter, held, bound, weak, direct, active>>

Next ==
  \/ \E s \in Session :
       \/ \E o \in Simulations \cup {NoObject} :
            \/ SetSimulationWorld(s, o) \/ SetSimulationInterface(s, o)
            \/ SetSimulation(s, o)
       \/ Start(s) \/ Call(s)
  \/ GameCall \/ FinishDestroyWorld
  \/ \E o \in Objects : Drop(o) \/ Free(o) \/ BeginDestroy(o)
  \/ Collect

Spec == Init /\ [][Next]_vars
-----------------------------------------------------------------------------
(* Properties. *)

\* A session's simulation is not collected while the session lives: the
\* core world it points to still exists, and the object its bridge refers
\* to is there, unless the game freed it (Box3DRollbackSession.h: "Keeps
\* the bound simulation UObject referenced so GC does not collect it").
SimulationOutlivesSession ==
  adapter = "unreal" => \A s \in Session : Live(s) =>
    /\ direct[s] => Live(WorldObj)
    /\ weak[s] \in Simulations \ MayFree[adapter] => Live(weak[s])

=============================================================================
