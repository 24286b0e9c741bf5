--------------------------- MODULE RollbackWorld ----------------------------
(***************************************************************************)
(* The deterministic world of core/src/rb_world.cpp with the snapshot      *)
(* context of core/src/rollback_shim.c: one Box3D world, the wrapper's     *)
(* side state beside it (the frame counter, the handle table and its       *)
(* metadata), the snapshot slots that hold both, and the recording.        *)
(*                                                                         *)
(* Box3D itself is external.  Its world is a record: steps counts the      *)
(* steps it made, made lists the bodies created in it (a body's id is its  *)
(* place there), by the wrapper or by the host through the raw API, and    *)
(* motion stands for all the rest of the physics: the operations applied,  *)
(* in order.  A snapshot image is such a record.                           *)
(*                                                                         *)
(* Geometry, time step, worker count and timings are left out, and so is   *)
(* the rollback telemetry, whose algorithm is AffectedBodies.              *)
(***************************************************************************)
EXTENDS Integers, Sequences

CONSTANTS
  BodyKind,      \* BodyKind of the bodies the wrapper adds
  Raw,           \* the kind of a body the host creates through the raw API
  InputCounts,   \* arguments of set_input_count
  SlotCounts,    \* arguments of init_snapshots
  Slots,         \* arguments of save_state and load_state
  NoWorld,       \* b3_nullWorldId
  NoContext,     \* a null B3RollbackCtx
  Empty,         \* a snapshot buffer that holds no image
  NoSide,        \* a SideState that is not valid
  MayFailSave,   \* whether b3SerializeWorld may fail
  MaxMotion      \* bound: operations between creation and destruction

ASSUME WorldAssumption ==
  /\ Raw \notin BodyKind
  /\ InputCounts \subseteq Int /\ SlotCounts \subseteq Int /\ Slots \subseteq Int
  /\ MayFailSave \in BOOLEAN /\ MaxMotion \in Nat

\* What can be done to a world.
MotionOp == {"add", "push", "step"}

\* Box3D's world.
Physics == [steps : Nat, made : Seq(BodyKind \cup {Raw}), motion : Seq(MotionOp)]

ASSUME NullAssumption == NoWorld \notin Physics /\ Empty \notin Physics

VARIABLES
  world,             \* the Box3D world, or NoWorld
  frame,             \* frame
  bodies,            \* bodies: the id of each handle
  body_meta,         \* body_meta: the kind of each handle
  input_count,       \* input_count
  rollback,          \* rollback: the context's snapshot buffers, or NoContext
  side_slots,        \* side_slots
  recording,         \* whether recording # nullptr
  recording_active,  \* recording_active
  recorded           \* whether Box3D is recording the world

side == <<frame, bodies, body_meta>>
recorder == <<recording, recording_active, recorded>>
vars == <<world, frame, bodies, body_meta, input_count, rollback, side_slots,
          recording, recording_active, recorded>>

HasWorld == world # NoWorld

\* The world after an operation.
Moved(w, op) ==
  [steps |-> w.steps, made |-> w.made, motion |-> Append(w.motion, op)]
Created(w, kind) ==
  [steps |-> w.steps, made |-> Append(w.made, kind),
   motion |-> Append(w.motion, "add")]
Stepped(w) ==
  [steps |-> w.steps + 1, made |-> w.made, motion |-> Append(w.motion, "step")]

Room == HasWorld /\ Len(world.motion) < MaxMotion
-----------------------------------------------------------------------------
Init ==
  /\ world = NoWorld
  /\ frame = 0
  /\ bodies = <<>> /\ body_meta = <<>>
  /\ input_count = 2
  /\ rollback = NoContext
  /\ side_slots = <<>>
  /\ recording = FALSE /\ recording_active = FALSE /\ recorded = FALSE

CreateWorld ==
  /\ ~HasWorld
  /\ world' = [steps |-> 0, made |-> <<>>, motion |-> <<>>]
  /\ frame' = 0
  /\ bodies' = <<>> /\ body_meta' = <<>>
  /\ side_slots' = <<>>
  /\ recorded' = FALSE
  /\ UNCHANGED <<input_count, rollback, recording, recording_active>>

\* Mutant of StopsRecording: the flag outlives the world.
StopsRecordingNever == recording_active

\* recording_active after destroy_world.
StopsRecording == IF HasWorld THEN FALSE ELSE recording_active

DestroyWorld ==
  /\ world' = NoWorld
  /\ recording_active' = StopsRecording
  /\ recorded' = FALSE
  /\ recording' = FALSE
  /\ rollback' = NoContext
  /\ side_slots' = <<>>
  /\ bodies' = <<>> /\ body_meta' = <<>>
  /\ frame' = 0
  /\ UNCHANGED input_count

\* add_static_box and its kin, with register_body.
AddBody(kind) ==
  /\ Room
  /\ world' = Created(world, kind)
  /\ bodies' = Append(bodies, Len(world'.made))
  /\ body_meta' = Append(body_meta, kind)
  /\ UNCHANGED <<frame, input_count, rollback, side_slots>>
  /\ UNCHANGED recorder

\* The host creates a body of its own through the raw API.
RawCreateBody ==
  /\ Room
  /\ world' = Created(world, Raw)
  /\ UNCHANGED <<side, input_count, rollback, side_slots, recorder>>

\* set_body_linear_velocity and apply_body_linear_impulse on a valid handle.
Push ==
  /\ Room /\ bodies # <<>>
  /\ world' = Moved(world, "push")
  /\ UNCHANGED <<side, input_count, rollback, side_slots, recorder>>

\* Mutant of AtLeastOne: the argument as it is.
AsGiven(n) == n

AtLeastOne(n) == IF n < 1 THEN 1 ELSE n

SetInputCount(n) ==
  /\ input_count' = AtLeastOne(n)
  /\ UNCHANGED <<world, side, rollback, side_slots, recorder>>

\* step_frame with count inputs; any other count is ignored.
StepFrame(count) ==
  /\ Room /\ count = input_count
  /\ world' = Stepped(world)
  /\ frame' = frame + 1
  /\ UNCHANGED <<bodies, body_meta, input_count, rollback, side_slots, recorder>>
-----------------------------------------------------------------------------
(* Snapshots. *)

InitSnapshots(n) ==
  /\ HasWorld /\ n > 0
  /\ rollback' = [s \in 0 .. n - 1 |-> Empty]
  /\ side_slots' = [s \in 0 .. n - 1 |-> NoSide]
  /\ UNCHANGED <<world, side, input_count, recorder>>

SideState == [frame |-> frame, bodies |-> bodies, body_meta |-> body_meta]

\* Mutant of SaveSide: only the first state saved in a slot.
SaveSideOnce(s) ==
  side_slots' = IF side_slots[s] = NoSide
                THEN [side_slots EXCEPT ![s] = SideState] ELSE side_slots

\* The side state that save_state keeps beside the image.
SaveSide(s) == side_slots' = [side_slots EXCEPT ![s] = SideState]

\* save_state: the side state is kept only beside an image that was written;
\* a failed serialization leaves the buffer empty.
SaveState(s) ==
  /\ rollback # NoContext /\ s \in DOMAIN side_slots
  /\ \/ /\ rollback' = [rollback EXCEPT ![s] = world]
        /\ SaveSide(s)
     \/ /\ MayFailSave
        /\ rollback' = [rollback EXCEPT ![s] = Empty]
        /\ UNCHANGED side_slots
  /\ UNCHANGED <<world, side, input_count, recorder>>

Loadable(s) == side_slots[s] # NoSide /\ rollback[s] # Empty

\* Mutant of RestoreSide: the handle table is not restored.
RestoreFrameOnly(s) ==
  frame' = side_slots[s].frame /\ UNCHANGED <<bodies, body_meta>>

\* What load_state does once Box3D has restored the image.
RestoreSide(s) ==
  /\ frame' = side_slots[s].frame
  /\ bodies' = side_slots[s].bodies
  /\ body_meta' = side_slots[s].body_meta

LoadState(s) ==
  /\ rollback # NoContext /\ s \in DOMAIN side_slots
  /\ Loadable(s)
  /\ world' = rollback[s]
  /\ RestoreSide(s)
  /\ UNCHANGED <<input_count, rollback, side_slots, recorder>>
-----------------------------------------------------------------------------
(* Recording. *)

StartRecording ==
  /\ HasWorld /\ ~recording_active
  /\ recording' = TRUE
  /\ recorded' = TRUE
  /\ recording_active' = TRUE
  /\ UNCHANGED <<world, side, input_count, rollback, side_slots>>

\* stop_recording, which save_recording calls too.
StopRecording ==
  /\ recording_active /\ HasWorld
  /\ recorded' = FALSE
  /\ recording_active' = FALSE
  /\ UNCHANGED <<world, side, input_count, rollback, side_slots, recording>>
-----------------------------------------------------------------------------
Next ==
  \/ CreateWorld \/ DestroyWorld
  \/ \E kind \in BodyKind : AddBody(kind)
  \/ RawCreateBody \/ Push
  \/ \E n \in InputCounts : SetInputCount(n) \/ StepFrame(n)
  \/ \E n \in SlotCounts : InitSnapshots(n)
  \/ \E s \in Slots : SaveState(s) \/ LoadState(s)
  \/ StartRecording \/ StopRecording

Spec == Init /\ [][Next]_vars
-----------------------------------------------------------------------------
(* Properties. *)

Side == [frame : Nat, bodies : Seq(Nat), body_meta : Seq(BodyKind)]

\* The type of every variable.
WorldTypeOK ==
  /\ world \in Physics \cup {NoWorld}
  /\ SideState \in Side
  /\ input_count \in Nat \ {0}
  /\ rollback # NoContext =>
       rollback \in [DOMAIN side_slots -> Physics \cup {Empty}]
  /\ side_slots \in [DOMAIN side_slots -> Side \cup {NoSide}]
  /\ recording \in BOOLEAN /\ recording_active \in BOOLEAN /\ recorded \in BOOLEAN

\* The side state d describes the physics w: the frame counts its steps,
\* and the handles are exactly the wrapper's bodies in it, in the order of
\* their creation, each with its own metadata.
Describes(d, w) ==
  /\ d.frame = w.steps
  /\ Len(d.bodies) = Len(d.body_meta)
  /\ \A i \in DOMAIN d.bodies :
       /\ d.bodies[i] \in DOMAIN w.made
       /\ w.made[d.bodies[i]] = d.body_meta[i]
  /\ \A i, j \in DOMAIN d.bodies : i < j => d.bodies[i] < d.bodies[j]
  /\ \A b \in DOMAIN w.made : w.made[b] # Raw => \E i \in DOMAIN d.bodies : d.bodies[i] = b

\* However worlds are created and destroyed, bodies added by the wrapper or
\* by the host, and snapshots saved and loaded, the frame and the handle
\* table of the wrapper describe the physics beside them, in the live world
\* and in every slot that load_state would accept.
SideMatchesPhysics ==
  /\ HasWorld => Describes(SideState, world)
  /\ rollback # NoContext => \A s \in DOMAIN side_slots :
       Loadable(s) => Describes(side_slots[s], rollback[s])

\* No snapshot outlives its world, and no handle does; what makes
\* SideMatchesPhysics hold in the next world.
NothingOutlivesWorld ==
  ~HasWorld => /\ rollback = NoContext /\ side_slots = <<>>
               /\ bodies = <<>> /\ body_meta = <<>> /\ frame = 0

\* is_recording tells whether Box3D is recording the world, and Box3D never
\* writes to a recording that was destroyed.
RecordingSound ==
  /\ recording_active <=> recorded
  /\ recorded => HasWorld /\ recording

=============================================================================
