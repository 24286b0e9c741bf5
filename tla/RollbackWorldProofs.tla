------------------------ MODULE RollbackWorldProofs -------------------------
(***************************************************************************)
(* Theorems about RollbackWorld, for any number of slots and bodies and    *)
(* any sequence of calls.                                                  *)
(***************************************************************************)
EXTENDS WorldRefinement, SequenceTheorems, TLAPS

\* The inductive invariant.
WorldInv ==
  /\ WorldTypeOK
  /\ SideMatchesPhysics
  /\ NothingOutlivesWorld
  /\ RecordingSound

-----------------------------------------------------------------------------
(* The operations on the physics. *)

LEMMA CreatedPhysics ==
  ASSUME NEW w \in Physics, NEW kind \in BodyKind \cup {Raw}
  PROVE  /\ Created(w, kind) \in Physics
         /\ Created(w, kind).steps = w.steps
         /\ Created(w, kind).made = Append(w.made, kind)
BY DEF MotionOp, Physics, Created

LEMMA MovedPhysics ==
  ASSUME NEW w \in Physics, NEW op \in MotionOp
  PROVE  /\ Moved(w, op) \in Physics
         /\ Moved(w, op).steps = w.steps /\ Moved(w, op).made = w.made
BY DEF Physics, Moved

LEMMA SteppedPhysics ==
  ASSUME NEW w \in Physics
  PROVE  /\ Stepped(w) \in Physics
         /\ Stepped(w).steps = w.steps + 1 /\ Stepped(w).made = w.made
BY DEF MotionOp, Physics, Stepped

\* A body of the host's own changes nothing the side state speaks of.
LEMMA DescribesRaw ==
  ASSUME NEW d \in Side, NEW w \in Physics, Describes(d, w)
  PROVE  Describes(d, Created(w, Raw))
<1>1. w.made \in Seq(BodyKind \cup {Raw}) /\ d.bodies \in Seq(Nat)
  BY DEF Physics, Side
<1> DEFINE new == Append(w.made, Raw)
<1>2. /\ DOMAIN w.made = 1 .. Len(w.made) /\ Len(w.made) \in Nat
      /\ DOMAIN new = 1 .. Len(w.made) + 1
      /\ \A b \in DOMAIN w.made : new[b] = w.made[b]
      /\ new[Len(w.made) + 1] = Raw
  BY <1>1
<1>3. Created(w, Raw).steps = w.steps /\ Created(w, Raw).made = new
  BY CreatedPhysics
<1> HIDE DEF new
<1> QED
  BY <1>2, <1>3 DEF Describes

\* register_body keeps the table in step with the physics.
LEMMA DescribesAdded ==
  ASSUME NEW d \in Side, NEW w \in Physics, Describes(d, w), NEW kind \in BodyKind
  PROVE  LET new == [frame |-> d.frame,
                     bodies |-> Append(d.bodies, Len(Created(w, kind).made)),
                     body_meta |-> Append(d.body_meta, kind)]
         IN  new \in Side /\ Describes(new, Created(w, kind))
<1> DEFINE id == Len(Created(w, kind).made)
           made == Append(w.made, kind)
           ids == Append(d.bodies, id)
           meta == Append(d.body_meta, kind)
           new == [frame |-> d.frame, bodies |-> ids, body_meta |-> meta]
           n == Len(d.bodies)
<1>1. /\ w.made \in Seq(BodyKind \cup {Raw}) /\ d.bodies \in Seq(Nat)
      /\ d.body_meta \in Seq(BodyKind) /\ d.frame \in Nat
  BY DEF Physics, Side
<1>2. Created(w, kind).steps = w.steps /\ Created(w, kind).made = made
  BY CreatedPhysics
<1>3. /\ id = Len(w.made) + 1 /\ Len(w.made) \in Nat
      /\ DOMAIN w.made = 1 .. Len(w.made) /\ DOMAIN made = 1 .. id
      /\ \A b \in DOMAIN w.made : made[b] = w.made[b]
      /\ made[id] = kind
  BY <1>1, <1>2
<1>4. /\ n \in Nat /\ Len(d.body_meta) = n
      /\ DOMAIN d.bodies = 1 .. n /\ DOMAIN ids = 1 .. n + 1
      /\ \A i \in DOMAIN d.bodies : ids[i] = d.bodies[i] /\ meta[i] = d.body_meta[i]
      /\ ids[n + 1] = id /\ meta[n + 1] = kind
      /\ Len(ids) = Len(meta)
  <2>1. n \in Nat /\ Len(d.body_meta) = n
    BY <1>1 DEF Describes
  <2>2. DOMAIN d.bodies = 1 .. n /\ DOMAIN d.body_meta = 1 .. n
    BY <1>1, <2>1
  <2>3. id \in Nat
    BY <1>3
  <2> HIDE DEF n, id
  <2>4. /\ DOMAIN ids = 1 .. n + 1 /\ Len(ids) = n + 1 /\ ids[n + 1] = id
        /\ \A i \in 1 .. n : ids[i] = d.bodies[i]
    BY <1>1, <2>1, <2>2, <2>3 DEF n
  <2>5. /\ Len(meta) = n + 1 /\ meta[n + 1] = kind
        /\ \A i \in 1 .. n : meta[i] = d.body_meta[i]
    BY <1>1, <2>1, <2>2
  <2> QED
    BY <2>1, <2>2, <2>4, <2>5
<1>5. new \in Side
  BY <1>1, <1>3 DEF Side
<1> HIDE DEF id, made, ids, meta, n
<1>6. \A i \in DOMAIN ids : ids[i] \in DOMAIN made /\ made[ids[i]] = meta[i]
  BY <1>3, <1>4, SMTT(60) DEF Describes
<1>7. \A i, j \in DOMAIN ids : i < j => ids[i] < ids[j]
  <2>1. \A i \in DOMAIN d.bodies : d.bodies[i] \in 1 .. Len(w.made)
    BY <1>3 DEF Describes
  <2> QED
    BY <1>3, <1>4, <2>1, SMTT(60) DEF Describes
<1>8. \A b \in DOMAIN made : made[b] # Raw => \E i \in DOMAIN ids : ids[i] = b
  <2> SUFFICES ASSUME NEW b \in DOMAIN made, made[b] # Raw
               PROVE  \E i \in DOMAIN ids : ids[i] = b
    OBVIOUS
  <2>1. CASE b = id
    BY <1>4, <2>1
  <2>2. CASE b # id
    <3>1. b \in DOMAIN w.made /\ w.made[b] # Raw
      BY <1>3, <2>2
    <3>2. PICK i \in DOMAIN d.bodies : d.bodies[i] = b
      BY <3>1 DEF Describes
    <3> QED
      BY <1>4, <3>2
  <2> QED
    BY <2>1, <2>2
<1>9. Describes(new, Created(w, kind))
  BY <1>2, <1>4, <1>6, <1>7, <1>8 DEF Describes
<1> QED
  BY <1>5, <1>9 DEF ids, meta, id

\* step_frame counts the step that Box3D makes.
LEMMA DescribesStepped ==
  ASSUME NEW d, NEW w, NEW e, NEW v, Describes(d, w),
         e.frame = d.frame + 1, e.bodies = d.bodies, e.body_meta = d.body_meta,
         v.steps = w.steps + 1, v.made = w.made
  PROVE  Describes(e, v)
BY DEF Describes

-----------------------------------------------------------------------------
(* WorldInv is inductive. *)

\* The two halves of SideMatchesPhysics, of the live world and of the slots.
LiveMatches == HasWorld => Describes(SideState, world)

SlotsMatch ==
  rollback # NoContext => \A s \in DOMAIN side_slots :
    Loadable(s) => Describes(side_slots[s], rollback[s])

\* The context keeps nothing that the slots do not.
SlotsKept == UNCHANGED <<rollback, side_slots>>

LEMMA SlotsKeptMatch ==
  ASSUME WorldInv, SlotsKept
  PROVE  SlotsMatch'
BY DEF WorldInv, SideMatchesPhysics, SlotsMatch, SlotsKept, Loadable

\* A step within one world that leaves the slots and the recording alone.
LEMMA WithinWorld ==
  ASSUME WorldInv, SlotsKept, UNCHANGED recorder,
         HasWorld, world' \in Physics, SideState' \in Side,
         input_count' \in Nat \ {0}, Describes(SideState, world)'
  PROVE  WorldInv'
<1>1. HasWorld'
  BY NullAssumption DEF HasWorld
<1>2. SlotsMatch'
  BY SlotsKeptMatch
<1>3. SideMatchesPhysics'
  BY <1>2 DEF SideMatchesPhysics, SlotsMatch
<1>4. WorldTypeOK'
  BY DEF WorldInv, WorldTypeOK, SlotsKept, recorder
<1>5. NothingOutlivesWorld' /\ RecordingSound'
  BY <1>1 DEF WorldInv, NothingOutlivesWorld, RecordingSound, recorder, SlotsKept
<1> QED
  BY <1>3, <1>4, <1>5 DEF WorldInv

LEMMA InWorld ==
  ASSUME WorldInv, HasWorld
  PROVE  /\ world \in Physics /\ SideState \in Side /\ input_count \in Nat \ {0}
         /\ Describes(SideState, world)
BY DEF WorldInv, WorldTypeOK, SideMatchesPhysics, HasWorld

LEMMA AddStep ==
  ASSUME WorldInv, NEW kind \in BodyKind, AddBody(kind)
  PROVE  WorldInv'
<1>1. HasWorld /\ SlotsKept /\ UNCHANGED recorder
  BY DEF AddBody, Room, SlotsKept
<1>2. /\ world' = Created(world, kind) /\ UNCHANGED <<frame, input_count>>
      /\ bodies' = Append(bodies, Len(world'.made))
      /\ body_meta' = Append(body_meta, kind)
  BY DEF AddBody
<1>3. /\ SideState.frame = frame /\ SideState.bodies = bodies
      /\ SideState.body_meta = body_meta
  BY DEF SideState
<1>4. SideState' = [frame |-> SideState.frame,
                    bodies |-> Append(SideState.bodies, Len(Created(world, kind).made)),
                    body_meta |-> Append(SideState.body_meta, kind)]
  BY <1>2, <1>3 DEF SideState
<1>5. SideState' \in Side /\ Describes(SideState', world')
  BY <1>1, <1>2, <1>4, InWorld, DescribesAdded
<1>6. world' \in Physics
  BY <1>1, <1>2, InWorld, CreatedPhysics
<1>7. Describes(SideState, world)' <=> Describes(SideState', world')
  BY DEF Describes
<1> QED
  BY <1>1, <1>2, <1>5, <1>6, <1>7, InWorld, WithinWorld

LEMMA MotionStep ==
  ASSUME WorldInv, RawCreateBody \/ Push \/ \E n \in InputCounts : StepFrame(n)
  PROVE  WorldInv'
<1>1. HasWorld /\ SlotsKept /\ UNCHANGED <<recorder, bodies, body_meta, input_count>>
  BY DEF RawCreateBody, Push, StepFrame, Room, SlotsKept, side
<1>2. /\ world \in Physics /\ SideState \in Side /\ input_count \in Nat \ {0}
      /\ Describes(SideState, world)
  BY <1>1, InWorld
<1>3. Describes(SideState, world)' <=> Describes(SideState', world')
  BY DEF Describes
<1>4. /\ SideState.frame = frame /\ SideState.bodies = bodies
      /\ SideState.body_meta = body_meta
  BY DEF SideState
<1>5. CASE RawCreateBody
  <2>1. world' = Created(world, Raw) /\ SideState' = SideState
    BY <1>5 DEF RawCreateBody, side, SideState
  <2>2. world' \in Physics /\ Describes(SideState', world')
    BY <1>2, <2>1, CreatedPhysics, DescribesRaw
  <2> QED
    BY <1>1, <1>2, <1>3, <2>1, <2>2, WithinWorld
<1>6. CASE Push
  <2>1. world' = Moved(world, "push") /\ SideState' = SideState
    BY <1>6 DEF Push, side, SideState
  <2>2. "push" \in MotionOp
    BY DEF MotionOp
  <2>3. /\ world' \in Physics /\ world'.steps = world.steps
        /\ world'.made = world.made
    BY <1>2, <2>1, <2>2, MovedPhysics
  <2>4. Describes(SideState', world')
    BY <1>2, <2>1, <2>3 DEF Describes
  <2> QED
    BY <1>1, <1>2, <1>3, <2>1, <2>3, <2>4, WithinWorld
<1>7. CASE \E n \in InputCounts : StepFrame(n)
  <2>1. world' = Stepped(world) /\ frame' = frame + 1
    BY <1>7 DEF StepFrame
  <2>2. /\ world' \in Physics /\ world'.steps = world.steps + 1
        /\ world'.made = world.made
    BY <1>2, <2>1, SteppedPhysics
  <2>3. SideState' = [frame |-> frame + 1, bodies |-> bodies, body_meta |-> body_meta]
    BY <1>1, <2>1 DEF SideState
  <2>4. /\ SideState'.frame = frame + 1 /\ SideState'.bodies = bodies
        /\ SideState'.body_meta = body_meta
    BY <2>3
  <2>5. SideState' \in Side
    BY <1>2, <1>4, <2>3 DEF Side
  <2>6. Describes(SideState', world')
    BY <1>2, <1>4, <2>2, <2>4, DescribesStepped
  <2> QED
    BY <1>1, <1>2, <1>3, <2>2, <2>5, <2>6, WithinWorld
<1> QED
  BY <1>5, <1>6, <1>7

LEMMA SnapshotStep ==
  ASSUME WorldInv,
         \/ \E n \in SlotCounts : InitSnapshots(n)
         \/ \E s \in Slots : SaveState(s)
  PROVE  WorldInv'
<1>1. UNCHANGED <<world, side, input_count, recorder>>
  BY DEF InitSnapshots, SaveState
<1>2. SideState' = SideState /\ (HasWorld' <=> HasWorld)
  BY <1>1 DEF SideState, side, HasWorld
<1>3. LiveMatches'
  BY <1>1, <1>2 DEF WorldInv, SideMatchesPhysics, LiveMatches, Describes
<1>4. RecordingSound'
  BY <1>1, <1>2 DEF WorldInv, RecordingSound, recorder
<1>5. HasWorld
  BY DEF InitSnapshots, SaveState, WorldInv, NothingOutlivesWorld
<1>6. NothingOutlivesWorld'
  BY <1>2, <1>5 DEF NothingOutlivesWorld
<1>7. /\ world \in Physics /\ SideState \in Side /\ Describes(SideState, world)
      /\ side_slots \in [DOMAIN side_slots -> Side \cup {NoSide}]
      /\ rollback # NoContext => rollback \in [DOMAIN side_slots -> Physics \cup {Empty}]
  BY <1>5, InWorld DEF WorldInv, WorldTypeOK
<1>8. /\ SlotsMatch'
      /\ side_slots' \in [DOMAIN side_slots' -> Side \cup {NoSide}]
      /\ rollback' # NoContext => rollback' \in [DOMAIN side_slots' -> Physics \cup {Empty}]
  <2>1. CASE \E n \in SlotCounts : InitSnapshots(n)
    <3>1. PICK n \in SlotCounts : InitSnapshots(n)
      BY <2>1
    <3> QED
      BY <3>1 DEF InitSnapshots, SlotsMatch, Loadable
  <2>2. ASSUME NEW s \in Slots, SaveState(s)
        PROVE  /\ SlotsMatch'
               /\ side_slots' \in [DOMAIN side_slots' -> Side \cup {NoSide}]
               /\ rollback' # NoContext
                    => rollback' \in [DOMAIN side_slots' -> Physics \cup {Empty}]
    <3>1. rollback # NoContext /\ s \in DOMAIN side_slots
      BY <2>2 DEF SaveState
    <3>2. \A t \in DOMAIN side_slots : Loadable(t) => Describes(side_slots[t], rollback[t])
      BY <3>1 DEF WorldInv, SideMatchesPhysics
    <3>3. CASE /\ rollback' = [rollback EXCEPT ![s] = world]
               /\ side_slots' = [side_slots EXCEPT ![s] = SideState]
      BY <1>7, <3>1, <3>2, <3>3 DEF SlotsMatch, Loadable
    <3>4. CASE rollback' = [rollback EXCEPT ![s] = Empty] /\ UNCHANGED side_slots
      BY <1>7, <3>1, <3>2, <3>4 DEF SlotsMatch, Loadable
    <3> QED
      BY <2>2, <3>3, <3>4 DEF SaveState, SaveSide
  <2> QED
    BY <2>1, <2>2
<1>9. WorldTypeOK'
  BY <1>1, <1>2, <1>8 DEF WorldInv, WorldTypeOK, recorder
<1>10. SideMatchesPhysics'
  BY <1>3, <1>8 DEF SideMatchesPhysics, LiveMatches, SlotsMatch
<1> QED
  BY <1>4, <1>6, <1>9, <1>10 DEF WorldInv

LEMMA LoadStep ==
  ASSUME WorldInv, NEW s \in Slots, LoadState(s)
  PROVE  WorldInv'
<1>1. /\ rollback # NoContext /\ s \in DOMAIN side_slots /\ Loadable(s)
      /\ world' = rollback[s] /\ SlotsKept /\ UNCHANGED <<input_count, recorder>>
      /\ frame' = side_slots[s].frame /\ bodies' = side_slots[s].bodies
      /\ body_meta' = side_slots[s].body_meta
  BY DEF LoadState, RestoreSide, SlotsKept
<1>2. HasWorld
  BY <1>1 DEF WorldInv, NothingOutlivesWorld
<1>3. rollback[s] \in Physics /\ side_slots[s] \in Side
  BY <1>1 DEF WorldInv, WorldTypeOK, Loadable
<1>4. SideState' = side_slots[s]
  BY <1>1, <1>3 DEF SideState, Side
<1>5. Describes(SideState', world')
  BY <1>1, <1>4 DEF WorldInv, SideMatchesPhysics
<1>6. Describes(SideState, world)' <=> Describes(SideState', world')
  BY DEF Describes
<1>7. input_count' \in Nat \ {0}
  BY <1>1 DEF WorldInv, WorldTypeOK
<1> QED
  BY <1>1, <1>2, <1>3, <1>4, <1>5, <1>6, <1>7, WithinWorld

LEMMA NoSlots == \A S : <<>> \in [DOMAIN <<>> -> S]
<1> TAKE S
<1>1. DOMAIN <<>> = {}
  OBVIOUS
<1>2. <<>> = [x \in {} |-> x]
  BY <1>1
<1> QED
  BY <1>1, <1>2

LEMMA EmptySide == [frame |-> 0, bodies |-> <<>>, body_meta |-> <<>>] \in Side
BY DEF Side

LEMMA EmptyPhysics == [steps |-> 0, made |-> <<>>, motion |-> <<>>] \in Physics
BY DEF Physics

LEMMA LifecycleStep ==
  ASSUME WorldInv, CreateWorld \/ DestroyWorld
  PROVE  WorldInv'
<1>1. /\ bodies' = <<>> /\ body_meta' = <<>> /\ frame' = 0 /\ side_slots' = <<>>
      /\ UNCHANGED input_count /\ recorded' = FALSE
  BY DEF CreateWorld, DestroyWorld
<1>2. rollback' = NoContext
  BY DEF CreateWorld, DestroyWorld, WorldInv, NothingOutlivesWorld
<1>3. /\ recording' \in BOOLEAN /\ recording_active' = FALSE
  BY DEF CreateWorld, DestroyWorld, WorldInv, RecordingSound, WorldTypeOK, StopsRecording
<1>4. \/ world' = NoWorld
      \/ world' = [steps |-> 0, made |-> <<>>, motion |-> <<>>]
  BY DEF CreateWorld, DestroyWorld
<1>5. SideState' = [frame |-> 0, bodies |-> <<>>, body_meta |-> <<>>]
  BY <1>1 DEF SideState
<1>6. WorldTypeOK'
  <2>1. SideState' \in Side /\ world' \in Physics \cup {NoWorld}
    BY <1>4, <1>5, EmptySide, EmptyPhysics
  <2>2. side_slots' \in [DOMAIN side_slots' -> Side \cup {NoSide}]
    BY <1>1, NoSlots, Zenon
  <2>3. recorded' \in BOOLEAN /\ recording_active' \in BOOLEAN
    BY <1>1, <1>3
  <2> QED
    BY <1>1, <1>2, <1>3, <2>1, <2>2, <2>3 DEF WorldInv, WorldTypeOK
<1>7. SideMatchesPhysics'
  <2>1. (HasWorld => Describes(SideState, world))'
    BY <1>4, <1>5 DEF HasWorld, Describes
  <2> QED
    BY <1>2, <2>1 DEF SideMatchesPhysics
<1>8. NothingOutlivesWorld'
  BY <1>1, <1>2 DEF NothingOutlivesWorld
<1>9. RecordingSound'
  BY <1>1, <1>3 DEF RecordingSound
<1> QED
  BY <1>6, <1>7, <1>8, <1>9 DEF WorldInv

LEMMA RecordStep ==
  ASSUME WorldInv, \/ StartRecording \/ StopRecording
                   \/ \E n \in InputCounts : SetInputCount(n)
  PROVE  WorldInv'
<1>1. SlotsKept /\ UNCHANGED <<world, side>>
  BY DEF StartRecording, StopRecording, SetInputCount, SlotsKept
<1>2. SideState' = SideState /\ (HasWorld' <=> HasWorld)
  BY <1>1 DEF SideState, side, HasWorld
<1>3. SlotsMatch'
  BY <1>1, SlotsKeptMatch
<1>4. SideMatchesPhysics'
  BY <1>1, <1>2, <1>3 DEF WorldInv, SideMatchesPhysics, SlotsMatch, Describes
<1>5. input_count' \in Nat \ {0}
  BY WorldAssumption
     DEF StartRecording, StopRecording, SetInputCount, AtLeastOne, WorldInv, WorldTypeOK
<1>6. WorldTypeOK'
  BY <1>1, <1>2, <1>5
     DEF WorldInv, WorldTypeOK, SlotsKept, StartRecording, StopRecording, SetInputCount, recorder
<1>7. RecordingSound'
  BY <1>1, <1>2 DEF WorldInv, RecordingSound, StartRecording, StopRecording,
                    SetInputCount, recorder, HasWorld
<1>8. NothingOutlivesWorld'
  BY <1>1, <1>2 DEF WorldInv, NothingOutlivesWorld, side, SlotsKept
<1> QED
  BY <1>4, <1>6, <1>7, <1>8 DEF WorldInv

\* The whole invariant, for any sequence of calls.
THEOREM WorldInvariant == Spec => []WorldInv
<1>1. Init => WorldInv
  <2> SUFFICES ASSUME Init PROVE WorldInv
    OBVIOUS
  <2>1. SideState = [frame |-> 0, bodies |-> <<>>, body_meta |-> <<>>]
    BY DEF Init, SideState
  <2>2. WorldTypeOK
    <3>1. side_slots \in [DOMAIN side_slots -> Side \cup {NoSide}]
      BY NoSlots, Zenon DEF Init
    <3>2. /\ recording \in BOOLEAN /\ recording_active \in BOOLEAN
          /\ recorded \in BOOLEAN
      BY Zenon DEF Init
    <3>3. input_count \in Nat \ {0} /\ rollback = NoContext /\ world = NoWorld
      BY DEF Init
    <3> QED
      BY <2>1, <3>1, <3>2, <3>3, EmptySide DEF WorldTypeOK
  <2> QED
    BY <2>2 DEF Init, WorldInv, HasWorld, SideMatchesPhysics,
                NothingOutlivesWorld, RecordingSound
<1>2. WorldInv /\ [Next]_vars => WorldInv'
  <2> SUFFICES ASSUME WorldInv, [Next]_vars PROVE WorldInv'
    OBVIOUS
  <2>1. CASE CreateWorld \/ DestroyWorld
    BY <2>1, LifecycleStep
  <2>2. ASSUME NEW kind \in BodyKind, AddBody(kind) PROVE WorldInv'
    BY <2>2, AddStep
  <2>3. CASE RawCreateBody \/ Push \/ \E n \in InputCounts : StepFrame(n)
    BY <2>3, MotionStep
  <2>4. CASE \/ \E n \in SlotCounts : InitSnapshots(n)
             \/ \E s \in Slots : SaveState(s)
    BY <2>4, SnapshotStep
  <2>5. ASSUME NEW s \in Slots, LoadState(s) PROVE WorldInv'
    BY <2>5, LoadStep
  <2>6. CASE StartRecording \/ StopRecording \/ \E n \in InputCounts : SetInputCount(n)
    BY <2>6, RecordStep
  <2>7. CASE UNCHANGED vars
    BY <2>7 DEF vars, WorldInv, WorldTypeOK, SideState, HasWorld, SideMatchesPhysics,
                Describes, Loadable, NothingOutlivesWorld, RecordingSound
  <2> QED
    BY <2>1, <2>2, <2>3, <2>4, <2>5, <2>6, <2>7 DEF Next
<1> QED
  BY <1>1, <1>2, PTL DEF Spec

\* The wrapper's and the physics' state keep their types, and the input
\* count its lower bound.
THEOREM WorldTypeCorrect == Spec => []WorldTypeOK
BY WorldInvariant, PTL DEF WorldInv

\* The wrapper's frame and handles always describe the physics beside them,
\* live and in every slot that can be loaded.
THEOREM SideMatchesPhysicsHolds == Spec => []SideMatchesPhysics
BY WorldInvariant, PTL DEF WorldInv

\* is_recording is always right, and no destroyed recording is written to.
THEOREM RecordingSoundHolds == Spec => []RecordingSound
BY WorldInvariant, PTL DEF WorldInv

-----------------------------------------------------------------------------
(* Refinement. *)

\* The value that stands for no world is not a state either.
StatesDistinct == \A w \in Physics : \A d \in Side : StateOf(w, d) # NoWorld

LEMMA LiveState ==
  ASSUME WorldInv, HasWorld
  PROVE  /\ world \in Physics /\ SideState \in Side
         /\ ContractState = StateOf(world, SideState)
BY DEF WorldInv, WorldTypeOK, HasWorld, ContractState

LEMMA SameSlots ==
  ASSUME UNCHANGED <<rollback, side_slots>> PROVE ContractSlots' = ContractSlots
BY DEF ContractSlots, Loadable

LEMMA SameState ==
  ASSUME UNCHANGED <<world, side>> PROVE ContractState' = ContractState
BY DEF ContractState, HasWorld, SideState, side

LEMMA NoSlotsLeft ==
  ASSUME side_slots' = <<>> PROVE ContractSlots' = <<>>
BY DEF ContractSlots

LEMMA OperationRefines ==
  ASSUME StatesDistinct, WorldInv, WorldInv', HasWorld, HasWorld', NEW op \in MotionOp,
         world'.motion = Append(world.motion, op), UNCHANGED <<rollback, side_slots>>
  PROVE  C!Operate
<1>1. /\ world \in Physics /\ SideState \in Side
      /\ ContractState = StateOf(world, SideState)
  BY LiveState
<1>2. /\ world' \in Physics /\ SideState' \in Side
      /\ ContractState' = StateOf(world', SideState')
  BY DEF WorldInv, WorldTypeOK, HasWorld, ContractState
<1>3. ContractState # NoWorld /\ ContractState' # NoWorld
  BY <1>1, <1>2 DEF StatesDistinct
<1>4. ContractState'.past = Append(ContractState.past, op)
  BY <1>1, <1>2 DEF StateOf
<1> QED
  BY <1>3, <1>4, SameSlots DEF C!Operate

LEMMA SaveRefines ==
  ASSUME WorldInv, NEW s, SaveState(s)
  PROVE  C!Save
<1>1. /\ rollback # NoContext /\ s \in DOMAIN side_slots /\ UNCHANGED <<world, side>>
      /\ rollback \in [DOMAIN side_slots -> Physics \cup {Empty}]
      /\ side_slots \in [DOMAIN side_slots -> Side \cup {NoSide}]
      /\ HasWorld /\ DOMAIN ContractSlots = DOMAIN side_slots
  BY DEF SaveState, WorldInv, WorldTypeOK, NothingOutlivesWorld, ContractSlots
<1>2. /\ DOMAIN side_slots' = DOMAIN side_slots
      /\ \A t \in DOMAIN side_slots : t # s =>
           rollback'[t] = rollback[t] /\ side_slots'[t] = side_slots[t]
  BY <1>1 DEF SaveState, SaveSide
<1>3. \/ /\ rollback'[s] = world /\ side_slots'[s] = SideState
      \/ rollback'[s] = Empty
  BY <1>1 DEF SaveState, SaveSide
<1> DEFINE Slot(t) == IF Loadable(t) THEN StateOf(rollback[t], side_slots[t]) ELSE NoWorld
<1>4. /\ ContractSlots = [t \in DOMAIN side_slots |-> Slot(t)]
      /\ ContractSlots' = [t \in DOMAIN side_slots |-> Slot(t)']
  BY <1>2 DEF ContractSlots
<1>5. \A t \in DOMAIN side_slots : t # s => Slot(t)' = Slot(t)
  BY <1>2 DEF Loadable
<1>6. Slot(s)' \in {ContractState, NoWorld}
  BY <1>1, <1>3, LiveState DEF Loadable
<1>7. UNCHANGED ContractState
  BY <1>1, SameState
<1> HIDE DEF Slot
<1>8. ContractSlots' = [ContractSlots EXCEPT ![s] = Slot(s)']
  BY <1>1, <1>4, <1>5
<1>9. \/ ContractSlots' = [ContractSlots EXCEPT ![s] = ContractState]
      \/ ContractSlots' = [ContractSlots EXCEPT ![s] = NoWorld]
  BY <1>6, <1>8
<1> QED
  BY <1>1, <1>7, <1>9 DEF C!Save

LEMMA LoadRefines ==
  ASSUME StatesDistinct, WorldInv, NEW s, LoadState(s)
  PROVE  C!Load
<1>1. /\ rollback # NoContext /\ s \in DOMAIN side_slots /\ Loadable(s)
      /\ rollback[s] \in Physics /\ side_slots[s] \in Side
      /\ UNCHANGED <<rollback, side_slots>>
  BY DEF LoadState, WorldInv, WorldTypeOK, Loadable
<1>2. /\ s \in DOMAIN ContractSlots
      /\ ContractSlots[s] = StateOf(rollback[s], side_slots[s])
  BY <1>1 DEF ContractSlots
<1>3. ContractSlots[s] # NoWorld
  BY <1>1, <1>2 DEF StatesDistinct
<1>4. SideState' = side_slots[s]
  BY <1>1 DEF LoadState, RestoreSide, SideState, Side
<1>5. world' = rollback[s] /\ HasWorld'
  BY <1>1, NullAssumption DEF LoadState, HasWorld
<1>6. ContractState' = ContractSlots[s]
  BY <1>2, <1>4, <1>5 DEF ContractState
<1> QED
  BY <1>1, <1>2, <1>3, <1>6, SameSlots DEF C!Load

LEMMA PrepareRefines ==
  ASSUME StatesDistinct, WorldInv, NEW n, InitSnapshots(n)
  PROVE  C!Prepare
<1>1. ContractState # NoWorld
  BY LiveState DEF InitSnapshots, StatesDistinct
<1>2. UNCHANGED ContractState
  BY SameState DEF InitSnapshots
<1>3. \A s \in DOMAIN ContractSlots' : ContractSlots'[s] = NoWorld
  BY DEF ContractSlots, InitSnapshots, Loadable
<1> QED
  BY <1>1, <1>2, <1>3 DEF C!Prepare

LEMMA LifecycleRefines ==
  ASSUME StatesDistinct, WorldInv, WorldInv', CreateWorld \/ DestroyWorld
  PROVE  C!Create \/ C!Destroy
<1>1. ContractSlots' = <<>>
  BY NoSlotsLeft DEF CreateWorld, DestroyWorld
<1>2. CASE CreateWorld
  <2>1. ContractState = NoWorld
    BY <1>2 DEF CreateWorld, ContractState
  <2>2. world' = [steps |-> 0, made |-> <<>>, motion |-> <<>>] /\ world' \in Physics
    BY <1>2, EmptyPhysics DEF CreateWorld
  <2>3. /\ SideState' \in Side /\ ContractState' = StateOf(world', SideState')
    BY <2>2, NullAssumption DEF WorldInv, WorldTypeOK, HasWorld, ContractState
  <2>4. ContractState' # NoWorld /\ ContractState'.past = <<>>
    BY <2>2, <2>3 DEF StatesDistinct, StateOf
  <2> QED
    BY <1>1, <2>1, <2>4 DEF C!Create
<1>3. CASE DestroyWorld
  <2>1. ContractState' = NoWorld
    BY <1>3 DEF DestroyWorld, ContractState, HasWorld
  <2> QED
    BY <1>1, <2>1 DEF C!Destroy
<1> QED
  BY <1>2, <1>3

\* Whatever is done to a world, a load brings back the whole state that was
\* saved last in the slot, and no slot outlives its world.
THEOREM ContractImplemented ==
  ASSUME StatesDistinct PROVE Spec => ImplementsContract
<1>1. Init => C!Init
  BY DEF Init, C!Init, ContractState, ContractSlots, HasWorld
<1>2. WorldInv /\ WorldInv' /\ [Next]_vars => [C!Next]_C!vars
  <2> SUFFICES ASSUME WorldInv, WorldInv', [Next]_vars PROVE [C!Next]_C!vars
    OBVIOUS
  <2>1. CASE CreateWorld \/ DestroyWorld
    BY <2>1, LifecycleRefines DEF C!Next
  <2>2. CASE \/ \E kind \in BodyKind : AddBody(kind)
             \/ RawCreateBody \/ Push \/ \E n \in InputCounts : StepFrame(n)
    <3>1. HasWorld /\ UNCHANGED <<rollback, side_slots>>
      BY <2>2 DEF AddBody, RawCreateBody, Push, StepFrame, Room
    <3>2. \E op \in MotionOp : world'.motion = Append(world.motion, op)
      BY <2>2 DEF AddBody, RawCreateBody, Push, StepFrame, Created, Moved, Stepped, MotionOp
    <3>3. HasWorld'
      <4>1. world' \in Physics
        BY <2>2, <3>1, LiveState, CreatedPhysics, MovedPhysics, SteppedPhysics
           DEF AddBody, RawCreateBody, Push, StepFrame, MotionOp
      <4> QED
        BY <4>1, NullAssumption DEF HasWorld
    <3> QED
      BY <3>1, <3>2, <3>3, OperationRefines DEF C!Next
  <2>3. ASSUME NEW n \in SlotCounts, InitSnapshots(n) PROVE C!Next
    BY <2>3, PrepareRefines DEF C!Next
  <2>4. ASSUME NEW s \in Slots, SaveState(s) PROVE C!Next
    BY <2>4, SaveRefines DEF C!Next
  <2>5. ASSUME NEW s \in Slots, LoadState(s) PROVE C!Next
    BY <2>5, LoadRefines DEF C!Next
  <2>6. CASE StartRecording \/ StopRecording \/ \E n \in InputCounts : SetInputCount(n)
    <3>1. UNCHANGED <<world, side, rollback, side_slots>>
      BY <2>6 DEF StartRecording, StopRecording, SetInputCount
    <3> QED
      BY <3>1, SameState, SameSlots DEF C!vars
  <2>7. CASE UNCHANGED vars
    <3>1. UNCHANGED <<world, side, rollback, side_slots>>
      BY <2>7 DEF vars, side
    <3> QED
      BY <3>1, SameState, SameSlots DEF C!vars
  <2> QED
    BY <2>1, <2>2, <2>3, <2>4, <2>5, <2>6, <2>7 DEF Next
<1> QED
  BY <1>1, <1>2, WorldInvariant, PTL DEF Spec, ImplementsContract, C!Spec

=============================================================================
