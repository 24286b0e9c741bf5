# Rollback in a Box: a TLA+ verification project

The repository is a rollback-networking layer over the Box3D physics engine: a
C++ core (`core/`) with a Godot extension (`gdext/`, `addons/`) and an Unreal
plugin (`unreal/`) in front of it. This directory holds TLA+ models of the core
and of the lifetimes of the adapters' objects around it, the TLC runs that check
them on small instances, and TLAPS proofs of the properties that matter most, for
every value of the parameters.

## 1. Inventory

### The system

```
 transport  <--bytes-->  RollbackSession  --IRollbackSimulation-->  RollbackWorld --> Box3D
 (the host's)            one per peer                               + rollback_shim.c
                              |                                          |
                              +--ISessionObserver--> game                |
 UBox3DRollbackSession / Box3DRollbackSession     UBox3DRollbackWorld / Box3DRollbackWorld
 (own a session, and a bridge to a simulation     (own a core world)
  written by the game)
```

One peer is one player. The game calls `tick(input)` on its session, hands
the result of `get_packet()` to whatever transport it has, and everything it
receives to `ingest_packet()`. The session calls its simulation: step a frame,
save or load a snapshot slot, hash the state. The simulation is either the core's
world or, through a bridge, an object of the game. Nothing in the core has a thread
or a socket of its own; concurrency is that of several peers, an unreliable network,
and of owners that free objects.

| Component | State | Operations | What is hard |
|---|---|---|---|
| Session (`core/src/rb_session.cpp`) | `current_frame`; `confirmed_frame`, `last_input`, `remote_ack`, `remote_hash` per player; `ring` of inputs and `hashes`, addressed by frame modulo `RING`; `first_incorrect`, `mispredicted_mask`; desync and incompatibility | `configure`, `start`, `tick` (correct, then stall, throttle or advance), `get_packet`, `ingest_packet` | lost, late, duplicated and reordered packets; mispredictions found in any order; cells and slots reused; who waits for whom; saves and loads that fail; desync detection without false alarms |
| Simulation contract (`rb_simulation.h`) | none | `save_state`, `load_state`, `step_frame`, `get_state_hash`, `rollback_begin` | a slot must bring back the whole state it was saved from |
| World (`core/src/rb_world.cpp`) | Box3D's world; beside it `frame`, the handle table `bodies`, `body_meta`; `side_slots`; recording | create, destroy, add bodies, push, step, `init_snapshots`, `save_state`, `load_state`, recording | two halves of one state saved and loaded in two places, each of which may fail; lifetimes of world, context, slots and recording |
| Affected bodies (`rb_world.cpp`, `compute_affected_bodies`) | worklist | one function | a transitive closure over a relation that is not symmetric, in the order Box3D reports contacts |
| Snapshot shim (`core/src/rollback_shim.c`) | slot buffers and sizes; geometry registry, the view over it, the compound objects created through it | create, destroy, save, load, hash, fingerprint | restored shapes point into the context, so it must not die before its world; the view is a copy that grows |
| Godot bridge (`gdext/src/box3d_rollback_*.cpp`) | the id of a GDScript object | forwarding | the object may be freed in mid-session |
| Godot replay (`gdext/src/box3d_replay.cpp`) | a replay player | forwarding | |
| Godot raw binding (`gdext/src/box3d_raw.cpp`, `generated/`) | none | marshalling of the Box3D C API | bodies the wrapper knows nothing of |
| GDScript addon (`addons/`) | none | generated constants and one-line wrappers | |
| Unreal plugin (`unreal/`) | core objects owned by UObjects; a strong, a weak and a raw reference to the simulation | binding, starting, forwarding, `BeginDestroy` | garbage collection against raw pointers |
| Bindings generator (`tools/`, `api/`) | none | offline text generation | |

### What makes each part correct

* **Session.** However packets are lost, repeated, delayed and reordered, the part of
  a peer's simulation that it takes as final is the one lockstep would have
  computed; a final frame stays final; a rollback finds the snapshot it needs and
  names the players who caused it; no input that somebody may still need is
  overwritten or dropped from the resend window; nobody stalls for ever; a difference
  is reported when, and only when, the simulations differ; builds do not mix.
* **World.** The frame counter and the handle table describe the physics beside
  them, after any sequence of calls, in the live world and in every slot that can
  be loaded; nothing outlives its world.
* **Affected bodies.** The result is the least set closed under touching.
* **Snapshot shim.** Every shape of the live world has its geometry; every image can be
  restored; every compound object has exactly one owner that will free it.
* **Adapters.** A session never outlives the simulation it points to.

The hazards, each at its line, are in `PROJECT.json` under `hazards`, with the
properties aimed at each of them.

## 2. Modules

| Module | Models |
|---|---|
| `RollbackSession` | all peers' sessions, their simulations and the network |
| `Lockstep` | abstract: the game a session promises to the peers whose simulation works |
| `RollbackRefinement` | the refinement mapping from `RollbackSession` to `Lockstep` |
| `PendingHashes` | `RollbackSession` with a history of the hashes each peer was sent |
| `MCRollbackSession` | constants, hash and bounds for the TLC runs of these |
| `RollbackWorld` | `rb_world.cpp` with the slots of `rollback_shim.c` |
| `SimulationContract` | abstract: what `IRollbackSimulation` promises a session |
| `WorldRefinement` | the refinement mapping from `RollbackWorld` to it |
| `MCRollbackWorld` | constants for TLC |
| `AffectedBodies` | `compute_affected_bodies`, with its proof |
| `SnapshotContext` | the context of `rollback_shim.c`: registry, view, compound objects, slots |
| `HostObjects` | the objects of the Unreal plugin and of the Godot extension around one `SnapshotContext` |
| `MCHostObjects` | constants for TLC |
| `RollbackSessionProofs`, `RollbackFlowProofs`, `GenuineProofs`, `SnapshotProofs`, `LockstepProofs` | theorems about `RollbackSession`, each extending the one before |
| `RollbackWorldProofs`, `LifetimeProofs` | theorems about `RollbackWorld` and its refinement; about `SnapshotContext` and `HostObjects` |

### RollbackSession

Each member of the C++ class that a later call reads is a variable, a function of
the peer that owns the session. `configure()` only works before `start()`: its
arguments are constants, restricted by `ConfigAssumption` to (more than) what it
accepts. `RING`, `SNAPSHOT_SLOTS` and `MAX_SEND_INPUTS` are constants too, so that
TLC can wrap them around within a few frames; 128, 64 and 64 satisfy the assumption.

| Action | Code |
|---|---|
| `Start` | `start()` |
| `TickStall`, `TickThrottle`, `TickAdvance` | the three ways through `tick()`, each with the correction (`do_rollback`, `check_remote_hash`) before it |
| `Send` | `get_packet()` and the hand-over to the transport |
| `Ingest`, `IngestIncompatible` | `ingest_packet()` from the same and from another build |
| `Lose`, and the copy that `Deliver` may keep | the transport |
| `SimDies` | the owner frees the simulation; `sim_ok()` is false from then on |
| `SetInputCount` | the game changes the world's input count in mid-session, so that `step_frame` does nothing until it is set right again |

A simulation's state is the sequence of the inputs it was stepped with. That is
the most discriminating deterministic simulation: two states are equal only when
all inputs were. `Hash` is a parameter; a peer listed in `Divergent` hashes to
something else from some frame on, as the `DesyncSim` of `tests/` does. `Simulate`
gives in one expression what the loop over `sim_one` does to ring, slots and hashes.
Saves (`MayFailSave`), loads (`MayFailLoad`) and steps (`MayStop`) may fail, each as the
code takes it: a failed save, whose result `sim_one` ignores, leaves the slot empty, as `b3r_save` does; an empty slot
fails to load, as other loads may; a failed load makes
`do_rollback` return, after which `tick` forgets the correction; a step that does
nothing is saved and hashed all the same. At the bound `MaxFrame` every tick stalls.

The network is a set of packets. `Deliver` may leave a packet in flight, so that it
comes again later; which packet comes next is free. A packet that `ingest_packet`
discards unread is a lost one. `issued` is a history variable, used by properties only.

Abstractions: inputs are members of a small set; the byte layout is left out; of
the exponential averages that decide on throttling only their effect remains, a free
choice to throttle, at most once in `ThrottleGap` frames as in the code.
`check_remote_hash` reports the first differing peer in player order; here any
of them. `get_packet()` on behalf of several remotes is one `Send` per remote, at
the same or different moments.

### RollbackWorld

Box3D is external: a world is the record of its steps, of the bodies made in it, and
of the operations applied. Everything the wrapper keeps beside it is a variable.
`save_state` may fail in Box3D's serialization (`MayFailSave`), which leaves the buffer empty but
the old side state valid, as in the code; `Loadable` is what `load_state` and
`b3r_load` check together. The host may create bodies behind the wrapper's back
(`RawCreateBody`). `set_input_count` may change the count that `step_frame` insists on.

### AffectedBodies

One iteration of the worklist is one action. What Box3D reports for a body is an
arbitrary relation, chosen in the initial state; it need not be symmetric,
because the swept box of a fast body reaches slow ones and not the other way round.

### SnapshotContext

What `RollbackWorld` takes for granted about its slots: where restored shapes live. A
shape is named by its geometry; `world` says for each whether that geometry is the
host's or a context's. A context is a record of the registry that saving interns
geometry into, the slot view `b3r_RefreshView` keeps over it (with, per entry, whether the
compound object exists), the view's capacity and the slots. `objects` is the heap:
the compound objects allocated and not freed.

| Action | Code |
|---|---|
| `CreateWorld`; `DestroyWorld`, `DestroyRest` | `create_world`; `destroy_world`, in two steps with `closing` between the destruction of the world and that of the context |
| `InitSnapshots` | `init_snapshots`: `b3r_destroy`, then `b3r_create` |
| `SaveState` | `b3r_save`: serialize, then refresh the view; serializing may fail after having interned some geometry |
| `LoadState` | `b3r_load`: deserialize through the view, wholly or in part |
| `RawAddShape`, `RawDestroyShape` | the host's use of the raw API |

`ReinitAnyTime` says whether the host asks for new slots while restored shapes are
in the world. The header forbids it, the code does not prevent it (finding 3).

### HostObjects

`adapter` is chosen at the start: under `unreal` an object that the game no longer
holds, and that nothing reachable refers to, is condemned by `Collect`, after which
`BeginDestroy` runs on the condemned objects in any order and at any time; under `godot`
the game frees objects itself (`Free`) and nothing keeps it from doing so. A session has three
ways to its simulation, as in the code: `bound` is the reference the collector sees
(`BoundSimulation`), `weak` the bridge's (`TWeakObjectPtr`, object id), and `direct` says that
the core session holds a raw pointer to the core world. `Start` makes new slots, saves the
first snapshot and only then activates, and needs of its world what `InitSnapshots` needs;
`Call` is a save or a load a ticking session makes.

## 3. Runs

Each run finishes within three minutes; together they fire every action.

| Run | Instance | Shows |
|---|---|---|
| `session` | 2 peers, 3 frames, prediction 2, ring 4, 3 slots, one packet per link | `TypeOK`, `SettledIsLockstep`, `MaskMatches`, `CorrectionsDue`, `RollbackTargetSaved`, `ReportInv`, and that `RollbackSession` implements `Lockstep` |
| `ring_wrap` | 7 frames over a ring of 6 and 2 slots; delay 1, prediction 1, resend window 4 | `RollbackTargetSaved`, `SnapshotInv`, `PacketsGenuine`, `GenuineInv`, `HistoryInv`, `FlowControl`, `FlowInv`, `ResendCovers`, `JoinInv`, `NothingRefused`, `SettledNeverRetreats`, `SlowestReleased`: cells, slots and the window are reused only when no longer needed |
| `three_players` | 3 peers up to frame 1, two of them mispredicted, alike but for the first, one packet in flight | `FlowControl`, `SettledIsLockstep`, `CorrectionsDue` with more than one remote: one acknowledgement for both, one mask naming both |
| `reorder` | 2 packets per link; `p1`'s simulation may die, `p2` diverges from frame 1 on and may be of another build | `DesyncIsReal`, `BuildsNeverMix`, `BuildInv`, `SettledNeverRetreats`, `FlowControl`; with the window exactly as large as `WindowFits` asks, `TakenWhole` |
| `progress` | fair, lossy, throttling every 2 frames; `p2`'s loads may fail and its steps stop | `Progress` |
| `difference` | delay 2, prediction 1, ring 6, up to 8 frames; `p2` mispredicts the first input that `p1` plays, and the save of that frame or the load of its snapshot fails | `DifferenceReported` |
| `world` | 3 operations, 2 slots, one kind of wrapper body, raw bodies | `WorldTypeOK`, `SideMatchesPhysics`, `RecordingSound`, and that `RollbackWorld` implements `SimulationContract` |
| `affected` | 3 bodies, every relation | `ResultIsClosure`, `ScanInv` |
| `lifetimes` | 2 geometries and a compound, 2 contexts, one slot each, one session, saves and loads that fail, both adapters | `ShapesHaveGeometry`, `ImagesResolvable`, `ObjectsOwned`, `SimulationOutlivesSession` |
| `resend_gap`, `pending_hash`, `context_lifetime` | | see Findings |

**Bounds.** The code's tables are 128 and 64 long, its prediction 8 by default. What
matters is the order of these sizes and the remainders modulo them, and that
survives scaling down: with a ring of 6 and 2 slots, `ring_wrap` uses slots, window and cells
again while packets of the first frames may still be delivered. Its constraint `LateChange` lets
one player change its input once, in a frame whose cell was used before or is next to such; what earlier changes do
is the matter of `session`. A prediction of 2
(`session`) is the least at which two corrections overlap and one resimulates several
frames. `NothingRefused` is checked in `ring_wrap`
because there a peer freed of the stall guard gets far enough to leave the other's horizon; under the guard it never does.
`difference` has a delay of 2, the least at which a pending hash can be replaced while it waits. Its
constraint `Uncorrected` follows the games in which the one correction is still due or was dropped, in which only the save of the mispredicted
frame fails, and up to the first report of a desync. It cuts nothing of interest: where the correction was made the peers agree, a later save is of no frame that is
rolled back to, and a report is never taken back. The bound of 8 frames is not reached: the difference is reported by frame 6,
at which the table of 6 hashes already uses its first cell again.
Two inputs are enough to mispredict. One of the players plays freely and the other a
constant that is not the default input, so that both mispredict, one at any
frame (`OnePlays`). One packet per link with
free duplication already gives delay, loss and repetition; `reorder` adds overtaking.
In `reorder` and `ring_wrap` `2(d + m) = MAX_SEND_INPUTS`, so that a window one input shorter fails.
In `three_players` the constraint `FewInFlight` cuts the states with two packets
at once, which two-player runs cover. Three bodies give chains, cycles and static
obstacles between them. Three geometries and a first capacity of 0 let the view grow
twice with and without a live compound in it; two contexts are what a second `init_snapshots` needs.
`CHECK_DEADLOCK FALSE` is used for `affected`, where the function returns,
and for `lifetimes` and `context_lifetime`, where the game may end with everything freed.

The mutants in each module (`StallsLate`, `FirstSentShort`, `ContextFirst`, ...) are
plausible mistakes in the definition they stand beside; for each property of a passing run
there is one under which the run fails. They take no part in the specifications.

**Fairness** (`FairSpec`, used by `progress` and `resend_gap`). Weak fairness of `Start`,
`Tick` and `Send` is the documented game loop (`docs/network-rollback.md`, "Tick and
transport loop"): every game frame calls `tick` and then `get_packet`, stalled or
not. Strong fairness of `Receive` says of the transport only that a link used
again and again delivers again and again, and consumes what it delivers. No
fairness is assumed of any particular packet, nor of a tick that advances rather than
stalls or throttles: those are guards of the code, and `Progress` must follow
from them. Without fairness of delivery no protocol progresses.

## 4. Findings

Three places in which the code does less than the documentation says.

1. **Resend window** (`resend_gap`, `rb_session.cpp:306`). A packet carries at most
   `MAX_SEND_INPUTS` inputs, the newest. As many as
   `2 * (input_delay + max_prediction)` may be unacknowledged, and `configure()`
   accepts values with which that exceeds 64 (for instance a delay of 16 with a
   prediction of 17 or more). Packets lost at the wrong moment then stall both peers for good.
   With the default configuration (2 and 8) it cannot happen: `ResendCovered` proves it.
2. **Pending hash** (`pending_hash`, `rb_session.cpp:388`). A remote hash that is not safe yet
   is replaced by a newer one, so that a peer that lags may not compare a hash it was sent.
   `difference` shows that the peers together still report a difference that stays, and how soon.
3. **Context under a live world** (`context_lifetime`, `rb_world.cpp:252`). `init_snapshots`, which
   `start()` calls too, destroys the previous context although shapes restored by
   a rollback point into its registry; `rollback_shim.h:4-5` asks for the world to be destroyed first.
   With worlds that are destroyed between sessions, or that hold only
   primitives and hulls, nothing happens: `GeometryOutlivesShapes`.

## 5. Proofs

All proofs are checked by TLAPS without unproved leaves. The assumptions are those of the
specifications (`ConfigAssumption`, `HashAssumption`, `WorldAssumption`, `NullAssumption`,
`ContextAssumption`, `HostAssumption`) and, named in the theorems that need them:

* `HashesTyped`: the hash of a reachable state is a hash value. It speaks of an operator
  parameter, and is an assumption of the theorems rather than of the module
  because TLC cannot evaluate it.
* `SnapshotsDistinct`, `StatesDistinct`: the value that stands for an empty slot, or for no
  world, is not a state.
* `WindowFits`, `RingFits`, `HistoryFits`: three relations between sizes that `configure()` does
  not ensure. With `d` and `m` for the input delay and the prediction they are
  `2(d + m) <= MAX_SEND_INPUTS`, `d + m + MAX_SEND_INPUTS <= RING` and `2(d + m) <= RING`. With 64 and 128 each holds
  up to `d + m = 32`, 64 and 64; the default is 10, and `configure()` accepts up to 72. `WindowFits` implies `HistoryFits`.
* `NothingFails`: no peer's saving or loading fails, and
  no game changes the number of inputs of a simulation in use. It is asked of one theorem only, `DesyncAlwaysReal`, which is
  about all peers at once. The others speak of each peer whose own simulation works (`Reliable`; for
  snapshots, whose saves work), and let the simulations of all others fail as they like.

| Theorem | States |
|---|---|
| `TypeCorrect` | `TypeOK` always holds |
| `FlowInvariant`, `FlowControlHolds` | `FlowInv`, and from it `FlowControl` |
| `ResendCovered` | with `WindowFits`, `ResendCovers` |
| `NothingEverRefused` | with `HistoryFits`, `NothingRefused`: no size test or horizon of `ingest_packet` drops or cuts what a peer sends |
| `PacketsAlwaysJoin`, `TakenAlwaysWhole` | with `WindowFits`, `JoinInv`, and from it `TakenWhole`: no packet leaves a gap, and what is taken is confirmed to its last input |
| `SlowestAlwaysReleased` | with `WindowFits`, `SlowestReleased`: one packet of each remote is enough for the slowest peer to go on |
| `BuildInvariant`, `BuildsKeptApart` | `BuildInv`, and from it `BuildsNeverMix` |
| `GenuineInvariant`, `PacketsAlwaysGenuine` | with `RingFits`, `GenuineInv`, and from it `PacketsGenuine` |
| `SnapshotInvariant`, `RollbackTargetAlwaysSaved` | `SnapshotInv`, and from it `RollbackTargetSaved`, both of the peers whose own saves work |
| `MaskAlwaysMatches` | with `HistoryFits`, `MaskMatches` |
| `NothingSettledRetreats` | `SettledNeverRetreats` |
| `HistoryInvariant`, `SettledAlwaysLockstep` | with `RingFits` and `HistoryFits`, `HistoryInv`, and from it `SettledIsLockstep`, of the peers in `Reliable` |
| `LockstepImplemented` | under the same conditions, that `RollbackSession` implements `Lockstep` |
| `ReportInvariant`, `DesyncAlwaysReal` | under the same conditions `ReportInv`, and from it, with `NothingFails`, `DesyncIsReal` |
| `ScanInvariant`, `AffectedIsClosure` | `ScanInv`, and from it `ResultIsClosure` |
| `WorldInvariant`; `WorldTypeCorrect`, `SideMatchesPhysicsHolds`, `RecordingSoundHolds` | `WorldInv`, defined in `RollbackWorldProofs`; the three properties |
| `ContractImplemented` | `RollbackWorld` implements `SimulationContract` |
| `GeometryOutlivesShapes` | unless `ReinitAnyTime`, `ShapesHaveGeometry` |
| `ImagesAlwaysResolvable`, `ObjectsAlwaysOwned`, `SimulationsKept` | `ImagesResolvable`, `ObjectsOwned`, `SimulationOutlivesSession` |

*Types.* `TypeOK` is inductive. `MinRemoteConfirmed`, `SafeFrame` and the like are
minima over sets of frames; the first lemmas of `RollbackSessionProofs` show from the well-foundedness of the natural
numbers that such minima exist, and that `f % Ring` is a cell.

*Flow control.* `FlowControl` is not inductive: an acknowledgement is only as true as the packet
that brought it, and the inputs in a ring are only as new as the packet that carried them.
`FlowInv` extends the bounds to every ring cell and every packet in flight
(`PairFlow`, `RingFlow`, `PacketFlow`). The core of the argument: p's stall guard bounds
`current` by what p knows of q; what p knows of q was issued by q, which was bounded
by what q knew of p when it sent, and that is what q acknowledges with the same packet; so no input
that p knows is more than `Reach` frames past what q acknowledged to p. Each action has
a lemma. From `FlowInv` the newest local input is at most `2 * Reach`
frames past any remote acknowledgement, which is what `WindowFits` compares with the window.

*Whole packets.* `ResendCovers` looks at one moment, at the sender. `JoinInv` looks at the packets in flight,
however old: a packet starts no later than one past what its sender had been acknowledged,
and `FlowInv` says that an acknowledgement is never more than its receiver has, which only grows. With the
inputs of a packet in one row (`PacketFlow`) and the ring large enough that no cell of the row displaces another,
the confirm loop of `ingest_packet` runs to the end (`TakenWhole`), so what a packet proves is never
lost to the order in which packets come. `SlowestReleased` follows: the newest packet of `q` ends with `q`'s newest
input, and `q` has simulated at least as many frames as the slowest peer, which is then no frame ahead of what it knows of `q`.
That is the safety half of `Progress`: as long as all still send, no state is reachable in which all peers wait
for each other and no packet helps, with any number of peers and whatever was lost.

*Builds.* A packet carries the fingerprint its sender started with, and an input is taken only
from a packet with one's own; so whoever knows an input of a remote has its build
(`BuildInv`). A peer that knows none stalls after `max_prediction` frames, by `FlowInv`.

*Genuine packets.* The ring of an active peer holds its own inputs for the whole resend window
(`OwnInputs` in `GenuineInv`). A cell is lost only to a frame `RING` away; `FlowInv` bounds from
above the frames a peer takes from packets and resimulates, and `RingFits` keeps them less than a
ring away from the oldest in the window.

*Snapshots.* `PendingInv`: what a packet proves wrong was simulated within the last
`max_prediction` frames, because the inputs a peer may still take are newer than
what it has confirmed, and `FlowInv` bounds how far it got beyond that. `SnapshotInv`: all these frames
have their snapshots. A correction saves again what it changes; advancing reuses the slot of a
frame at least `SNAPSHOT_SLOTS > max_prediction` older, which is recent no more.

*Mask.* The mask is cleared exactly when `first_incorrect` is; a packet that adds a player puts an
input of its into the ring at or after `first_incorrect`, and `HistoryFits` keeps other
inputs of the same packet from displacing it.

*Lockstep.* `SettledIsLockstep` speaks of old frames, whose inputs the ring has long lost, so it cannot be
inductive. `HistoryInv` splits a peer's frames at `current - max_prediction`. The older ones are `Final`:
simulated with the inputs that were issued, for good. For the recent ones before `first_incorrect` the ring
still says what they were simulated with, holds every input that is known, and holds no input that was not
issued; and the slots and hashes are those of the states in between. A frame that leaves the window has all
its inputs known, because of the stall guard, so it is final. A packet that agrees with the
ring changes nothing; one that does not moves `first_incorrect` down, past the last frame that is
right; a correction starts again from the slot of that frame, and makes the rest agree. From `HistoryInv` a hash up to the
settled frame is that of the lockstep state.

*Failures of others.* Nothing in the argument for one peer needs the simulation of another to work: inputs travel in packets,
states do not. So `HistoryInv` is about each reliable peer alone, and a failed save, load or step elsewhere reaches it only as a hash.
`Lockstep` has a constant for this, `Simulating`: all its players issue inputs, those in `Simulating` simulate.
A hash of a peer that is not reliable may differ because of its failure and not because two simulations of the same inputs do,
which is why `DesyncIsReal` is only claimed with `NothingFails`.

*Reports.* `ReportInv` says so of the hashes in packets and of the pending
ones, and gives `DesyncIsReal`.

*Refinement.* The refinement needs, besides `HistoryInv`, only that what is settled never retreats:
whatever a packet proves wrong is newer than what was confirmed.

*World.* `SideMatchesPhysics` alone is not inductive: a snapshot left over from an
earlier world could match nothing. `NothingOutlivesWorld` rules that out. The refinement follows from both: a
slot can be loaded exactly when it holds a state of the world that lives, and a load takes all of it.

*Affected bodies.* `ScanInv` says that all that scanned bodies touch is in the queue, and that
the queue lies in every closed set; with nothing left to scan it is itself closed.

*Lifetimes.* Every step of the host is a step of the context or leaves it alone
(`ContextSteps`). `OwnInv` relates registry and view: same length and geometries, no
geometry twice, live entries exactly the heap's objects, images within the view. For the adapters, `HostInv`
says that the collector leaves the objects on the chain from a live session over its game object
to the world, whose length two is why `Reachable` follows two references.

**Only model-checked:** `Progress`, which needs fairness
and ENABLED, out of the reach of the prover; `DifferenceReported` and `CorrectionsDue`, whose proofs are still to be made (section 7). **Only proved:** that `SettledIsLockstep`, `HistoryInv`, `ReportInv` and the refinement hold beside
peers whose simulation fails. The states in which loads fail are too many for the runs: they check these properties with all
peers reliable, and what becomes of failures in `progress` and `difference`.
No module here has a RECURSIVE operator, and no theorem is by induction over data.

## 6. Not modelled

* Bytes: endianness, magic, version and size checks of packets; `Variant` and Unreal conversions.
  Packets in the model come from sessions; `ingest_packet`'s checks against malformed ones are not exercised.
* Frame numbers beyond 2^32, which packets truncate (two years at 60 frames per second).
* The pacing averages, and write-only statistics.
* `rollback_begin`, `set_player_bodies`, the rollback telemetry and the transforms of the world: they are read by nobody
  but the game. `compute_affected_bodies`, which the telemetry is about, is modelled on its own.
* A simulation freed from within one of its own callbacks, after which the session goes on through
  the frame loop with calls that do nothing and a hash of 0. Between calls it is `SimDies`.
* What a deserialization that fails half-way leaves of bodies and side state. In `RollbackSession` a failed
  load leaves the simulation as it was; in `SnapshotContext` some shapes are restored.
* Bodies and worlds destroyed through the raw API behind the wrapper.
* The fingerprint's computation; the hash; Box3D.
* Godot replay, raw binding, addon, bindings generator: forwarding, generated, or offline.

## 7. Plan

Done: the session with its refinement and liveness; the world with its; the worklist; the
snapshot context and the adapters' objects; the proofs of section 5. What would add most next:

1. A proof of `CorrectionsDue`: that no frame before `first_incorrect` is wrong is `HistoryInv`; that each player in the mask still has a
   wrong frame needs, besides, that the ring holds for every recent frame the input that was predicted, until the true one arrives.
2. A proof of `DifferenceReported`, which would need an invariant about which hashes a peer has been sent.
3. `set_player_bodies` and `rollback_begin` with handles that a load brings back or takes away.
4. The packet's wire form (widths, `NO_FRAME`, clamped advantage) as operators, checked to round-trip.
