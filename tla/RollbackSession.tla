-------------------------- MODULE RollbackSession --------------------------
(***************************************************************************)
(* The network rollback session of core/src/rb_session.cpp: one session    *)
(* per peer, each driving its own simulation, and an unreliable network    *)
(* that loses, duplicates, delays and reorders the packets between them.   *)
(*                                                                         *)
(* A peer is one player.  Every C++ member of RollbackSession that a later *)
(* call reads is a variable here, indexed by the peer that owns it; the    *)
(* write-only statistics (stalled, last_rollback_depth, the totals,        *)
(* remote_current_frame) are left out.  The exponential averages that pace *)
(* a peer are abstracted to a free choice to throttle, limited, as in the  *)
(* code, to one throttled tick in ThrottleGap frames.                      *)
(*                                                                         *)
(* The simulation behind IRollbackSimulation is deterministic, so that its *)
(* state is a function of the inputs it was stepped with: a state is that  *)
(* sequence of inputs, one step of a frame appends to it, and what a peer  *)
(* computes from it shows only in Hash.  -1 stands for the code's -1 and,  *)
(* in packets, for NO_FRAME.                                               *)
(***************************************************************************)
EXTENDS Integers, Sequences, FiniteSets, FiniteSetsExt

CONSTANTS
  Players,          \* one session each; the code allows 1..MAX_PLAYERS
  Input,            \* the values of a local input; 0 is the default input
  InputDelay,       \* input_delay
  MaxPrediction,    \* max_prediction
  Ring,             \* RING
  SnapshotSlots,    \* SNAPSHOT_SLOTS
  MaxSendInputs,    \* MAX_SEND_INPUTS
  ThrottleGap,      \* the 8 of tick()
  Builds,           \* the determinism fingerprints each peer's build may have
  Hash(_, _),       \* Hash(p, s): get_state_hash of p's simulation in state s
  HashValue,        \* what Hash returns
  ZeroHash,         \* the hash of an empty table entry
  NoSnapshot,       \* a snapshot slot never saved
  Plays,            \* bound: the inputs each player chooses from
  MayDie,           \* peers whose simulation may cease to be alive
  MayFailSave,      \* peers whose save_state may fail during tick
  MayFailLoad,      \* peers whose load_state may fail
  MayStop,          \* peers whose game may call set_input_count at any time
  MaxFrame,         \* bound: frames a peer simulates
  MaxInFlight       \* bound: packets in flight on one directed link

\* What configure() accepts, with the ring constants as parameters.
ASSUME ConfigAssumption ==
  /\ Players # {} /\ IsFiniteSet(Players)
  /\ Input \subseteq Int /\ 0 \in Input
  /\ Plays \in [Players -> SUBSET Input]
  /\ InputDelay \in Nat
  /\ MaxPrediction \in Nat \ {0}
  /\ Ring \in Nat \ {0}
  /\ SnapshotSlots \in Nat /\ MaxPrediction < SnapshotSlots
  /\ SnapshotSlots <= Ring
  /\ InputDelay < Ring
  /\ Builds \in [Players -> SUBSET Nat]
  /\ MaxSendInputs \in Nat \ {0} /\ MaxSendInputs <= Ring
  /\ ThrottleGap \in Nat \ {0}
  /\ MaxFrame \in Nat /\ MaxInFlight \in Nat

ASSUME HashAssumption == ZeroHash \in HashValue

VARIABLES
  active,           \* active
  alive,            \* is_alive() of the simulation the session borrows
  current,          \* current_frame
  confirmed,        \* confirmed_frame[p], per remote and own player
  last_input,       \* last_input[p]
  ring,             \* ring[RING], the FrameEntry table
  hashes,           \* hashes[RING], the HashEntry table
  first_incorrect,  \* first_incorrect
  mispredicted,     \* mispredicted_mask, as a set of players
  remote_ack,       \* remote_ack[p]
  remote_hash,      \* remote_hash_frame[p] and remote_hash[p]
  last_throttle,    \* last_throttle_frame
  desync,           \* desync_frame; desynced is desync # -1
  incompatible,     \* incompatible_mask, as a set of players
  local_fingerprint, \* local_fingerprint; 0 until start()
  stepping,         \* whether the simulation takes as many inputs as there are
                    \* players: step_frame does nothing when it does not
  sim,              \* the live state of the simulation
  slots,            \* its snapshot slots
  net,              \* packets in flight
  issued            \* history: the local inputs a player has issued, in order

sessionVars == <<active, alive, current, confirmed, last_input, ring, hashes,
                 first_incorrect, mispredicted, remote_ack, remote_hash,
                 last_throttle, desync, incompatible, local_fingerprint,
                 stepping, sim, slots, issued>>
vars == <<active, alive, current, confirmed, last_input, ring, hashes,
          first_incorrect, mispredicted, remote_ack, remote_hash,
          last_throttle, desync, incompatible, local_fingerprint, stepping,
          sim, slots, net, issued>>

Cells == 0 .. Ring - 1
Frame == Nat \cup {-1}
Inputs == [Players -> Input]
SimState == Seq(Inputs)
FrameEntry == [frame : Frame, input : Inputs, by : SUBSET Players]
HashEntry == [frame : Frame, hash : HashValue]

NoInputs == [q \in Players |-> 0]
Blank(f) == [frame |-> f, input |-> NoInputs, by |-> {}]
NoHash == [frame |-> -1, hash |-> ZeroHash]

Remotes(p) == Players \ {p}
-----------------------------------------------------------------------------
(* Queries of one peer's tables. *)

\* entry_for: the ring cell of frame f, emptied if it holds another frame.
EntryFor(cells, f) ==
  IF cells[f % Ring].frame = f THEN cells[f % Ring] ELSE Blank(f)

\* The entry e with q's input v in it, known for good.
WithInput(e, q, v) ==
  [frame |-> e.frame, input |-> [e.input EXCEPT ![q] = v], by |-> e.by \cup {q}]

\* Mutant of Latest: the frame after the newest scheduled input.
LatestOneTooFar(p) == current[p] + InputDelay

\* The newest frame p has a local input for.
Latest(p) == current[p] + InputDelay - 1

\* The newest frame p takes an input for.
FarHorizon(p) == current[p] + InputDelay + Ring \div 2

\* Mutant of MinRemoteConfirmed: the ack is one frame behind.
MinRemoteConfirmedLess(p) ==
  IF Remotes(p) = {} THEN confirmed[p][p]
  ELSE Min({confirmed[p][q] - 1 : q \in Remotes(p)})

\* Mutant of MinRemoteConfirmed: the ack is that of the fastest remote.
FastestConfirmed(p) ==
  IF Remotes(p) = {} THEN confirmed[p][p]
  ELSE Max({confirmed[p][q] : q \in Remotes(p)})

\* min_remote_confirmed: the ack that get_packet sends to every remote.
MinRemoteConfirmed(p) ==
  IF Remotes(p) = {} THEN confirmed[p][p]
  ELSE Min({confirmed[p][q] : q \in Remotes(p)})

MinRemoteAck(p) ==
  IF Remotes(p) = {} THEN -1 ELSE Min({remote_ack[p][q] : q \in Remotes(p)})

\* Mutant of SafeFrame: one frame beyond what is confirmed.
SafeFrameTooFar(cur, conf) ==
  Max({0, Min({cur} \cup {conf[q] + 2 : q \in Players})})

\* safe_frame of a peer at frame cur whose confirmed_frame table is conf:
\* every input before it is known.
SafeFrame(cur, conf) ==
  Max({0, Min({cur} \cup {conf[q] + 1 : q \in Players})})

\* Mutant of Mismatches: only frames strictly before the safe frame.
MismatchesBefore(p, safe, pending, table) ==
  { pending[q].frame : q \in
      { r \in Remotes(p) :
          /\ 0 <= pending[r].frame /\ pending[r].frame < safe
          /\ table[pending[r].frame % Ring].frame = pending[r].frame
          /\ table[pending[r].frame % Ring].hash # pending[r].hash } }

\* The frames at which check_remote_hash can report a desync, when it may
\* report at all: a pending remote hash whose frame is safe here and whose
\* own hash is still in the table and differs.  The code reports the first
\* in player order; which one is left open here.
Mismatches(p, safe, pending, table) ==
  { pending[q].frame : q \in
      { r \in Remotes(p) :
          /\ 0 <= pending[r].frame /\ pending[r].frame <= safe
          /\ table[pending[r].frame % Ring].frame = pending[r].frame
          /\ table[pending[r].frame % Ring].hash # pending[r].hash } }

\* check_remote_hash as a step: desync is set once and never changed again.
CheckRemoteHash(p, incorrect, safe, pending, table) ==
  LET bad == Mismatches(p, safe, pending, table) IN
  IF desync[p] # -1 \/ incorrect >= 0 \/ bad = {}
  THEN desync' = desync
  ELSE \E f \in bad : desync' = [desync EXCEPT ![p] = f]
-----------------------------------------------------------------------------
(* The simulation loop. *)

\* What a frame loop works on: the ring it reads inputs from and the
\* simulation it advances, in state s.
HostAt(p, s) == [ring |-> ring[p], sim |-> s, slots |-> slots[p],
                 hashes |-> hashes[p]]

\* Mutant of InputsFor: a confirmed input is used for prediction only.
InputsForPredicted(cells, last, f) == last

\* The inputs sim_one uses for frame f: the known ones, and for the others
\* the prediction that the player repeats its last confirmed input.
InputsFor(cells, last, f) ==
  LET e == EntryFor(cells, f) IN
  [q \in Players |-> IF q \in e.by THEN e.input[q] ELSE last[q]]

\* sim_one for every frame of from .. to-1 on host h (to - from <= Ring):
\* predictions are written into the ring, and each new state is hashed and
\* saved in its slot; a save that fails, that of a frame not in saved, leaves
\* the slot empty, as b3r_save does.
Simulate(p, h, last, from, to, saved) ==
  LET Used(f) == InputsFor(h.ring, last, f)
      After(f) == IF stepping[p]
                  THEN h.sim \o [i \in 1 .. f - from |-> Used(from + i - 1)]
                  ELSE h.sim
      run == from .. to - 1
      reached == from + 1 .. to
  IN
  [ ring |-> [c \in Cells |->
      IF \E f \in run : f % Ring = c
      THEN LET f == CHOOSE g \in run : g % Ring = c IN
           [frame |-> f, input |-> Used(f), by |-> EntryFor(h.ring, f).by]
      ELSE h.ring[c]],
    sim |-> After(to),
    slots |-> [s \in 0 .. SnapshotSlots - 1 |->
      LET here == {f \in reached : f % SnapshotSlots = s} IN
      IF here = {} THEN h.slots[s]
      ELSE IF Max(here) \in saved THEN After(Max(here)) ELSE NoSnapshot],
    hashes |-> [c \in Cells |->
      IF \E f \in reached : f % Ring = c
      THEN LET f == CHOOSE g \in reached : g % Ring = c IN
           [frame |-> f, hash |-> Hash(p, After(f))]
      ELSE h.hashes[c]] ]

\* The sets of frames whose save_state may succeed, out of frames.
SaveOutcomes(p, frames) ==
  IF p \in MayFailSave THEN SUBSET frames ELSE {frames}

\* Whether a load_state may succeed, and whether it may fail.
LoadOutcomes(p) == IF p \in MayFailLoad THEN BOOLEAN ELSE {TRUE}

\* Mutant of MustRollback: a rollback to frame 0 is never made.
MustRollbackNotToStart(p) ==
  0 < first_incorrect[p] /\ first_incorrect[p] < current[p]

MustRollback(p) ==
  0 <= first_incorrect[p] /\ first_incorrect[p] < current[p]

\* do_rollback, when tick calls it: load the snapshot of the first incorrect
\* frame and simulate again up to the current frame.  A slot that was never
\* saved fails to load; when loading fails nothing is simulated.
Corrected(p, saved, loads) ==
  LET target == first_incorrect[p]
      snapshot == slots[p][target % SnapshotSlots] IN
  IF MustRollback(p) /\ snapshot # NoSnapshot /\ loads
  THEN Simulate(p, HostAt(p, snapshot), last_input[p], target, current[p], saved)
  ELSE HostAt(p, sim[p])

\* Mutant of Resaved: the state at the current frame is not saved again.
ResavedShort(p) ==
  IF MustRollback(p) THEN first_incorrect[p] + 1 .. current[p] - 1 ELSE {}

\* The frames whose state do_rollback saves.
Resaved(p) ==
  IF MustRollback(p) THEN first_incorrect[p] + 1 .. current[p] ELSE {}

\* What correcting mispredictions may make of p's host.
Corrections(p) ==
  {Corrected(p, saved, loads) :
     saved \in SaveOutcomes(p, Resaved(p)), loads \in LoadOutcomes(p)}

\* Host h with the local input v scheduled for the frame InputDelay ahead.
Scheduled(p, h, v) ==
  LET lf == current[p] + InputDelay IN
  [h EXCEPT !.ring[lf % Ring] = WithInput(EntryFor(h.ring, lf), p, v)]

\* What simulating the current frame may make of host h.
Advances(p, h, last) ==
  {Simulate(p, h, last, current[p], current[p] + 1, saved) :
     saved \in SaveOutcomes(p, {current[p] + 1})}

SetHost(p, h) ==
  /\ ring' = [ring EXCEPT ![p] = h.ring]
  /\ sim' = [sim EXCEPT ![p] = h.sim]
  /\ slots' = [slots EXCEPT ![p] = h.slots]
  /\ hashes' = [hashes EXCEPT ![p] = h.hashes]
-----------------------------------------------------------------------------
Init ==
  /\ active = [p \in Players |-> FALSE]
  /\ alive = [p \in Players |-> TRUE]
  /\ current = [p \in Players |-> 0]
  /\ confirmed = [p \in Players |-> [q \in Players |-> -1]]
  /\ last_input = [p \in Players |-> NoInputs]
  /\ ring = [p \in Players |-> [c \in Cells |-> Blank(-1)]]
  /\ hashes = [p \in Players |-> [c \in Cells |-> NoHash]]
  /\ first_incorrect = [p \in Players |-> -1]
  /\ mispredicted = [p \in Players |-> {}]
  /\ remote_ack = [p \in Players |-> [q \in Players |-> -1]]
  /\ remote_hash = [p \in Players |-> [q \in Players |-> NoHash]]
  /\ last_throttle = [p \in Players |-> -1]
  /\ desync = [p \in Players |-> -1]
  /\ incompatible = [p \in Players |-> {}]
  /\ local_fingerprint = [p \in Players |-> 0]
  /\ stepping = [p \in Players |-> TRUE]
  /\ sim = [p \in Players |-> <<>>]
  /\ slots = [p \in Players |-> [s \in 0 .. SnapshotSlots - 1 |-> NoSnapshot]]
  /\ net = {}
  /\ issued = [p \in Players |-> <<>>]

\* start(): snapshot and hash the initial state, and confirm the default
\* input for the frames that the input delay leaves without a local one.
Start(p) ==
  /\ ~active[p] /\ alive[p]
  /\ active' = [active EXCEPT ![p] = TRUE]
  /\ slots' = [slots EXCEPT ![p][0] = sim[p]]
  /\ hashes' = [hashes EXCEPT ![p][0] = [frame |-> 0, hash |-> Hash(p, sim[p])]]
  /\ ring' = [ring EXCEPT ![p] = [c \in Cells |->
                IF c < InputDelay THEN WithInput(Blank(c), p, 0) ELSE @[c]]]
  /\ confirmed' = [confirmed EXCEPT ![p][p] = InputDelay - 1]
  /\ issued' = [issued EXCEPT ![p] = [i \in 1 .. InputDelay |-> 0]]
  /\ \E b \in Builds[p] : local_fingerprint' = [local_fingerprint EXCEPT ![p] = b]
  /\ UNCHANGED <<alive, current, last_input, first_incorrect, mispredicted,
                 remote_ack, remote_hash, last_throttle, desync, incompatible,
                 stepping, sim, net>>

\* Mutant of Stalls: no limit to prediction.
StallsNever(p) == FALSE

\* Mutant of Stalls: one more predicted frame.
StallsLate(p) ==
  \E q \in Remotes(p) : current[p] - (confirmed[p][q] + 1) > MaxPrediction

\* The guard that keeps a peer from predicting further than max_prediction
\* frames beyond what it knows of the slowest remote player.
Stalls(p) ==
  \E q \in Remotes(p) : current[p] - (confirmed[p][q] + 1) >= MaxPrediction

\* The part of tick() before it decides whether to advance, ending in host h.
Correct(p, h) ==
  /\ first_incorrect' = [first_incorrect EXCEPT ![p] = -1]
  /\ mispredicted' = IF MustRollback(p)
                     THEN [mispredicted EXCEPT ![p] = {}] ELSE mispredicted
  /\ CheckRemoteHash(p, -1, SafeFrame(current[p], confirmed[p]),
                     remote_hash[p], h.hashes)

\* tick() that corrects mispredictions and then stalls.  At the bound
\* MaxFrame every tick does.
TickStall(p) ==
  /\ active[p] /\ alive[p]
  /\ Stalls(p) \/ current[p] = MaxFrame
  /\ \E h \in Corrections(p) : Correct(p, h) /\ SetHost(p, h)
  /\ UNCHANGED <<active, alive, current, confirmed, last_input, remote_ack,
                 remote_hash, last_throttle, incompatible,
                 local_fingerprint, stepping, net, issued>>

\* tick() that corrects and then gives up one frame to let a remote catch up.
TickThrottle(p) ==
  /\ active[p] /\ alive[p]
  /\ Remotes(p) # {} /\ ~Stalls(p)
  /\ current[p] - last_throttle[p] >= ThrottleGap
  /\ \E h \in Corrections(p) : Correct(p, h) /\ SetHost(p, h)
  /\ last_throttle' = [last_throttle EXCEPT ![p] = current[p]]
  /\ UNCHANGED <<active, alive, current, confirmed, last_input, remote_ack,
                 remote_hash, incompatible, local_fingerprint, stepping, net,
                 issued>>

\* tick(v) that corrects, schedules the local input v for the frame
\* InputDelay ahead and simulates the current frame.
TickAdvance(p, v) ==
  /\ active[p] /\ alive[p]
  /\ ~Stalls(p)
  /\ current[p] < MaxFrame
  /\ LET lf == current[p] + InputDelay
         contiguous == confirmed[p][p] = lf - 1
         last == IF contiguous THEN [last_input[p] EXCEPT ![p] = v]
                 ELSE last_input[p]
     IN
     /\ \E h \in Corrections(p) :
          /\ Correct(p, h)
          /\ \E g \in Advances(p, Scheduled(p, h, v), last) : SetHost(p, g)
     /\ last_input' = [last_input EXCEPT ![p] = last]
     /\ confirmed' = IF contiguous
                     THEN [confirmed EXCEPT ![p][p] = lf]
                     ELSE confirmed
     /\ current' = [current EXCEPT ![p] = @ + 1]
     /\ issued' = [issued EXCEPT ![p] = Append(@, v)]
  /\ UNCHANGED <<active, alive, remote_ack, remote_hash, last_throttle,
                 incompatible, local_fingerprint, stepping, net>>

\* The owner frees the simulation: is_alive() is false from then on, and
\* ticks do nothing.
SimDies(p) ==
  /\ p \in MayDie /\ alive[p]
  /\ alive' = [alive EXCEPT ![p] = FALSE]
  /\ UNCHANGED <<active, current, confirmed, last_input, ring, hashes,
                 first_incorrect, mispredicted, remote_ack, remote_hash,
                 last_throttle, desync, incompatible, local_fingerprint,
                 stepping, sim, slots, net, issued>>

\* The game calls set_input_count with a number other than that of the
\* players, or sets it right again.  Before the session is active this only
\* makes start() refuse.
SetInputCount(p) ==
  /\ p \in MayStop /\ active[p] /\ alive[p]
  /\ stepping' = [stepping EXCEPT ![p] = ~stepping[p]]
  /\ UNCHANGED <<active, alive, current, confirmed, last_input, ring, hashes,
                 first_incorrect, mispredicted, remote_ack, remote_hash,
                 last_throttle, desync, incompatible, local_fingerprint, sim,
                 slots, net, issued>>
-----------------------------------------------------------------------------
(* Packets. *)

\* Mutant of FirstSent: the window is one frame short.
FirstSentShort(p) ==
  Max({MinRemoteAck(p) + 1, Latest(p) - (MaxSendInputs - 1) + 1, 0})

\* The first frame get_packet resends: the oldest that some remote has not
\* acknowledged, but never more than MaxSendInputs frames in all.
FirstSent(p) ==
  Max({MinRemoteAck(p) + 1, Latest(p) - (MaxSendInputs - 1), 0})

\* get_packet of p, as handed by the transport to q.
PacketTo(p, q) ==
  LET safe == SafeFrame(current[p], confirmed[p])
      ready == first_incorrect[p] < 0 /\ hashes[p][safe % Ring].frame = safe
      LocalInput(f) == IF ring[p][f % Ring].frame = f
                       THEN ring[p][f % Ring].input[p] ELSE 0
  IN [ src |-> p, dst |-> q,
       frame |-> current[p],
       ack |-> MinRemoteConfirmed(p),
       hash |-> IF ready THEN hashes[p][safe % Ring] ELSE NoHash,
       start |-> FirstSent(p),
       inputs |-> [f \in FirstSent(p) .. Latest(p) |-> LocalInput(f)],
       fingerprint |-> local_fingerprint[p] ]

Link(p, q) == {m \in net : m.src = p /\ m.dst = q}

Send(p, q) ==
  /\ active[p] /\ q \in Remotes(p)
  /\ Cardinality(Link(p, q)) < MaxInFlight
  /\ net' = net \cup {PacketTo(p, q)}
  /\ UNCHANGED sessionVars

\* The transport loses a packet.  Also what becomes of a packet that
\* ingest_packet drops unread: one for a session not yet active, or one
\* from beyond the far horizon.
Lose(m) ==
  /\ m \in net
  /\ net' = net \ {m}
  /\ UNCHANGED sessionVars

\* A packet is delivered; the network may keep a copy of it.
Deliver(m) ==
  /\ m \in net
  /\ net' \in {net, net \ {m}}

\* Mutant of SameBuild: every build is accepted.
AnyBuild(p, m) == TRUE

\* The fingerprint test of ingest_packet.
SameBuild(p, m) == m.fingerprint = local_fingerprint[p]

\* ingest_packet from a build with another fingerprint: nothing but the
\* report is taken from it.
IngestIncompatible(p, m) ==
  /\ m.dst = p /\ active[p]
  /\ Deliver(m)
  /\ ~SameBuild(p, m)
  /\ incompatible' = [incompatible EXCEPT ![p] = @ \cup {m.src}]
  /\ UNCHANGED <<active, alive, current, confirmed, last_input, ring, hashes,
                 first_incorrect, mispredicted, remote_ack, remote_hash,
                 last_throttle, desync, local_fingerprint, stepping, sim,
                 slots, issued>>

\* The size tests of ingest_packet: p drops a packet that carries too many
\* inputs, or starts or was sent beyond the horizon.
WithinHorizon(p, m) ==
  /\ Cardinality(DOMAIN m.inputs) <= MaxSendInputs
  /\ m.start <= FarHorizon(p) /\ m.frame <= FarHorizon(p) + Ring

\* The frames of m whose input p takes: not confirmed yet and not beyond the
\* horizon.
Taken(p, m) ==
  { f \in DOMAIN m.inputs : confirmed[p][m.src] < f /\ f <= FarHorizon(p) }

\* Mutant of Mispredicted: the last simulated frame is not compared.
MispredictedButLast(p, m) ==
  { f \in Taken(p, m) :
      LET e == EntryFor(ring[p], f) IN
      m.src \notin e.by /\ f < current[p] - 1 /\ e.input[m.src] # m.inputs[f] }

\* Of these, the frames already simulated with another input.
Mispredicted(p, m) ==
  { f \in Taken(p, m) :
      LET e == EntryFor(ring[p], f) IN
      m.src \notin e.by /\ f < current[p] /\ e.input[m.src] # m.inputs[f] }

\* p's ring with the inputs of m in it.
RingWith(p, m) ==
  [c \in Cells |->
    IF \E f \in Taken(p, m) : f % Ring = c
    THEN LET f == CHOOSE g \in Taken(p, m) : g % Ring = c IN
         WithInput(EntryFor(ring[p], f), m.src, m.inputs[f])
    ELSE ring[p][c]]

\* Whether the table holds q's input for frame f.
Holds(cells, q, f) == cells[f % Ring].frame = f /\ q \in cells[f % Ring].by

\* n is where the loop that extends confirmed_frame from frame c stops.
ContiguousUpTo(cells, q, c, n) ==
  /\ \A f \in c + 1 .. n : Holds(cells, q, f)
  /\ ~Holds(cells, q, n + 1)

\* Mutant of MaskWith: the mask names only the last player.
MaskOfLast(p, q) == {q}

\* The mask of p with q, whose input was mispredicted, in it.
MaskWith(p, q) == mispredicted[p] \cup {q}

\* ingest_packet from a peer of the same build.
Ingest(p, m) ==
  /\ m.dst = p /\ active[p]
  /\ Deliver(m)
  /\ SameBuild(p, m)
  /\ WithinHorizon(p, m)
  /\ LET q == m.src
         cells == RingWith(p, m)
         wrong == Mispredicted(p, m)
         incorrect == IF wrong = {} THEN first_incorrect[p]
                      ELSE IF first_incorrect[p] < 0 THEN Min(wrong)
                      ELSE Min(wrong \cup {first_incorrect[p]})
         pending == IF m.hash.frame > remote_hash[p][q].frame
                       /\ m.hash.frame <= m.frame
                    THEN [remote_hash[p] EXCEPT ![q] = m.hash]
                    ELSE remote_hash[p]
     IN
     /\ remote_ack' = IF m.ack <= Latest(p) /\ m.ack > remote_ack[p][q]
                      THEN [remote_ack EXCEPT ![p][q] = m.ack]
                      ELSE remote_ack
     /\ remote_hash' = [remote_hash EXCEPT ![p] = pending]
     /\ ring' = [ring EXCEPT ![p] = cells]
     /\ first_incorrect' = [first_incorrect EXCEPT ![p] = incorrect]
     /\ mispredicted' = IF wrong = {} THEN mispredicted
                        ELSE [mispredicted EXCEPT ![p] = MaskWith(p, q)]
     /\ \E n \in confirmed[p][q] .. confirmed[p][q] + Ring :
          LET conf == [confirmed[p] EXCEPT ![q] = n] IN
          /\ ContiguousUpTo(cells, q, confirmed[p][q], n)
          /\ confirmed' = [confirmed EXCEPT ![p] = conf]
          /\ last_input' = IF n > confirmed[p][q]
                           THEN [last_input EXCEPT ![p][q] =
                                  cells[n % Ring].input[q]]
                           ELSE last_input
          /\ CheckRemoteHash(p, incorrect, SafeFrame(current[p], conf),
                             pending, hashes[p])
  /\ UNCHANGED <<active, alive, current, hashes, last_throttle, incompatible,
                 local_fingerprint, stepping, sim, slots, issued>>
-----------------------------------------------------------------------------
Next ==
  \/ \E p \in Players :
       \/ Start(p)
       \/ TickStall(p)
       \/ TickThrottle(p)
       \/ \E v \in Plays[p] : TickAdvance(p, v)
       \/ SimDies(p) \/ SetInputCount(p)
       \/ \E q \in Players : Send(p, q)
  \/ \E m \in net :
       \/ Lose(m)
       \/ \E p \in Players : Ingest(p, m) \/ IngestIncompatible(p, m)

Spec == Init /\ [][Next]_vars

Tick(p) ==
  TickStall(p) \/ TickThrottle(p) \/ \E v \in Plays[p] : TickAdvance(p, v)

Receive(p, q) == \E m \in Link(p, q) : Ingest(q, m) /\ net' = net \ {m}

\* The game calls start and tick on every peer, each tick is followed by a
\* get_packet that the transport sends, and a link that is used again and
\* again delivers again and again.
FairSpec ==
  /\ Spec
  /\ \A p \in Players : WF_vars(Start(p)) /\ WF_vars(Tick(p))
  /\ \A p \in Players : \A q \in Remotes(p) :
       WF_vars(Send(p, q)) /\ SF_vars(Receive(p, q))
-----------------------------------------------------------------------------
(* Properties. *)

PacketOK(m) ==
  /\ m.src \in Players /\ m.dst \in Remotes(m.src)
  /\ m.frame \in Nat /\ m.ack \in Frame /\ m.hash \in HashEntry
  /\ m.start \in Nat /\ m.fingerprint \in Nat
  /\ \A f \in DOMAIN m.inputs : f \in Nat /\ m.inputs[f] \in Input

\* The type of every variable.
TypeOK ==
  /\ active \in [Players -> BOOLEAN] /\ alive \in [Players -> BOOLEAN]
  /\ current \in [Players -> Nat]
  /\ confirmed \in [Players -> [Players -> Frame]]
  /\ last_input \in [Players -> Inputs]
  /\ ring \in [Players -> [Cells -> FrameEntry]]
  /\ hashes \in [Players -> [Cells -> HashEntry]]
  /\ first_incorrect \in [Players -> Frame]
  /\ mispredicted \in [Players -> SUBSET Players]
  /\ remote_ack \in [Players -> [Players -> Frame]]
  /\ remote_hash \in [Players -> [Players -> HashEntry]]
  /\ last_throttle \in [Players -> Frame]
  /\ desync \in [Players -> Frame]
  /\ incompatible \in [Players -> SUBSET Players]
  /\ local_fingerprint \in [Players -> Nat]
  /\ stepping \in [Players -> BOOLEAN]
  /\ sim \in [Players -> SimState]
  /\ slots \in [Players -> [0 .. SnapshotSlots - 1 -> {NoSnapshot} \cup SimState]]
  /\ issued \in [Players -> Seq(Input)]
  /\ \A m \in net : PacketOK(m)

\* The input q really issued for frame f.
IssuedInput(q, f) == issued[q][f + 1]

\* The state a lockstep game is in after n frames of the inputs issued.
LockstepState(n) ==
  [i \in 1 .. n |-> [q \in Players |-> IssuedInput(q, i - 1)]]

\* The frame up to which p's simulation is final: all inputs before it are
\* known and none of them was mispredicted.
Settled(p) ==
  LET safe == SafeFrame(current[p], confirmed[p]) IN
  IF first_incorrect[p] >= 0 THEN Min({first_incorrect[p], safe}) ELSE safe

\* The peers hold each other within a window: none simulates more than
\* max_prediction frames past what it knows of a remote, none knows more of
\* a remote than that remote has issued, and none believes more of its own
\* inputs acknowledged than the remote has confirmed.  (The stall guard of
\* tick, the confirm loop and the ack rule of ingest_packet, together.)
FlowControl ==
  \A p \in Players : \A q \in Remotes(p) :
    /\ active[p] => current[p] <= confirmed[p][q] + 1 + MaxPrediction
    /\ confirmed[p][q] <= Latest(q)
    /\ remote_ack[p][q] <= confirmed[q][p]

\* How far the inputs a peer may send reach beyond what it knows of the
\* slowest remote.
Reach == InputDelay + MaxPrediction

\* Why FlowControl holds.  Nothing a peer has learned of a remote, and
\* nothing on its way to it, is newer than what the remote has issued, or
\* reaches more than Reach frames beyond what the remote acknowledged with
\* it; an ack in flight or taken never overtakes the confirmed frame.
PairFlow(p, q) ==
  /\ current[p] <= confirmed[p][q] + 1 + MaxPrediction
  /\ confirmed[p][q] <= Latest(q)
  /\ confirmed[p][q] <= remote_ack[p][q] + Reach
  /\ remote_ack[p][q] <= confirmed[q][p]

RingFlow(p, q) ==
  \A c \in Cells : q \in ring[p][c].by =>
    /\ ring[p][c].frame <= Latest(q)
    /\ ring[p][c].frame <= remote_ack[p][q] + Reach

PacketFlow(m) ==
  /\ m.ack <= confirmed[m.src][m.dst]
  /\ \A f \in DOMAIN m.inputs : f <= Latest(m.src) /\ f <= m.ack + Reach
  /\ m.frame <= m.ack + 1 + MaxPrediction
  /\ m.start <= m.ack + 1 + Reach
  /\ Cardinality(DOMAIN m.inputs) <= MaxSendInputs

\* The inductive invariant behind FlowControl and ResendCovers.
FlowInv ==
  /\ \A p \in Players : \A q \in Remotes(p) : PairFlow(p, q) /\ RingFlow(p, q)
  /\ \A m \in net : PacketFlow(m)

\* Whatever the network lost, the resend window of get_packet reaches back
\* to the first input some remote has not acknowledged: the cut to
\* MAX_SEND_INPUTS frames never drops an input a remote may still miss.
ResendCovers ==
  \A p \in Players :
    active[p] /\ Remotes(p) # {} => FirstSent(p) <= MinRemoteAck(p) + 1

\* The size tests of ingest_packet, made for packets of strangers, never cost
\* a session anything: no packet of a peer is dropped or cut short by them,
\* however far the two are apart, and however old the packet is.
NothingRefused ==
  \A m \in net :
    /\ WithinHorizon(m.dst, m)
    /\ \A f \in DOMAIN m.inputs : f <= FarHorizon(m.dst)

\* Why a packet leaves no gap: its inputs are those of a row of frames, and
\* the row starts no later than with the first one its receiver misses.
PacketJoins(m) ==
  /\ m.start <= confirmed[m.dst][m.src] + 1
  /\ \A f \in DOMAIN m.inputs :
       m.start <= f /\ m.start .. f \subseteq DOMAIN m.inputs

JoinInv == \A m \in net : PacketJoins(m)

\* Whatever was lost before it, a packet that is taken is taken whole: the
\* confirm loop of ingest_packet gets to the last input in it.
TakenWhole ==
  [][\A p \in Players : \A m \in net : Ingest(p, m) =>
       \A f \in DOMAIN m.inputs : f <= confirmed'[p][m.src]]_vars

\* The slowest peer never waits for more than one packet of each remote:
\* once it takes the newest one, that remote does not make it stall.  So the
\* peers never all wait for each other.
SlowestReleased ==
  [][\A p \in Players : (\A r \in Players : current[p] <= current[r]) =>
       \A q \in Remotes(p) :
         PacketTo(q, p) \in net /\ Ingest(p, PacketTo(q, p)) =>
           current[p] - (confirmed'[p][q] + 1) < MaxPrediction]_vars

\* A packet carries, for every frame in it, the input its sender issued:
\* the sender's ring has not lost or replaced it (get_packet would send 0).
PacketsGenuine ==
  \A m \in net : \A f \in DOMAIN m.inputs :
    f < Len(issued[m.src]) /\ m.inputs[f] = IssuedInput(m.src, f)

\* Why PacketsGenuine holds: the ring of a peer holds, for every frame that
\* get_packet may send, the input it issued, and no rollback reaches further
\* back than max_prediction frames.
OwnInputs(p) ==
  /\ Len(issued[p]) = Latest(p) + 1
  /\ \A f \in Latest(p) - (MaxSendInputs - 1) .. Latest(p) : 0 <= f =>
       Holds(ring[p], p, f) /\ ring[p][f % Ring].input[p] = IssuedInput(p, f)

GenuineInv ==
  /\ \A p \in Players : active[p] => OwnInputs(p)
  /\ \A p \in Players : ~active[p] => current[p] = 0 /\ issued[p] = <<>>
  /\ \A p \in Players : first_incorrect[p] >= 0 =>
       current[p] <= first_incorrect[p] + MaxPrediction
  /\ PacketsGenuine

\* The peers whose own simulation always saves, loads and steps.
Reliable == Players \ (MayFailSave \cup MayFailLoad \cup MayStop)

\* What a peer takes as final is what lockstep would have computed: up to
\* its settled frame every hash in its table is that of the simulation of
\* the inputs really issued, whatever was predicted and corrected before,
\* and whatever goes wrong in the simulations of the other peers.
SettledIsLockstep ==
  \A p \in Reliable : active[p] =>
    /\ hashes[p][Settled(p) % Ring].frame = Settled(p)
    /\ \A c \in Cells :
         LET e == hashes[p][c] IN
         0 <= e.frame /\ e.frame <= Settled(p)
           => e.hash = Hash(p, LockstepState(e.frame))

\* State s as far as frame n.
UpTo(s, n) == [i \in 1 .. n |-> s[i]]

\* State s simulated frame f with the inputs of all players.
Final(s, f, all) ==
  /\ \A q \in Players : f < Len(all[q])
  /\ s[f + 1] = [q \in Players |-> all[q][f + 1]]

\* The ring of host h at frame n holds every recent input known up to conf,
\* and none but those that the players issued.
KnownThere(h, n, conf) ==
  \A q \in Players : \A f \in 0 .. conf[q] :
    n - MaxPrediction <= f => Holds(h.ring, q, f)

IssuedThere(h, all) ==
  \A c \in Cells : LET e == h.ring[c] IN \A q \in e.by :
    0 <= e.frame /\ e.frame < Len(all[q]) /\ e.input[q] = all[q][e.frame + 1]

\* Its first k frames were simulated with the inputs in the ring if they are
\* recent, and with the final ones otherwise; its slots and hashes are those
\* of the states on the way.
SimulatedThere(h, k, n, all) ==
  \A f \in 0 .. k - 1 :
    /\ f < n - MaxPrediction => Final(h.sim, f, all)
    /\ n - MaxPrediction <= f =>
         h.ring[f % Ring].frame = f /\ h.ring[f % Ring].input = h.sim[f + 1]

SavedThere(h, k, n) ==
  \A f \in 0 .. k :
    n - MaxPrediction <= f => h.slots[f % SnapshotSlots] = UpTo(h.sim, f)

HashedThere(p, h, k, n) ==
  \A c \in Cells : LET e == h.hashes[c] IN 0 <= e.frame =>
    /\ e.frame <= n /\ e.frame % Ring = c
    /\ e.frame <= k => e.hash = Hash(p, UpTo(h.sim, e.frame))

HostHistory(p, h, k, n, conf, all) ==
  /\ KnownThere(h, n, conf)
  /\ IssuedThere(h, all)
  /\ SimulatedThere(h, k, n, all)
  /\ SavedThere(h, k, n)
  /\ HashedThere(p, h, k, n)

\* The frames of p before the first that is known to be wrong.
RightFrames(p) == IF first_incorrect[p] >= 0 THEN first_incorrect[p] ELSE current[p]

PeerHistory(p) ==
  HostHistory(p, HostAt(p, sim[p]), RightFrames(p), current[p], confirmed[p], issued)

\* Why SettledIsLockstep holds.
HistoryOf(p) ==
  /\ stepping[p]
  /\ Len(sim[p]) = current[p]
  /\ active[p] => confirmed[p][p] = Latest(p) /\ PeerHistory(p)
  /\ ~active[p] =>
       /\ \A q \in Players : confirmed[p][q] = -1
       /\ \A c \in Cells : ring[p][c].by = {} /\ hashes[p][c].frame = -1

HistoryInv == \A p \in Reliable : HistoryOf(p)

\* p holds the state that frame f started from: in the slot of f, neither
\* overwritten by a later frame nor left from SNAPSHOT_SLOTS frames before.
HasSnapshot(p, f) ==
  LET e == hashes[p][f % Ring]
      s == slots[p][f % SnapshotSlots]
  IN e.frame = f /\ s # NoSnapshot /\ Hash(p, s) = e.hash

\* A pending rollback goes back in time, and do_rollback finds the state it
\* asks for, if p's saves work.
RollbackTargetSaved ==
  \A p \in Players \ MayFailSave : first_incorrect[p] >= 0 =>
    first_incorrect[p] < current[p] /\ HasSnapshot(p, first_incorrect[p])

\* The frames of p that a late input may still prove wrong.
Recent(p) == {f \in 0 .. current[p] : current[p] - MaxPrediction <= f}

\* A rollback that is due goes back in time, and to a recent frame.
PendingInv ==
  \A p \in Players :
    /\ first_incorrect[p] >= 0 =>
         first_incorrect[p] \in Recent(p) /\ first_incorrect[p] < current[p]
    /\ ~active[p] => current[p] = 0

\* Why RollbackTargetSaved holds: an active peer whose saves work keeps the
\* snapshots of all recent frames, each in its slot with the hash sent for
\* it, whatever was corrected and saved again since.
SnapshotInv ==
  /\ PendingInv
  /\ \A p \in Players \ MayFailSave : active[p] =>
       \A f \in Recent(p) : HasSnapshot(p, f)

\* The mask given to rollback_begin names a player exactly when a rollback
\* is due, and only players whose inputs reach past the rollback target.
MaskMatches ==
  \A p \in Players :
    /\ (first_incorrect[p] >= 0) <=> (mispredicted[p] # {})
    /\ \A q \in mispredicted[p] :
         \E f \in first_incorrect[p] .. current[p] - 1 : Holds(ring[p], q, f)

\* The frames that p simulated with another input of q than it knows now.
Wrong(p, q) ==
  {f \in 0 .. current[p] - 1 :
     Holds(ring[p], q, f) /\ sim[p][f + 1][q] # ring[p][f % Ring].input[q]}

\* Unless p's saves, loads or steps fail, a rollback is due exactly while p's
\* simulation disagrees with an input it knows; it goes back to the first
\* frame where it does, and its mask names every player whose input was
\* mispredicted, and no other.
CorrectionsDue ==
  \A p \in Reliable :
    /\ mispredicted[p] = {q \in Players : Wrong(p, q) # {}}
    /\ LET wrong == UNION {Wrong(p, q) : q \in Players} IN
       first_incorrect[p] = IF wrong = {} THEN -1 ELSE Min(wrong)

\* A desync is reported only for a frame at which two peers' simulations of
\* the same inputs really differ: no prediction, delay or reordering makes
\* check_remote_hash compare hashes of different histories.
DesyncIsReal ==
  \A p \in Players : desync[p] # -1 =>
    \E q \in Remotes(p) :
      Hash(p, LockstepState(desync[p])) # Hash(q, LockstepState(desync[p]))

\* Hash v is that of q's simulation of the first n frames of inputs, all of
\* which have been issued.
LockstepHash(q, n, v) ==
  /\ n \in Nat /\ \A r \in Players : n <= Len(issued[r])
  /\ v = Hash(q, LockstepState(n))

LockstepEntry(q, e) == 0 <= e.frame => LockstepHash(q, e.frame, e.hash)

\* Two peers' simulations of the same n frames of inputs differ.
RealDifference(p, n) ==
  /\ n \in Nat /\ \A r \in Players : n <= Len(issued[r])
  /\ \E q \in Remotes(p) : Hash(p, LockstepState(n)) # Hash(q, LockstepState(n))

\* Why DesyncIsReal holds: every hash on its way or waiting to be compared
\* is that of the lockstep game at its sender, if the sender's simulation
\* works, and if all do, only real differences are reported.
ReportInv ==
  /\ \A m \in net : m.src \in Reliable => LockstepEntry(m.src, m.hash)
  /\ \A p \in Players : \A q \in Remotes(p) \cap Reliable :
       LockstepEntry(q, remote_hash[p][q])
  /\ Reliable = Players =>
       \A p \in Players : desync[p] # -1 => RealDifference(p, desync[p])

\* Peers of different builds never simulate together: neither gets more
\* than max_prediction frames from the start.
BuildsNeverMix ==
  \A p \in Players : \A q \in Remotes(p) :
    active[p] /\ active[q] /\ local_fingerprint[p] # local_fingerprint[q] =>
      current[p] <= MaxPrediction /\ confirmed[p][q] = -1

\* Why BuildsNeverMix holds: a packet carries the fingerprint its sender
\* started with, and a peer knows inputs only of remotes that started with
\* its own.
BuildInv ==
  /\ \A m \in net : active[m.src] /\ m.fingerprint = local_fingerprint[m.src]
  /\ \A p \in Players : \A q \in Remotes(p) : confirmed[p][q] # -1 =>
       active[p] /\ active[q] /\ local_fingerprint[p] = local_fingerprint[q]

\* A frame once settled stays settled: no late, duplicated or reordered
\* packet makes a peer doubt an input it had confirmed.
SettledNeverRetreats == [][\A p \in Players : Settled(p)' >= Settled(p)]_vars

\* Every peer simulates every frame, whatever the network loses, as long as
\* it keeps delivering something.
Progress == \A p \in Players : <>(current[p] = MaxFrame)

\* How far two peers get before they have compared a frame.
CompareWithin == 2 * MaxPrediction + InputDelay

\* The hash of frame n as p's simulation stands.
HashAt(p, n) == Hash(p, UpTo(sim[p], n))

\* A difference that stays between the simulations of two peers, whatever
\* made it, is reported by one of them before both are CompareWithin frames
\* past it, whatever the network loses or holds back: the hashes that
\* get_packet sends come with the inputs without which no peer gets on, and
\* the peer that is ahead can compare at once, before its own hash has left
\* the table.
DifferenceReported ==
  \A p \in Players \ MayStop : \A q \in Remotes(p) \ MayStop :
    \A n \in 0 .. Min({current[p], current[q]}) - CompareWithin :
      (\A k \in n .. n + CompareWithin : HashAt(p, k) # HashAt(q, k))
      => desync[p] # -1 \/ desync[q] # -1

=============================================================================
