--------------------------- MODULE SnapshotProofs ----------------------------
(***************************************************************************)
(* A rollback finds its snapshot and names its players: for any number of  *)
(* players and any configuration that configure() accepts, as long as      *)
(* saving does not fail; the mask, as long as the ring does not mix up     *)
(* the inputs that the players may be ahead of each other.                 *)
(***************************************************************************)
EXTENDS GenuineProofs

\* What NoSnapshot stands for is not a state.
SnapshotsDistinct == NoSnapshot \notin SimState

LEMMA PendingNumbers ==
  ASSUME TypeOK, NEW p \in Players
  PROVE  /\ current[p] \in Nat /\ first_incorrect[p] \in Int
         /\ Latest(p) = current[p] + InputDelay - 1 /\ InputDelay \in Nat
         /\ MaxPrediction \in Nat /\ MaxPrediction >= 1
         /\ SnapshotSlots \in Nat \ {0} /\ Ring \in Nat \ {0}
         /\ MaxPrediction < SnapshotSlots /\ SnapshotSlots <= Ring
BY ConfigAssumption DEF TypeOK, Latest, Frame

-----------------------------------------------------------------------------
(* Pending rollbacks. *)

\* A step that makes no rollback pending.
LEMMA NoneNewPending ==
  ASSUME TypeOK, PendingInv,
         \A r \in Players : \/ /\ current'[r] = current[r]
                               /\ first_incorrect'[r] = first_incorrect[r]
                            \/ first_incorrect'[r] = -1,
         \A r \in Players : ~active'[r] => ~active[r] /\ current'[r] = current[r]
  PROVE  PendingInv'
BY DEF PendingInv, Recent

\* A tick leaves no rollback pending.
LEMMA CorrectPending ==
  ASSUME TypeOK, NEW p \in Players, NEW h, Correct(p, h)
  PROVE  /\ first_incorrect'[p] = -1
         /\ \A r \in Players \ {p} : first_incorrect'[r] = first_incorrect[r]
BY DEF Correct, TypeOK

LEMMA TickPending ==
  ASSUME TypeOK, PendingInv, NEW p \in Players,
         \/ TickStall(p) \/ TickThrottle(p) \/ \E v \in Input : TickAdvance(p, v)
  PROVE  PendingInv'
<1>1. \E h : Correct(p, h)
  BY DEF TickStall, TickThrottle, TickAdvance
<1>2. /\ active' = active /\ active[p]
      /\ \A r \in Players \ {p} : current'[r] = current[r]
  BY DEF TickStall, TickThrottle, TickAdvance, TypeOK
<1> QED
  BY <1>1, <1>2, CorrectPending, NoneNewPending

\* The new first incorrect frame of p, when m proves frames wrong.
Incorrect(p, m) ==
  IF Mispredicted(p, m) = {} THEN first_incorrect[p]
  ELSE IF first_incorrect[p] < 0 THEN Min(Mispredicted(p, m))
  ELSE Min(Mispredicted(p, m) \cup {first_incorrect[p]})

\* What a packet proves wrong was simulated in the last MaxPrediction frames.
LEMMA MispredictedRecent ==
  ASSUME TypeOK, FlowInv, NEW m \in net, NEW p \in Players, m.dst = p
  PROVE  \A f \in Taken(p, m) : f \in Nat /\ current[p] - MaxPrediction <= f
<1>1. PacketOK(m) /\ m.src \in Remotes(p) /\ m.src \in Players
  BY DEF TypeOK, PacketOK, Remotes
<1>2. current[p] <= confirmed[p][m.src] + 1 + MaxPrediction
  BY <1>1 DEF FlowInv, PairFlow
<1>3. Taken(p, m) \subseteq Nat /\ \A f \in Taken(p, m) : confirmed[p][m.src] < f
  BY <1>1, TakenType DEF Taken
<1>4. confirmed[p][m.src] \in Int
  BY <1>1, CounterTypes
<1> QED
  BY <1>2, <1>3, <1>4, PendingNumbers

LEMMA IncorrectRecent ==
  ASSUME TypeOK, FlowInv, PendingInv, NEW m \in net, NEW p \in Players, m.dst = p
  PROVE  LET n == Incorrect(p, m) IN
         /\ n >= 0 => n \in Recent(p) /\ n < current[p]
         /\ first_incorrect[p] >= 0 => 0 <= n /\ n <= first_incorrect[p]
         /\ \A f \in Mispredicted(p, m) : 0 <= n /\ n <= f
<1> DEFINE wrong == Mispredicted(p, m)
           old == first_incorrect[p]
           n == Incorrect(p, m)
           all == IF old < 0 THEN wrong ELSE wrong \cup {old}
<1>1. \A f \in wrong : f \in Nat /\ current[p] - MaxPrediction <= f /\ f < current[p]
  BY MispredictedRecent DEF Mispredicted
<1>2. old >= 0 => old \in Nat /\ current[p] - MaxPrediction <= old /\ old < current[p]
  BY PendingNumbers DEF PendingInv, Recent
<1>3. wrong = {} => n = old
  BY DEF Incorrect
<1>4. wrong # {} => n = Min(all) /\ all # {}
  BY PendingNumbers DEF Incorrect
<1>5. old \in Int
  BY PendingNumbers
<1> HIDE DEF wrong, old, n
<1>6. CASE wrong = {}
  BY <1>2, <1>3, <1>6, PendingNumbers DEF Recent, n, wrong, old
<1>7. CASE wrong # {}
  <2>1. all \subseteq Nat /\ \A f \in all : current[p] - MaxPrediction <= f /\ f < current[p]
    BY <1>1, <1>2, <1>5
  <2>2. wrong \subseteq all /\ (old >= 0 => old \in all)
    BY <1>5
  <2> HIDE DEF all
  <2>3. n \in all /\ \A f \in all : n <= f
    BY <1>4, <1>7, <2>1, NatMin
  <2>4. n \in Nat /\ current[p] - MaxPrediction <= n /\ n < current[p]
    BY <2>1, <2>3
  <2>5. n \in Recent(p)
    BY <2>4, PendingNumbers DEF Recent
  <2> QED
    BY <2>2, <2>3, <2>4, <2>5 DEF n, wrong, old
<1> QED
  BY <1>6, <1>7

LEMMA IngestPending ==
  ASSUME TypeOK, FlowInv, PendingInv, NEW m \in net, NEW p \in Players, Ingest(p, m)
  PROVE  PendingInv'
<1>1. /\ m.dst = p /\ UNCHANGED <<active, current>>
      /\ first_incorrect' = [first_incorrect EXCEPT ![p] = Incorrect(p, m)]
  BY DEF Ingest, Incorrect
<1>2. Incorrect(p, m) >= 0 =>
        Incorrect(p, m) \in Recent(p) /\ Incorrect(p, m) < current[p]
  BY <1>1, IncorrectRecent
<1> QED
  BY <1>1, <1>2 DEF PendingInv, Recent, TypeOK

LEMMA OtherPending ==
  ASSUME PendingInv, UNCHANGED <<current, first_incorrect>>,
         \A r \in Players : ~active'[r] => ~active[r]
  PROVE  PendingInv'
BY DEF PendingInv, Recent

LEMMA PendingStep ==
  ASSUME TypeOK, FlowInv, PendingInv, [Next]_vars
  PROVE  PendingInv'
<1>1. ASSUME NEW p \in Players, Start(p) PROVE PendingInv'
  BY <1>1, OtherPending DEF Start, TypeOK
<1>2. ASSUME NEW p \in Players, TickStall(p) \/ TickThrottle(p) PROVE PendingInv'
  BY <1>2, TickPending
<1>3. ASSUME NEW p \in Players, NEW v \in Plays[p], TickAdvance(p, v) PROVE PendingInv'
  BY <1>3, TickPending, ConfigAssumption
<1>4. ASSUME NEW p \in Players, SimDies(p) \/ SetInputCount(p) PROVE PendingInv'
  BY <1>4, OtherPending DEF SimDies, SetInputCount
<1>5. ASSUME NEW p \in Players, NEW q \in Players, Send(p, q) PROVE PendingInv'
  BY <1>5, OtherPending DEF Send, sessionVars
<1>6. ASSUME NEW m \in net, Lose(m) PROVE PendingInv'
  BY <1>6, OtherPending DEF Lose, sessionVars
<1>7. ASSUME NEW m \in net, NEW p \in Players, Ingest(p, m) PROVE PendingInv'
  BY <1>7, IngestPending
<1>8. ASSUME NEW m \in net, NEW p \in Players, IngestIncompatible(p, m) PROVE PendingInv'
  BY <1>8, OtherPending DEF IngestIncompatible
<1>9. CASE UNCHANGED vars
  BY <1>9, OtherPending DEF vars
<1> QED
  BY <1>1, <1>2, <1>3, <1>4, <1>5, <1>6, <1>7, <1>8, <1>9 DEF Next

\* A pending rollback goes back at most MaxPrediction frames.
THEOREM PendingInvariant == ASSUME HashesTyped PROVE Spec => []PendingInv
<1>1. Init => PendingInv
  BY DEF Init, PendingInv
<1>2. TypeOK /\ FlowInv /\ PendingInv /\ [Next]_vars => PendingInv'
  BY PendingStep
<1> QED
  BY <1>1, <1>2, TypeCorrect, FlowInvariant, PTL DEF Spec

-----------------------------------------------------------------------------
(* Snapshots. *)

\* Host h of p holds the state that frame f started from.
HostHas(p, h, f) ==
  LET e == h.hashes[f % Ring]
      s == h.slots[f % SnapshotSlots]
  IN e.frame = f /\ s # NoSnapshot /\ Hash(p, s) = e.hash

\* Frames less than a table's length apart do not share its cells.
LEMMA Apart ==
  ASSUME NEW f \in Int, NEW g \in Int, f - g < SnapshotSlots, g - f < SnapshotSlots
  PROVE  /\ f % SnapshotSlots = g % SnapshotSlots => f = g
         /\ f % Ring = g % Ring => f = g
<1>1. /\ SnapshotSlots \in Nat \ {0} /\ Ring \in Nat \ {0} /\ f - g < Ring /\ g - f < Ring
  BY ConfigAssumption
<1> QED
  BY <1>1, CellsDiffer

LEMMA SimulateSaves ==
  ASSUME HashesTyped, SnapshotsDistinct, NEW p \in Players, NEW h, HostOK(h),
         NEW last \in Inputs, NEW from \in Nat, NEW to \in Nat, from <= to,
         to - from <= MaxPrediction, NEW saved, from + 1 .. to \subseteq saved
  PROVE  LET new == Simulate(p, h, last, from, to, saved) IN
         /\ \A f \in from + 1 .. to : HostHas(p, new, f)
         /\ \A f \in Nat : f <= from /\ to - MaxPrediction <= f /\ HostHas(p, h, f)
              => HostHas(p, new, f)
<1> DEFINE After(f) == Simulate(p, h, last, from, f, saved).sim
           reached == from + 1 .. to
           new == Simulate(p, h, last, from, to, saved)
           Hits(s) == {f \in reached : f % SnapshotSlots = s}
           Slot(s) == IF Hits(s) = {} THEN h.slots[s]
                      ELSE IF Max(Hits(s)) \in saved THEN After(Max(Hits(s)))
                      ELSE NoSnapshot
           Entry(c) == IF \E f \in reached : f % Ring = c
                       THEN LET f == CHOOSE g \in reached : g % Ring = c IN
                            [frame |-> f, hash |-> Hash(p, After(f))]
                       ELSE h.hashes[c]
<1>1. \A f \in reached : f \in Nat /\ After(f) \in SimState
  <2> SUFFICES ASSUME NEW f \in reached PROVE f \in Nat /\ After(f) \in SimState
    OBVIOUS
  <2>1. f \in Nat /\ from <= f
    OBVIOUS
  <2>2. HostOK(Simulate(p, h, last, from, f, saved))
    BY <2>1, SimulateType
  <2> QED
    BY <2>1, <2>2 DEF HostOK
<1>2. /\ new.slots = [s \in 0 .. SnapshotSlots - 1 |-> Slot(s)]
      /\ new.hashes = [c \in Cells |-> Entry(c)]
  BY DEF Simulate
<1>3. MaxPrediction \in Nat /\ MaxPrediction < SnapshotSlots /\ SnapshotSlots \in Nat
  BY ConfigAssumption
<1> HIDE DEF After
<1>4. ASSUME NEW f \in reached PROVE HostHas(p, new, f)
  <2>1. f \in Int /\ f % SnapshotSlots \in 0 .. SnapshotSlots - 1 /\ f % Ring \in Cells
    BY <1>1, SlotOf, CellOf
  <2>2. \A g \in reached : /\ g % SnapshotSlots = f % SnapshotSlots => g = f
                           /\ g % Ring = f % Ring => g = f
    <3> TAKE g \in reached
    <3>1. g \in Int /\ f - g < SnapshotSlots /\ g - f < SnapshotSlots
      BY <1>3
    <3> QED
      BY <2>1, <3>1, Apart
  <2>3. Slot(f % SnapshotSlots) = After(f)
    <3>1. Hits(f % SnapshotSlots) = {f}
      BY <2>2
    <3>2. Max({f}) = f
      BY <2>1, BoundedMax
    <3>3. f \in saved
      OBVIOUS
    <3> QED
      BY <3>1, <3>2, <3>3
  <2>4. Entry(f % Ring) = [frame |-> f, hash |-> Hash(p, After(f))]
    <3>1. (CHOOSE g \in reached : g % Ring = f % Ring) = f
      BY <2>2
    <3> QED
      BY <3>1
  <2>5. After(f) # NoSnapshot
    BY <1>1 DEF SnapshotsDistinct
  <2> HIDE DEF Slot, Entry, new
  <2> QED
    BY <1>2, <2>1, <2>3, <2>4, <2>5 DEF HostHas
<1>5. ASSUME NEW f \in Nat, f <= from, to - MaxPrediction <= f, HostHas(p, h, f)
      PROVE  HostHas(p, new, f)
  <2>1. f \in Int /\ f % SnapshotSlots \in 0 .. SnapshotSlots - 1 /\ f % Ring \in Cells
    BY SlotOf, CellOf
  <2>2. \A g \in reached : g % SnapshotSlots # f % SnapshotSlots /\ g % Ring # f % Ring
    <3> TAKE g \in reached
    <3>1. g \in Int /\ f - g < SnapshotSlots /\ g - f < SnapshotSlots /\ g # f
      BY <1>3, <1>5
    <3> QED
      BY <2>1, <3>1, Apart
  <2>3. Slot(f % SnapshotSlots) = h.slots[f % SnapshotSlots] /\ Entry(f % Ring) = h.hashes[f % Ring]
    BY <2>2
  <2> HIDE DEF Slot, Entry, new
  <2> QED
    BY <1>2, <1>5, <2>1, <2>3 DEF HostHas
<1> QED
  BY <1>4, <1>5

\* When a peer's saves do not fail, correcting keeps the snapshots of all
\* recent frames, or makes them anew.
LEMMA CorrectionsSave ==
  ASSUME HashesTyped, SnapshotsDistinct, TypeOK, SnapshotInv,
         NEW p \in Players, p \notin MayFailSave, active[p], NEW h \in Corrections(p)
  PROVE  \A f \in Recent(p) : HostHas(p, h, f)
<1> DEFINE target == first_incorrect[p]
           snapshot == slots[p][target % SnapshotSlots]
<1>1. PICK loads : h = Corrected(p, Resaved(p), loads)
  BY DEF Corrections, SaveOutcomes
<1>2. \A s : \A f \in Recent(p) : HostHas(p, HostAt(p, s), f)
  BY DEF SnapshotInv, HasSnapshot, HostHas, HostAt
<1>3. CASE MustRollback(p) /\ snapshot # NoSnapshot /\ loads
  <2> DEFINE start == HostAt(p, snapshot)
  <2>1. /\ target \in Nat /\ current[p] \in Nat /\ target <= current[p]
        /\ current[p] - target <= MaxPrediction
    BY <1>3, PendingNumbers DEF MustRollback, SnapshotInv, PendingInv, Recent
  <2>2. HostOK(start)
    <3>1. slots[p] \in [0 .. SnapshotSlots - 1 -> {NoSnapshot} \cup SimState]
      BY DEF TypeOK
    <3>2. target % SnapshotSlots \in 0 .. SnapshotSlots - 1
      BY <2>1, SlotOf
    <3>3. snapshot \in {NoSnapshot} \cup SimState
      BY <3>1, <3>2
    <3> QED
      BY <1>3, <3>3 DEF TypeOK, HostAt, HostOK, SlotTable
  <2>3. last_input[p] \in Inputs /\ Resaved(p) = target + 1 .. current[p]
    BY <1>3 DEF TypeOK, Resaved
  <2>4. h = Simulate(p, start, last_input[p], target, current[p], Resaved(p))
    BY <1>1, <1>3 DEF Corrected
  <2>5. \A f \in Recent(p) : HostHas(p, start, f)
    BY <1>2
  <2> HIDE DEF start, target
  <2>6. /\ \A f \in target + 1 .. current[p] : HostHas(p, h, f)
        /\ \A f \in Nat : f <= target /\ current[p] - MaxPrediction <= f
                            /\ HostHas(p, start, f) => HostHas(p, h, f)
    BY <2>1, <2>2, <2>3, <2>4, SimulateSaves
  <2> QED
    BY <2>1, <2>5, <2>6 DEF Recent
<1>4. CASE ~(MustRollback(p) /\ snapshot # NoSnapshot /\ loads)
  BY <1>1, <1>2, <1>4 DEF Corrected
<1> QED
  BY <1>3, <1>4

LEMMA AdvancesSave ==
  ASSUME HashesTyped, SnapshotsDistinct, TypeOK,
         NEW p \in Players, p \notin MayFailSave,
         NEW h, HostOK(h), NEW last \in Inputs,
         NEW g \in Advances(p, h, last), \A f \in Recent(p) : HostHas(p, h, f)
  PROVE  \A f \in 0 .. current[p] + 1 :
           current[p] + 1 - MaxPrediction <= f => HostHas(p, g, f)
<1> SUFFICES ASSUME NEW f \in 0 .. current[p] + 1, current[p] + 1 - MaxPrediction <= f
             PROVE  HostHas(p, g, f)
  OBVIOUS
<1> DEFINE from == current[p]
           to == from + 1
<1>1. from \in Nat /\ to \in Nat /\ from <= to /\ to - from <= MaxPrediction
  BY PendingNumbers
<1>2. g = Simulate(p, h, last, from, to, {to})
  BY DEF Advances, SaveOutcomes
<1>3. from + 1 .. to \subseteq {to}
  BY <1>1
<1>4. f <= from => f \in Recent(p)
  BY PendingNumbers DEF Recent
<1>5. f \in Nat /\ f <= to /\ to - MaxPrediction <= f
  BY PendingNumbers
<1> HIDE DEF from
<1>6. /\ \A x \in from + 1 .. to : HostHas(p, g, x)
      /\ \A x \in Nat : x <= from /\ to - MaxPrediction <= x /\ HostHas(p, h, x)
           => HostHas(p, g, x)
  BY <1>1, <1>2, <1>3, SimulateSaves
<1>7. CASE f = to
  BY <1>1, <1>6, <1>7
<1>8. CASE f # to
  <2>1. f <= from
    BY <1>1, <1>5, <1>8
  <2> QED
    BY <1>4, <1>5, <1>6, <2>1
<1> QED
  BY <1>7, <1>8

\* Scheduling an input touches neither slots nor hashes.
LEMMA ScheduledHas ==
  ASSUME NEW p \in Players, NEW h, HostOK(h), NEW v, NEW f, HostHas(p, h, f)
  PROVE  HostHas(p, Scheduled(p, h, v), f)
<1>1. Scheduled(p, h, v).hashes = h.hashes /\ Scheduled(p, h, v).slots = h.slots
  BY DEF Scheduled, HostOK
<1> QED
  BY <1>1 DEF HostHas

\* What SetHost makes of the snapshots.
LEMMA SetHostHas ==
  ASSUME TypeOK, NEW p \in Players, NEW h, SetHost(p, h)
  PROVE  /\ \A f : HostHas(p, h, f) => HasSnapshot(p, f)'
         /\ \A r \in Players \ {p} : \A f : HasSnapshot(r, f) => HasSnapshot(r, f)'
<1>1. /\ slots'[p] = h.slots /\ hashes'[p] = h.hashes
      /\ \A r \in Players \ {p} : slots'[r] = slots[r] /\ hashes'[r] = hashes[r]
  BY DEF SetHost, TypeOK
<1> QED
  BY <1>1 DEF HostHas, HasSnapshot

\* A step that keeps every peer's snapshots.
LEMMA QuietSnapshots ==
  ASSUME SnapshotInv, PendingInv', UNCHANGED <<active, current, slots, hashes>>
  PROVE  SnapshotInv'
BY DEF SnapshotInv, Recent, HasSnapshot

\* Advancing a frame saves the new one, and keeps the others.
LEMMA AdvanceSnapshots ==
  ASSUME HashesTyped, SnapshotsDistinct, TypeOK, SnapshotInv,
         NEW p \in Players, p \notin MayFailSave, NEW v \in Input, TickAdvance(p, v)
  PROVE  \E g : SetHost(p, g) /\ \A f \in Recent(p)' : HostHas(p, g, f)
<1> DEFINE lf == current[p] + InputDelay
           last == IF confirmed[p][p] = lf - 1
                   THEN [last_input[p] EXCEPT ![p] = v] ELSE last_input[p]
<1>1. PICK h \in Corrections(p) :
        /\ Correct(p, h)
        /\ \E g \in Advances(p, Scheduled(p, h, v), last) : SetHost(p, g)
  BY DEF TickAdvance
<1>2. PICK g \in Advances(p, Scheduled(p, h, v), last) : SetHost(p, g)
  BY <1>1
<1>3. last \in Inputs
  BY DEF TypeOK, Inputs
<1>4. HostOK(h) /\ HostOK(Scheduled(p, h, v))
  BY CorrectionsType, ScheduledType
<1>5. active[p] /\ current'[p] = current[p] + 1
  BY DEF TickAdvance, TypeOK
<1>6. \A f \in Recent(p) : HostHas(p, Scheduled(p, h, v), f)
  BY <1>4, <1>5, CorrectionsSave, ScheduledHas
<1> HIDE DEF last
<1>7. \A f \in 0 .. current[p] + 1 :
        current[p] + 1 - MaxPrediction <= f => HostHas(p, g, f)
  BY <1>2, <1>3, <1>4, <1>6, AdvancesSave
<1>8. \A f \in Recent(p)' : f \in 0 .. current[p] + 1
                                /\ current[p] + 1 - MaxPrediction <= f
  <2>1. current'[p] = current[p] + 1 /\ current[p] \in Nat /\ MaxPrediction \in Nat
    BY <1>5, PendingNumbers
  <2>2. ASSUME NEW f \in Recent(p)'
        PROVE  f \in 0 .. current'[p] /\ current'[p] - MaxPrediction <= f
    BY <2>2 DEF Recent
  <2> QED
    BY <2>1, <2>2
<1> QED
  BY <1>2, <1>7, <1>8

LEMMA TickSnapshots ==
  ASSUME HashesTyped, SnapshotsDistinct, TypeOK, SnapshotInv, PendingInv', NEW p \in Players,
         \/ TickStall(p) \/ TickThrottle(p) \/ \E v \in Input : TickAdvance(p, v)
  PROVE  SnapshotInv'
<1>1. /\ active' = active /\ active[p]
      /\ \A r \in Players \ {p} : current'[r] = current[r]
  BY DEF TickStall, TickThrottle, TickAdvance, TypeOK
<1> DEFINE Keeps(g) == p \notin MayFailSave => \A f \in Recent(p)' : HostHas(p, g, f)
<1>2. PICK g : SetHost(p, g) /\ Keeps(g)
  <2>1. CASE TickStall(p) \/ TickThrottle(p)
    <3>1. PICK h \in Corrections(p) : SetHost(p, h) /\ current' = current
      BY <2>1 DEF TickStall, TickThrottle
    <3>2. Recent(p)' = Recent(p)
      BY <3>1 DEF Recent
    <3> QED
      BY <1>1, <3>1, <3>2, CorrectionsSave
  <2>2. ASSUME NEW v \in Input, TickAdvance(p, v)
        PROVE  \E g : SetHost(p, g) /\ Keeps(g)
    <3>1. CASE p \in MayFailSave
      BY <2>2, <3>1 DEF TickAdvance
    <3>2. CASE p \notin MayFailSave
      BY <2>2, <3>2, AdvanceSnapshots
    <3> QED
      BY <3>1, <3>2
  <2> HIDE DEF Keeps
  <2> QED
    BY <2>1, <2>2
<1>3. p \notin MayFailSave => \A f \in Recent(p)' : HasSnapshot(p, f)'
  BY <1>2, SetHostHas
<1>4. ASSUME NEW r \in Players \ {p}, r \notin MayFailSave, active'[r],
             NEW f \in Recent(r)'
      PROVE  HasSnapshot(r, f)'
  <2>1. active[r] /\ f \in Recent(r)
    BY <1>1, <1>4 DEF Recent
  <2>2. HasSnapshot(r, f)
    BY <1>4, <2>1 DEF SnapshotInv
  <2> QED
    BY <1>2, <2>2, SetHostHas
<1> QED
  BY <1>3, <1>4 DEF SnapshotInv

\* start() saves and hashes the initial state.
LEMMA StartSnapshots ==
  ASSUME SnapshotsDistinct, TypeOK, SnapshotInv, PendingInv', NEW p \in Players, Start(p)
  PROVE  SnapshotInv'
<1>1. /\ current' = current /\ current[p] = 0 /\ MaxPrediction \in Nat
      /\ slots' = [slots EXCEPT ![p][0] = sim[p]]
      /\ hashes' = [hashes EXCEPT ![p][0] = [frame |-> 0, hash |-> Hash(p, sim[p])]]
      /\ \A r \in Players \ {p} : active'[r] = active[r]
  BY PendingNumbers DEF Start, SnapshotInv, PendingInv, TypeOK
<1>2. 0 % SnapshotSlots = 0 /\ 0 % Ring = 0 /\ 0 \in Cells /\ 0 \in 0 .. SnapshotSlots - 1
  BY ConfigAssumption DEF Cells
<1>3. /\ slots'[p][0] = sim[p] /\ hashes'[p][0] = [frame |-> 0, hash |-> Hash(p, sim[p])]
      /\ \A r \in Players \ {p} : slots'[r] = slots[r] /\ hashes'[r] = hashes[r]
  BY <1>1, <1>2 DEF TypeOK
<1>4. sim[p] # NoSnapshot
  BY DEF TypeOK, SnapshotsDistinct
<1>5. HasSnapshot(p, 0)'
  BY <1>2, <1>3, <1>4 DEF HasSnapshot
<1>6. \A f \in Recent(p)' : HasSnapshot(p, f)'
  BY <1>1, <1>5 DEF Recent
<1>7. \A r \in Players \ {p} : r \notin MayFailSave /\ active'[r] =>
        \A f \in Recent(r)' : HasSnapshot(r, f)'
  BY <1>1, <1>3 DEF SnapshotInv, Recent, HasSnapshot
<1> QED
  BY <1>6, <1>7 DEF SnapshotInv

\* Every active peer whose saves do not fail has the snapshots of all frames
\* that a late input may still prove wrong, whatever fails at other peers.
THEOREM SnapshotInvariant ==
  ASSUME HashesTyped, SnapshotsDistinct
  PROVE  Spec => []SnapshotInv
<1>1. Init => SnapshotInv
  BY DEF Init, PendingInv, SnapshotInv
<1>2. TypeOK /\ SnapshotInv /\ PendingInv' /\ [Next]_vars => SnapshotInv'
  <2> SUFFICES ASSUME TypeOK, SnapshotInv, PendingInv', [Next]_vars PROVE SnapshotInv'
    OBVIOUS
  <2>1. ASSUME NEW p \in Players, Start(p) PROVE SnapshotInv'
    BY <2>1, StartSnapshots
  <2>2. ASSUME NEW p \in Players, TickStall(p) \/ TickThrottle(p) PROVE SnapshotInv'
    BY <2>2, TickSnapshots
  <2>3. ASSUME NEW p \in Players, NEW v \in Plays[p], TickAdvance(p, v)
        PROVE  SnapshotInv'
    BY <2>3, TickSnapshots, ConfigAssumption
  <2>4. ASSUME NEW p \in Players, SimDies(p) \/ SetInputCount(p) PROVE SnapshotInv'
    BY <2>4, QuietSnapshots DEF SimDies, SetInputCount
  <2>5. ASSUME NEW p \in Players, NEW q \in Players, Send(p, q) PROVE SnapshotInv'
    BY <2>5, QuietSnapshots DEF Send, sessionVars
  <2>6. ASSUME NEW m \in net, Lose(m) PROVE SnapshotInv'
    BY <2>6, QuietSnapshots DEF Lose, sessionVars
  <2>7. ASSUME NEW m \in net, NEW p \in Players, Ingest(p, m) \/ IngestIncompatible(p, m)
        PROVE  SnapshotInv'
    BY <2>7, QuietSnapshots DEF Ingest, IngestIncompatible
  <2>8. CASE UNCHANGED vars
    BY <2>8, QuietSnapshots DEF vars
  <2> QED
    BY <2>1, <2>2, <2>3, <2>4, <2>5, <2>6, <2>7, <2>8 DEF Next
<1> QED
  BY <1>1, <1>2, TypeCorrect, PendingInvariant, PTL DEF Spec

\* A rollback of a peer whose own saves work always finds the state it asks
\* for, whatever fails at the others: no slot that one may still need is
\* reused by a later frame.
THEOREM RollbackTargetAlwaysSaved ==
  ASSUME HashesTyped, SnapshotsDistinct
  PROVE  Spec => []RollbackTargetSaved
<1>1. TypeOK /\ SnapshotInv => RollbackTargetSaved
  <2> SUFFICES ASSUME TypeOK, SnapshotInv, NEW p \in Players \ MayFailSave,
                      first_incorrect[p] >= 0
               PROVE  first_incorrect[p] < current[p] /\ HasSnapshot(p, first_incorrect[p])
    BY DEF RollbackTargetSaved
  <2>1. first_incorrect[p] \in Recent(p) /\ first_incorrect[p] < current[p]
    BY DEF SnapshotInv, PendingInv
  <2>2. active[p]
    BY <2>1, PendingNumbers DEF SnapshotInv, PendingInv
  <2> QED
    BY <2>1, <2>2 DEF SnapshotInv
<1> QED
  BY <1>1, SnapshotInvariant, TypeCorrect, PTL

-----------------------------------------------------------------------------
(* The mask of a rollback. *)

\* A step that clears the pending rollback of some peers and leaves what the
\* mask of the others is about alone.
LEMMA QuietMask ==
  ASSUME MaskMatches,
         \A r \in Players :
           \/ first_incorrect'[r] = -1 /\ mispredicted'[r] = {}
           \/ /\ first_incorrect'[r] = first_incorrect[r]
              /\ mispredicted'[r] = mispredicted[r]
              /\ first_incorrect[r] >= 0 =>
                   current'[r] = current[r] /\ ring'[r] = ring[r]
  PROVE  MaskMatches'
<1> SUFFICES ASSUME NEW r \in Players
             PROVE  /\ (first_incorrect'[r] >= 0) <=> (mispredicted'[r] # {})
                    /\ \A q \in mispredicted'[r] :
                         \E f \in first_incorrect'[r] .. current'[r] - 1 :
                           Holds(ring'[r], q, f)
  BY DEF MaskMatches, Holds
<1>1. CASE first_incorrect'[r] = -1 /\ mispredicted'[r] = {}
  BY <1>1
<1>2. CASE ~(first_incorrect'[r] = -1 /\ mispredicted'[r] = {})
  <2>1. /\ first_incorrect'[r] = first_incorrect[r]
        /\ mispredicted'[r] = mispredicted[r]
        /\ first_incorrect[r] >= 0 => current'[r] = current[r] /\ ring'[r] = ring[r]
    BY <1>2
  <2> QED
    BY <2>1 DEF MaskMatches
<1> QED
  BY <1>1, <1>2

LEMMA TickMask ==
  ASSUME TypeOK, PendingInv, MaskMatches, NEW p \in Players,
         \/ TickStall(p) \/ TickThrottle(p) \/ \E v \in Input : TickAdvance(p, v)
  PROVE  MaskMatches'
<1>1. \E h : Correct(p, h)
  BY DEF TickStall, TickThrottle, TickAdvance
<1>2. \E g : SetHost(p, g)
  BY DEF TickStall, TickThrottle, TickAdvance
<1>3. \A r \in Players \ {p} : current'[r] = current[r] /\ ring'[r] = ring[r]
  <2>1. \A r \in Players \ {p} : current'[r] = current[r]
    BY DEF TickStall, TickThrottle, TickAdvance, TypeOK
  <2> QED
    BY <1>2, <2>1 DEF SetHost, TypeOK
<1>4. \A r \in Players \ {p} : /\ first_incorrect'[r] = first_incorrect[r]
                               /\ mispredicted'[r] = mispredicted[r]
  BY <1>1 DEF Correct, TypeOK
<1>5. ~MustRollback(p) => mispredicted[p] = {}
  <2>1. ~MustRollback(p) => ~(first_incorrect[p] >= 0)
    BY PendingNumbers DEF MustRollback, PendingInv
  <2> QED
    BY <2>1 DEF MaskMatches
<1>6. first_incorrect'[p] = -1 /\ mispredicted'[p] = {}
  BY <1>1, <1>5 DEF Correct, TypeOK
<1> QED
  BY <1>3, <1>4, <1>6, QuietMask

\* The frames that p takes from a packet, whose inputs come from the window
\* in which the peers hold each other.
LEMMA TakenBounds ==
  ASSUME TypeOK, FlowInv, NEW m \in net, NEW p \in Players, m.dst = p
  PROVE  \A x \in Taken(p, m) : /\ x \in Nat /\ current[p] - MaxPrediction <= x
                                /\ x <= Latest(p) + Reach
<1> DEFINE q == m.src
<1>1. /\ q \in Remotes(p) /\ p \in Remotes(q) /\ q \in Players /\ m.ack \in Int
      /\ PacketOK(m)
  <2>1. PacketOK(m)
    BY DEF TypeOK
  <2> QED
    BY <2>1 DEF PacketOK, Frame, Remotes
<1>2. /\ PairFlow(p, q) /\ PairFlow(q, p) /\ PacketFlow(m)
  BY <1>1 DEF FlowInv
<1>3. confirmed[p][q] \in Int /\ confirmed[q][p] \in Int /\ Reach \in Nat
  BY <1>1, CounterTypes
<1> SUFFICES ASSUME NEW x \in Taken(p, m)
             PROVE  /\ x \in Nat /\ current[p] - MaxPrediction <= x
                    /\ x <= Latest(p) + Reach
  OBVIOUS
<1>4. x \in Nat /\ current[p] - MaxPrediction <= x
  BY MispredictedRecent
<1>5. x <= m.ack + Reach
  BY <1>2 DEF PacketFlow, Taken
<1>6. m.ack <= Latest(p)
  BY <1>1, <1>2, <1>3, PendingNumbers DEF PacketFlow, PairFlow
<1> QED
  BY <1>1, <1>3, <1>4, <1>5, <1>6, PendingNumbers

\* The ring with the inputs of a packet in it, at the frames of this window:
\* they are less than the ring apart.
LEMMA RingWithCell ==
  ASSUME TypeOK, FlowInv, HistoryFits, NEW m \in net, NEW p \in Players, m.dst = p,
         NEW g \in Nat, current[p] - MaxPrediction <= g, g <= Latest(p) + Reach
  PROVE  RingWith(p, m)[g % Ring] =
           IF g \in Taken(p, m)
           THEN WithInput(EntryFor(ring[p], g), m.src, m.inputs[g])
           ELSE ring[p][g % Ring]
<1> DEFINE c == g % Ring
           f == CHOOSE x \in Taken(p, m) : x % Ring = c
<1>1. c \in Cells
  BY CellOf
<1>2. CASE \E x \in Taken(p, m) : x % Ring = c
  <2>1. f \in Taken(p, m) /\ f % Ring = c
    BY <1>2
  <2>2. RingWith(p, m)[c] = WithInput(EntryFor(ring[p], f), m.src, m.inputs[f])
    BY <1>1, <1>2 DEF RingWith
  <2> HIDE DEF f
  <2>3. f = g
    <3>1. /\ f \in Nat /\ current[p] - MaxPrediction <= f /\ f <= Latest(p) + Reach
          /\ Reach = InputDelay + MaxPrediction
      BY <2>1, TakenBounds DEF Reach
    <3>2. f - g < Ring /\ g - f < Ring
      BY <3>1, PendingNumbers DEF HistoryFits
    <3> QED
      BY <2>1, <3>1, <3>2, OneFramePerCell
  <2> QED
    BY <2>1, <2>2, <2>3
<1>3. CASE ~ \E x \in Taken(p, m) : x % Ring = c
  BY <1>1, <1>3 DEF RingWith
<1> QED
  BY <1>2, <1>3

\* It holds the inputs of the packet, and what the ring held of the window.
LEMMA RingWithHolds ==
  ASSUME TypeOK, FlowInv, HistoryFits, NEW m \in net, NEW p \in Players, m.dst = p,
         NEW g \in Nat, current[p] - MaxPrediction <= g, g <= Latest(p) + Reach, NEW r,
         Holds(ring[p], r, g) \/ (g \in Taken(p, m) /\ r = m.src)
  PROVE  Holds(RingWith(p, m), r, g)
<1>1. CASE g \in Taken(p, m)
  <2>1. RingWith(p, m)[g % Ring] = WithInput(EntryFor(ring[p], g), m.src, m.inputs[g])
    BY <1>1, RingWithCell
  <2>2. EntryFor(ring[p], g).frame = g
    BY EntryForType DEF TypeOK
  <2>3. r = m.src \/ r \in EntryFor(ring[p], g).by
    BY EntryForHolds DEF Holds
  <2>4. RingWith(p, m)[g % Ring].frame = g /\ r \in RingWith(p, m)[g % Ring].by
    BY <2>1, <2>2, <2>3 DEF WithInput
  <2> QED
    BY <2>4 DEF Holds
<1>2. CASE g \notin Taken(p, m)
  BY <1>2, RingWithCell DEF Holds
<1> QED
  BY <1>1, <1>2

LEMMA IngestMask ==
  ASSUME TypeOK, FlowInv, PendingInv, HistoryFits, MaskMatches,
         NEW m \in net, NEW p \in Players, Ingest(p, m)
  PROVE  MaskMatches'
<1> DEFINE n == Incorrect(p, m)
           wrong == Mispredicted(p, m)
           old == first_incorrect[p]
<1>1. /\ m.dst = p /\ current' = current /\ m.src \in Players
      /\ first_incorrect' = [first_incorrect EXCEPT ![p] = n]
      /\ ring' = [ring EXCEPT ![p] = RingWith(p, m)]
      /\ mispredicted' = IF wrong = {} THEN mispredicted
                         ELSE [mispredicted EXCEPT ![p] = @ \cup {m.src}]
  <2>1. PacketOK(m)
    BY DEF TypeOK
  <2> QED
    BY <2>1 DEF Ingest, Incorrect, PacketOK, MaskWith
<1>2. /\ first_incorrect'[p] = n /\ ring'[p] = RingWith(p, m) /\ current'[p] = current[p]
      /\ mispredicted'[p] = IF wrong = {} THEN mispredicted[p]
                            ELSE mispredicted[p] \cup {m.src}
  BY <1>1 DEF TypeOK
<1>3. \A r \in Players \ {p} :
        /\ first_incorrect'[r] = first_incorrect[r] /\ ring'[r] = ring[r]
        /\ current'[r] = current[r] /\ mispredicted'[r] = mispredicted[r]
  BY <1>1 DEF TypeOK
<1>4. /\ n >= 0 => n \in Nat /\ current[p] - MaxPrediction <= n /\ n < current[p]
      /\ old >= 0 => 0 <= n /\ n <= old
      /\ \A f \in wrong : 0 <= n /\ n <= f
      /\ wrong = {} => n = old
  <2>1. wrong = {} => n = old
    BY DEF Incorrect
  <2> QED
    BY <1>1, <2>1, IncorrectRecent, PendingNumbers DEF Recent
<1>5. \A f \in wrong : f \in Nat /\ f \in Taken(p, m) /\ f < current[p]
                       /\ current[p] - MaxPrediction <= f
  BY <1>1, MispredictedRecent DEF Mispredicted
<1> HIDE DEF n, wrong
<1>6. (n >= 0) <=> (mispredicted'[p] # {})
  <2>1. (old >= 0) <=> (mispredicted[p] # {})
    BY DEF MaskMatches
  <2> QED
    BY <1>2, <1>4, <2>1
<1>7. ASSUME NEW q \in mispredicted'[p]
      PROVE  \E f \in n .. current[p] - 1 : Holds(RingWith(p, m), q, f)
  <2>1. CASE wrong # {} /\ q = m.src
    <3>1. PICK f \in wrong : TRUE
      BY <2>1
    <3>2. Holds(RingWith(p, m), q, f)
      BY <1>1, <1>5, <2>1, <3>1, RingWithHolds, TakenBounds
    <3>3. f \in n .. current[p] - 1
      BY <1>4, <1>5, <3>1, PendingNumbers
    <3> QED
      BY <3>2, <3>3
  <2>2. CASE q \in mispredicted[p]
    <3>1. PICK f \in old .. current[p] - 1 : Holds(ring[p], q, f)
      BY <2>2 DEF MaskMatches
    <3>2. old >= 0
      BY <2>2 DEF MaskMatches
    <3>3. f \in Nat /\ current[p] - MaxPrediction <= f /\ f < current[p] /\ n <= f
          /\ n \in Nat
      BY <1>4, <3>1, <3>2, PendingNumbers
    <3>4. f <= Latest(p) + Reach
      BY <3>3, CounterTypes, PendingNumbers
    <3>5. Holds(RingWith(p, m), q, f)
      BY <1>1, <3>1, <3>3, <3>4, RingWithHolds
    <3>6. f \in n .. current[p] - 1
      BY <3>3, PendingNumbers
    <3> QED
      BY <3>5, <3>6
  <2> QED
    BY <1>2, <1>7, <2>1, <2>2
<1>8. \A r \in Players \ {p} :
        /\ (first_incorrect[r] >= 0) <=> (mispredicted[r] # {})
        /\ \A q \in mispredicted[r] :
             \E f \in first_incorrect[r] .. current[r] - 1 : Holds(ring[r], q, f)
  BY DEF MaskMatches
<1>9. \A r \in Players :
        /\ (first_incorrect'[r] >= 0) <=> (mispredicted'[r] # {})
        /\ \A q \in mispredicted'[r] :
             \E f \in first_incorrect'[r] .. current'[r] - 1 : Holds(ring'[r], q, f)
  BY <1>2, <1>3, <1>6, <1>7, <1>8
<1> QED
  BY <1>9 DEF MaskMatches, Holds

LEMMA StartMask ==
  ASSUME TypeOK, PendingInv, MaskMatches, NEW p \in Players, Start(p)
  PROVE  MaskMatches'
<1>1. /\ current' = current /\ first_incorrect' = first_incorrect
      /\ mispredicted' = mispredicted
      /\ \A r \in Players \ {p} : ring'[r] = ring[r]
  BY DEF Start, TypeOK
<1>2. ~(first_incorrect[p] >= 0)
  <2>1. current[p] = 0 /\ first_incorrect[p] \in Int
    BY PendingNumbers DEF Start, PendingInv
  <2> QED
    BY <2>1 DEF PendingInv
<1> QED
  BY <1>1, <1>2, QuietMask

\* rollback_begin is told exactly the players whose inputs came late, as
\* long as the ring does not mix up the frames it has to keep.
THEOREM MaskAlwaysMatches ==
  ASSUME HashesTyped, HistoryFits
  PROVE  Spec => []MaskMatches
<1>1. Init => MaskMatches
  BY DEF Init, MaskMatches
<1>2. TypeOK /\ FlowInv /\ PendingInv /\ MaskMatches /\ [Next]_vars => MaskMatches'
  <2> SUFFICES ASSUME TypeOK, FlowInv, PendingInv, MaskMatches, [Next]_vars
               PROVE  MaskMatches'
    OBVIOUS
  <2>1. ASSUME NEW p \in Players, Start(p) PROVE MaskMatches'
    BY <2>1, StartMask
  <2>2. ASSUME NEW p \in Players, TickStall(p) \/ TickThrottle(p) PROVE MaskMatches'
    BY <2>2, TickMask
  <2>3. ASSUME NEW p \in Players, NEW v \in Plays[p], TickAdvance(p, v)
        PROVE  MaskMatches'
    BY <2>3, TickMask, ConfigAssumption
  <2>4. ASSUME NEW p \in Players, SimDies(p) \/ SetInputCount(p) PROVE MaskMatches'
    BY <2>4, QuietMask DEF SimDies, SetInputCount
  <2>5. ASSUME NEW p \in Players, NEW q \in Players, Send(p, q) PROVE MaskMatches'
    BY <2>5, QuietMask DEF Send, sessionVars
  <2>6. ASSUME NEW m \in net, Lose(m) PROVE MaskMatches'
    BY <2>6, QuietMask DEF Lose, sessionVars
  <2>7. ASSUME NEW m \in net, NEW p \in Players, Ingest(p, m) PROVE MaskMatches'
    BY <2>7, IngestMask
  <2>8. ASSUME NEW m \in net, NEW p \in Players, IngestIncompatible(p, m)
        PROVE  MaskMatches'
    BY <2>8, QuietMask DEF IngestIncompatible
  <2>9. CASE UNCHANGED vars
    BY <2>9, QuietMask DEF vars
  <2> QED
    BY <2>1, <2>2, <2>3, <2>4, <2>5, <2>6, <2>7, <2>8, <2>9 DEF Next
<1> QED
  BY <1>1, <1>2, TypeCorrect, FlowInvariant, PendingInvariant, PTL DEF Spec

-----------------------------------------------------------------------------
(* What one packet makes up for. *)

\* The confirm loop of ingest_packet cannot stop within a packet: the next
\* frame would be one that was just taken.
LEMMA IngestTakesAll ==
  ASSUME WindowFits, TypeOK, FlowInv, JoinInv, NEW m \in net, NEW p \in Players,
         Ingest(p, m)
  PROVE  \A f \in DOMAIN m.inputs : f <= confirmed'[p][m.src]
<1> DEFINE q == m.src
           c == confirmed[p][q]
<1>1. /\ q \in Players /\ q \in Remotes(p) /\ p \in Remotes(q) /\ m.dst = p
      /\ m.start \in Int /\ m.ack \in Int
      /\ \A f \in DOMAIN m.inputs : f \in Nat
  <2>1. PacketOK(m)
    BY DEF TypeOK
  <2> QED
    BY <2>1 DEF Ingest, PacketOK, Frame, Remotes
<1>2. PICK n \in c .. c + Ring :
        /\ ContiguousUpTo(RingWith(p, m), q, c, n)
        /\ confirmed' = [confirmed EXCEPT ![p] = [confirmed[p] EXCEPT ![q] = n]]
  BY DEF Ingest
<1>3. confirmed'[p][q] = n
  BY <1>1, <1>2 DEF TypeOK
<1>4. c \in Int /\ -1 <= c /\ n \in Int /\ c <= n
  BY <1>1, <1>2, CounterTypes
<1>5. /\ m.start <= c + 1
      /\ \A f \in DOMAIN m.inputs : m.start .. f \subseteq DOMAIN m.inputs
  BY <1>1 DEF JoinInv, PacketJoins
<1> SUFFICES ASSUME NEW f \in DOMAIN m.inputs, n < f PROVE FALSE
  BY <1>1, <1>3, <1>4
<1> DEFINE g == n + 1
<1>6. g \in Nat /\ c < g /\ g <= f /\ g \in DOMAIN m.inputs
  <2>1. g \in m.start .. f
    BY <1>1, <1>4, <1>5
  <2> QED
    BY <1>1, <1>4, <1>5, <2>1
<1>7. m.ack <= Latest(p)
  <2>1. PacketFlow(m) /\ PairFlow(q, p)
    BY <1>1 DEF FlowInv
  <2> QED
    BY <1>1, <2>1, CounterTypes DEF PacketFlow, PairFlow
<1>8. g <= Latest(p) + Reach
  <2>1. g <= m.ack + Reach
    BY <1>6 DEF FlowInv, PacketFlow
  <2> QED
    BY <1>1, <1>4, <1>7, <2>1, CounterTypes
<1>9. g \in Taken(p, m)
  <2>1. Reach = InputDelay + MaxPrediction /\ Reach <= Ring \div 2 /\ Ring \div 2 \in Nat
    BY WindowWithinRing, PendingNumbers DEF HistoryFits, Reach
  <2>2. g <= FarHorizon(p)
    BY <1>4, <1>8, <2>1, PendingNumbers DEF FarHorizon
  <2> QED
    BY <1>6, <2>2 DEF Taken
<1>10. current[p] - MaxPrediction <= g
  BY <1>1, <1>9, TakenBounds
<1>11. Holds(RingWith(p, m), q, g)
  BY <1>1, <1>6, <1>8, <1>9, <1>10, WindowWithinRing, RingWithHolds
<1> QED
  BY <1>2, <1>11 DEF ContiguousUpTo

\* A step of the sessions within the invariants that bound the packets.
LEMMA BoundedSteps ==
  ASSUME HashesTyped, WindowFits
  PROVE  Spec => [][TypeOK /\ FlowInv /\ JoinInv]_vars
BY TypeCorrect, FlowInvariant, PacketsAlwaysJoin, PTL

\* With the resend window of ResendCovered, whatever was lost, repeated or
\* overtaken before it, ingest_packet confirms all that a packet carries.
THEOREM TakenAlwaysWhole ==
  ASSUME HashesTyped, WindowFits PROVE Spec => TakenWhole
<1>1. TypeOK /\ FlowInv /\ JoinInv =>
        \A p \in Players : \A m \in net : Ingest(p, m) =>
          \A f \in DOMAIN m.inputs : f <= confirmed'[p][m.src]
  BY IngestTakesAll
<1> QED
  BY <1>1, BoundedSteps, PTL DEF TakenWhole

\* The newest packet of a remote that is no slower ends a stall.
LEMMA NewestReleases ==
  ASSUME WindowFits, TypeOK, FlowInv, JoinInv, NEW p \in Players, NEW q \in Remotes(p),
         current[p] <= current[q], PacketTo(q, p) \in net, Ingest(p, PacketTo(q, p))
  PROVE  current[p] - (confirmed'[p][q] + 1) < MaxPrediction
<1> DEFINE m == PacketTo(q, p)
<1>1. /\ m.src = q /\ m.start = FirstSent(q)
      /\ DOMAIN m.inputs = FirstSent(q) .. Latest(q)
  BY DEF PacketTo
<1>2. q \in Players /\ Remotes(q) # {} /\ p \in Remotes(q)
  BY DEF Remotes
<1>3. /\ FirstSent(q) \in Int /\ Latest(q) \in Int
      /\ current[p] \in Nat /\ current[q] \in Nat /\ confirmed[p][q] \in Int
  BY <1>2, FirstSentBounds, CounterTypes
<1>4. PICK n : /\ n \in confirmed[p][q] .. confirmed[p][q] + Ring
               /\ confirmed' = [confirmed EXCEPT ![p] = [confirmed[p] EXCEPT ![q] = n]]
  BY <1>1 DEF Ingest
<1>5. confirmed'[p][q] = n /\ n \in Int /\ confirmed[p][q] <= n
  BY <1>2, <1>3, <1>4, PendingNumbers DEF TypeOK
<1>6. FirstSent(q) <= confirmed[p][q] + 1
  BY <1>1 DEF JoinInv, PacketJoins, PacketTo
<1>7. Latest(q) <= n
  <2>1. CASE FirstSent(q) <= Latest(q)
    <3>1. Latest(q) \in DOMAIN m.inputs
      BY <1>1, <1>3, <2>1
    <3> QED
      BY <1>1, <1>5, <3>1, IngestTakesAll
  <2>2. CASE Latest(q) < FirstSent(q)
    BY <1>3, <1>5, <1>6, <2>2
  <2> QED
    BY <1>3, <2>1, <2>2
<1> QED
  BY <1>2, <1>3, <1>5, <1>7, PendingNumbers

\* The slowest peer is never stalled by a remote whose newest packet it has
\* taken: there is always somebody for whom one more delivery is enough, and
\* no deadlock in which all wait for each other.
THEOREM SlowestAlwaysReleased ==
  ASSUME HashesTyped, WindowFits PROVE Spec => SlowestReleased
<1>1. TypeOK /\ FlowInv /\ JoinInv =>
        \A p \in Players : (\A r \in Players : current[p] <= current[r]) =>
          \A q \in Remotes(p) :
            PacketTo(q, p) \in net /\ Ingest(p, PacketTo(q, p)) =>
              current[p] - (confirmed'[p][q] + 1) < MaxPrediction
  BY NewestReleases DEF Remotes
<1> QED
  BY <1>1, BoundedSteps, PTL DEF SlowestReleased
=============================================================================
