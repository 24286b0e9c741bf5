--------------------------- MODULE LockstepProofs ---------------------------
(***************************************************************************)
(* What a peer takes as final is what lockstep would have computed, what   *)
(* is final stays final, and a desync is reported only where simulations   *)
(* really differ: for any number of players, any inputs and any network    *)
(* behaviour, as long as the ring is large enough.  Where saving, loading  *)
(* or stepping fail at some peers, the others are as good as ever.         *)
(***************************************************************************)
EXTENDS SnapshotProofs, RollbackRefinement

\* Saving and loading never fail, and step_frame always steps.
NothingFails == MayFailSave = {} /\ MayFailLoad = {} /\ MayStop = {}

-----------------------------------------------------------------------------
(* States. *)

LEMMA UpToState ==
  ASSUME NEW s \in SimState, NEW n \in 0 .. Len(s)
  PROVE  /\ UpTo(s, n) \in SimState /\ Len(UpTo(s, n)) = n
         /\ \A i \in 1 .. n : UpTo(s, n)[i] = s[i]
         /\ n = Len(s) => UpTo(s, n) = s
<1>1. \A i \in 1 .. n : s[i] \in Inputs
  BY DEF SimState
<1>2. UpTo(s, n) \in [1 .. n -> Inputs]
  BY <1>1 DEF UpTo
<1>3. n = Len(s) => UpTo(s, n) = s
  BY DEF UpTo, SimState
<1> QED
  BY <1>2, <1>3 DEF UpTo, SimState

\* States that agree as far as n.
LEMMA SameUpTo ==
  ASSUME NEW s, NEW t, NEW n, \A i \in 1 .. n : s[i] = t[i]
  PROVE  UpTo(s, n) = UpTo(t, n)
BY DEF UpTo

LEMMA SimulateStates ==
  ASSUME NEW p \in Players, NEW h, HostOK(h), NEW last \in Inputs,
         NEW from \in Nat, NEW to \in Nat, from <= to, NEW saved, stepping[p],
         Len(h.sim) = from
  PROVE  LET t == Simulate(p, h, last, from, to, saved).sim IN
         /\ t \in SimState /\ Len(t) = to
         /\ \A i \in 1 .. from : t[i] = h.sim[i]
         /\ \A f \in from .. to - 1 : t[f + 1] = InputsFor(h.ring, last, f)
<1> DEFINE Used(f) == InputsFor(h.ring, last, f)
           u == [i \in 1 .. to - from |-> Used(from + i - 1)]
           t == Simulate(p, h, last, from, to, saved).sim
<1>1. h.sim \in Seq(Inputs) /\ h.ring \in [Cells -> FrameEntry]
  BY DEF HostOK, SimState
<1>2. \A i \in 1 .. to - from : Used(from + i - 1) \in Inputs
  BY <1>1, InputsForType
<1>3. t = h.sim \o u
  BY DEF Simulate
<1>4. u \in Seq(Inputs) /\ Len(u) = to - from /\ to - from \in Nat
  BY <1>2
<1>5. \A i \in 1 .. to - from : u[i] = Used(from + i - 1)
  OBVIOUS
<1> HIDE DEF u, t
<1>6. /\ t \in Seq(Inputs) /\ Len(t) = Len(h.sim) + Len(u)
      /\ \A i \in 1 .. Len(h.sim) + Len(u) :
            t[i] = IF i <= Len(h.sim) THEN h.sim[i] ELSE u[i - Len(h.sim)]
  BY <1>1, <1>3, <1>4, ConcatProperties
<1>7. t \in Seq(Inputs) /\ Len(t) = to
  BY <1>4, <1>6
<1>8. \A i \in 1 .. to : t[i] = IF i <= from THEN h.sim[i] ELSE u[i - from]
  BY <1>4, <1>6
<1>9. \A i \in 1 .. from : t[i] = h.sim[i]
  BY <1>8
<1>10. ASSUME NEW f \in from .. to - 1 PROVE t[f + 1] = Used(f)
  <2>1. f + 1 - from \in 1 .. to - from /\ f + 1 \in from + 1 .. to
    OBVIOUS
  <2>2. t[f + 1] = u[f + 1 - from]
    BY <1>8, <2>1
  <2>3. from + (f + 1 - from) - 1 = f
    OBVIOUS
  <2> QED
    BY <1>5, <2>1, <2>2, <2>3
<1> QED
  BY <1>7, <1>9, <1>10 DEF t, SimState

\* The states on the way are those of the state that is reached.
LEMMA SimulatePrefix ==
  ASSUME NEW p \in Players, NEW h, HostOK(h), NEW last \in Inputs,
         NEW from \in Nat, NEW to \in Nat, from <= to, NEW saved, stepping[p],
         Len(h.sim) = from, NEW f \in from .. to
  PROVE  Simulate(p, h, last, from, f, saved).sim =
           UpTo(Simulate(p, h, last, from, to, saved).sim, f)
<1> DEFINE t == Simulate(p, h, last, from, to, saved).sim
           s == Simulate(p, h, last, from, f, saved).sim
<1>1. f \in Nat /\ from <= f
  OBVIOUS
<1>2. /\ s \in SimState /\ Len(s) = f
      /\ \A i \in 1 .. from : s[i] = h.sim[i]
      /\ \A x \in from .. f - 1 : s[x + 1] = InputsFor(h.ring, last, x)
  BY <1>1, SimulateStates
<1>3. /\ t \in SimState /\ Len(t) = to
      /\ \A i \in 1 .. from : t[i] = h.sim[i]
      /\ \A x \in from .. to - 1 : t[x + 1] = InputsFor(h.ring, last, x)
  BY SimulateStates
<1> HIDE DEF s, t
<1>4. ASSUME NEW i \in 1 .. f PROVE s[i] = t[i]
  <2>1. CASE i <= from
    BY <1>2, <1>3, <2>1
  <2>2. CASE from < i
    <3>1. i - 1 \in from .. f - 1 /\ i - 1 \in from .. to - 1 /\ (i - 1) + 1 = i
      BY <2>2
    <3> QED
      BY <1>2, <1>3, <3>1
  <2> QED
    BY <2>1, <2>2
<1>5. UpTo(s, f) = s
  BY <1>1, <1>2, UpToState
<1>6. s = UpTo(t, f)
  BY <1>4, <1>5, SameUpTo
<1> QED
  BY <1>6 DEF s, t

\* What a frame loop leaves in the tables: one cell per frame, and every
\* other cell as it was.
RingSimulated(new, h, last, from, to) ==
  /\ \A f \in from .. to - 1 : new[f % Ring] =
       [frame |-> f, input |-> InputsFor(h.ring, last, f),
        by |-> EntryFor(h.ring, f).by]
  /\ \A c \in Cells : (\A f \in from .. to - 1 : f % Ring # c) => new[c] = h.ring[c]

LEMMA SimulateRing ==
  ASSUME NEW p \in Players, NEW h, HostOK(h), NEW last \in Inputs,
         NEW from \in Nat, NEW to \in Nat, to - from <= MaxPrediction, NEW saved
  PROVE  RingSimulated(Simulate(p, h, last, from, to, saved).ring, h, last, from, to)
<1> DEFINE run == from .. to - 1
           Made(f) == [frame |-> f, input |-> InputsFor(h.ring, last, f),
                       by |-> EntryFor(h.ring, f).by]
           Cell(c) == IF \E f \in run : f % Ring = c
                      THEN Made(CHOOSE g \in run : g % Ring = c) ELSE h.ring[c]
           new == Simulate(p, h, last, from, to, saved).ring
<1>1. new = [c \in Cells |-> Cell(c)]
  BY DEF Simulate
<1>2. ASSUME NEW f \in run PROVE f % Ring \in Cells /\ Cell(f % Ring) = Made(f)
  <2> DEFINE g == CHOOSE x \in run : x % Ring = f % Ring
  <2>1. f \in Int /\ f % Ring \in Cells
    BY CellOf
  <2>2. g \in run /\ g % Ring = f % Ring
    OBVIOUS
  <2>3. Cell(f % Ring) = Made(g)
    OBVIOUS
  <2> HIDE DEF g, Made, Cell
  <2>4. g \in Int /\ f - g < Ring /\ g - f < Ring
    BY <2>2, ConfigAssumption
  <2>5. f = g
    BY <2>1, <2>2, <2>4, OneFramePerCell
  <2> QED
    BY <2>1, <2>3, <2>5
<1>3. \A c \in Cells : (\A f \in run : f % Ring # c) => Cell(c) = h.ring[c]
  OBVIOUS
<1> HIDE DEF new, Cell
<1>4. /\ \A f \in run : new[f % Ring] = Made(f)
      /\ \A c \in Cells : (\A f \in run : f % Ring # c) => new[c] = h.ring[c]
  BY <1>1, <1>2, <1>3
<1> QED
  BY <1>4 DEF new, RingSimulated

LEMMA SimulateHashes ==
  ASSUME HashesTyped, NEW p \in Players, NEW h, HostOK(h), NEW last \in Inputs,
         NEW from \in Nat, NEW to \in Nat, from <= to, to - from <= MaxPrediction,
         NEW saved, stepping[p], Len(h.sim) = from
  PROVE  LET new == Simulate(p, h, last, from, to, saved) IN
         /\ \A f \in from + 1 .. to : new.hashes[f % Ring] =
              [frame |-> f, hash |-> Hash(p, UpTo(new.sim, f))]
         /\ \A c \in Cells :
              (\A f \in from + 1 .. to : f % Ring # c) => new.hashes[c] = h.hashes[c]
<1> DEFINE After(f) == Simulate(p, h, last, from, f, saved).sim
           reached == from + 1 .. to
           Made(f) == [frame |-> f, hash |-> Hash(p, After(f))]
           Entry(c) == IF \E f \in reached : f % Ring = c
                       THEN Made(CHOOSE g \in reached : g % Ring = c) ELSE h.hashes[c]
           new == Simulate(p, h, last, from, to, saved)
<1>1. new.hashes = [c \in Cells |-> Entry(c)]
  BY DEF Simulate
<1>2. \A f \in reached : After(f) = UpTo(new.sim, f)
  <2> SUFFICES ASSUME NEW f \in reached PROVE After(f) = UpTo(new.sim, f)
    OBVIOUS
  <2>1. f \in from .. to
    OBVIOUS
  <2> QED
    BY <2>1, SimulatePrefix
<1> HIDE DEF After
<1>3. ASSUME NEW f \in reached PROVE f % Ring \in Cells /\ Entry(f % Ring) = Made(f)
  <2> DEFINE g == CHOOSE x \in reached : x % Ring = f % Ring
  <2>1. f \in Int /\ f % Ring \in Cells
    BY CellOf
  <2>2. g \in reached /\ g % Ring = f % Ring
    OBVIOUS
  <2>3. Entry(f % Ring) = Made(g)
    OBVIOUS
  <2> HIDE DEF g, Made, Entry
  <2>4. g \in Int /\ f - g < Ring /\ g - f < Ring
    BY <2>2, ConfigAssumption
  <2>5. f = g
    BY <2>1, <2>2, <2>4, OneFramePerCell
  <2> QED
    BY <2>1, <2>3, <2>5
<1>4. \A c \in Cells : (\A f \in reached : f % Ring # c) => Entry(c) = h.hashes[c]
  OBVIOUS
<1> HIDE DEF Entry, new
<1>5. /\ \A f \in reached : new.hashes[f % Ring] = Made(f)
      /\ \A c \in Cells :
           (\A f \in reached : f % Ring # c) => new.hashes[c] = h.hashes[c]
  BY <1>1, <1>3, <1>4
<1>6. \A f \in reached : Made(f) = [frame |-> f, hash |-> Hash(p, UpTo(new.sim, f))]
  BY <1>2
<1> HIDE DEF Made
<1> QED
  BY <1>5, <1>6 DEF new

LEMMA SimulateSlots ==
  ASSUME NEW p \in Players, NEW h, HostOK(h), NEW last \in Inputs,
         NEW from \in Nat, NEW to \in Nat, from <= to, to - from <= MaxPrediction,
         NEW saved, from + 1 .. to \subseteq saved, stepping[p], Len(h.sim) = from
  PROVE  LET new == Simulate(p, h, last, from, to, saved) IN
         /\ \A f \in from + 1 .. to : new.slots[f % SnapshotSlots] = UpTo(new.sim, f)
         /\ \A f \in to - MaxPrediction .. from :
              new.slots[f % SnapshotSlots] = h.slots[f % SnapshotSlots]
<1> DEFINE After(f) == Simulate(p, h, last, from, f, saved).sim
           reached == from + 1 .. to
           Hits(s) == {f \in reached : f % SnapshotSlots = s}
           Slot(s) == IF Hits(s) = {} THEN h.slots[s]
                      ELSE IF Max(Hits(s)) \in saved THEN After(Max(Hits(s)))
                      ELSE NoSnapshot
           new == Simulate(p, h, last, from, to, saved)
<1>1. new.slots = [s \in 0 .. SnapshotSlots - 1 |-> Slot(s)]
  BY DEF Simulate
<1>2. \A f \in reached : After(f) = UpTo(new.sim, f)
  <2> SUFFICES ASSUME NEW f \in reached PROVE After(f) = UpTo(new.sim, f)
    OBVIOUS
  <2>1. f \in from .. to
    OBVIOUS
  <2> QED
    BY <2>1, SimulatePrefix
<1>3. MaxPrediction \in Nat /\ MaxPrediction < SnapshotSlots /\ SnapshotSlots \in Nat
  BY ConfigAssumption
<1> HIDE DEF After
<1>4. ASSUME NEW f \in reached
      PROVE  f % SnapshotSlots \in 0 .. SnapshotSlots - 1 /\ Slot(f % SnapshotSlots) = After(f)
  <2>1. f \in Int /\ f % SnapshotSlots \in 0 .. SnapshotSlots - 1
    <3>1. f \in Int
      OBVIOUS
    <3> QED
      BY <3>1, SlotOf, Zenon
  <2>2. \A g \in reached : g % SnapshotSlots = f % SnapshotSlots => g = f
    <3> TAKE g \in reached
    <3>1. g \in Int /\ f - g < SnapshotSlots /\ g - f < SnapshotSlots
      BY <1>3
    <3> QED
      BY <2>1, <3>1, Apart
  <2>3. Hits(f % SnapshotSlots) = {f}
    BY <2>2
  <2>4. Max({f}) = f
    <3>1. {f} \subseteq Int /\ {f} # {} /\ \A x \in {f} : x <= f
      BY <2>1
    <3>2. Max({f}) \in {f}
      BY <2>1, <3>1, BoundedMax
    <3> QED
      BY <3>2
  <2> QED
    BY <2>1, <2>3, <2>4
<1>5. ASSUME NEW f \in to - MaxPrediction .. from
      PROVE  /\ f % SnapshotSlots \in 0 .. SnapshotSlots - 1
             /\ Slot(f % SnapshotSlots) = h.slots[f % SnapshotSlots]
  <2>1. f \in Int
    BY <1>3
  <2>2. f % SnapshotSlots \in 0 .. SnapshotSlots - 1
    BY <2>1, SlotOf
  <2>3. \A g \in reached : g % SnapshotSlots # f % SnapshotSlots
    <3> TAKE g \in reached
    <3>1. g \in Int /\ f - g < SnapshotSlots /\ g - f < SnapshotSlots /\ g # f
      BY <1>3
    <3> QED
      BY <2>1, <3>1, Apart
  <2> QED
    BY <2>2, <2>3
<1> HIDE DEF Slot, new
<1>6. /\ \A f \in reached : new.slots[f % SnapshotSlots] = UpTo(new.sim, f)
      /\ \A f \in to - MaxPrediction .. from :
           new.slots[f % SnapshotSlots] = h.slots[f % SnapshotSlots]
  BY <1>1, <1>2, <1>4, <1>5
<1> QED
  BY <1>6 DEF new

-----------------------------------------------------------------------------
(* What simulating makes of the history of a host. *)

LEMMA ScheduleNumbers == /\ MaxPrediction \in Nat \ {0} /\ Ring \in Nat \ {0}
                         /\ InputDelay \in Nat /\ MaxPrediction < Ring
                         /\ MaxPrediction < SnapshotSlots
                         /\ SnapshotSlots \in Nat \ {0}
BY ConfigAssumption

LEMMA SimulateKnown ==
  ASSUME NEW p \in Players, NEW h, HostOK(h), NEW last \in Inputs,
         NEW from \in Nat, NEW to \in Nat, from <= to, to - from <= MaxPrediction,
         NEW saved, NEW conf,
         \A q \in Players : conf[q] \in Int /\ conf[q] + MaxPrediction < to + Ring,
         KnownThere(h, to, conf)
  PROVE  KnownThere(Simulate(p, h, last, from, to, saved), to, conf)
<1> DEFINE new == Simulate(p, h, last, from, to, saved)
<1>1. /\ \A f \in from .. to - 1 : new.ring[f % Ring] =
           [frame |-> f, input |-> InputsFor(h.ring, last, f),
            by |-> EntryFor(h.ring, f).by]
      /\ \A c \in Cells : (\A f \in from .. to - 1 : f % Ring # c)
                            => new.ring[c] = h.ring[c]
  <2>1. RingSimulated(new.ring, h, last, from, to)
    BY SimulateRing
  <2> QED
    BY <2>1 DEF RingSimulated
<1> HIDE DEF new
<1>2. ASSUME NEW q \in Players, NEW f \in 0 .. conf[q], to - MaxPrediction <= f
      PROVE  Holds(new.ring, q, f)
  <2>1. Holds(h.ring, q, f)
    BY <1>2 DEF KnownThere
  <2>2. f \in Int /\ f % Ring \in Cells
    BY CellOf
  <2>3. CASE f \in from .. to - 1
    <3>1. q \in EntryFor(h.ring, f).by
      BY <2>1, EntryForHolds DEF Holds
    <3>2. new.ring[f % Ring] = [frame |-> f, input |-> InputsFor(h.ring, last, f),
                                by |-> EntryFor(h.ring, f).by]
      BY <1>1, <2>3
    <3> QED
      BY <3>1, <3>2 DEF Holds
  <2>4. CASE f \notin from .. to - 1
    <3>1. ASSUME NEW g \in from .. to - 1 PROVE g % Ring # f % Ring
      <4>1. g \in Int /\ f - g < Ring /\ g - f < Ring /\ g # f
        BY <1>2, <2>4, ScheduleNumbers
      <4> QED
        BY <2>2, <4>1, OneFramePerCell
    <3> QED
      BY <1>1, <2>1, <2>2, <3>1 DEF Holds
  <2> QED
    BY <2>3, <2>4
<1>3. KnownThere(new, to, conf)
  BY <1>2 DEF KnownThere
<1> QED
  BY <1>3 DEF new

LEMMA SimulateIssued ==
  ASSUME NEW p \in Players, NEW h, HostOK(h), NEW last \in Inputs,
         NEW from \in Nat, NEW to \in Nat, to - from <= MaxPrediction, NEW saved,
         NEW all, IssuedThere(h, all)
  PROVE  IssuedThere(Simulate(p, h, last, from, to, saved), all)
<1> DEFINE new == Simulate(p, h, last, from, to, saved)
<1>1. /\ \A f \in from .. to - 1 : new.ring[f % Ring] =
           [frame |-> f, input |-> InputsFor(h.ring, last, f),
            by |-> EntryFor(h.ring, f).by]
      /\ \A c \in Cells : (\A f \in from .. to - 1 : f % Ring # c)
                            => new.ring[c] = h.ring[c]
  <2>1. RingSimulated(new.ring, h, last, from, to)
    BY SimulateRing
  <2> QED
    BY <2>1 DEF RingSimulated
<1> HIDE DEF new
<1>2. ASSUME NEW c \in Cells, NEW q \in new.ring[c].by
      PROVE  /\ 0 <= new.ring[c].frame /\ new.ring[c].frame < Len(all[q])
             /\ new.ring[c].input[q] = all[q][new.ring[c].frame + 1]
  <2>1. CASE \A f \in from .. to - 1 : f % Ring # c
    BY <1>1, <1>2, <2>1 DEF IssuedThere
  <2>2. ASSUME NEW f \in from .. to - 1, f % Ring = c
        PROVE  /\ 0 <= new.ring[c].frame /\ new.ring[c].frame < Len(all[q])
               /\ new.ring[c].input[q] = all[q][new.ring[c].frame + 1]
    <3>1. new.ring[c] = [frame |-> f, input |-> InputsFor(h.ring, last, f),
                         by |-> EntryFor(h.ring, f).by]
      BY <1>1, <2>2
    <3>2. q \in EntryFor(h.ring, f).by
      BY <1>2, <3>1
    <3>3. q \in h.ring[c].by /\ h.ring[c].frame = f
      BY <2>2, <3>2, EntryForKnows
    <3>4. EntryFor(h.ring, f) = h.ring[c]
      BY <2>2, <3>3 DEF EntryFor
    <3>5. /\ 0 <= f /\ f < Len(all[q])
          /\ h.ring[c].input[q] = all[q][f + 1] /\ q \in Players
      <4>1. h.ring[c].by \subseteq Players
        BY DEF HostOK, FrameEntry
      <4> QED
        BY <3>3, <4>1 DEF IssuedThere
    <3>6. InputsFor(h.ring, last, f)[q] = h.ring[c].input[q]
      BY <3>2, <3>4, <3>5 DEF InputsFor
    <3> QED
      BY <3>1, <3>5, <3>6
  <2> QED
    BY <2>1, <2>2
<1>3. IssuedThere(new, all)
  BY <1>2 DEF IssuedThere
<1> QED
  BY <1>3 DEF new

LEMMA SimulateSimulated ==
  ASSUME NEW p \in Players, NEW h, HostOK(h), NEW last \in Inputs,
         NEW from \in Nat, NEW to \in Nat, from <= to, to - from <= MaxPrediction,
         NEW saved, stepping[p], Len(h.sim) = from, NEW all,
         SimulatedThere(h, from, to, all)
  PROVE  SimulatedThere(Simulate(p, h, last, from, to, saved), to, to, all)
<1> DEFINE new == Simulate(p, h, last, from, to, saved)
<1>1. /\ \A f \in from .. to - 1 : new.ring[f % Ring] =
           [frame |-> f, input |-> InputsFor(h.ring, last, f),
            by |-> EntryFor(h.ring, f).by]
      /\ \A c \in Cells : (\A f \in from .. to - 1 : f % Ring # c)
                            => new.ring[c] = h.ring[c]
  <2>1. RingSimulated(new.ring, h, last, from, to)
    BY SimulateRing
  <2> QED
    BY <2>1 DEF RingSimulated
<1>2. /\ \A i \in 1 .. from : new.sim[i] = h.sim[i]
      /\ \A f \in from .. to - 1 : new.sim[f + 1] = InputsFor(h.ring, last, f)
  BY SimulateStates
<1> HIDE DEF new
<1>3. ASSUME NEW f \in 0 .. to - 1, f < to - MaxPrediction PROVE Final(new.sim, f, all)
  <2>1. f \in 0 .. from - 1 /\ f + 1 \in 1 .. from
    BY <1>3, ScheduleNumbers
  <2>2. Final(h.sim, f, all)
    BY <1>3, <2>1 DEF SimulatedThere
  <2> QED
    BY <1>2, <2>1, <2>2 DEF Final
<1>4. ASSUME NEW f \in 0 .. to - 1, to - MaxPrediction <= f
      PROVE  new.ring[f % Ring].frame = f /\ new.ring[f % Ring].input = new.sim[f + 1]
  <2>1. CASE f \in from .. to - 1
    <3>1. new.ring[f % Ring] = [frame |-> f, input |-> InputsFor(h.ring, last, f),
                                by |-> EntryFor(h.ring, f).by]
      BY <1>1, <2>1
    <3>2. new.sim[f + 1] = InputsFor(h.ring, last, f)
      BY <1>2, <2>1
    <3> QED
      BY <3>1, <3>2
  <2>2. CASE f \notin from .. to - 1
    <3>1. f \in Int /\ f % Ring \in Cells
      BY CellOf
    <3>2. f \in 0 .. from - 1 /\ f + 1 \in 1 .. from
      BY <2>2
    <3>3. ASSUME NEW g \in from .. to - 1 PROVE g % Ring # f % Ring
      <4>1. g \in Int /\ f - g < Ring /\ g - f < Ring /\ g # f
        BY <1>4, <3>2, ScheduleNumbers
      <4> QED
        BY <3>1, <4>1, OneFramePerCell
    <3>4. h.ring[f % Ring].frame = f /\ h.ring[f % Ring].input = h.sim[f + 1]
      BY <1>4, <3>2 DEF SimulatedThere
    <3> QED
      BY <1>1, <1>2, <3>1, <3>2, <3>3, <3>4
  <2> QED
    BY <2>1, <2>2
<1>5. SimulatedThere(new, to, to, all)
  BY <1>3, <1>4 DEF SimulatedThere
<1> QED
  BY <1>5 DEF new

LEMMA SimulateSaved ==
  ASSUME NEW p \in Players, NEW h, HostOK(h), NEW last \in Inputs,
         NEW from \in Nat, NEW to \in Nat, from <= to, to - from <= MaxPrediction,
         NEW saved, from + 1 .. to \subseteq saved, stepping[p], Len(h.sim) = from,
         SavedThere(h, from, to)
  PROVE  SavedThere(Simulate(p, h, last, from, to, saved), to, to)
<1> DEFINE new == Simulate(p, h, last, from, to, saved)
<1>1. /\ \A f \in from + 1 .. to : new.slots[f % SnapshotSlots] = UpTo(new.sim, f)
      /\ \A f \in to - MaxPrediction .. from :
           new.slots[f % SnapshotSlots] = h.slots[f % SnapshotSlots]
  BY SimulateSlots, SMTT(60)
<1>2. \A i \in 1 .. from : new.sim[i] = h.sim[i]
  BY SimulateStates
<1> HIDE DEF new
<1>3. ASSUME NEW f \in 0 .. to, to - MaxPrediction <= f
      PROVE  new.slots[f % SnapshotSlots] = UpTo(new.sim, f)
  <2>1. CASE f \in from + 1 .. to
    BY <1>1, <2>1
  <2>2. CASE f \notin from + 1 .. to
    <3>1. f \in 0 .. from /\ f \in to - MaxPrediction .. from
      BY <1>3, <2>2, ScheduleNumbers
    <3>2. \A i \in 1 .. f : new.sim[i] = h.sim[i]
      BY <1>2, <3>1
    <3>3. UpTo(new.sim, f) = UpTo(h.sim, f)
      BY <3>2, SameUpTo
    <3> QED
      BY <1>1, <1>3, <3>1, <3>3 DEF SavedThere
  <2> QED
    BY <2>1, <2>2
<1>4. SavedThere(new, to, to)
  BY <1>3 DEF SavedThere
<1> QED
  BY <1>4 DEF new

LEMMA SimulateHashed ==
  ASSUME HashesTyped, NEW p \in Players, NEW h, HostOK(h), NEW last \in Inputs,
         NEW from \in Nat, NEW to \in Nat, from <= to, to - from <= MaxPrediction,
         NEW saved, stepping[p], Len(h.sim) = from, HashedThere(p, h, from, to)
  PROVE  HashedThere(p, Simulate(p, h, last, from, to, saved), to, to)
<1> DEFINE new == Simulate(p, h, last, from, to, saved)
<1>1. /\ \A f \in from + 1 .. to : new.hashes[f % Ring] =
           [frame |-> f, hash |-> Hash(p, UpTo(new.sim, f))]
      /\ \A c \in Cells :
           (\A f \in from + 1 .. to : f % Ring # c) => new.hashes[c] = h.hashes[c]
  BY SimulateHashes
<1>2. \A i \in 1 .. from : new.sim[i] = h.sim[i]
  BY SimulateStates
<1> HIDE DEF new
<1>3. ASSUME NEW c \in Cells, 0 <= new.hashes[c].frame
      PROVE  /\ new.hashes[c].frame <= to /\ new.hashes[c].frame % Ring = c
             /\ new.hashes[c].hash = Hash(p, UpTo(new.sim, new.hashes[c].frame))
  <2>1. ASSUME NEW f \in from + 1 .. to, f % Ring = c
        PROVE  /\ new.hashes[c].frame <= to /\ new.hashes[c].frame % Ring = c
               /\ new.hashes[c].hash = Hash(p, UpTo(new.sim, new.hashes[c].frame))
    <3>1. new.hashes[c] = [frame |-> f, hash |-> Hash(p, UpTo(new.sim, f))]
      BY <1>1, <2>1
    <3> QED
      BY <2>1, <3>1
  <2>2. CASE \A f \in from + 1 .. to : f % Ring # c
    <3> DEFINE e == h.hashes[c]
    <3>1. new.hashes[c] = e
      BY <1>1, <2>2
    <3>2. e.frame \in Int
      BY DEF HostOK, HashEntry, Frame
    <3>3. /\ e.frame <= to /\ e.frame % Ring = c
          /\ e.frame <= from => e.hash = Hash(p, UpTo(h.sim, e.frame))
      BY <1>3, <3>1 DEF HashedThere
    <3> HIDE DEF e
    <3>4. e.frame <= from
      BY <2>2, <3>2, <3>3
    <3>5. \A i \in 1 .. e.frame : new.sim[i] = h.sim[i]
      BY <1>2, <3>2, <3>4
    <3>6. UpTo(new.sim, e.frame) = UpTo(h.sim, e.frame)
      BY <3>5, SameUpTo
    <3> QED
      BY <3>1, <3>3, <3>4, <3>6
  <2> QED
    BY <2>1, <2>2
<1>4. HashedThere(p, new, to, to)
  BY <1>3 DEF HashedThere
<1> QED
  BY <1>4 DEF new

\* A host that has the history of the frames before from, as seen at frame
\* to, has that of all frames before to when it has simulated them.
LEMMA SimulateHistory ==
  ASSUME HashesTyped, NEW p \in Players, NEW h, HostOK(h), NEW last \in Inputs,
         NEW from \in Nat, NEW to \in Nat, from <= to, to - from <= MaxPrediction,
         NEW saved, from + 1 .. to \subseteq saved, stepping[p], Len(h.sim) = from,
         NEW conf, NEW all,
         \A q \in Players : conf[q] \in Int /\ conf[q] + MaxPrediction < to + Ring,
         HostHistory(p, h, from, to, conf, all)
  PROVE  LET new == Simulate(p, h, last, from, to, saved) IN
         Len(new.sim) = to /\ HostHistory(p, new, to, to, conf, all)
<1> DEFINE new == Simulate(p, h, last, from, to, saved)
<1>1. Len(new.sim) = to
  BY SimulateStates
<1>2. /\ KnownThere(h, to, conf) /\ IssuedThere(h, all) /\ SimulatedThere(h, from, to, all)
      /\ SavedThere(h, from, to) /\ HashedThere(p, h, from, to)
  BY DEF HostHistory
<1>3. /\ KnownThere(new, to, conf) /\ IssuedThere(new, all)
      /\ SimulatedThere(new, to, to, all) /\ SavedThere(new, to, to)
      /\ HashedThere(p, new, to, to)
  BY <1>2, SimulateKnown, SimulateIssued, SimulateSimulated, SimulateSaved,
     SimulateHashed
<1> QED
  BY <1>1, <1>3 DEF HostHistory

-----------------------------------------------------------------------------
(* Ticks. *)

\* What an active peer knows of the others reaches at most Reach frames
\* beyond its own inputs.
LEMMA ConfirmedBounds ==
  ASSUME HistoryFits, TypeOK, FlowInv, NEW p \in Players, HistoryOf(p), active[p]
  PROVE  /\ confirmed[p][p] = Latest(p)
         /\ \A q \in Players : /\ confirmed[p][q] \in Int
                               /\ confirmed[p][q] <= Latest(p) + Reach
                               /\ confirmed[p][q] + MaxPrediction < current[p] + Ring
         /\ Latest(p) = current[p] + InputDelay - 1 /\ current[p] \in Nat
         /\ Reach = InputDelay + MaxPrediction
<1>1. /\ confirmed[p][p] = Latest(p) /\ current[p] \in Nat
      /\ Latest(p) = current[p] + InputDelay - 1 /\ Reach = InputDelay + MaxPrediction
  BY CounterTypes DEF HistoryOf, Latest, Reach
<1>2. ASSUME NEW q \in Players
      PROVE  /\ confirmed[p][q] \in Int /\ confirmed[p][q] <= Latest(p) + Reach
             /\ confirmed[p][q] + MaxPrediction < current[p] + Ring
  <2>1. confirmed[p][q] <= Latest(p) + Reach
    <3>1. CASE q = p
      BY <1>1, <3>1, CounterTypes
    <3>2. CASE q # p
      <4>1. PairFlow(p, q) /\ PairFlow(q, p)
        BY <3>2 DEF FlowInv, Remotes
      <4> QED
        BY <4>1, CounterTypes DEF PairFlow
    <3> QED
      BY <3>1, <3>2
  <2>2. 2 * (InputDelay + MaxPrediction) <= Ring
    BY DEF HistoryFits
  <2>3. confirmed[p][q] \in Int
    BY CounterTypes
  <2> QED
    BY <1>1, <2>1, <2>2, <2>3, ScheduleNumbers
<1> QED
  BY <1>1, <1>2

\* The history of a host that is set back to the state at frame k.
LEMMA RestartHistory ==
  ASSUME TypeOK, NEW p \in Players, NEW s \in SimState, NEW k \in 0 .. Len(s),
         NEW n \in Nat, NEW conf, NEW all,
         HostHistory(p, HostAt(p, s), k, n, conf, all)
  PROVE  /\ Len(UpTo(s, k)) = k
         /\ HostHistory(p, HostAt(p, UpTo(s, k)), k, n, conf, all)
<1> DEFINE h == HostAt(p, s)
           t == UpTo(s, k)
           g == HostAt(p, t)
<1>1. /\ g.ring = h.ring /\ g.slots = h.slots /\ g.hashes = h.hashes
      /\ g.sim = t /\ h.sim = s /\ g.hashes = hashes[p]
  BY DEF HostAt
<1>2. Len(t) = k /\ \A i \in 1 .. k : t[i] = s[i]
  BY UpToState
<1>3. /\ KnownThere(h, n, conf) /\ IssuedThere(h, all) /\ SimulatedThere(h, k, n, all)
      /\ SavedThere(h, k, n) /\ HashedThere(p, h, k, n)
  BY DEF HostHistory
<1> HIDE DEF h, g, t
<1>4. k \in Nat
  OBVIOUS
<1>5. \A f \in 0 .. k : UpTo(t, f) = UpTo(s, f)
  <2> TAKE f \in 0 .. k
  <2>1. \A i \in 1 .. f : t[i] = s[i]
    BY <1>2, <1>4
  <2> QED
    BY <2>1, SameUpTo
<1>6. KnownThere(g, n, conf) /\ IssuedThere(g, all)
  BY <1>1, <1>3 DEF KnownThere, IssuedThere
<1>7. SimulatedThere(g, k, n, all)
  <2>1. \A f \in 0 .. k - 1 : t[f + 1] = s[f + 1]
    BY <1>2, <1>4
  <2>2. \A f \in 0 .. k - 1 : Final(s, f, all) => Final(t, f, all)
    BY <2>1 DEF Final
  <2> QED
    BY <1>1, <1>3, <2>1, <2>2 DEF SimulatedThere
<1>8. SavedThere(g, k, n)
  BY <1>1, <1>3, <1>5 DEF SavedThere
<1>9. HashedThere(p, g, k, n)
  <2> SUFFICES ASSUME NEW c \in Cells, 0 <= g.hashes[c].frame
               PROVE  /\ g.hashes[c].frame <= n /\ g.hashes[c].frame % Ring = c
                      /\ g.hashes[c].frame <= k =>
                           g.hashes[c].hash = Hash(p, UpTo(t, g.hashes[c].frame))
    BY <1>1 DEF HashedThere
  <2> DEFINE e == g.hashes[c]
  <2>1. e.frame \in Int
    BY <1>1 DEF TypeOK, HashEntry, Frame
  <2>2. \A i \in 1 .. e.frame : e.frame <= k => t[i] = s[i]
    BY <1>2, <1>4, <2>1
  <2>3. e.frame <= k => UpTo(t, e.frame) = UpTo(s, e.frame)
    BY <2>2, SameUpTo
  <2> QED
    BY <1>1, <1>3, <2>3 DEF HashedThere
<1> QED
  BY <1>2, <1>6, <1>7, <1>8, <1>9 DEF HostHistory, g, t

\* Correcting makes every simulated frame right, where nothing fails.
LEMMA CorrectionsHistory ==
  ASSUME HashesTyped, SnapshotsDistinct, HistoryFits, TypeOK, FlowInv, SnapshotInv,
         NEW p \in Players, p \in Reliable, HistoryOf(p), active[p],
         NEW h \in Corrections(p)
  PROVE  /\ Len(h.sim) = current[p]
         /\ HostHistory(p, h, current[p], current[p], confirmed[p], issued)
<1> DEFINE target == first_incorrect[p]
           snapshot == slots[p][target % SnapshotSlots]
           n == current[p]
           conf == confirmed[p]
           all == issued
<1>1. h = Corrected(p, Resaved(p), TRUE)
  <2>1. p \notin MayFailSave /\ p \notin MayFailLoad
    BY DEF Reliable
  <2>2. SaveOutcomes(p, Resaved(p)) = {Resaved(p)} /\ LoadOutcomes(p) = {TRUE}
    BY <2>1 DEF SaveOutcomes, LoadOutcomes
  <2>3. PICK saved \in SaveOutcomes(p, Resaved(p)), loads \in LoadOutcomes(p) :
          h = Corrected(p, saved, loads)
    BY DEF Corrections
  <2>4. saved = Resaved(p) /\ loads = TRUE
    BY <2>2, <2>3
  <2> QED
    BY <2>3, <2>4
<1>2. /\ stepping[p] /\ Len(sim[p]) = n /\ sim[p] \in SimState /\ n \in Nat
      /\ HostHistory(p, HostAt(p, sim[p]), RightFrames(p), n, conf, all)
  BY DEF HistoryOf, PeerHistory, TypeOK
<1>3. CASE ~MustRollback(p)
  <2>1. RightFrames(p) = n
    BY <1>3, PendingNumbers DEF MustRollback, SnapshotInv, PendingInv, RightFrames
  <2>2. h = HostAt(p, sim[p])
    BY <1>1, <1>3 DEF Corrected
  <2> QED
    BY <1>2, <2>1, <2>2 DEF HostAt
<1>4. CASE MustRollback(p)
  <2>1. /\ target \in Nat /\ target <= n /\ n - target <= MaxPrediction
        /\ target \in 0 .. Len(sim[p]) /\ RightFrames(p) = target
    BY <1>2, <1>4, PendingNumbers
       DEF MustRollback, SnapshotInv, PendingInv, Recent, RightFrames
  <2>2. snapshot = UpTo(sim[p], target)
    <3>1. SavedThere(HostAt(p, sim[p]), target, n)
      BY <1>2, <2>1 DEF HostHistory
    <3>2. target \in 0 .. target /\ n - MaxPrediction <= target
      BY <1>2, <2>1, ScheduleNumbers
    <3> QED
      BY <3>1, <3>2 DEF SavedThere, HostAt
  <2>3. snapshot \in SimState /\ Len(snapshot) = target
    BY <1>2, <2>1, <2>2, UpToState
  <2> DEFINE start == HostAt(p, snapshot)
  <2>4. HostOK(start) /\ start.sim = snapshot
    BY <2>3 DEF HostOK, HostAt, TypeOK, SlotTable
  <2>5. HostHistory(p, start, target, n, conf, all)
    BY <1>2, <2>1, <2>2, RestartHistory
  <2>6. last_input[p] \in Inputs /\ Resaved(p) = target + 1 .. n
    BY <1>4 DEF TypeOK, Resaved
  <2>7. h = Simulate(p, start, last_input[p], target, n, target + 1 .. n)
    BY <1>1, <1>4, <2>3, <2>6 DEF Corrected, SnapshotsDistinct
  <2>8. \A q \in Players : conf[q] \in Int /\ conf[q] + MaxPrediction < n + Ring
    BY ConfirmedBounds
  <2> HIDE DEF start, target, snapshot, n, conf, all
  <2>9. /\ Len(h.sim) = n /\ HostHistory(p, h, n, n, conf, all)
    BY <1>2, <2>1, <2>3, <2>4, <2>5, <2>6, <2>7, <2>8, SimulateHistory
  <2> QED
    BY <2>9 DEF n, conf, all
<1> QED
  BY <1>3, <1>4

\* The inputs more of all players continue those of all.
Continues(more, all) ==
  \A q \in Players : /\ Len(all[q]) <= Len(more[q])
                     /\ \A i \in 1 .. Len(all[q]) : more[q][i] = all[q][i]

\* Issuing an input changes nothing of the history.
LEMMA IssuedGrows ==
  ASSUME NEW p \in Players, NEW h, HostOK(h), NEW k \in Nat, NEW n \in Nat, NEW conf,
         NEW all \in [Players -> Seq(Input)], NEW more \in [Players -> Seq(Input)],
         Continues(more, all), HostHistory(p, h, k, n, conf, all)
  PROVE  HostHistory(p, h, k, n, conf, more)
<1>1. \A q \in Players : \A f \in Nat : f < Len(all[q]) =>
        f < Len(more[q]) /\ more[q][f + 1] = all[q][f + 1]
  <2> TAKE q \in Players
  <2> TAKE f \in Nat
  <2>1. Len(all[q]) \in Nat /\ Len(more[q]) \in Nat
    OBVIOUS
  <2>2. f < Len(all[q]) => f + 1 \in 1 .. Len(all[q])
    BY <2>1
  <2> QED
    BY <2>1, <2>2 DEF Continues
<1>2. IssuedThere(h, more)
  <2> SUFFICES ASSUME NEW c \in Cells, NEW q \in h.ring[c].by
               PROVE  /\ 0 <= h.ring[c].frame /\ h.ring[c].frame < Len(more[q])
                      /\ h.ring[c].input[q] = more[q][h.ring[c].frame + 1]
    BY DEF IssuedThere
  <2>1. q \in Players /\ h.ring[c].frame \in Int
    BY DEF HostOK, FrameEntry, Frame
  <2>2. /\ 0 <= h.ring[c].frame /\ h.ring[c].frame < Len(all[q])
        /\ h.ring[c].input[q] = all[q][h.ring[c].frame + 1]
    BY DEF HostHistory, IssuedThere
  <2>3. h.ring[c].frame \in Nat
    BY <2>1, <2>2
  <2> QED
    BY <1>1, <2>1, <2>2, <2>3, Zenon
<1>3. \A f \in Nat : Final(h.sim, f, all) => Final(h.sim, f, more)
  BY <1>1 DEF Final
<1>4. SimulatedThere(h, k, n, more)
  BY <1>3 DEF HostHistory, SimulatedThere
<1> QED
  BY <1>2, <1>4 DEF HostHistory

\* The frame that leaves the window of recent frames is final, when its
\* inputs are known.
LEMMA WindowMoves ==
  ASSUME NEW p \in Players, NEW h, HostOK(h), NEW n \in Nat, NEW conf, NEW all,
         \A q \in Players : conf[q] \in Int /\ n - MaxPrediction <= conf[q],
         HostHistory(p, h, n, n, conf, all)
  PROVE  HostHistory(p, h, n, n + 1, conf, all)
<1>1. KnownThere(h, n + 1, conf)
  BY ScheduleNumbers DEF HostHistory, KnownThere
<1>2. SimulatedThere(h, n, n + 1, all)
  <2> SUFFICES ASSUME NEW f \in 0 .. n - 1
               PROVE  /\ f < (n + 1) - MaxPrediction => Final(h.sim, f, all)
                      /\ (n + 1) - MaxPrediction <= f =>
                           /\ h.ring[f % Ring].frame = f
                           /\ h.ring[f % Ring].input = h.sim[f + 1]
    BY Zenon DEF SimulatedThere
  <2>1. /\ f < n - MaxPrediction => Final(h.sim, f, all)
        /\ n - MaxPrediction <= f =>
             h.ring[f % Ring].frame = f /\ h.ring[f % Ring].input = h.sim[f + 1]
    BY DEF HostHistory, SimulatedThere
  <2>2. CASE f # n - MaxPrediction
    BY <2>1, <2>2, ScheduleNumbers
  <2>3. CASE f = n - MaxPrediction
    <3> DEFINE e == h.ring[f % Ring]
    <3>1. e.frame = f /\ e.input = h.sim[f + 1]
      BY <2>1, <2>3, ScheduleNumbers
    <3>2. f % Ring \in Cells /\ e \in FrameEntry
      <4>1. f \in Int
        OBVIOUS
      <4>2. f % Ring \in Cells
        BY <4>1, CellOf
      <4> QED
        BY <4>2 DEF HostOK
    <3>3. ASSUME NEW q \in Players PROVE q \in e.by
      <4>1. f \in 0 .. conf[q]
        BY <2>3
      <4>2. n - MaxPrediction <= f
        BY <2>3, ScheduleNumbers
      <4> QED
        BY <4>1, <4>2 DEF HostHistory, KnownThere, Holds
    <3>4. ASSUME NEW q \in Players
          PROVE  f < Len(all[q]) /\ e.input[q] = all[q][f + 1]
      BY <3>1, <3>2, <3>3 DEF HostHistory, IssuedThere
    <3>5. e.input = [q \in Players |-> all[q][f + 1]]
      BY <3>2, <3>4 DEF FrameEntry, Inputs
    <3>6. Final(h.sim, f, all)
      BY <3>1, <3>4, <3>5 DEF Final
    <3> QED
      BY <2>3, <3>6, ScheduleNumbers
  <2> QED
    BY <2>2, <2>3
<1>3. SavedThere(h, n, n + 1)
  BY ScheduleNumbers DEF HostHistory, SavedThere
<1>4. HashedThere(p, h, n, n + 1)
  <2> SUFFICES ASSUME NEW c \in Cells, 0 <= h.hashes[c].frame
               PROVE  /\ h.hashes[c].frame <= n + 1 /\ h.hashes[c].frame % Ring = c
                      /\ h.hashes[c].frame <= n =>
                           h.hashes[c].hash = Hash(p, UpTo(h.sim, h.hashes[c].frame))
    BY DEF HashedThere
  <2>1. h.hashes[c].frame \in Int
    BY DEF HostOK, HashEntry, Frame
  <2> QED
    BY <2>1 DEF HostHistory, HashedThere
<1> QED
  BY <1>1, <1>2, <1>3, <1>4 DEF HostHistory

LEMMA NextSchedule ==
  ASSUME TypeOK, NEW p \in Players
  PROVE  /\ current[p] + InputDelay \in Nat
         /\ Latest(p) = current[p] + InputDelay - 1
         /\ Latest(p) + 1 = current[p] + InputDelay
         /\ Latest(p) + 2 = current[p] + InputDelay + 1
         /\ Latest(p) + 1 \in Nat
         /\ Latest(p) = Latest(p) + 1 - 1
         /\ Latest(p) + 2 = Latest(p) + 1 + 1
BY Numbers

\* Scheduling the input that is issued.
LEMMA ScheduledHistory ==
  ASSUME HistoryFits, TypeOK, NEW p \in Players, NEW h, HostOK(h), NEW v \in Input,
         NEW conf \in [Players -> Int], NEW all \in [Players -> Seq(Input)],
         \A q \in Players : conf[q] <= Latest(p) + Reach,
         conf[p] = Latest(p), Latest(p) + 1 < Len(all[p]), all[p][Latest(p) + 2] = v,
         HostHistory(p, h, current[p], current[p] + 1, conf, all)
  PROVE  HostHistory(p, Scheduled(p, h, v), current[p], current[p] + 1,
                     [conf EXCEPT ![p] = Latest(p) + 1], all)
<1> DEFINE n == current[p]
           lf == Latest(p) + 1
           old == EntryFor(h.ring, lf)
           e == WithInput(old, p, v)
           g == Scheduled(p, h, v)
           new == [conf EXCEPT ![p] = lf]
<1>1. /\ n \in Nat /\ lf = n + InputDelay /\ lf \in Nat /\ lf % Ring \in Cells
      /\ InputDelay \in Nat /\ Latest(p) = lf - 1 /\ Latest(p) + 2 = lf + 1
      /\ Reach = InputDelay + MaxPrediction
      /\ current[p] = n /\ current[p] + InputDelay = lf
  <2>1. lf = n + InputDelay /\ n \in Nat /\ InputDelay \in Nat
    BY Numbers
  <2>2. lf \in Nat /\ Latest(p) = lf - 1 /\ Latest(p) + 2 = lf + 1
    BY <2>1, NextSchedule
  <2>3. lf % Ring \in Cells
    BY <2>2, CellOf
  <2> QED
    BY <2>1, <2>2, <2>3 DEF Reach
<1> HIDE DEF n, lf
<1>2. /\ g.ring = [h.ring EXCEPT ![lf % Ring] = e]
      /\ g.sim = h.sim /\ g.slots = h.slots /\ g.hashes = h.hashes
  BY <1>1 DEF HostOK, Scheduled
<1>3. /\ old \in FrameEntry /\ old.frame = lf
      /\ e.frame = lf /\ e.by = old.by \cup {p} /\ e.input = [old.input EXCEPT ![p] = v]
  BY <1>1, EntryForType DEF HostOK, WithInput
<1>4. h.ring \in [Cells -> FrameEntry]
  BY DEF HostOK
<1>5. /\ g.ring[lf % Ring] = e
      /\ \A c \in Cells : c # lf % Ring => g.ring[c] = h.ring[c]
  BY <1>1, <1>2, <1>4
<1>6. /\ KnownThere(h, n + 1, conf) /\ IssuedThere(h, all)
      /\ SimulatedThere(h, n, n + 1, all) /\ SavedThere(h, n, n + 1)
      /\ HashedThere(p, h, n, n + 1)
  BY <1>1 DEF HostHistory
<1>7. ASSUME NEW f \in Int, f # lf, (n + 1) - MaxPrediction <= f, f <= Latest(p) + Reach
      PROVE  f % Ring \in Cells /\ f % Ring # lf % Ring
  <2>1. f - lf < Ring /\ lf - f < Ring
    BY <1>1, <1>7, ScheduleNumbers DEF HistoryFits
  <2>2. f % Ring # lf % Ring
    BY <1>1, <1>7, <2>1, OneFramePerCell
  <2> QED
    BY <2>2, CellOf
<1>8. \A q \in Players : q # p => new[q] = conf[q]
  OBVIOUS
<1>9. new[p] = lf
  OBVIOUS
<1> HIDE DEF g, e, old, new
<1>10. KnownThere(g, n + 1, new)
  <2> SUFFICES ASSUME NEW q \in Players, NEW f \in 0 .. new[q],
                      (n + 1) - MaxPrediction <= f
               PROVE  Holds(g.ring, q, f)
    BY Zenon DEF KnownThere
  <2>1. f \in Int
    OBVIOUS
  <2>2. ~(q = p /\ f = lf) => f \in 0 .. conf[q]
    <3>1. new[q] \in Int /\ f <= new[q] /\ 0 <= f
      BY <1>1, <1>8, <1>9
    <3> QED
      BY <1>1, <1>8, <1>9, <3>1
  <2>3. ~(q = p /\ f = lf) => Holds(h.ring, q, f)
    BY <1>6, <2>2, Zenon DEF KnownThere
  <2>4. CASE f = lf
    <3>1. q \in e.by
      BY <1>3, <2>3, <2>4, EntryForHolds DEF Holds, old
    <3> QED
      BY <1>3, <1>5, <2>4, <3>1 DEF Holds
  <2>5. CASE f # lf
    <3>1. f <= Latest(p) + Reach
      <4>1. f \in 0 .. conf[q] /\ conf[q] \in Int /\ conf[q] <= Latest(p) + Reach
        BY <2>2, <2>5
      <4> QED
        BY <1>1, <4>1, ScheduleNumbers
    <3>2. g.ring[f % Ring] = h.ring[f % Ring]
      BY <1>5, <1>7, <2>1, <2>5, <3>1
    <3> QED
      BY <2>3, <2>5, <3>2 DEF Holds
  <2> QED
    BY <2>4, <2>5
<1>11. IssuedThere(g, all)
  <2> SUFFICES ASSUME NEW c \in Cells, NEW q \in g.ring[c].by
               PROVE  /\ 0 <= g.ring[c].frame /\ g.ring[c].frame < Len(all[q])
                      /\ g.ring[c].input[q] = all[q][g.ring[c].frame + 1]
    BY DEF IssuedThere
  <2>1. CASE c # lf % Ring
    <3>1. g.ring[c] = h.ring[c]
      BY <1>5, <2>1
    <3>2. q \in h.ring[c].by
      BY <3>1
    <3>3. /\ 0 <= h.ring[c].frame /\ h.ring[c].frame < Len(all[q])
          /\ h.ring[c].input[q] = all[q][h.ring[c].frame + 1]
      BY <1>6, <3>2 DEF IssuedThere
    <3> QED
      BY <3>1, <3>3
  <2>2. CASE c = lf % Ring /\ q = p
    <3>1. e.input[p] = v
      BY <1>3 DEF FrameEntry, Inputs
    <3>2. lf < Len(all[p]) /\ all[p][lf + 1] = v
      BY <1>1
    <3>3. g.ring[c] = e /\ e.frame = lf /\ 0 <= lf
      BY <1>1, <1>3, <1>5, <2>2
    <3> QED
      BY <2>2, <3>1, <3>2, <3>3
  <2>3. CASE c = lf % Ring /\ q # p
    <3>1. q \in old.by
      BY <1>3, <1>5, <2>3
    <3>2. q \in h.ring[c].by /\ h.ring[c].frame = lf /\ old = h.ring[c] /\ q \in Players
      <4>1. q \in h.ring[c].by /\ h.ring[c].frame = lf
        BY <2>3, <3>1, EntryForKnows DEF old
      <4>2. old = h.ring[c]
        BY <2>3, <4>1 DEF old, EntryFor
      <4>3. q \in Players
        BY <1>3, <3>1 DEF FrameEntry
      <4> QED
        BY <4>1, <4>2, <4>3
    <3>3. e.input[q] = h.ring[c].input[q]
      BY <1>3, <2>3, <3>2 DEF FrameEntry, Inputs
    <3>4. 0 <= lf /\ lf < Len(all[q]) /\ h.ring[c].input[q] = all[q][lf + 1]
      BY <1>6, <3>2 DEF IssuedThere
    <3>5. g.ring[c] = e /\ e.frame = lf
      BY <1>3, <1>5, <2>3
    <3> QED
      BY <3>3, <3>4, <3>5
  <2> QED
    BY <2>1, <2>2, <2>3
<1>12. SimulatedThere(g, n, n + 1, all)
  <2> SUFFICES ASSUME NEW f \in 0 .. n - 1
               PROVE  /\ f < (n + 1) - MaxPrediction => Final(g.sim, f, all)
                      /\ (n + 1) - MaxPrediction <= f =>
                           /\ g.ring[f % Ring].frame = f
                           /\ g.ring[f % Ring].input = g.sim[f + 1]
    BY Zenon DEF SimulatedThere
  <2>1. /\ f < (n + 1) - MaxPrediction => Final(h.sim, f, all)
        /\ (n + 1) - MaxPrediction <= f =>
             h.ring[f % Ring].frame = f /\ h.ring[f % Ring].input = h.sim[f + 1]
    BY <1>6, Zenon DEF SimulatedThere
  <2>2. f \in Int /\ f # lf /\ f <= Latest(p) + Reach
    BY <1>1, ScheduleNumbers
  <2>3. (n + 1) - MaxPrediction <= f => g.ring[f % Ring] = h.ring[f % Ring]
    BY <1>1, <1>5, <1>7, <2>2, ScheduleNumbers
  <2> QED
    BY <1>2, <2>1, <2>3
<1>13. SavedThere(g, n, n + 1) /\ HashedThere(p, g, n, n + 1)
  BY <1>2, <1>6 DEF SavedThere, HashedThere
<1>14. HostHistory(p, g, n, n + 1, new, all)
  BY <1>10, <1>11, <1>12, <1>13 DEF HostHistory
<1> QED
  BY <1>14 DEF g, new, n, lf

\* p issues the input v, and no one else issues any.
Issues(p, v) == issued' = [issued EXCEPT ![p] = Append(issued[p], v)]

LEMMA IssuesContinues ==
  ASSUME TypeOK, NEW p \in Players, NEW v \in Input, Issues(p, v)
  PROVE  /\ issued' \in [Players -> Seq(Input)] /\ Continues(issued', issued)
         /\ Len(issued'[p]) = Len(issued[p]) + 1
         /\ issued'[p][Len(issued[p]) + 1] = v
<1>1. issued \in [Players -> Seq(Input)]
  BY DEF TypeOK
<1>2. /\ issued'[p] = Append(issued[p], v)
      /\ \A q \in Players : q # p => issued'[q] = issued[q]
  BY <1>1 DEF Issues
<1>3. issued[p] \in Seq(Input) /\ Append(issued[p], v) \in Seq(Input)
  BY <1>1
<1>4. issued' \in [Players -> Seq(Input)]
  BY <1>1, <1>3 DEF Issues
<1>5. /\ Len(issued'[p]) = Len(issued[p]) + 1
      /\ issued'[p][Len(issued[p]) + 1] = v
      /\ \A i \in 1 .. Len(issued[p]) : issued'[p][i] = issued[p][i]
  BY <1>2, <1>3
<1>6. \A q \in Players : Len(issued[q]) \in Nat
  BY <1>1
<1>7. Continues(issued', issued)
  BY <1>2, <1>5, <1>6 DEF Continues
<1> QED
  BY <1>4, <1>5, <1>7

\* A frame of a game, from the corrected host h.
LEMMA AdvanceHistory ==
  ASSUME HashesTyped, SnapshotsDistinct, HistoryFits, TypeOK, FlowInv, GenuineInv,
         SnapshotInv, NEW p \in Players, p \in Reliable, HistoryOf(p),
         NEW v \in Input, TickAdvance(p, v)
  PROVE  \E g : /\ SetHost(p, g) /\ Len(g.sim) = current[p] + 1
                /\ HostHistory(p, g, current[p] + 1, current[p] + 1, confirmed'[p], issued')
<1> DEFINE n == current[p]
           lf == n + InputDelay
           conf == confirmed[p]
           new == [conf EXCEPT ![p] = Latest(p) + 1]
           last == IF confirmed[p][p] = lf - 1
                   THEN [last_input[p] EXCEPT ![p] = v] ELSE last_input[p]
<1>1. PICK h \in Corrections(p) :
        \E g \in Advances(p, Scheduled(p, h, v), last) : SetHost(p, g)
  BY DEF TickAdvance
<1>2. PICK g \in Advances(p, Scheduled(p, h, v), last) : SetHost(p, g)
  BY <1>1
<1>3. /\ active[p] /\ ~Stalls(p) /\ Issues(p, v) /\ stepping[p]
      /\ confirmed' = IF confirmed[p][p] = lf - 1
                      THEN [confirmed EXCEPT ![p][p] = lf] ELSE confirmed
  BY DEF TickAdvance, TypeOK, Issues, HistoryOf
<1>4. /\ conf[p] = Latest(p) /\ lf = Latest(p) + 1 /\ n \in Nat /\ n + 1 \in Nat
      /\ Latest(p) = n + InputDelay - 1 /\ Latest(p) \in Int
      /\ \A q \in Players : /\ conf[q] \in Int /\ conf[q] <= Latest(p) + Reach
                            /\ conf[q] + MaxPrediction < n + Ring
      /\ Reach = InputDelay + MaxPrediction
  BY <1>3, ConfirmedBounds, Numbers
<1>5. /\ conf \in [Players -> Int] /\ confirmed'[p] = new
  <2>1. confirmed \in [Players -> [Players -> Frame]]
    BY DEF TypeOK
  <2>2. conf \in [Players -> Int]
    BY <2>1 DEF Frame
  <2>3. confirmed' = [confirmed EXCEPT ![p][p] = lf]
    BY <1>3, <1>4
  <2> QED
    BY <1>4, <2>1, <2>2, <2>3
<1>6. last \in Inputs
  BY DEF TypeOK, Inputs
<1>7. HostOK(h) /\ HostOK(Scheduled(p, h, v))
  BY CorrectionsType, ScheduledType
<1>8. Len(h.sim) = n /\ HostHistory(p, h, n, n, conf, issued)
  BY <1>3, CorrectionsHistory
<1>9. PICK all : all = issued'
  OBVIOUS
<1>10. /\ all \in [Players -> Seq(Input)] /\ issued \in [Players -> Seq(Input)]
       /\ Continues(all, issued)
       /\ Latest(p) + 1 < Len(all[p]) /\ all[p][Latest(p) + 2] = v
  <2>1. Len(issued[p]) = Latest(p) + 1
    BY <1>3 DEF GenuineInv, OwnInputs
  <2>2. /\ all \in [Players -> Seq(Input)] /\ Continues(all, issued)
        /\ Len(all[p]) = Len(issued[p]) + 1 /\ all[p][Len(issued[p]) + 1] = v
    BY <1>3, <1>9, IssuesContinues
  <2>3. Len(issued[p]) + 1 = Latest(p) + 2
    BY <1>4, <2>1
  <2>4. issued \in [Players -> Seq(Input)]
    BY DEF TypeOK
  <2> QED
    BY <1>4, <2>1, <2>2, <2>3, <2>4
<1>11. \A q \in Players : n - MaxPrediction <= conf[q]
  <2> SUFFICES ASSUME NEW q \in Players PROVE n - MaxPrediction <= conf[q]
    OBVIOUS
  <2>1. CASE q = p
    BY <1>4, <2>1, ScheduleNumbers
  <2>2. CASE q # p
    <3>1. ~(n - (conf[q] + 1) >= MaxPrediction)
      BY <1>3, <2>2 DEF Stalls, Remotes
    <3> QED
      BY <1>4, <3>1, ScheduleNumbers
  <2> QED
    BY <2>1, <2>2
<1> DEFINE s == Scheduled(p, h, v)
<1>12. s.sim = h.sim
  BY <1>7 DEF Scheduled, HostOK
<1>13. g = Simulate(p, s, last, n, n + 1, {n + 1})
  BY <1>2 DEF Advances, SaveOutcomes, Reliable
<1> HIDE DEF last, conf
<1>14. HostHistory(p, h, n, n, conf, all)
  BY <1>4, <1>7, <1>8, <1>10, IssuedGrows
<1>15. HostHistory(p, h, n, n + 1, conf, all)
  BY <1>4, <1>7, <1>11, <1>14, WindowMoves
<1>16. HostHistory(p, s, n, n + 1, new, all)
  BY <1>4, <1>5, <1>7, <1>10, <1>15, ScheduledHistory
<1>17. \A q \in Players : new[q] \in Int /\ new[q] + MaxPrediction < (n + 1) + Ring
  <2> SUFFICES ASSUME NEW q \in Players
               PROVE  new[q] \in Int /\ new[q] + MaxPrediction < (n + 1) + Ring
    OBVIOUS
  <2>1. CASE q = p
    <3>1. new[q] = n + InputDelay
      BY <1>4, <1>5, <2>1
    <3> QED
      BY <1>4, <3>1, ScheduleNumbers DEF HistoryFits
  <2>2. CASE q # p
    <3>1. new[q] = conf[q]
      BY <1>5, <2>2
    <3> QED
      BY <1>4, <3>1, ScheduleNumbers
  <2> QED
    BY <2>1, <2>2
<1> HIDE DEF n, s, new
<1>18. n + 1 - n <= MaxPrediction /\ n <= n + 1 /\ n + 1 .. n + 1 \subseteq {n + 1}
  BY <1>4, ScheduleNumbers
<1>19. Len(g.sim) = n + 1 /\ HostHistory(p, g, n + 1, n + 1, new, all)
  BY <1>3, <1>4, <1>6, <1>7, <1>8, <1>12, <1>13, <1>16, <1>17, <1>18, SimulateHistory,
     SMTT(60) DEF s
<1> QED
  BY <1>2, <1>5, <1>9, <1>19 DEF n

-----------------------------------------------------------------------------
(* HistoryInv is inductive. *)

\* A peer has the history of a host that its variables become.
LEMMA PeerHistoryNext ==
  ASSUME NEW p, NEW g, NEW k, NEW n, NEW conf, NEW all,
         HostHistory(p, g, k, n, conf, all),
         ring'[p] = g.ring, sim'[p] = g.sim, slots'[p] = g.slots, hashes'[p] = g.hashes,
         k = RightFrames(p)', n = current'[p], conf = confirmed'[p], all = issued'
  PROVE  PeerHistory(p)'
<1> DEFINE h == HostAt(p, sim[p])
<1>1. h'.ring = g.ring /\ h'.sim = g.sim /\ h'.slots = g.slots /\ h'.hashes = g.hashes
  BY DEF HostAt
<1>2. KnownThere(h, current[p], confirmed[p])'
  BY <1>1 DEF HostHistory, KnownThere, Holds
<1>3. IssuedThere(h, issued)'
  BY <1>1 DEF HostHistory, IssuedThere
<1>4. SimulatedThere(h, RightFrames(p), current[p], issued)'
  BY <1>1 DEF HostHistory, SimulatedThere, Final
<1>5. SavedThere(h, RightFrames(p), current[p])'
  BY <1>1 DEF HostHistory, SavedThere, UpTo
<1>6. HashedThere(p, h, RightFrames(p), current[p])'
  BY <1>1 DEF HostHistory, HashedThere, UpTo
<1> QED
  BY <1>2, <1>3, <1>4, <1>5, <1>6 DEF PeerHistory, HostHistory

LEMMA RightFramesType ==
  ASSUME TypeOK, NEW p \in Players PROVE RightFrames(p) \in Nat
BY DEF TypeOK, RightFrames, Frame

\* A peer that a step leaves alone, whatever the others issue.
LEMMA OtherHistory ==
  ASSUME TypeOK, NEW r \in Players, HistoryOf(r),
         active'[r] = active[r], current'[r] = current[r],
         confirmed'[r] = confirmed[r], ring'[r] = ring[r], hashes'[r] = hashes[r],
         first_incorrect'[r] = first_incorrect[r], stepping'[r] = stepping[r],
         sim'[r] = sim[r], slots'[r] = slots[r], issued'[r] = issued[r],
         issued' \in [Players -> Seq(Input)], Continues(issued', issued)
  PROVE  HistoryOf(r)'
<1>1. ASSUME active[r] PROVE PeerHistory(r)'
  <2>1. HostHistory(r, HostAt(r, sim[r]), RightFrames(r), current[r], confirmed[r], issued)
    BY <1>1 DEF HistoryOf, PeerHistory
  <2>2. PICK g : g = HostAt(r, sim[r])
    OBVIOUS
  <2>3. /\ HostOK(g) /\ g.ring = ring[r] /\ g.sim = sim[r] /\ g.slots = slots[r]
        /\ g.hashes = hashes[r]
    BY <2>2 DEF HostAt, HostOK, TypeOK, SlotTable
  <2>4. RightFrames(r) \in Nat /\ current[r] \in Nat /\ issued \in [Players -> Seq(Input)]
    BY RightFramesType DEF TypeOK
  <2>5. HostHistory(r, g, RightFrames(r), current[r], confirmed[r], issued')
    BY <2>1, <2>2, <2>3, <2>4, IssuedGrows
  <2>6. RightFrames(r)' = RightFrames(r)
    BY DEF RightFrames
  <2> QED
    BY <2>3, <2>5, <2>6, PeerHistoryNext
<1>2. Latest(r)' = Latest(r)
  BY DEF Latest
<1> QED
  BY <1>1, <1>2 DEF HistoryOf

LEMMA SameContinues ==
  ASSUME TypeOK, issued' = issued
  PROVE  issued' \in [Players -> Seq(Input)] /\ Continues(issued', issued)
BY DEF TypeOK, Continues

\* A step that leaves all of this alone.
LEMMA QuietHistory ==
  ASSUME TypeOK, HistoryInv,
         UNCHANGED <<active, current, confirmed, ring, hashes, first_incorrect,
                     sim, slots, issued>>,
         \A r \in Reliable : stepping'[r] = stepping[r]
  PROVE  HistoryInv'
<1>1. \A r \in Reliable : HistoryOf(r)'
  BY OtherHistory, SameContinues DEF HistoryInv, Reliable
<1> QED
  BY <1>1 DEF HistoryInv

LEMMA TickOwnHistory ==
  ASSUME HashesTyped, SnapshotsDistinct, HistoryFits, TypeOK, FlowInv, GenuineInv,
         SnapshotInv, NEW p \in Players, p \in Reliable, HistoryOf(p),
         \/ TickStall(p) \/ TickThrottle(p) \/ \E v \in Input : TickAdvance(p, v)
  PROVE  HistoryOf(p)'
<1>1. active[p] /\ UNCHANGED <<active, stepping>> /\ stepping[p]
  BY DEF TickStall, TickThrottle, TickAdvance, HistoryOf
<1>2. first_incorrect'[p] = -1
  <2>1. \E h : Correct(p, h)
    BY DEF TickStall, TickThrottle, TickAdvance
  <2> QED
    BY <2>1, CorrectPending
<1> DEFINE Right(g) ==
             /\ SetHost(p, g) /\ Len(g.sim) = current'[p]
             /\ HostHistory(p, g, current'[p], current'[p], confirmed'[p], issued')
<1>3. confirmed'[p][p] = Latest(p)' /\ \E g : Right(g)
  <2>1. CASE TickStall(p) \/ TickThrottle(p)
    <3>1. PICK h \in Corrections(p) : SetHost(p, h)
      BY <2>1 DEF TickStall, TickThrottle
    <3>2. UNCHANGED <<current, confirmed, issued>>
      BY <2>1 DEF TickStall, TickThrottle
    <3>3. Latest(p)' = Latest(p) /\ confirmed[p][p] = Latest(p)
      BY <1>1, <3>2 DEF HistoryOf, Latest
    <3>4. /\ Len(h.sim) = current[p]
          /\ HostHistory(p, h, current[p], current[p], confirmed[p], issued)
      BY <1>1, CorrectionsHistory
    <3> QED
      BY <3>1, <3>2, <3>3, <3>4
  <2>2. ASSUME NEW v \in Input, TickAdvance(p, v)
        PROVE  confirmed'[p][p] = Latest(p)' /\ \E g : Right(g)
    <3>1. current'[p] = current[p] + 1
      BY <2>2 DEF TickAdvance, TypeOK
    <3>2. confirmed'[p][p] = Latest(p)'
      <4>1. /\ confirmed[p][p] = current[p] + InputDelay - 1 /\ current[p] \in Nat
            /\ InputDelay \in Nat
        BY <1>1, ConfirmedBounds, Numbers
      <4>2. current[p] + InputDelay - 1 = (current[p] + InputDelay) - 1
        BY <4>1
      <4>3. confirmed' = [confirmed EXCEPT ![p][p] = current[p] + InputDelay]
        BY <2>2, <4>1, <4>2 DEF TickAdvance
      <4>4. confirmed'[p][p] = current[p] + InputDelay
        BY <4>3 DEF TypeOK
      <4>5. Latest(p)' = (current[p] + 1) + InputDelay - 1
        BY <3>1 DEF Latest
      <4> QED
        BY <4>1, <4>4, <4>5
    <3> QED
      BY <2>2, <3>1, <3>2, AdvanceHistory
  <2> HIDE DEF Right
  <2> QED
    BY <2>1, <2>2
<1>4. PICK g : Right(g)
  BY <1>3
<1>5. /\ ring'[p] = g.ring /\ sim'[p] = g.sim /\ slots'[p] = g.slots
      /\ hashes'[p] = g.hashes
  BY <1>4 DEF SetHost, TypeOK
<1>6. RightFrames(p)' = current'[p]
  BY <1>2 DEF RightFrames
<1>7. PeerHistory(p)'
  BY <1>4, <1>5, <1>6, PeerHistoryNext
<1> QED
  BY <1>1, <1>3, <1>4, <1>5, <1>7 DEF HistoryOf

\* The host of a peer that ticks becomes some other, that of no one else does.
LEMMA TickSetsHost ==
  ASSUME NEW p \in Players,
         \/ TickStall(p) \/ TickThrottle(p) \/ \E v \in Input : TickAdvance(p, v)
  PROVE  \E g : SetHost(p, g)
<1>1. CASE TickStall(p) \/ TickThrottle(p)
  BY <1>1 DEF TickStall, TickThrottle
<1>2. ASSUME NEW v \in Input, TickAdvance(p, v) PROVE \E g : SetHost(p, g)
  BY <1>2 DEF TickAdvance
<1> QED
  BY <1>1, <1>2

LEMMA TickContinues ==
  ASSUME TypeOK, NEW p \in Players,
         \/ TickStall(p) \/ TickThrottle(p) \/ \E v \in Input : TickAdvance(p, v)
  PROVE  issued' \in [Players -> Seq(Input)] /\ Continues(issued', issued)
<1>1. CASE TickStall(p) \/ TickThrottle(p)
  BY <1>1, SameContinues DEF TickStall, TickThrottle
<1>2. ASSUME NEW v \in Input, TickAdvance(p, v)
      PROVE  issued' \in [Players -> Seq(Input)] /\ Continues(issued', issued)
  <2>1. Issues(p, v)
    BY <1>2 DEF TickAdvance, Issues
  <2> QED
    BY <2>1, IssuesContinues
<1> QED
  BY <1>1, <1>2

\* A tick of one peer, whether or not its simulation works, leaves the
\* history of the others true.
LEMMA TickHistory ==
  ASSUME HashesTyped, SnapshotsDistinct, HistoryFits, TypeOK, FlowInv, GenuineInv,
         SnapshotInv, HistoryInv, NEW p \in Players,
         \/ TickStall(p) \/ TickThrottle(p) \/ \E v \in Input : TickAdvance(p, v)
  PROVE  HistoryInv'
<1>1. /\ UNCHANGED <<active, stepping>>
      /\ \A r \in Players \ {p} :
           current'[r] = current[r] /\ confirmed'[r] = confirmed[r] /\ issued'[r] = issued[r]
  <2>1. UNCHANGED <<active, stepping>>
    BY DEF TickStall, TickThrottle, TickAdvance
  <2>2. CASE TickStall(p) \/ TickThrottle(p)
    BY <2>1, <2>2 DEF TickStall, TickThrottle
  <2>3. CASE \E v \in Input : TickAdvance(p, v)
    BY <2>1, <2>3 DEF TickAdvance, TypeOK
  <2> QED
    BY <2>2, <2>3
<1>2. \A r \in Players \ {p} : first_incorrect'[r] = first_incorrect[r]
  <2>1. \E h : Correct(p, h)
    BY DEF TickStall, TickThrottle, TickAdvance
  <2> QED
    BY <2>1, CorrectPending
<1>3. issued' \in [Players -> Seq(Input)] /\ Continues(issued', issued)
  BY TickContinues
<1>4. \A r \in Players \ {p} : /\ ring'[r] = ring[r] /\ sim'[r] = sim[r]
                                /\ slots'[r] = slots[r] /\ hashes'[r] = hashes[r]
  <2>1. PICK g : SetHost(p, g)
    BY TickSetsHost
  <2> QED
    BY <2>1 DEF SetHost, TypeOK
<1>5. p \in Reliable => HistoryOf(p)'
  BY TickOwnHistory DEF HistoryInv
<1>6. ASSUME NEW r \in Reliable, r # p PROVE HistoryOf(r)'
  <2>1. r \in Players \ {p} /\ HistoryOf(r)
    BY <1>6 DEF Reliable, HistoryInv
  <2> QED
    BY <1>1, <1>2, <1>3, <1>4, <2>1, OtherHistory
<1> QED
  BY <1>5, <1>6 DEF HistoryInv

\* start() issues the default input for the frames of the input delay.
LEMMA StartIssues ==
  ASSUME TypeOK, GenuineInv, NEW p \in Players, Start(p)
  PROVE  /\ issued' \in [Players -> Seq(Input)] /\ Continues(issued', issued)
         /\ issued'[p] = [i \in 1 .. InputDelay |-> 0] /\ Len(issued'[p]) = InputDelay
<1> DEFINE z == [i \in 1 .. InputDelay |-> 0]
<1>1. z \in Seq(Input) /\ Len(z) = InputDelay
  BY ConfigAssumption
<1> HIDE DEF z
<1>2. /\ issued' = [issued EXCEPT ![p] = z] /\ issued \in [Players -> Seq(Input)]
      /\ issued[p] = <<>>
  BY DEF Start, z, TypeOK, GenuineInv
<1>3. /\ issued'[p] = z /\ issued' \in [Players -> Seq(Input)]
      /\ \A q \in Players \ {p} : issued'[q] = issued[q]
  BY <1>1, <1>2
<1>4. \A i \in 1 .. Len(issued[p]) : FALSE
  BY <1>2
<1>5. Len(issued[p]) <= Len(issued'[p])
  BY <1>1, <1>2, <1>3, ConfigAssumption
<1>6. \A q \in Players : Len(issued[q]) \in Nat
  BY <1>2
<1>7. Continues(issued', issued)
  BY <1>3, <1>4, <1>5, <1>6 DEF Continues
<1> QED
  BY <1>1, <1>3, <1>7 DEF z

\* start() puts the history of no frame in place.
LEMMA StartOwnHistory ==
  ASSUME TypeOK, GenuineInv, SnapshotInv, NEW p \in Players, HistoryOf(p), Start(p)
  PROVE  HistoryOf(p)'
<1>1. /\ ~active[p] /\ active' = [active EXCEPT ![p] = TRUE]
      /\ UNCHANGED <<current, first_incorrect, stepping, sim>>
      /\ slots' = [slots EXCEPT ![p][0] = sim[p]]
      /\ hashes' = [hashes EXCEPT ![p][0] = [frame |-> 0, hash |-> Hash(p, sim[p])]]
      /\ ring' = [ring EXCEPT ![p] = [c \in Cells |->
                   IF c < InputDelay THEN WithInput(Blank(c), p, 0) ELSE ring[p][c]]]
      /\ confirmed' = [confirmed EXCEPT ![p][p] = InputDelay - 1]
      /\ issued' = [issued EXCEPT ![p] = [i \in 1 .. InputDelay |-> 0]]
  BY DEF Start, TypeOK
<1>2. /\ stepping[p] /\ Len(sim[p]) = 0 /\ sim[p] \in SimState
      /\ issued[p] = <<>> /\ current[p] = 0
      /\ \A q \in Players : confirmed[p][q] = -1
      /\ \A c \in Cells : ring[p][c].by = {} /\ hashes[p][c].frame = -1
  BY <1>1 DEF GenuineInv, HistoryOf, TypeOK
<1>4. /\ issued' \in [Players -> Seq(Input)] /\ Continues(issued', issued)
      /\ issued'[p] = [i \in 1 .. InputDelay |-> 0] /\ Len(issued'[p]) = InputDelay
  BY StartIssues
<1>5. /\ slots'[p][0] = sim[p] /\ hashes'[p][0] = [frame |-> 0, hash |-> Hash(p, sim[p])]
      /\ \A c \in Cells : c # 0 => hashes'[p][c] = hashes[p][c]
      /\ 0 \in Cells /\ 0 % Ring = 0 /\ 0 % SnapshotSlots = 0
  <2>1. /\ 0 \in Cells /\ 0 % Ring = 0 /\ 0 % SnapshotSlots = 0
        /\ 0 \in 0 .. SnapshotSlots - 1
    BY ConfigAssumption DEF Cells
  <2> QED
    BY <1>1, <2>1 DEF TypeOK
<1>6. /\ confirmed'[p][p] = InputDelay - 1
      /\ \A q \in Players : q # p => confirmed'[p][q] = -1
  BY <1>1, <1>2 DEF TypeOK
<1>7. \A c \in Cells : /\ c < InputDelay =>
                            /\ ring'[p][c].frame = c /\ ring'[p][c].by = {p}
                            /\ ring'[p][c].input[p] = 0
                       /\ ~(c < InputDelay) => ring'[p][c].by = {}
  <2> TAKE c \in Cells
  <2>1. ring'[p][c] = IF c < InputDelay THEN WithInput(Blank(c), p, 0) ELSE ring[p][c]
    BY <1>1 DEF TypeOK
  <2>2. /\ WithInput(Blank(c), p, 0).frame = c /\ WithInput(Blank(c), p, 0).by = {p}
        /\ WithInput(Blank(c), p, 0).input[p] = 0
    BY DEF WithInput, Blank, NoInputs
  <2> QED
    BY <1>2, <2>1, <2>2
<1> DEFINE g == [ring |-> ring'[p], sim |-> sim'[p], slots |-> slots'[p],
                 hashes |-> hashes'[p]]
<1>8. /\ g.ring = ring'[p] /\ g.sim = sim[p] /\ g.slots = slots'[p]
      /\ g.hashes = hashes'[p] /\ sim'[p] = sim[p]
  BY <1>1
<1> HIDE DEF g
<1>9. KnownThere(g, 0, confirmed'[p])
  <2> SUFFICES ASSUME NEW q \in Players, NEW f \in 0 .. confirmed'[p][q]
               PROVE  Holds(g.ring, q, f)
    BY Zenon DEF KnownThere
  <2>1. q = p
    BY <1>6
  <2>2. f \in 0 .. InputDelay - 1
    BY <1>6, <2>1
  <2>3. f \in Cells /\ f % Ring = f /\ f < InputDelay
    BY <2>2, ConfigAssumption DEF Cells
  <2> QED
    BY <1>7, <1>8, <2>1, <2>3 DEF Holds
<1>10. IssuedThere(g, issued')
  <2> SUFFICES ASSUME NEW c \in Cells, NEW q \in g.ring[c].by
               PROVE  /\ 0 <= g.ring[c].frame /\ g.ring[c].frame < Len(issued'[q])
                      /\ g.ring[c].input[q] = issued'[q][g.ring[c].frame + 1]
    BY DEF IssuedThere
  <2>1. /\ c < InputDelay /\ q = p /\ g.ring[c].frame = c /\ g.ring[c].input[q] = 0
    BY <1>7, <1>8
  <2>2. 0 <= c /\ c + 1 \in 1 .. InputDelay
    BY <2>1, ConfigAssumption DEF Cells
  <2> QED
    BY <1>4, <2>1, <2>2
<1>11. SimulatedThere(g, 0, 0, issued')
  BY DEF SimulatedThere
<1>12. SavedThere(g, 0, 0)
  <2>1. UpTo(sim[p], 0) = sim[p]
    BY <1>2, UpToState
  <2>2. \A f \in 0 .. 0 : f = 0
    OBVIOUS
  <2> QED
    BY <1>5, <1>8, <2>1, <2>2 DEF SavedThere
<1>13. HashedThere(p, g, 0, 0)
  <2>1. UpTo(sim[p], 0) = sim[p]
    BY <1>2, UpToState
  <2>2. \A c \in Cells : c # 0 => ~(0 <= g.hashes[c].frame)
    BY <1>2, <1>5, <1>8
  <2>3. g.hashes[0] = [frame |-> 0, hash |-> Hash(p, sim[p])]
    BY <1>5, <1>8
  <2> SUFFICES ASSUME NEW c \in Cells, 0 <= g.hashes[c].frame
               PROVE  /\ g.hashes[c].frame <= 0 /\ g.hashes[c].frame % Ring = c
                      /\ g.hashes[c].frame <= 0 =>
                           g.hashes[c].hash = Hash(p, UpTo(g.sim, g.hashes[c].frame))
    BY DEF HashedThere
  <2>4. c = 0
    BY <2>2
  <2> QED
    BY <1>5, <1>8, <2>1, <2>3, <2>4
<1>14. HostHistory(p, g, 0, 0, confirmed'[p], issued')
  BY <1>9, <1>10, <1>11, <1>12, <1>13 DEF HostHistory
<1>15. RightFrames(p)' = 0
  <2>1. ~(first_incorrect[p] >= 0)
    BY <1>2, PendingNumbers DEF SnapshotInv, PendingInv
  <2> QED
    BY <1>1, <1>2, <2>1 DEF RightFrames
<1>16. PeerHistory(p)'
  <2>1. current'[p] = 0
    BY <1>1, <1>2
  <2>2. HostHistory(p, g, RightFrames(p)', current'[p], confirmed'[p], issued')
    BY <1>14, <1>15, <2>1
  <2> QED
    BY <1>8, <2>2, PeerHistoryNext
<1>17. active'[p] /\ stepping'[p] /\ Len(sim'[p]) = current'[p]
  BY <1>1, <1>2 DEF TypeOK
<1>18. Latest(p)' = InputDelay - 1
  BY <1>1, <1>2, ConfigAssumption DEF Latest
<1> QED
  BY <1>6, <1>16, <1>17, <1>18 DEF HistoryOf

LEMMA StartHistory ==
  ASSUME TypeOK, GenuineInv, SnapshotInv, HistoryInv, NEW p \in Players, Start(p)
  PROVE  HistoryInv'
<1>1. \A r \in Players \ {p} :
        /\ active'[r] = active[r] /\ slots'[r] = slots[r] /\ hashes'[r] = hashes[r]
        /\ ring'[r] = ring[r] /\ confirmed'[r] = confirmed[r] /\ issued'[r] = issued[r]
        /\ current'[r] = current[r] /\ first_incorrect'[r] = first_incorrect[r]
        /\ stepping'[r] = stepping[r] /\ sim'[r] = sim[r]
  BY DEF Start, TypeOK
<1>2. p \in Reliable => HistoryOf(p)'
  BY StartOwnHistory DEF HistoryInv
<1>3. ASSUME NEW r \in Reliable, r # p PROVE HistoryOf(r)'
  <2>1. r \in Players \ {p} /\ HistoryOf(r)
    BY <1>3 DEF Reliable, HistoryInv
  <2> QED
    BY <1>1, <2>1, StartIssues, OtherHistory
<1> QED
  BY <1>2, <1>3 DEF HistoryInv

-----------------------------------------------------------------------------
(* Packets. *)

\* The frames before the first that is wrong, once m has been taken.
RightAfter(p, m) == IF Incorrect(p, m) >= 0 THEN Incorrect(p, m) ELSE current[p]

LEMMA RightAfterBounds ==
  ASSUME TypeOK, FlowInv, PendingInv, NEW m \in net, NEW p \in Players, m.dst = p
  PROVE  /\ RightAfter(p, m) \in Nat /\ RightAfter(p, m) <= RightFrames(p)
         /\ RightFrames(p) \in Nat /\ RightFrames(p) <= current[p]
         /\ \A f \in Mispredicted(p, m) : RightAfter(p, m) <= f
<1>1. /\ Incorrect(p, m) >= 0 => Incorrect(p, m) \in Nat /\ Incorrect(p, m) < current[p]
      /\ first_incorrect[p] >= 0 =>
           0 <= Incorrect(p, m) /\ Incorrect(p, m) <= first_incorrect[p]
      /\ \A f \in Mispredicted(p, m) : 0 <= Incorrect(p, m) /\ Incorrect(p, m) <= f
  BY IncorrectRecent DEF Recent
<1>2. first_incorrect[p] >= 0 => first_incorrect[p] < current[p]
  BY DEF PendingInv
<1> QED
  BY <1>1, <1>2, PendingNumbers DEF RightAfter, RightFrames

\* The ring with m in it holds what is known of the window, and only what
\* was issued.
LEMMA IngestKnown ==
  ASSUME HistoryFits, TypeOK, FlowInv, NEW m \in net, NEW p \in Players,
         HistoryOf(p), Ingest(p, m), NEW g, g.ring = RingWith(p, m)
  PROVE  KnownThere(g, current[p], confirmed'[p])
<1> DEFINE q == m.src
           n == confirmed'[p][q]
<1>1. m.dst = p /\ active[p] /\ q \in Players
  BY DEF Ingest, TypeOK, PacketOK
<1>2. PICK k \in confirmed[p][q] .. confirmed[p][q] + Ring :
        /\ ContiguousUpTo(RingWith(p, m), q, confirmed[p][q], k)
        /\ confirmed' = [confirmed EXCEPT ![p] = [confirmed[p] EXCEPT ![q] = k]]
  BY DEF Ingest
<1>3. /\ n = k /\ \A r \in Players : r # q => confirmed'[p][r] = confirmed[p][r]
  BY <1>1, <1>2 DEF TypeOK
<1>4. KnownThere(HostAt(p, sim[p]), current[p], confirmed[p])
  BY <1>1 DEF HistoryOf, PeerHistory, HostHistory
<1>5. ASSUME NEW r \in Players, NEW f \in 0 .. confirmed[p][r],
             current[p] - MaxPrediction <= f
      PROVE  Holds(RingWith(p, m), r, f)
  <2>1. Holds(ring[p], r, f)
    BY <1>4, <1>5 DEF KnownThere, HostAt
  <2>2. f \in Nat /\ f <= Latest(p) + Reach
    BY <1>1, ConfirmedBounds, CounterTypes
  <2> QED
    BY <1>1, <1>5, <2>1, <2>2, RingWithHolds
<1>6. ASSUME NEW r \in Players, NEW f \in 0 .. confirmed'[p][r],
             current[p] - MaxPrediction <= f
      PROVE  Holds(RingWith(p, m), r, f)
  <2>1. CASE f \in 0 .. confirmed[p][r]
    BY <1>5, <1>6, <2>1
  <2>2. CASE f \notin 0 .. confirmed[p][r]
    <3>1. r = q /\ f \in 0 .. k
      BY <1>3, <1>6, <2>2
    <3>2. f \in confirmed[p][q] + 1 .. k
      BY <1>1, <2>2, <3>1, CounterTypes
    <3> QED
      BY <1>2, <3>1, <3>2 DEF ContiguousUpTo
  <2> QED
    BY <2>1, <2>2
<1> QED
  BY <1>6 DEF KnownThere

LEMMA IngestIssued ==
  ASSUME TypeOK, FlowInv, GenuineInv, NEW m \in net, NEW p \in Players,
         HistoryOf(p), m.dst = p, active[p], NEW g, g.ring = RingWith(p, m)
  PROVE  IssuedThere(g, issued)
<1> DEFINE q == m.src
           Cell(c) == IF \E f \in Taken(p, m) : f % Ring = c
             THEN LET f == CHOOSE x \in Taken(p, m) : x % Ring = c IN
                  WithInput(EntryFor(ring[p], f), q, m.inputs[f])
             ELSE ring[p][c]
           Good(e, r) == /\ 0 <= e.frame /\ e.frame < Len(issued[r])
                         /\ e.input[r] = issued[r][e.frame + 1]
<1>1. /\ PacketOK(m) /\ q \in Players
      /\ \A f \in DOMAIN m.inputs :
           f \in Nat /\ f < Len(issued[q]) /\ m.inputs[f] = issued[q][f + 1]
  BY DEF TypeOK, PacketOK, GenuineInv, PacketsGenuine, IssuedInput
<1>2. \A c \in Cells : \A r \in ring[p][c].by : Good(ring[p][c], r)
  <2>1. IssuedThere(HostAt(p, sim[p]), issued)
    BY DEF HistoryOf, PeerHistory, HostHistory
  <2> QED
    BY <2>1 DEF IssuedThere, HostAt
<1>3. g.ring = [c \in Cells |-> Cell(c)]
  BY DEF RingWith
<1> HIDE DEF Good
<1>4. ASSUME NEW c \in Cells, NEW r \in Cell(c).by PROVE Good(Cell(c), r)
  <2>1. CASE \E f \in Taken(p, m) : f % Ring = c
    <3> DEFINE f == CHOOSE x \in Taken(p, m) : x % Ring = c
               old == EntryFor(ring[p], f)
    <3>1. f \in Taken(p, m) /\ f % Ring = c
      BY <2>1
    <3>2. Cell(c) = WithInput(old, q, m.inputs[f])
      BY <2>1
    <3> HIDE DEF f, Cell
    <3>3. f \in DOMAIN m.inputs /\ f \in Nat
      BY <1>1, <3>1 DEF Taken
    <3>4. old \in FrameEntry /\ old.frame = f
      BY <3>3, EntryForType DEF TypeOK
    <3> HIDE DEF old
    <3>5. /\ Cell(c).frame = f /\ Cell(c).by = old.by \cup {q}
          /\ Cell(c).input = [old.input EXCEPT ![q] = m.inputs[f]]
      BY <3>2, <3>4 DEF WithInput
    <3>6. CASE r = q
      <4>1. Cell(c).input[r] = m.inputs[f]
        BY <1>1, <3>4, <3>5, <3>6 DEF FrameEntry, Inputs
      <4>2. 0 <= f /\ f < Len(issued[r]) /\ m.inputs[f] = issued[r][f + 1]
        BY <1>1, <3>3, <3>6
      <4>3. Cell(c).frame = f
        BY <3>5
      <4> QED
        BY <4>1, <4>2, <4>3 DEF Good
    <3>7. CASE r # q
      <4>1. r \in old.by /\ r \in Players
        BY <1>4, <3>4, <3>5, <3>7 DEF FrameEntry
      <4>2. r \in ring[p][c].by /\ ring[p][c].frame = f /\ old = ring[p][c]
        BY <3>1, <4>1, EntryForKnows DEF old, EntryFor
      <4>3. Cell(c).input[r] = old.input[r]
        BY <3>4, <3>5, <3>7, <4>1 DEF FrameEntry, Inputs
      <4>4. Good(old, r)
        BY <1>2, <4>2
      <4>5. Cell(c).frame = old.frame
        BY <3>4, <3>5
      <4> QED
        BY <4>3, <4>4, <4>5 DEF Good
    <3> QED
      BY <3>6, <3>7
  <2>2. CASE ~ \E f \in Taken(p, m) : f % Ring = c
    <3>1. Cell(c) = ring[p][c]
      BY <2>2
    <3> QED
      BY <1>2, <1>4, <3>1
  <2> QED
    BY <2>1, <2>2
<1> HIDE DEF Cell
<1> QED
  BY <1>3, <1>4 DEF IssuedThere, Good

\* The inputs of m that were already simulated agree with the simulation,
\* as far as it is still right.
LEMMA IngestSimulated ==
  ASSUME HistoryFits, TypeOK, FlowInv, GenuineInv, PendingInv, NEW m \in net,
         NEW p \in Players, HistoryOf(p), m.dst = p, active[p],
         NEW g, g.ring = RingWith(p, m), g.sim = sim[p]
  PROVE  SimulatedThere(g, RightAfter(p, m), current[p], issued)
<1> DEFINE q == m.src
           n == current[p]
           k == RightAfter(p, m)
<1>1. /\ k \in Nat /\ k <= RightFrames(p) /\ RightFrames(p) \in Nat
      /\ RightFrames(p) <= n /\ n \in Nat
      /\ \A f \in Mispredicted(p, m) : k <= f
  BY RightAfterBounds, PendingNumbers
<1>2. /\ SimulatedThere(HostAt(p, sim[p]), RightFrames(p), n, issued)
      /\ IssuedThere(HostAt(p, sim[p]), issued)
  BY DEF HistoryOf, PeerHistory, HostHistory
<1>3. q \in Players /\ \A f \in DOMAIN m.inputs : m.inputs[f] = issued[q][f + 1]
  BY DEF TypeOK, PacketOK, GenuineInv, PacketsGenuine, IssuedInput
<1> HIDE DEF k, n
<1>4. ASSUME NEW f \in 0 .. k - 1
      PROVE  /\ f < n - MaxPrediction => Final(sim[p], f, issued)
             /\ n - MaxPrediction <= f =>
                  ring[p][f % Ring].frame = f /\ ring[p][f % Ring].input = sim[p][f + 1]
  <2>1. f \in 0 .. RightFrames(p) - 1
    BY <1>1
  <2> QED
    BY <1>2, <2>1 DEF SimulatedThere, HostAt
<1>5. ASSUME NEW f \in 0 .. k - 1, n - MaxPrediction <= f
      PROVE  /\ RingWith(p, m)[f % Ring].frame = f
             /\ RingWith(p, m)[f % Ring].input = sim[p][f + 1]
  <2> DEFINE e == ring[p][f % Ring]
  <2>1. f \in Nat /\ f < n /\ f % Ring \in Cells
    <3>1. f \in Nat /\ f \in Int /\ f < n
      BY <1>1
    <3> QED
      BY <3>1, CellOf
  <2>2. f <= Latest(p) + Reach
    BY <1>1, <2>1, CounterTypes, PendingNumbers DEF n
  <2>3. e.frame = f /\ e.input = sim[p][f + 1]
    BY <1>4, <1>5
  <2>4. RingWith(p, m)[f % Ring] =
          IF f \in Taken(p, m) THEN WithInput(EntryFor(ring[p], f), q, m.inputs[f]) ELSE e
    BY <1>5, <2>1, <2>2, RingWithCell DEF n
  <2>5. CASE f \notin Taken(p, m)
    BY <2>3, <2>4, <2>5
  <2>6. CASE f \in Taken(p, m)
    <3>1. EntryFor(ring[p], f) = e
      BY <2>3 DEF EntryFor
    <3>2. e \in FrameEntry
      BY <2>1 DEF TypeOK
    <3>3. f \notin Mispredicted(p, m)
      BY <1>1
    <3>4. e.input[q] = m.inputs[f]
      <4>1. CASE q \in e.by
        <5>1. e.input[q] = issued[q][f + 1]
          BY <1>2, <2>1, <2>3, <4>1 DEF IssuedThere, HostAt
        <5> QED
          BY <1>3, <2>6, <5>1 DEF Taken
      <4>2. CASE q \notin e.by
        BY <2>1, <2>6, <3>1, <3>3, <4>2 DEF Mispredicted, n
      <4> QED
        BY <4>1, <4>2
    <3>5. WithInput(e, q, m.inputs[f]).frame = f
      BY <2>3 DEF WithInput
    <3>6. WithInput(e, q, m.inputs[f]).input = e.input
      BY <3>2, <3>4 DEF WithInput, FrameEntry, Inputs
    <3> HIDE DEF e
    <3> QED
      BY <2>3, <2>4, <2>6, <3>1, <3>5, <3>6
  <2> QED
    BY <2>5, <2>6
<1>6. SimulatedThere(g, k, n, issued)
  BY <1>4, <1>5 DEF SimulatedThere
<1> QED
  BY <1>6 DEF k, n

LEMMA IngestHost ==
  ASSUME HistoryFits, TypeOK, FlowInv, GenuineInv, PendingInv, NEW m \in net,
         NEW p \in Players, HistoryOf(p), Ingest(p, m),
         NEW g, g.ring = RingWith(p, m), g.sim = sim[p], g.slots = slots[p],
         g.hashes = hashes[p]
  PROVE  HostHistory(p, g, RightAfter(p, m), current[p], confirmed'[p], issued)
<1>1. m.dst = p /\ active[p]
  BY DEF Ingest
<1>2. /\ RightAfter(p, m) \in Nat /\ RightAfter(p, m) <= RightFrames(p)
      /\ RightFrames(p) \in Nat
  BY <1>1, RightAfterBounds
<1>3. /\ SavedThere(HostAt(p, sim[p]), RightFrames(p), current[p])
      /\ HashedThere(p, HostAt(p, sim[p]), RightFrames(p), current[p])
  BY <1>1 DEF HistoryOf, PeerHistory, HostHistory
<1>4. SavedThere(g, RightAfter(p, m), current[p])
  BY <1>2, <1>3 DEF SavedThere, HostAt
<1>5. HashedThere(p, g, RightAfter(p, m), current[p])
  <2>1. \A c \in Cells : hashes[p][c].frame \in Int
    BY DEF TypeOK, HashEntry, Frame
  <2> QED
    BY <1>2, <1>3, <2>1 DEF HashedThere, HostAt
<1>6. /\ KnownThere(g, current[p], confirmed'[p]) /\ IssuedThere(g, issued)
      /\ SimulatedThere(g, RightAfter(p, m), current[p], issued)
  BY <1>1, IngestKnown, IngestIssued, IngestSimulated
<1> QED
  BY <1>4, <1>5, <1>6 DEF HostHistory

LEMMA IngestHistory ==
  ASSUME HistoryFits, TypeOK, FlowInv, GenuineInv, PendingInv, HistoryInv, NEW m \in net,
         NEW p \in Players, Ingest(p, m)
  PROVE  HistoryInv'
<1>1. /\ m.dst = p /\ active[p] /\ m.src \in Players /\ m.src # p
      /\ UNCHANGED <<active, current, hashes, stepping, sim, slots, issued>>
      /\ ring' = [ring EXCEPT ![p] = RingWith(p, m)]
      /\ first_incorrect' = [first_incorrect EXCEPT ![p] = Incorrect(p, m)]
  BY DEF Ingest, Incorrect, TypeOK, PacketOK, Remotes
<1>2. \E k : confirmed' = [confirmed EXCEPT ![p] = [confirmed[p] EXCEPT ![m.src] = k]]
  BY DEF Ingest
<1>3. /\ confirmed'[p][p] = confirmed[p][p]
      /\ \A r \in Players \ {p} : confirmed'[r] = confirmed[r]
  BY <1>1, <1>2 DEF TypeOK
<1>4. /\ ring'[p] = RingWith(p, m) /\ first_incorrect'[p] = Incorrect(p, m)
      /\ \A r \in Players \ {p} :
           ring'[r] = ring[r] /\ first_incorrect'[r] = first_incorrect[r]
  BY <1>1 DEF TypeOK
<1>5. PICK g : g = [ring |-> RingWith(p, m), sim |-> sim[p], slots |-> slots[p],
                    hashes |-> hashes[p]]
  OBVIOUS
<1>6. /\ g.ring = RingWith(p, m) /\ g.sim = sim[p] /\ g.slots = slots[p]
      /\ g.hashes = hashes[p]
  BY <1>5
<1>7. HistoryOf(p) =>
        HostHistory(p, g, RightAfter(p, m), current[p], confirmed'[p], issued)
  BY <1>6, IngestHost
<1>8. RightAfter(p, m) = RightFrames(p)'
  BY <1>1, <1>4 DEF RightAfter, RightFrames
<1>9. HistoryOf(p) => PeerHistory(p)'
  <2>1. /\ current[p] = current'[p] /\ issued = issued' /\ ring'[p] = g.ring
        /\ sim'[p] = g.sim /\ slots'[p] = g.slots /\ hashes'[p] = g.hashes
    BY <1>1, <1>4, <1>6
  <2> QED
    BY <1>7, <1>8, <2>1, PeerHistoryNext
<1>10. p \in Reliable => HistoryOf(p)'
  <2>1. Latest(p)' = Latest(p)
    BY <1>1 DEF Latest
  <2> QED
    BY <1>1, <1>3, <1>9, <2>1 DEF HistoryInv, HistoryOf
<1>11. ASSUME NEW r \in Reliable, r # p PROVE HistoryOf(r)'
  <2>1. r \in Players \ {p} /\ HistoryOf(r)
    BY <1>11 DEF Reliable, HistoryInv
  <2> QED
    BY <1>1, <1>3, <1>4, <2>1, OtherHistory, SameContinues
<1> QED
  BY <1>10, <1>11 DEF HistoryInv

\* Every peer whose own simulation works keeps a true history of its recent
\* frames.
THEOREM HistoryInvariant ==
  ASSUME HashesTyped, SnapshotsDistinct, RingFits, HistoryFits
  PROVE  Spec => []HistoryInv
<1>1. Init => HistoryInv
  BY DEF Init, HistoryInv, HistoryOf, Reliable, Blank, NoHash
<1>2. TypeOK /\ FlowInv /\ GenuineInv /\ SnapshotInv /\ HistoryInv /\ [Next]_vars
        => HistoryInv'
  <2> SUFFICES ASSUME TypeOK, FlowInv, GenuineInv, SnapshotInv, HistoryInv, [Next]_vars
               PROVE  HistoryInv'
    OBVIOUS
  <2>1. ASSUME NEW p \in Players, Start(p) PROVE HistoryInv'
    BY <2>1, StartHistory
  <2>2. ASSUME NEW p \in Players, TickStall(p) \/ TickThrottle(p) PROVE HistoryInv'
    BY <2>2, TickHistory
  <2>3. ASSUME NEW p \in Players, NEW v \in Plays[p], TickAdvance(p, v) PROVE HistoryInv'
    BY <2>3, TickHistory, ConfigAssumption
  <2>4. ASSUME NEW p \in Players, SimDies(p) \/ SetInputCount(p) PROVE HistoryInv'
    BY <2>4, QuietHistory DEF SimDies, SetInputCount, Reliable, TypeOK
  <2>5. ASSUME NEW p \in Players, NEW q \in Players, Send(p, q) PROVE HistoryInv'
    BY <2>5, QuietHistory DEF Send, sessionVars
  <2>6. ASSUME NEW m \in net, Lose(m) PROVE HistoryInv'
    BY <2>6, QuietHistory DEF Lose, sessionVars
  <2>7. ASSUME NEW m \in net, NEW p \in Players, Ingest(p, m) PROVE HistoryInv'
    BY <2>7, IngestHistory DEF SnapshotInv
  <2>8. ASSUME NEW m \in net, NEW p \in Players, IngestIncompatible(p, m)
        PROVE  HistoryInv'
    BY <2>8, QuietHistory DEF IngestIncompatible
  <2>9. CASE UNCHANGED vars
    BY <2>9, QuietHistory DEF vars
  <2> QED
    BY <2>1, <2>2, <2>3, <2>4, <2>5, <2>6, <2>7, <2>8, <2>9 DEF Next
<1> QED
  BY <1>1, <1>2, SnapshotInvariant, TypeCorrect, FlowInvariant, GenuineInvariant, PTL
     DEF Spec

-----------------------------------------------------------------------------
(* What is final. *)

LEMMA SafeBounds ==
  ASSUME NEW cur \in Nat, NEW conf \in [Players -> Frame]
  PROVE  /\ SafeFrame(cur, conf) \in Nat /\ SafeFrame(cur, conf) <= cur
         /\ \A q \in Players : SafeFrame(cur, conf) <= conf[q] + 1
         /\ \A x \in Nat : x <= cur /\ (\A q \in Players : x <= conf[q] + 1)
                           => x <= SafeFrame(cur, conf)
<1> DEFINE S == {cur} \cup {conf[q] + 1 : q \in Players}
<1>1. \A q \in Players : conf[q] + 1 \in Nat
  BY DEF Frame
<1>2. S \subseteq Nat /\ S # {} /\ cur \in S /\ \A q \in Players : conf[q] + 1 \in S
  BY <1>1
<1>3. \A x \in Nat : x <= cur /\ (\A q \in Players : x <= conf[q] + 1)
                    => \A y \in S : x <= y
  OBVIOUS
<1> HIDE DEF S
<1>4. Min(S) \in S /\ \A y \in S : Min(S) <= y
  BY <1>2, NatMin
<1>5. Max({0, Min(S)}) = Min(S)
  <2>1. Min(S) \in Nat
    BY <1>2, <1>4
  <2>2. Max({0, Min(S)}) = IF 0 >= Min(S) THEN 0 ELSE Min(S)
    BY <2>1, MaxOfTwo
  <2> QED
    BY <2>1, <2>2
<1>6. SafeFrame(cur, conf) = Min(S)
  BY <1>5 DEF S, SafeFrame
<1> QED
  BY <1>2, <1>3, <1>4, <1>6

\* No frame after Settled(p) is both known and right.
SettledGreatest(p) ==
  \A x \in Nat : ( /\ x <= current[p]
                   /\ \A q \in Players : x <= confirmed[p][q] + 1
                   /\ first_incorrect[p] >= 0 => x <= first_incorrect[p] )
                 => x <= Settled(p)

LEMMA SettledBounds ==
  TypeOK => \A p \in Players :
    /\ Settled(p) \in Nat /\ Settled(p) <= SafeFrame(current[p], confirmed[p])
    /\ SafeFrame(current[p], confirmed[p]) \in Nat
    /\ Settled(p) <= RightFrames(p) /\ Settled(p) <= current[p]
    /\ \A q \in Players : Settled(p) <= confirmed[p][q] + 1
    /\ SettledGreatest(p)
<1> SUFFICES ASSUME TypeOK, NEW p \in Players
             PROVE  /\ Settled(p) \in Nat
                    /\ Settled(p) <= SafeFrame(current[p], confirmed[p])
                    /\ SafeFrame(current[p], confirmed[p]) \in Nat
                    /\ Settled(p) <= RightFrames(p) /\ Settled(p) <= current[p]
                    /\ \A q \in Players : Settled(p) <= confirmed[p][q] + 1
                    /\ SettledGreatest(p)
  OBVIOUS
<1> DEFINE safe == SafeFrame(current[p], confirmed[p])
           first == first_incorrect[p]
<1>1. /\ current[p] \in Nat /\ confirmed[p] \in [Players -> Frame] /\ first \in Frame
  BY DEF TypeOK
<1>2. /\ safe \in Nat /\ safe <= current[p]
      /\ \A q \in Players : safe <= confirmed[p][q] + 1
      /\ \A x \in Nat : x <= current[p] /\ (\A q \in Players : x <= confirmed[p][q] + 1)
                        => x <= safe
  BY <1>1, SafeBounds
<1>3. Settled(p) = IF first >= 0 THEN Min({first, safe}) ELSE safe
  BY DEF Settled
<1>4. RightFrames(p) = IF first >= 0 THEN first ELSE current[p]
  BY DEF RightFrames
<1>5. SettledGreatest(p) <=>
        \A x \in Nat : ( /\ x <= current[p]
                         /\ \A q \in Players : x <= confirmed[p][q] + 1
                         /\ first >= 0 => x <= first )
                       => x <= Settled(p)
  BY DEF SettledGreatest
<1> HIDE DEF safe, first
<1>6. first >= 0 => /\ Min({first, safe}) \in {first, safe}
                    /\ Min({first, safe}) <= first /\ Min({first, safe}) <= safe
  <2> SUFFICES ASSUME first >= 0
               PROVE  /\ Min({first, safe}) \in {first, safe}
                      /\ Min({first, safe}) <= first /\ Min({first, safe}) <= safe
    OBVIOUS
  <2>1. {first, safe} \subseteq Nat
    BY <1>1, <1>2 DEF Frame
  <2> QED
    BY <2>1, NatMin
<1>7. /\ Settled(p) \in Nat /\ Settled(p) <= safe
      /\ first >= 0 => Settled(p) <= first
      /\ Settled(p) \in {first, safe}
      /\ ~(first >= 0) => Settled(p) = safe
  BY <1>1, <1>2, <1>3, <1>6 DEF Frame
<1>8. \A q \in Players : confirmed[p][q] + 1 \in Nat
  BY <1>1 DEF Frame
<1>9. Settled(p) <= current[p] /\ \A q \in Players : Settled(p) <= confirmed[p][q] + 1
  BY <1>1, <1>2, <1>7, <1>8
<1>10. Settled(p) <= RightFrames(p)
  BY <1>4, <1>7, <1>9
<1>11. SettledGreatest(p)
  BY <1>2, <1>5, <1>7
<1> QED
  BY <1>2, <1>7, <1>9, <1>10, <1>11 DEF safe

LEMMA SettledBoundsNext ==
  TypeOK' => (\A p \in Players : Settled(p) \in Nat /\ SettledGreatest(p))'
<1>1. TypeOK => \A p \in Players : Settled(p) \in Nat /\ SettledGreatest(p)
  BY SettledBounds
<1> QED
  BY <1>1, PTL

\* What is settled at p stays settled when p learns more.
LEMMA SettledMoves ==
  ASSUME TypeOK, TypeOK', NEW p \in Players, current[p] <= current'[p],
         \A q \in Players : confirmed[p][q] <= confirmed'[p][q],
         first_incorrect'[p] >= 0 => Settled(p) <= first_incorrect'[p]
  PROVE  Settled(p)' >= Settled(p)
<1> DEFINE x == Settled(p)
<1>1. /\ x \in Nat /\ x <= current[p] /\ \A q \in Players : x <= confirmed[p][q] + 1
      /\ current[p] \in Nat /\ confirmed[p] \in [Players -> Frame]
  BY SettledBounds DEF TypeOK
<1>2. current'[p] \in Nat /\ confirmed'[p] \in [Players -> Frame]
  BY DEF TypeOK
<1>3. x <= current'[p] /\ \A q \in Players : x <= confirmed'[p][q] + 1
  BY <1>1, <1>2 DEF Frame
<1>4. SettledGreatest(p)' /\ Settled(p)' \in Nat
  BY SettledBoundsNext
<1> HIDE DEF x
<1>5. x <= Settled(p)'
  BY <1>1, <1>3, <1>4 DEF SettledGreatest, x
<1> QED
  BY <1>1, <1>4, <1>5 DEF x

LEMMA SettledQuiet ==
  ASSUME TypeOK, TypeOK', NEW p \in Players, current'[p] = current[p],
         confirmed'[p] = confirmed[p], first_incorrect'[p] = first_incorrect[p]
  PROVE  Settled(p)' >= Settled(p)
<1>1. first_incorrect[p] >= 0 => Settled(p) <= first_incorrect[p]
  BY SettledBounds DEF RightFrames
<1>2. current[p] <= current'[p] /\ \A q \in Players : confirmed[p][q] <= confirmed'[p][q]
  BY CounterTypes
<1> QED
  BY <1>1, <1>2, SettledMoves

\* A packet proves wrong only frames whose input was not known.
LEMMA IncorrectUnsettled ==
  ASSUME TypeOK, FlowInv, PendingInv, NEW m \in net, NEW p \in Players, m.dst = p,
         Incorrect(p, m) >= 0
  PROVE  Settled(p) <= Incorrect(p, m)
<1> DEFINE wrong == Mispredicted(p, m)
           old == first_incorrect[p]
           n == Incorrect(p, m)
<1>1. /\ \A f \in wrong : f \in Nat /\ Settled(p) <= f
      /\ Settled(p) \in Nat
  <2>1. m.src \in Players
    BY DEF TypeOK, PacketOK
  <2>2. \A f \in wrong : f \in Nat /\ confirmed[p][m.src] < f
    BY MispredictedRecent DEF Mispredicted, Taken
  <2>3. Settled(p) \in Nat /\ Settled(p) <= confirmed[p][m.src] + 1
    BY <2>1, SettledBounds
  <2>4. confirmed[p][m.src] \in Int
    BY <2>1, CounterTypes
  <2> QED
    BY <2>2, <2>3, <2>4
<1>2. old \in Int /\ (old >= 0 => Settled(p) <= old)
  BY SettledBounds, PendingNumbers DEF RightFrames
<1>3. n = IF wrong = {} THEN old
          ELSE IF old < 0 THEN Min(wrong) ELSE Min(wrong \cup {old})
  BY DEF Incorrect
<1>4. n >= 0
  OBVIOUS
<1> HIDE DEF wrong, old, n
<1>5. CASE wrong = {}
  BY <1>2, <1>3, <1>4, <1>5 DEF n
<1>6. CASE wrong # {} /\ old < 0
  <2>1. wrong \subseteq Nat
    BY <1>1
  <2>2. n \in wrong
    BY <1>3, <1>6, <2>1, NatMin
  <2> QED
    BY <1>1, <2>2 DEF n
<1>7. CASE wrong # {} /\ ~(old < 0)
  <2>1. wrong \cup {old} \subseteq Nat
    BY <1>1, <1>2, <1>7
  <2>2. n \in wrong \cup {old}
    BY <1>3, <1>7, <2>1, NatMin
  <2> QED
    BY <1>1, <1>2, <1>7, <2>2 DEF n
<1> QED
  BY <1>5, <1>6, <1>7

LEMMA TickSettled ==
  ASSUME TypeOK, TypeOK', NEW r \in Players, NEW p \in Players,
         \/ TickStall(r) \/ TickThrottle(r) \/ \E v \in Input : TickAdvance(r, v)
  PROVE  Settled(p)' >= Settled(p)
<1>1. /\ first_incorrect'[r] = -1
      /\ \A q \in Players \ {r} : first_incorrect'[q] = first_incorrect[q]
  <2>1. \E h : Correct(r, h)
    BY DEF TickStall, TickThrottle, TickAdvance
  <2> QED
    BY <2>1, CorrectPending
<1>2. \A q \in Players \ {r} : current'[q] = current[q] /\ confirmed'[q] = confirmed[q]
  <2>1. CASE TickStall(r) \/ TickThrottle(r)
    BY <2>1 DEF TickStall, TickThrottle
  <2>2. CASE \E v \in Input : TickAdvance(r, v)
    BY <2>2 DEF TickAdvance, TypeOK
  <2> QED
    BY <2>1, <2>2
<1>3. /\ current[r] <= current'[r]
      /\ \A q \in Players : confirmed[r][q] <= confirmed'[r][q]
  <2>1. current[r] \in Nat /\ \A q \in Players : confirmed[r][q] \in Int
    BY CounterTypes
  <2>2. CASE TickStall(r) \/ TickThrottle(r)
    BY <2>1, <2>2 DEF TickStall, TickThrottle
  <2>3. CASE \E v \in Input : TickAdvance(r, v)
    <3> DEFINE lf == current[r] + InputDelay
    <3>1. /\ current' = [current EXCEPT ![r] = current[r] + 1]
          /\ confirmed' = IF confirmed[r][r] = lf - 1
                          THEN [confirmed EXCEPT ![r][r] = lf] ELSE confirmed
      BY <2>3 DEF TickAdvance
    <3>2. lf \in Int
      BY <2>1, ConfigAssumption
    <3> HIDE DEF lf
    <3>3. current'[r] = current[r] + 1
      BY <3>1 DEF TypeOK
    <3>4. \A q \in Players : confirmed'[r][q] = confirmed[r][q]
                            \/ confirmed'[r][q] = confirmed[r][q] + 1
      <4>1. CASE confirmed[r][r] = lf - 1
        <5>1. confirmed' = [confirmed EXCEPT ![r] = [confirmed[r] EXCEPT ![r] = lf]]
          BY <3>1, <4>1
        <5>2. confirmed'[r] = [confirmed[r] EXCEPT ![r] = lf]
          BY <5>1 DEF TypeOK
        <5>3. confirmed[r] \in [Players -> Frame]
          BY DEF TypeOK
        <5>4. \A q \in Players : confirmed'[r][q] = IF q = r THEN lf ELSE confirmed[r][q]
          BY <5>2, <5>3
        <5>5. lf = confirmed[r][r] + 1
          BY <3>2, <4>1
        <5> QED
          BY <5>4, <5>5
      <4>2. CASE confirmed[r][r] # lf - 1
        BY <3>1, <4>2
      <4> QED
        BY <4>1, <4>2
    <3> QED
      BY <2>1, <3>3, <3>4
  <2> QED
    BY <2>2, <2>3
<1>4. CASE p = r
  BY <1>1, <1>3, <1>4, SettledMoves
<1>5. CASE p # r
  BY <1>1, <1>2, <1>5, SettledQuiet
<1> QED
  BY <1>4, <1>5

LEMMA IngestSettled ==
  ASSUME TypeOK, TypeOK', FlowInv, PendingInv, NEW m \in net, NEW r \in Players,
         Ingest(r, m), NEW p \in Players
  PROVE  Settled(p)' >= Settled(p)
<1>1. /\ m.dst = r /\ m.src \in Players /\ current' = current
      /\ first_incorrect' = [first_incorrect EXCEPT ![r] = Incorrect(r, m)]
  BY DEF Ingest, Incorrect, TypeOK, PacketOK
<1>2. PICK n \in confirmed[r][m.src] .. confirmed[r][m.src] + Ring :
        confirmed' = [confirmed EXCEPT ![r] = [confirmed[r] EXCEPT ![m.src] = n]]
  BY DEF Ingest
<1>3. CASE p = r
  <2>1. \A q \in Players : confirmed[r][q] \in Int
    BY CounterTypes
  <2>2. \A q \in Players : confirmed'[r][q] = IF q = m.src THEN n ELSE confirmed[r][q]
    BY <1>1, <1>2 DEF TypeOK
  <2>3. \A q \in Players : confirmed[r][q] <= confirmed'[r][q]
    BY <1>1, <1>2, <2>1, <2>2
  <2>4. first_incorrect'[r] = Incorrect(r, m)
    BY <1>1 DEF TypeOK
  <2>5. first_incorrect'[r] >= 0 => Settled(r) <= first_incorrect'[r]
    BY <1>1, <2>4, IncorrectUnsettled
  <2>6. current[r] <= current'[r]
    BY <1>1, CounterTypes
  <2> QED
    BY <1>3, <2>3, <2>5, <2>6, SettledMoves
<1>4. CASE p # r
  <2>1. /\ current'[p] = current[p] /\ confirmed'[p] = confirmed[p]
        /\ first_incorrect'[p] = first_incorrect[p]
    BY <1>1, <1>2, <1>4 DEF TypeOK
  <2> QED
    BY <2>1, SettledQuiet
<1> QED
  BY <1>3, <1>4

\* What is final at a peer stays final: no tick, no start and no packet,
\* however late, makes it doubt a frame it had settled.
THEOREM NothingSettledRetreats ==
  ASSUME HashesTyped PROVE Spec => SettledNeverRetreats
<1>1. TypeOK /\ TypeOK' /\ FlowInv /\ PendingInv /\ [Next]_vars
        => \A p \in Players : Settled(p)' >= Settled(p)
  <2> SUFFICES ASSUME TypeOK, TypeOK', FlowInv, PendingInv, [Next]_vars, NEW p \in Players
               PROVE  Settled(p)' >= Settled(p)
    OBVIOUS
  <2>1. ASSUME NEW r \in Players, Start(r) PROVE Settled(p)' >= Settled(p)
    <3>1. CASE p = r
      <4>1. ~active[p] /\ current[p] = 0
        BY <2>1, <3>1 DEF Start, PendingInv
      <4>2. Settled(p) \in Nat /\ Settled(p) <= 0
        BY <4>1, SettledBounds
      <4>3. Settled(p)' \in Nat
        BY SettledBoundsNext
      <4> QED
        BY <4>2, <4>3
    <3>2. CASE p # r
      <4>1. confirmed'[p] = confirmed[p]
        BY <2>1, <3>2 DEF Start, TypeOK
      <4> QED
        BY <2>1, <4>1, SettledQuiet DEF Start
    <3> QED
      BY <3>1, <3>2
  <2>2. ASSUME NEW r \in Players, TickStall(r) \/ TickThrottle(r)
        PROVE  Settled(p)' >= Settled(p)
    BY <2>2, TickSettled
  <2>3. ASSUME NEW r \in Players, NEW v \in Plays[r], TickAdvance(r, v)
        PROVE  Settled(p)' >= Settled(p)
    BY <2>3, TickSettled, ConfigAssumption
  <2>4. ASSUME NEW r \in Players, SimDies(r) \/ SetInputCount(r)
        PROVE  Settled(p)' >= Settled(p)
    BY <2>4, SettledQuiet DEF SimDies, SetInputCount
  <2>5. ASSUME NEW r \in Players, NEW q \in Players, Send(r, q)
        PROVE  Settled(p)' >= Settled(p)
    BY <2>5, SettledQuiet DEF Send, sessionVars
  <2>6. ASSUME NEW m \in net, Lose(m) PROVE Settled(p)' >= Settled(p)
    BY <2>6, SettledQuiet DEF Lose, sessionVars
  <2>7. ASSUME NEW m \in net, NEW r \in Players, Ingest(r, m)
        PROVE  Settled(p)' >= Settled(p)
    BY <2>7, IngestSettled
  <2>8. ASSUME NEW m \in net, NEW r \in Players, IngestIncompatible(r, m)
        PROVE  Settled(p)' >= Settled(p)
    BY <2>8, SettledQuiet DEF IngestIncompatible
  <2>9. CASE UNCHANGED vars
    BY <2>9, SettledQuiet DEF vars
  <2> QED
    BY <2>1, <2>2, <2>3, <2>4, <2>5, <2>6, <2>7, <2>8, <2>9 DEF Next
<1>2. TypeOK /\ TypeOK' /\ FlowInv /\ PendingInv /\ [Next]_vars
        => [\A p \in Players : Settled(p)' >= Settled(p)]_vars
  BY <1>1
<1> QED
  BY <1>2, TypeCorrect, FlowInvariant, PendingInvariant, PTL DEF Spec, SettledNeverRetreats

-----------------------------------------------------------------------------
(* The lockstep game. *)

\* A frame that is right, with all its inputs known, was simulated with the
\* inputs that the players issued.
LEMMA RightIsFinal ==
  ASSUME NEW p \in Players, NEW h, HostOK(h), NEW k \in Nat, NEW n \in Nat,
         NEW conf \in [Players -> Int], NEW all, HostHistory(p, h, k, n, conf, all),
         NEW f \in 0 .. k - 1, \A q \in Players : f <= conf[q], k <= Len(h.sim)
  PROVE  Final(h.sim, f, all)
<1>1. CASE f < n - MaxPrediction
  BY <1>1 DEF HostHistory, SimulatedThere
<1>2. CASE ~(f < n - MaxPrediction)
  <2> DEFINE e == h.ring[f % Ring]
  <2>1. n - MaxPrediction <= f
    BY <1>2, ScheduleNumbers
  <2>2. e.frame = f /\ e.input = h.sim[f + 1]
    BY <2>1 DEF HostHistory, SimulatedThere
  <2>3. \A q \in Players : q \in e.by
    <3> TAKE q \in Players
    <3>1. f \in 0 .. conf[q]
      OBVIOUS
    <3> QED
      BY <2>1, <3>1 DEF HostHistory, KnownThere, Holds
  <2>4. f % Ring \in Cells
    BY CellOf
  <2>5. \A q \in Players : f < Len(all[q]) /\ e.input[q] = all[q][f + 1]
    BY <2>2, <2>3, <2>4 DEF HostHistory, IssuedThere
  <2>6. e.input \in Inputs
    BY <2>4 DEF HostOK, FrameEntry
  <2>7. e.input = [q \in Players |-> all[q][f + 1]]
    BY <2>5, <2>6 DEF Inputs
  <2> HIDE DEF e
  <2> QED
    BY <2>2, <2>5, <2>7 DEF Final
<1> QED
  BY <1>1, <1>2

\* The hashes of a host are those of the lockstep game, up to any frame that
\* is right and known.
LEMMA HashesAreLockstep ==
  ASSUME TypeOK, NEW p \in Players, NEW h, HostOK(h), NEW k \in Nat, NEW n \in Nat,
         NEW conf \in [Players -> Int], HostHistory(p, h, k, n, conf, issued),
         k <= Len(h.sim), NEW x \in Nat, x <= k, \A q \in Players : x <= conf[q] + 1,
         NEW c \in Cells, 0 <= h.hashes[c].frame, h.hashes[c].frame <= x
  PROVE  LockstepHash(p, h.hashes[c].frame, h.hashes[c].hash)
<1> DEFINE e == h.hashes[c]
           z == e.frame
<1>1. e \in HashEntry
  BY DEF HostOK
<1>2. z \in Nat /\ z <= x
  BY <1>1 DEF HashEntry, Frame
<1>3. e.hash = Hash(p, UpTo(h.sim, z))
  <2>1. z <= k
    BY <1>2
  <2> QED
    BY <2>1 DEF HostHistory, HashedThere
<1> HIDE DEF z
<1>4. \A f \in 0 .. z - 1 : Final(h.sim, f, issued)
  <2> TAKE f \in 0 .. z - 1
  <2>1. f \in 0 .. k - 1 /\ \A q \in Players : f <= conf[q]
    BY <1>2
  <2> QED
    BY <2>1, RightIsFinal
<1>5. UpTo(h.sim, z) = LockstepState(z)
  <2>1. \A i \in 1 .. z : h.sim[i] = [q \in Players |-> IssuedInput(q, i - 1)]
    <3> TAKE i \in 1 .. z
    <3>1. i - 1 \in 0 .. z - 1 /\ (i - 1) + 1 = i
      BY <1>2
    <3> QED
      BY <1>4, <3>1 DEF Final, IssuedInput
  <2> QED
    BY <2>1 DEF UpTo, LockstepState
<1>6. \A r \in Players : z <= Len(issued[r])
  <2> TAKE r \in Players
  <2>1. Len(issued[r]) \in Nat
    BY DEF TypeOK
  <2>2. CASE z = 0
    BY <2>1, <2>2
  <2>3. CASE z # 0
    <3>1. z - 1 \in 0 .. z - 1
      BY <1>2, <2>3
    <3>2. z - 1 < Len(issued[r])
      BY <1>4, <3>1 DEF Final
    <3> QED
      BY <1>2, <2>1, <3>2
  <2> QED
    BY <2>2, <2>3
<1> QED
  BY <1>2, <1>3, <1>5, <1>6 DEF LockstepHash, z

LEMMA OwnHashes ==
  ASSUME TypeOK, PendingInv, NEW p \in Players, HistoryOf(p), active[p], NEW c \in Cells,
         0 <= hashes[p][c].frame, hashes[p][c].frame <= Settled(p)
  PROVE  LockstepHash(p, hashes[p][c].frame, hashes[p][c].hash)
<1>1. PICK h : h = HostAt(p, sim[p])
  OBVIOUS
<1>2. /\ HostOK(h) /\ h.sim = sim[p] /\ h.hashes = hashes[p]
  BY <1>1 DEF HostAt, HostOK, TypeOK, SlotTable
<1>3. /\ HostHistory(p, h, RightFrames(p), current[p], confirmed[p], issued)
      /\ Len(h.sim) = current[p]
  BY <1>1, <1>2 DEF HistoryOf, PeerHistory
<1>4. /\ Settled(p) \in Nat /\ Settled(p) <= RightFrames(p)
      /\ \A q \in Players : Settled(p) <= confirmed[p][q] + 1
  BY SettledBounds
<1>5. current[p] \in Nat /\ confirmed[p] \in [Players -> Int]
  BY DEF TypeOK, Frame
<1>6. RightFrames(p) \in Nat /\ RightFrames(p) <= current[p]
  BY <1>5, PendingNumbers, RightFramesType DEF PendingInv, RightFrames
<1>7. 0 <= h.hashes[c].frame /\ h.hashes[c].frame <= Settled(p)
  BY <1>2
<1>8. RightFrames(p) <= Len(h.sim)
  BY <1>3, <1>6
<1>9. PICK k, n, x, conf : /\ k = RightFrames(p) /\ n = current[p] /\ x = Settled(p)
                           /\ conf = confirmed[p]
  OBVIOUS
<1>10. /\ k \in Nat /\ n \in Nat /\ x \in Nat /\ conf \in [Players -> Int]
       /\ HostHistory(p, h, k, n, conf, issued) /\ k <= Len(h.sim) /\ x <= k
       /\ \A q \in Players : x <= conf[q] + 1
       /\ 0 <= h.hashes[c].frame /\ h.hashes[c].frame <= x
  BY <1>3, <1>4, <1>5, <1>6, <1>7, <1>8, <1>9
<1>11. LockstepHash(p, h.hashes[c].frame, h.hashes[c].hash)
  BY <1>2, <1>10, HashesAreLockstep
<1> QED
  BY <1>2, <1>11

\* The settled frame is a recent one.
LEMMA SettledRecent ==
  ASSUME TypeOK, FlowInv, PendingInv, NEW p \in Players, HistoryOf(p), active[p]
  PROVE  Settled(p) \in Recent(p)
<1> DEFINE x == current[p] - MaxPrediction
<1>1. /\ Settled(p) \in Nat /\ Settled(p) <= current[p] /\ SettledGreatest(p)
      /\ current[p] \in Nat /\ MaxPrediction \in Nat
  BY SettledBounds, PendingNumbers
<1>2. \A q \in Players : x <= confirmed[p][q] + 1
  <2> TAKE q \in Players
  <2>1. CASE q = p
    BY <2>1, CounterTypes, SMTT(60) DEF HistoryOf, Latest
  <2>2. CASE q # p
    <3>1. current[p] <= confirmed[p][q] + 1 + MaxPrediction
      BY <2>2 DEF FlowInv, PairFlow, Remotes
    <3> QED
      BY <1>1, <3>1, CounterTypes
  <2> QED
    BY <2>1, <2>2
<1>3. first_incorrect[p] >= 0 => x <= first_incorrect[p]
  BY DEF PendingInv, Recent
<1>4. x \in Int /\ x <= current[p]
  BY <1>1
<1> HIDE DEF x
<1>5. x <= Settled(p)
  <2>1. CASE x \in Nat
    BY <1>1, <1>2, <1>3, <1>4, <2>1 DEF SettledGreatest
  <2>2. CASE x \notin Nat
    BY <1>1, <1>4, <2>2
  <2> QED
    BY <2>1, <2>2
<1> QED
  BY <1>1, <1>5 DEF Recent, x

\* What a peer takes as final is what lockstep would have computed, whatever
\* was predicted, corrected and received late before, and whatever fails at
\* the other peers.
THEOREM SettledAlwaysLockstep ==
  ASSUME HashesTyped, SnapshotsDistinct, RingFits, HistoryFits
  PROVE  Spec => []SettledIsLockstep
<1>1. TypeOK /\ FlowInv /\ SnapshotInv /\ HistoryInv => SettledIsLockstep
  <2> SUFFICES ASSUME TypeOK, FlowInv, SnapshotInv, HistoryInv, NEW p \in Reliable, active[p]
               PROVE  /\ hashes[p][Settled(p) % Ring].frame = Settled(p)
                      /\ \A c \in Cells :
                           0 <= hashes[p][c].frame /\ hashes[p][c].frame <= Settled(p) =>
                             hashes[p][c].hash = Hash(p, LockstepState(hashes[p][c].frame))
    BY DEF SettledIsLockstep
  <2>1. p \in Players /\ p \notin MayFailSave /\ HistoryOf(p)
    BY DEF Reliable, HistoryInv
  <2>2. Settled(p) \in Recent(p) /\ PendingInv
    BY <2>1, SettledRecent DEF SnapshotInv
  <2>3. hashes[p][Settled(p) % Ring].frame = Settled(p)
    BY <2>1, <2>2 DEF SnapshotInv, HasSnapshot
  <2> QED
    BY <2>1, <2>2, <2>3, OwnHashes DEF LockstepHash
<1> QED
  BY <1>1, SnapshotInvariant, HistoryInvariant, TypeCorrect, FlowInvariant, PTL

-----------------------------------------------------------------------------
(* Reports of a desync. *)

\* Issuing more inputs changes nothing of the frames already issued.
LEMMA LockstepStays ==
  ASSUME TypeOK, issued' \in [Players -> Seq(Input)], Continues(issued', issued),
         NEW n \in Nat, \A r \in Players : n <= Len(issued[r])
  PROVE  /\ \A r \in Players : n <= Len(issued'[r])
         /\ LockstepState(n)' = LockstepState(n)
<1>1. \A r \in Players : /\ Len(issued[r]) \in Nat /\ Len(issued'[r]) \in Nat
                         /\ Len(issued[r]) <= Len(issued'[r])
  BY DEF TypeOK, Continues
<1>2. \A i \in 1 .. n : \A q \in Players : issued'[q][i] = issued[q][i]
  <2> TAKE i \in 1 .. n
  <2> TAKE q \in Players
  <2>1. i \in 1 .. Len(issued[q])
    BY <1>1
  <2> QED
    BY <2>1 DEF Continues
<1>3. \A i \in 1 .. n : (i - 1) + 1 = i
  OBVIOUS
<1>4. \A i \in 1 .. n :
        [q \in Players |-> issued'[q][(i - 1) + 1]] = [q \in Players |-> issued[q][(i - 1) + 1]]
  BY <1>2, <1>3
<1>5. LockstepState(n)' = LockstepState(n)
  BY <1>4 DEF LockstepState, IssuedInput
<1> QED
  BY <1>1, <1>5

LEMMA EntryStays ==
  ASSUME TypeOK, issued' \in [Players -> Seq(Input)], Continues(issued', issued),
         NEW q \in Players, NEW e, LockstepEntry(q, e)
  PROVE  LockstepEntry(q, e)'
BY LockstepStays DEF LockstepEntry, LockstepHash

LEMMA DifferenceStays ==
  ASSUME TypeOK, issued' \in [Players -> Seq(Input)], Continues(issued', issued),
         NEW p \in Players, NEW n, RealDifference(p, n)
  PROVE  RealDifference(p, n)'
BY LockstepStays DEF RealDifference

\* check_remote_hash finds only real differences.
LEMMA CheckIsReal ==
  ASSUME NEW p \in Players, NEW incorrect, NEW safe \in Nat,
         NEW pending \in [Players -> HashEntry], NEW table \in [Cells -> HashEntry],
         TypeOK, CheckRemoteHash(p, incorrect, safe, pending, table),
         \A q \in Remotes(p) : LockstepEntry(q, pending[q]),
         ~(incorrect >= 0) => \A c \in Cells :
           0 <= table[c].frame /\ table[c].frame <= safe => LockstepEntry(p, table[c]),
         desync[p] # -1 => RealDifference(p, desync[p])
  PROVE  /\ desync'[p] # -1 => RealDifference(p, desync'[p])
         /\ \A r \in Players \ {p} : desync'[r] = desync[r]
<1>1. CASE desync' = desync
  BY <1>1
<1>2. CASE desync' # desync
  <2>1. PICK f \in Mismatches(p, safe, pending, table) :
          ~(incorrect >= 0) /\ desync' = [desync EXCEPT ![p] = f]
    BY <1>2 DEF CheckRemoteHash
  <2>2. PICK q \in Remotes(p) :
          /\ f = pending[q].frame /\ 0 <= f /\ f <= safe
          /\ table[f % Ring].frame = f /\ table[f % Ring].hash # pending[q].hash
    BY DEF Mismatches
  <2>3. f \in Int /\ f % Ring \in Cells
    <3>1. q \in Players
      BY DEF Remotes
    <3>2. f \in Int
      BY <2>2, <3>1 DEF HashEntry, Frame
    <3> QED
      BY <3>2, CellOf
  <2>4. LockstepHash(q, f, pending[q].hash)
    BY <2>2 DEF LockstepEntry
  <2>5. LockstepHash(p, f, table[f % Ring].hash)
    BY <2>1, <2>2, <2>3 DEF LockstepEntry
  <2>6. RealDifference(p, f)
    BY <2>2, <2>4, <2>5 DEF LockstepHash, RealDifference
  <2> QED
    BY <2>1, <2>6 DEF TypeOK
<1> QED
  BY <1>1, <1>2

\* What a step must do to keep the reports true.
LEMMA ReportStep ==
  ASSUME TypeOK, ReportInv, issued' \in [Players -> Seq(Input)],
         Continues(issued', issued),
         \A m \in net' : \/ m \in net
                         \/ /\ m.src \in Players
                            /\ m.src \in Reliable => LockstepEntry(m.src, m.hash),
         \A p \in Players : \A q \in Remotes(p) \cap Reliable :
           \/ remote_hash'[p][q] = remote_hash[p][q]
           \/ LockstepEntry(q, remote_hash'[p][q]),
         \A p \in Players :
           \/ desync'[p] = desync[p]
           \/ Reliable = Players /\ desync'[p] # -1 => RealDifference(p, desync'[p])
  PROVE  ReportInv'
<1>1. ASSUME NEW m \in net', m.src \in Reliable PROVE LockstepEntry(m.src, m.hash)'
  <2>1. m.src \in Players /\ LockstepEntry(m.src, m.hash)
    BY <1>1 DEF ReportInv, TypeOK, PacketOK
  <2> QED
    BY <2>1, EntryStays
<1>2. ASSUME NEW p \in Players, NEW q \in Remotes(p) \cap Reliable
      PROVE  LockstepEntry(q, remote_hash[p][q])'
  <2>1. PICK e : e = remote_hash'[p][q]
    OBVIOUS
  <2>2. LockstepEntry(q, e) /\ q \in Players
    BY <2>1 DEF ReportInv, Remotes
  <2>3. LockstepEntry(q, e)'
    BY <2>2, EntryStays
  <2> QED
    BY <2>1, <2>3
<1>3. ASSUME Reliable = Players, NEW p \in Players, desync'[p] # -1
      PROVE  RealDifference(p, desync[p])'
  <2>1. PICK n : n = desync'[p]
    OBVIOUS
  <2>2. RealDifference(p, n)
    BY <1>3, <2>1 DEF ReportInv
  <2>3. RealDifference(p, n)'
    BY <2>2, DifferenceStays
  <2> QED
    BY <2>1, <2>3 DEF RealDifference, LockstepState, IssuedInput
<1> QED
  BY <1>1, <1>2, <1>3 DEF ReportInv, Remotes

LEMMA QuietReports ==
  ASSUME TypeOK, ReportInv, UNCHANGED <<remote_hash, desync, issued>>, net' \subseteq net
  PROVE  ReportInv'
BY ReportStep, SameContinues

LEMMA StartReports ==
  ASSUME TypeOK, GenuineInv, ReportInv, NEW p \in Players, Start(p)
  PROVE  ReportInv'
<1>1. UNCHANGED <<remote_hash, desync, net>>
  BY DEF Start
<1>2. issued' \in [Players -> Seq(Input)] /\ Continues(issued', issued)
  BY StartIssues
<1> QED
  BY <1>1, <1>2, ReportStep

LEMMA TickDesync ==
  ASSUME HashesTyped, SnapshotsDistinct, HistoryFits, TypeOK, FlowInv, SnapshotInv,
         HistoryInv, ReportInv, Reliable = Players, NEW p \in Players,
         \/ TickStall(p) \/ TickThrottle(p) \/ \E v \in Input : TickAdvance(p, v)
  PROVE  desync'[p] # -1 => RealDifference(p, desync'[p])
<1>1. p \in Reliable /\ HistoryOf(p)
  BY DEF HistoryInv
<1>2. active[p]
  BY DEF TickStall, TickThrottle, TickAdvance
<1>3. PICK h \in Corrections(p) : Correct(p, h)
  BY DEF TickStall, TickThrottle, TickAdvance
<1>4. /\ HostOK(h) /\ Len(h.sim) = current[p]
      /\ HostHistory(p, h, current[p], current[p], confirmed[p], issued)
  BY <1>1, <1>2, CorrectionsHistory, CorrectionsType
<1>5. PICK safe : safe = SafeFrame(current[p], confirmed[p])
  OBVIOUS
<1>6. /\ safe \in Nat /\ safe <= current[p] /\ current[p] \in Nat
      /\ \A q \in Players : safe <= confirmed[p][q] + 1
      /\ confirmed[p] \in [Players -> Int]
  <2>1. current[p] \in Nat /\ confirmed[p] \in [Players -> Frame]
    BY DEF TypeOK
  <2>2. confirmed[p] \in [Players -> Int]
    BY <2>1 DEF Frame
  <2> QED
    BY <1>5, <2>1, <2>2, SafeBounds
<1>7. \A c \in Cells : 0 <= h.hashes[c].frame /\ h.hashes[c].frame <= safe
        => LockstepEntry(p, h.hashes[c])
  <2> SUFFICES ASSUME NEW c \in Cells, 0 <= h.hashes[c].frame, h.hashes[c].frame <= safe
               PROVE  LockstepHash(p, h.hashes[c].frame, h.hashes[c].hash)
    BY DEF LockstepEntry
  <2>1. PICK n, conf : n = current[p] /\ conf = confirmed[p]
    OBVIOUS
  <2>2. /\ n \in Nat /\ conf \in [Players -> Int] /\ n <= Len(h.sim) /\ safe <= n
        /\ HostHistory(p, h, n, n, conf, issued) /\ \A q \in Players : safe <= conf[q] + 1
    BY <1>4, <1>6, <2>1
  <2> QED
    BY <1>4, <1>6, <2>2, HashesAreLockstep
<1> QED
  <2>1. CheckRemoteHash(p, -1, safe, remote_hash[p], h.hashes)
    BY <1>3, <1>5 DEF Correct
  <2>2. /\ remote_hash[p] \in [Players -> HashEntry]
        /\ h.hashes \in [Cells -> HashEntry]
    BY <1>4 DEF TypeOK, HostOK
  <2>3. /\ \A q \in Remotes(p) : LockstepEntry(q, remote_hash[p][q])
        /\ desync[p] # -1 => RealDifference(p, desync[p])
    BY DEF ReportInv, Remotes
  <2> QED
    BY <1>6, <1>7, <2>1, <2>2, <2>3, CheckIsReal

LEMMA TickReports ==
  ASSUME HashesTyped, SnapshotsDistinct, HistoryFits, TypeOK, FlowInv, SnapshotInv,
         HistoryInv, ReportInv, NEW p \in Players,
         \/ TickStall(p) \/ TickThrottle(p) \/ \E v \in Input : TickAdvance(p, v)
  PROVE  ReportInv'
<1>1. UNCHANGED <<remote_hash, net>>
  BY DEF TickStall, TickThrottle, TickAdvance
<1>2. issued' \in [Players -> Seq(Input)] /\ Continues(issued', issued)
  BY TickContinues
<1>3. \A r \in Players \ {p} : desync'[r] = desync[r]
  <2>1. PICK h : Correct(p, h)
    BY DEF TickStall, TickThrottle, TickAdvance
  <2> QED
    BY <2>1 DEF Correct, CheckRemoteHash, TypeOK
<1>4. \A r \in Players :
        \/ desync'[r] = desync[r]
        \/ Reliable = Players /\ desync'[r] # -1 => RealDifference(r, desync'[r])
  BY <1>3, TickDesync
<1> QED
  BY <1>1, <1>2, <1>4, ReportStep

\* The hash in a packet is that of the sender's safe frame, and final.
LEMMA SendReports ==
  ASSUME TypeOK, PendingInv, HistoryInv, ReportInv, NEW p \in Players, NEW q \in Players,
         Send(p, q)
  PROVE  ReportInv'
<1> DEFINE m == PacketTo(p, q)
           safe == SafeFrame(current[p], confirmed[p])
<1>1. /\ active[p] /\ net' = net \cup {m}
      /\ UNCHANGED <<remote_hash, desync, issued>>
  BY DEF Send, sessionVars
<1>2. m.src = p
  BY DEF PacketTo
<1>3. ASSUME p \in Reliable PROVE LockstepEntry(p, m.hash)
  <2>1. \/ m.hash = NoHash
        \/ /\ first_incorrect[p] < 0 /\ hashes[p][safe % Ring].frame = safe
           /\ m.hash = hashes[p][safe % Ring]
    BY DEF PacketTo
  <2>2. CASE m.hash = NoHash
    <3>1. m.hash.frame = -1
      BY <2>2 DEF NoHash
    <3> HIDE DEF m
    <3> QED
      BY <3>1 DEF LockstepEntry
  <2>3. CASE /\ first_incorrect[p] < 0 /\ hashes[p][safe % Ring].frame = safe
             /\ m.hash = hashes[p][safe % Ring]
    <3>1. Settled(p) = safe
      BY <2>3, PendingNumbers DEF Settled
    <3>2. Settled(p) \in Nat
      BY SettledBounds
    <3>3. safe % Ring \in Cells
      BY <3>1, <3>2, CellOf
    <3> HIDE DEF safe, m
    <3>4. 0 <= hashes[p][safe % Ring].frame /\ hashes[p][safe % Ring].frame <= Settled(p)
      BY <2>3, <3>1, <3>2
    <3>5. LockstepHash(p, hashes[p][safe % Ring].frame, hashes[p][safe % Ring].hash)
      BY <1>1, <1>3, <3>3, <3>4, OwnHashes DEF HistoryInv
    <3> QED
      BY <2>3, <3>5 DEF LockstepEntry
  <2> QED
    BY <2>1, <2>2, <2>3
<1> HIDE DEF m
<1> QED
  BY <1>1, <1>2, <1>3, ReportStep, SameContinues

LEMMA IngestReports ==
  ASSUME HistoryFits, TypeOK, TypeOK', FlowInv, GenuineInv, PendingInv, HistoryInv,
         ReportInv, NEW m \in net, NEW p \in Players, Ingest(p, m)
  PROVE  ReportInv'
<1> DEFINE q == m.src
           pending == IF m.hash.frame > remote_hash[p][q].frame /\ m.hash.frame <= m.frame
                      THEN [remote_hash[p] EXCEPT ![q] = m.hash] ELSE remote_hash[p]
<1>1. /\ m.dst = p /\ active[p] /\ q \in Players /\ net' \subseteq net
      /\ issued' = issued /\ m.hash \in HashEntry
      /\ remote_hash' = [remote_hash EXCEPT ![p] = pending]
  BY DEF Ingest, TypeOK, PacketOK, Remotes, Deliver
<1>2. PICK n \in confirmed[p][q] .. confirmed[p][q] + Ring :
        /\ confirmed' = [confirmed EXCEPT ![p] = [confirmed[p] EXCEPT ![q] = n]]
        /\ CheckRemoteHash(p, Incorrect(p, m),
             SafeFrame(current[p], [confirmed[p] EXCEPT ![q] = n]), pending, hashes[p])
  BY DEF Ingest, Incorrect
<1>3. confirmed'[p] = [confirmed[p] EXCEPT ![q] = n]
  BY <1>2 DEF TypeOK
<1>4. PICK conf : conf = confirmed'[p]
  OBVIOUS
<1>5. CheckRemoteHash(p, Incorrect(p, m), SafeFrame(current[p], conf), pending, hashes[p])
  BY <1>2, <1>3, <1>4
<1>6. /\ pending \in [Players -> HashEntry]
      /\ \A r \in Remotes(p) \cap Reliable : LockstepEntry(r, pending[r])
      /\ \A r \in Remotes(p) : remote_hash'[p][r] = pending[r]
      /\ \A r \in Players \ {p} : remote_hash'[r] = remote_hash[r]
  <2>1. remote_hash[p] \in [Players -> HashEntry]
    BY DEF TypeOK
  <2>2. /\ \A r \in Remotes(p) \cap Reliable : LockstepEntry(r, remote_hash[p][r])
        /\ q \in Reliable => LockstepEntry(q, m.hash)
    BY DEF ReportInv
  <2>3. \A r \in Players : pending[r] = remote_hash[p][r] \/ (r = q /\ pending[r] = m.hash)
    BY <2>1
  <2>4. pending \in [Players -> HashEntry]
    BY <1>1, <2>1
  <2> HIDE DEF pending
  <2>5. \A r \in Remotes(p) \cap Reliable : LockstepEntry(r, pending[r])
    BY <2>2, <2>3 DEF Remotes
  <2> QED
    BY <1>1, <2>4, <2>5 DEF TypeOK
<1> HIDE DEF pending
<1>7. conf \in [Players -> Frame] /\ conf \in [Players -> Int] /\ current[p] \in Nat
  <2>1. conf \in [Players -> Frame]
    BY <1>4 DEF TypeOK
  <2> QED
    BY <2>1 DEF TypeOK, Frame
<1>8. PICK safe : safe = SafeFrame(current[p], conf)
  OBVIOUS
<1>9. /\ safe \in Nat /\ safe <= current[p] /\ \A r \in Players : safe <= conf[r] + 1
  BY <1>7, <1>8, SafeBounds
<1>10. ASSUME HistoryOf(p), ~(Incorrect(p, m) >= 0), NEW c \in Cells, 0 <= hashes[p][c].frame,
              hashes[p][c].frame <= safe
       PROVE  LockstepEntry(p, hashes[p][c])
  <2>1. PICK g : g = [ring |-> RingWith(p, m), sim |-> sim[p], slots |-> slots[p],
                      hashes |-> hashes[p]]
    OBVIOUS
  <2>2. /\ g.ring = RingWith(p, m) /\ g.sim = sim[p] /\ g.slots = slots[p]
        /\ g.hashes = hashes[p]
    BY <2>1
  <2>3. HostOK(g)
    <3>1. RingWith(p, m) \in [Cells -> FrameEntry]
      BY RingWithType DEF TypeOK
    <3> QED
      BY <2>1, <3>1 DEF HostOK, TypeOK, SlotTable
  <2>4. PICK k : k = current[p]
    OBVIOUS
  <2>5. RightAfter(p, m) = k
    BY <1>10, <2>4 DEF RightAfter
  <2>6. HostHistory(p, g, k, k, conf, issued)
    BY <1>4, <1>10, <2>2, <2>4, <2>5, IngestHost
  <2>7. k \in Nat /\ Len(g.sim) = k /\ safe <= k
    BY <1>7, <1>9, <1>10, <2>2, <2>4 DEF HistoryOf
  <2>8. 0 <= g.hashes[c].frame /\ g.hashes[c].frame <= safe
    BY <1>10, <2>2
  <2>9. k <= Len(g.sim) /\ \A r \in Players : safe <= conf[r] + 1
    BY <1>9, <2>7
  <2>10. LockstepHash(p, g.hashes[c].frame, g.hashes[c].hash)
    BY <1>7, <1>9, <2>3, <2>6, <2>7, <2>8, <2>9, HashesAreLockstep
  <2> QED
    BY <2>2, <2>10 DEF LockstepEntry
<1>11. ASSUME Reliable = Players
       PROVE  desync'[p] # -1 => RealDifference(p, desync'[p])
  <2>1. CheckRemoteHash(p, Incorrect(p, m), safe, pending, hashes[p])
    BY <1>5, <1>8
  <2>2. hashes[p] \in [Cells -> HashEntry]
    BY DEF TypeOK
  <2>3. desync[p] # -1 => RealDifference(p, desync[p])
    BY <1>11 DEF ReportInv
  <2>4. HistoryOf(p) /\ \A r \in Remotes(p) : LockstepEntry(r, pending[r])
    BY <1>6, <1>11 DEF HistoryInv, Remotes
  <2> QED
    BY <1>6, <1>9, <1>10, <2>1, <2>2, <2>3, <2>4, CheckIsReal
<1>12. \A r \in Players \ {p} : desync'[r] = desync[r]
  BY <1>5 DEF CheckRemoteHash, TypeOK
<1>13. \A r \in Players :
         \/ desync'[r] = desync[r]
         \/ Reliable = Players /\ desync'[r] # -1 => RealDifference(r, desync'[r])
  BY <1>11, <1>12
<1>14. \A r \in Players : \A x \in Remotes(r) \cap Reliable :
         \/ remote_hash'[r][x] = remote_hash[r][x]
         \/ LockstepEntry(x, remote_hash'[r][x])
  BY <1>6
<1> QED
  BY <1>1, <1>13, <1>14, ReportStep, SameContinues

\* Every hash that a peer whose simulation works has sent is that of the
\* lockstep game: never that of a prediction.
THEOREM ReportInvariant ==
  ASSUME HashesTyped, SnapshotsDistinct, RingFits, HistoryFits
  PROVE  Spec => []ReportInv
<1>1. Init => ReportInv
  BY DEF Init, ReportInv, LockstepEntry, NoHash, Remotes
<1>2. TypeOK /\ TypeOK' /\ FlowInv /\ GenuineInv /\ SnapshotInv /\ HistoryInv
        /\ ReportInv /\ [Next]_vars => ReportInv'
  <2> SUFFICES ASSUME TypeOK, TypeOK', FlowInv, GenuineInv, SnapshotInv, HistoryInv,
                      ReportInv, [Next]_vars
               PROVE  ReportInv'
    OBVIOUS
  <2>1. ASSUME NEW p \in Players, Start(p) PROVE ReportInv'
    BY <2>1, StartReports
  <2>2. ASSUME NEW p \in Players, TickStall(p) \/ TickThrottle(p) PROVE ReportInv'
    BY <2>2, TickReports
  <2>3. ASSUME NEW p \in Players, NEW v \in Plays[p], TickAdvance(p, v) PROVE ReportInv'
    BY <2>3, TickReports, ConfigAssumption
  <2>4. ASSUME NEW p \in Players, SimDies(p) \/ SetInputCount(p) PROVE ReportInv'
    BY <2>4, QuietReports DEF SimDies, SetInputCount
  <2>5. ASSUME NEW p \in Players, NEW q \in Players, Send(p, q) PROVE ReportInv'
    BY <2>5, SendReports DEF SnapshotInv
  <2>6. ASSUME NEW m \in net, Lose(m) PROVE ReportInv'
    BY <2>6, QuietReports DEF Lose, sessionVars
  <2>7. ASSUME NEW m \in net, NEW p \in Players, Ingest(p, m) PROVE ReportInv'
    BY <2>7, IngestReports DEF SnapshotInv
  <2>8. ASSUME NEW m \in net, NEW p \in Players, IngestIncompatible(p, m)
        PROVE  ReportInv'
    BY <2>8, QuietReports DEF IngestIncompatible, Deliver
  <2>9. CASE UNCHANGED vars
    BY <2>9, QuietReports DEF vars
  <2> QED
    BY <2>1, <2>2, <2>3, <2>4, <2>5, <2>6, <2>7, <2>8, <2>9 DEF Next
<1> QED
  BY <1>1, <1>2, SnapshotInvariant, TypeCorrect, FlowInvariant, GenuineInvariant,
     HistoryInvariant, PTL DEF Spec

\* No prediction, delay, reordering or loss makes a peer report a desync:
\* where it does, two simulations of the same inputs differ.
THEOREM DesyncAlwaysReal ==
  ASSUME HashesTyped, SnapshotsDistinct, NothingFails, RingFits, HistoryFits
  PROVE  Spec => []DesyncIsReal
<1>1. Reliable = Players
  BY DEF NothingFails, Reliable
<1>2. ReportInv => DesyncIsReal
  BY <1>1 DEF ReportInv, DesyncIsReal, RealDifference
<1> QED
  BY <1>2, ReportInvariant, PTL

-----------------------------------------------------------------------------
(* Refinement. *)

\* What each peer publishes is the hash of the lockstep game at its settled
\* frame, for which every player has issued its inputs.
PublishedRight ==
  \A p \in Reliable :
    /\ PublishedHash[p] = Hash(p, L!StateAfter(issued, SettledFrame[p]))
    /\ \A q \in Players : SettledFrame[p] <= Len(issued[q])

LEMMA PublishedIsRight ==
  TypeOK /\ FlowInv /\ SnapshotInv /\ HistoryInv => PublishedRight
<1> SUFFICES ASSUME TypeOK, FlowInv, SnapshotInv, HistoryInv, NEW p \in Reliable
             PROVE  /\ PublishedHash[p] = Hash(p, L!StateAfter(issued, Settled(p)))
                    /\ \A q \in Players : Settled(p) <= Len(issued[q])
  BY DEF PublishedRight, SettledFrame
<1>1. /\ PendingInv /\ p \in Players /\ p \notin MayFailSave /\ HistoryOf(p)
      /\ Settled(p) \in Nat /\ Settled(p) <= current[p]
  BY SettledBounds DEF SnapshotInv, HistoryInv, Reliable
<1>2. CASE ~active[p]
  <2>1. Settled(p) = 0
    BY <1>1, <1>2 DEF PendingInv
  <2>2. L!StateAfter(issued, 0) = <<>>
    BY DEF L!StateAfter
  <2>3. PublishedHash[p] = Hash(p, <<>>)
    BY <1>2 DEF PublishedHash
  <2>4. \A q \in Players : Len(issued[q]) \in Nat
    BY DEF TypeOK
  <2> QED
    BY <2>1, <2>2, <2>3, <2>4
<1>3. CASE active[p]
  <2> DEFINE n == Settled(p)
             c == n % Ring
  <2>1. n \in Recent(p)
    BY <1>1, <1>3, SettledRecent
  <2>2. c \in Cells /\ hashes[p][c].frame = n
    BY <1>1, <1>3, <2>1, CellOf DEF SnapshotInv, HasSnapshot
  <2>3. PublishedHash[p] = hashes[p][c].hash
    BY <1>3 DEF PublishedHash
  <2> HIDE DEF c
  <2>4. LockstepHash(p, n, hashes[p][c].hash)
    BY <1>1, <1>3, <2>2, OwnHashes
  <2>5. LockstepState(n) = L!StateAfter(issued, n)
    <3> HIDE DEF n
    <3>1. \A i \in 1 .. n : (i - 1) + 1 = i
      OBVIOUS
    <3> QED
      BY <3>1 DEF LockstepState, IssuedInput, L!StateAfter
  <2> QED
    BY <2>3, <2>4, <2>5 DEF LockstepHash
<1> QED
  BY <1>2, <1>3

\* A step of p is one of the lockstep game.
LEMMA PeerProceeds ==
  ASSUME TypeOK, TypeOK', PublishedRight', NEW p \in Players,
         Settled(p)' >= Settled(p), Continues(issued', issued),
         \A q \in Players \ {p} :
           /\ issued'[q] = issued[q] /\ active'[q] = active[q]
           /\ current'[q] = current[q] /\ confirmed'[q] = confirmed[q]
           /\ first_incorrect'[q] = first_incorrect[q] /\ hashes'[q] = hashes[q]
  PROVE  L!Next
<1>1. ASSUME NEW q \in Reliable \ {p}
      PROVE  SettledFrame'[q] = SettledFrame[q] /\ PublishedHash'[q] = PublishedHash[q]
  <2>1. Settled(q)' = Settled(q)
    BY <1>1 DEF Settled, Reliable
  <2>2. SettledFrame'[q] = SettledFrame[q]
    BY <2>1 DEF SettledFrame
  <2> QED
    BY <2>1, <2>2 DEF PublishedHash, Reliable
<1>2. L!IsPrefix(issued[p], issued'[p])
  <2>1. issued[p] \in Seq(Input) /\ issued'[p] \in Seq(Input)
    BY DEF TypeOK
  <2>2. Len(issued[p]) <= Len(issued'[p])
    BY DEF Continues
  <2>3. \A i \in 1 .. Len(issued[p]) : issued[p][i] = issued'[p][i]
    BY DEF Continues
  <2>4. SubSeq(issued[p], 1, Len(issued[p])) = SubSeq(issued'[p], 1, Len(issued[p]))
    BY <2>1, <2>2, <2>3
  <2> QED
    BY <2>2, <2>4 DEF L!IsPrefix
<1>3. p \in Reliable => SettledFrame'[p] >= SettledFrame[p]
  BY DEF SettledFrame
<1>4. p \in Reliable =>
      /\ \A q \in Players : SettledFrame'[p] <= Len(issued'[q])
      /\ PublishedHash'[p] = Hash(p, L!StateAfter(issued', SettledFrame'[p]))
  BY DEF PublishedRight, L!StateAfter
<1>5. L!Proceed(p)
  BY <1>1, <1>2, <1>3, <1>4 DEF L!Proceed, L!Play, L!Simulate
<1> QED
  BY <1>5 DEF L!Next

LEMMA QuietProceeds ==
  ASSUME UNCHANGED <<issued, active, current, confirmed, first_incorrect, hashes>>
  PROVE  UNCHANGED L!vars
<1>1. \A q \in Reliable : Settled(q)' = Settled(q)
  BY DEF Settled, Reliable
<1>2. SettledFrame' = SettledFrame
  BY <1>1 DEF SettledFrame
<1>3. PublishedHash' = PublishedHash
  BY <1>1 DEF PublishedHash
<1> QED
  BY <1>2, <1>3 DEF L!vars

LEMMA TickProceeds ==
  ASSUME TypeOK, TypeOK', PublishedRight', NEW p \in Players, Settled(p)' >= Settled(p),
         \/ TickStall(p) \/ TickThrottle(p) \/ \E v \in Input : TickAdvance(p, v)
  PROVE  L!Next
<1>1. \A r \in Players \ {p} : first_incorrect'[r] = first_incorrect[r]
  <2>1. \E h : Correct(p, h)
    BY DEF TickStall, TickThrottle, TickAdvance
  <2> QED
    BY <2>1, CorrectPending
<1>2. /\ active' = active
      /\ \A r \in Players \ {p} :
           current'[r] = current[r] /\ confirmed'[r] = confirmed[r] /\ issued'[r] = issued[r]
  <2>1. CASE TickStall(p) \/ TickThrottle(p)
    BY <2>1 DEF TickStall, TickThrottle
  <2>2. CASE \E v \in Input : TickAdvance(p, v)
    BY <2>2 DEF TickAdvance, TypeOK
  <2> QED
    BY <2>1, <2>2
<1>3. Continues(issued', issued)
  BY TickContinues
<1>4. \A r \in Players \ {p} : hashes'[r] = hashes[r]
  <2>1. \E g : SetHost(p, g)
    BY DEF TickStall, TickThrottle, TickAdvance
  <2> QED
    BY <2>1 DEF SetHost, TypeOK
<1> QED
  BY <1>1, <1>2, <1>3, <1>4, PeerProceeds

\* A session implements the lockstep game: every step of a peer or of the
\* network leaves the final history of all peers alone or extends that of
\* one as lockstep would.
THEOREM LockstepImplemented ==
  ASSUME HashesTyped, SnapshotsDistinct, RingFits, HistoryFits
  PROVE  Spec => ImplementsLockstep
<1>1. Init => L!Init
  <2> SUFFICES ASSUME Init PROVE L!Init
    OBVIOUS
  <2>1. TypeOK
    BY InitType
  <2>2. \A p \in Players : Settled(p) = 0
    BY <2>1, SettledBounds DEF Init
  <2> QED
    BY <2>2 DEF Init, L!Init, SettledFrame, PublishedHash, Reliable
<1>2. /\ TypeOK /\ TypeOK' /\ GenuineInv /\ PublishedRight'
      /\ [\A p \in Players : Settled(p)' >= Settled(p)]_vars
      /\ [Next]_vars
      => [L!Next]_L!vars
  <2> SUFFICES ASSUME TypeOK, TypeOK', GenuineInv, PublishedRight',
                      [\A p \in Players : Settled(p)' >= Settled(p)]_vars, [Next]_vars
               PROVE  [L!Next]_L!vars
    OBVIOUS
  <2>1. CASE UNCHANGED vars
    BY <2>1, QuietProceeds DEF vars
  <2>2. CASE ~(UNCHANGED vars)
    <3>1. \A p \in Players : Settled(p)' >= Settled(p)
      BY <2>2
    <3>2. ASSUME NEW p \in Players, Start(p) PROVE L!Next
      <4>1. /\ UNCHANGED <<current, first_incorrect>>
            /\ \A q \in Players \ {p} :
                 /\ issued'[q] = issued[q] /\ active'[q] = active[q]
                 /\ confirmed'[q] = confirmed[q] /\ hashes'[q] = hashes[q]
        BY <3>2 DEF Start, TypeOK
      <4>2. Continues(issued', issued)
        BY <3>2, StartIssues
      <4> QED
        BY <3>1, <4>1, <4>2, PeerProceeds
    <3>3. ASSUME NEW p \in Players, TickStall(p) \/ TickThrottle(p) PROVE L!Next
      BY <3>1, <3>3, TickProceeds
    <3>4. ASSUME NEW p \in Players, NEW v \in Plays[p], TickAdvance(p, v) PROVE L!Next
      BY <3>1, <3>4, TickProceeds, ConfigAssumption
    <3>5. ASSUME NEW p \in Players, SimDies(p) \/ SetInputCount(p)
          PROVE  UNCHANGED L!vars
      BY <3>5, QuietProceeds DEF SimDies, SetInputCount
    <3>6. ASSUME NEW p \in Players, NEW q \in Players, Send(p, q) PROVE UNCHANGED L!vars
      BY <3>6, QuietProceeds DEF Send, sessionVars
    <3>7. ASSUME NEW m \in net, Lose(m) PROVE UNCHANGED L!vars
      BY <3>7, QuietProceeds DEF Lose, sessionVars
    <3>8. ASSUME NEW m \in net, NEW p \in Players, Ingest(p, m) PROVE L!Next
      <4>1. UNCHANGED <<active, current, hashes, issued>>
        BY <3>8 DEF Ingest
      <4>2. /\ \E wrong : first_incorrect' = [first_incorrect EXCEPT ![p] = wrong]
            /\ \E conf : confirmed' = [confirmed EXCEPT ![p] = conf]
        BY <3>8, Zenon DEF Ingest
      <4>3. \A q \in Players \ {p} : /\ first_incorrect'[q] = first_incorrect[q]
                                    /\ confirmed'[q] = confirmed[q]
        BY <4>2 DEF TypeOK
      <4> QED
        BY <3>1, <4>1, <4>3, SameContinues, PeerProceeds
    <3>9. ASSUME NEW m \in net, NEW p \in Players, IngestIncompatible(p, m)
          PROVE  UNCHANGED L!vars
      BY <3>9, QuietProceeds DEF IngestIncompatible
    <3> QED
      BY <2>2, <3>2, <3>3, <3>4, <3>5, <3>6, <3>7, <3>8, <3>9 DEF Next
  <2> QED
    BY <2>1, <2>2
<1>3. Spec => [][\A p \in Players : Settled(p)' >= Settled(p)]_vars
  BY NothingSettledRetreats DEF SettledNeverRetreats
<1>4. Spec => []PublishedRight
  BY PublishedIsRight, TypeCorrect, FlowInvariant, SnapshotInvariant, HistoryInvariant, PTL
<1> QED
  BY <1>1, <1>2, <1>3, <1>4, TypeCorrect, GenuineInvariant,
     PTL DEF Spec, ImplementsLockstep, L!Spec

=============================================================================
