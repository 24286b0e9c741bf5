---------------------------- MODULE GenuineProofs ----------------------------
(***************************************************************************)
(* What a packet carries is what its sender issued: for any number of      *)
(* players and any configuration whose ring has room for the resend window *)
(* and, beyond it, for the inputs that remotes may be ahead.               *)
(***************************************************************************)
EXTENDS RollbackFlowProofs

\* The ring holds the resend window besides the delay and the prediction.
\* configure() does not ensure it.
RingFits == InputDelay + MaxPrediction + MaxSendInputs <= Ring

-----------------------------------------------------------------------------
(* What the steps of a peer leave of its own inputs in its ring. *)

\* The ring new holds p's inputs for the frames of S that old holds.
KeepsOwn(p, new, old, S) ==
  \A g \in S : Holds(old, p, g) =>
    Holds(new, p, g) /\ new[g % Ring].input[p] = old[g % Ring].input[p]

LEMMA KeepsOwnTransitive ==
  ASSUME NEW p, NEW a, NEW b, NEW c, NEW S,
         KeepsOwn(p, a, b, S), KeepsOwn(p, b, c, S)
  PROVE  KeepsOwn(p, a, c, S)
BY DEF KeepsOwn

\* entry_for finds what the table holds.
LEMMA EntryForHolds ==
  ASSUME NEW cells, NEW q, NEW f, Holds(cells, q, f)
  PROVE  EntryFor(cells, f) = cells[f % Ring]
BY DEF EntryFor, Holds

\* Frames less than the length of the ring apart do not share a cell.
LEMMA OneFramePerCell ==
  ASSUME NEW f \in Int, NEW g \in Int, f - g < Ring, g - f < Ring,
         f % Ring = g % Ring
  PROVE  f = g
BY CellsDiffer, ConfigAssumption

LEMMA SimulateKeeps ==
  ASSUME NEW p \in Players, NEW h, NEW last, NEW from \in Nat, NEW to \in Nat,
         NEW saved, NEW S, S \subseteq Nat,
         \A f \in from .. to - 1, g \in S : f - g < Ring /\ g - f < Ring
  PROVE  KeepsOwn(p, Simulate(p, h, last, from, to, saved).ring, h.ring, S)
<1> DEFINE run == from .. to - 1
           Cell(c) == IF \E f \in run : f % Ring = c
             THEN LET f == CHOOSE g \in run : g % Ring = c IN
                  [frame |-> f, input |-> InputsFor(h.ring, last, f),
                   by |-> EntryFor(h.ring, f).by]
             ELSE h.ring[c]
           new == Simulate(p, h, last, from, to, saved).ring
<1>1. new = [c \in Cells |-> Cell(c)]
  BY DEF Simulate
<1>2. ASSUME NEW g \in S, Holds(h.ring, p, g)
      PROVE  LET c == g % Ring IN
             /\ c \in Cells /\ Cell(c).frame = g /\ p \in Cell(c).by
             /\ Cell(c).input[p] = h.ring[c].input[p]
  <2> DEFINE c == g % Ring
  <2>1. g \in Int /\ c \in Cells
    BY CellOf
  <2>2. CASE \E f \in run : f % Ring = c
    <3> DEFINE f == CHOOSE x \in run : x % Ring = c
    <3>1. f \in run /\ f % Ring = c
      BY <2>2
    <3>2. Cell(c) = [frame |-> f, input |-> InputsFor(h.ring, last, f),
                     by |-> EntryFor(h.ring, f).by]
      BY <2>2
    <3> HIDE DEF f, Cell
    <3> HIDE DEF c
    <3>3. f \in Int /\ f - g < Ring /\ g - f < Ring
      BY <3>1
    <3>4. f % Ring = g % Ring
      BY <3>1 DEF c
    <3>5. f = g
      BY <2>1, <3>3, <3>4, OneFramePerCell
    <3>6. EntryFor(h.ring, g) = h.ring[c] /\ p \in h.ring[c].by
      BY <1>2, EntryForHolds DEF Holds, c
    <3>7. InputsFor(h.ring, last, g)[p] = h.ring[c].input[p]
      BY <3>6 DEF InputsFor
    <3> QED
      BY <2>1, <3>2, <3>5, <3>6, <3>7 DEF c
  <2>3. CASE ~ \E f \in run : f % Ring = c
    BY <1>2, <2>1, <2>3 DEF Holds
  <2> QED
    BY <2>2, <2>3
<1> HIDE DEF Cell, new
<1>3. KeepsOwn(p, new, h.ring, S)
  BY <1>1, <1>2 DEF KeepsOwn, Holds
<1> QED
  BY <1>3 DEF new

\* The frames whose inputs p may send now, and after its next tick.
SendWindow(p) == {f \in Nat : Latest(p) - (MaxSendInputs - 1) <= f /\ f <= Latest(p)}

NextWindow(p) == {f \in Nat : Latest(p) - (MaxSendInputs - 1) < f /\ f <= Latest(p) + 1}

LEMMA Numbers ==
  ASSUME TypeOK, NEW p \in Players
  PROVE  /\ current[p] \in Nat /\ Latest(p) = current[p] + InputDelay - 1
         /\ Latest(p) \in Int /\ InputDelay \in Nat /\ MaxPrediction \in Nat
         /\ MaxSendInputs \in Nat /\ Ring \in Nat /\ first_incorrect[p] \in Int
         /\ MaxSendInputs >= 1 /\ MaxPrediction >= 1
BY ConfigAssumption DEF TypeOK, Latest, Frame

LEMMA CorrectionsKeep ==
  ASSUME TypeOK, GenuineInv, RingFits, NEW p \in Players, NEW h \in Corrections(p)
  PROVE  KeepsOwn(p, h.ring, ring[p], SendWindow(p))
<1>1. PICK saved, loads : h = Corrected(p, saved, loads)
  BY DEF Corrections
<1>2. \A s : HostAt(p, s).ring = ring[p]
  BY DEF HostAt
<1>3. KeepsOwn(p, ring[p], ring[p], SendWindow(p))
  BY DEF KeepsOwn
<1>4. ASSUME MustRollback(p), NEW s
      PROVE  KeepsOwn(p, Simulate(p, HostAt(p, s), last_input[p],
               first_incorrect[p], current[p], saved).ring, ring[p], SendWindow(p))
  <2>1. first_incorrect[p] \in Nat /\ current[p] <= first_incorrect[p] + MaxPrediction
    BY <1>4, Numbers DEF MustRollback, GenuineInv
  <2>2. \A f \in first_incorrect[p] .. current[p] - 1, g \in SendWindow(p) :
          f - g < Ring /\ g - f < Ring
    BY <2>1, Numbers DEF RingFits, SendWindow
  <2>3. SendWindow(p) \subseteq Nat /\ current[p] \in Nat
    BY Numbers DEF SendWindow
  <2>4. KeepsOwn(p, Simulate(p, HostAt(p, s), last_input[p], first_incorrect[p],
                   current[p], saved).ring, HostAt(p, s).ring, SendWindow(p))
    BY <2>1, <2>2, <2>3, SimulateKeeps
  <2> QED
    BY <1>2, <2>4
<1> QED
  BY <1>1, <1>2, <1>3, <1>4 DEF Corrected

\* Scheduling an input costs p none of the inputs it still has to send, and
\* the new one is there.
LEMMA ScheduledKeeps ==
  ASSUME TypeOK, RingFits, NEW p \in Players, NEW h, HostOK(h), NEW v \in Input
  PROVE  LET lf == Latest(p) + 1
             new == Scheduled(p, h, v).ring
         IN  /\ KeepsOwn(p, new, h.ring, NextWindow(p) \ {lf})
             /\ Holds(new, p, lf) /\ new[lf % Ring].input[p] = v
<1> DEFINE lf == current[p] + InputDelay
           e == WithInput(EntryFor(h.ring, lf), p, v)
           new == Scheduled(p, h, v).ring
<1>1. lf \in Nat /\ lf = Latest(p) + 1 /\ lf % Ring \in Cells
  <2>1. lf \in Nat /\ lf \in Int /\ lf = Latest(p) + 1
    BY Numbers
  <2> QED
    BY <2>1, CellOf, Zenon
<1>2. new = [h.ring EXCEPT ![lf % Ring] = e]
  BY DEF HostOK, Scheduled
<1>3. e.frame = lf /\ p \in e.by /\ e.input[p] = v
  <2>1. EntryFor(h.ring, lf) \in FrameEntry /\ EntryFor(h.ring, lf).frame = lf
    BY <1>1, EntryForType DEF HostOK
  <2> QED
    BY <2>1 DEF WithInput, FrameEntry, Inputs
<1>4. h.ring \in [Cells -> FrameEntry]
  BY DEF HostOK
<1>5. \A g \in NextWindow(p) \ {lf} : g % Ring # lf % Ring
  <2> SUFFICES ASSUME NEW g \in NextWindow(p) \ {lf} PROVE g % Ring # lf % Ring
    OBVIOUS
  <2>1. g \in Int /\ lf \in Int /\ g - lf < Ring /\ lf - g < Ring
    BY <1>1, Numbers DEF NextWindow, RingFits
  <2> HIDE DEF lf
  <2> QED
    BY <2>1, OneFramePerCell
<1> HIDE DEF lf, e, new
<1>6. KeepsOwn(p, new, h.ring, NextWindow(p) \ {lf})
  BY <1>2, <1>4, <1>5 DEF KeepsOwn, Holds
<1>7. Holds(new, p, lf) /\ new[lf % Ring].input[p] = v
  BY <1>1, <1>2, <1>3, <1>4 DEF Holds
<1> QED
  BY <1>1, <1>6, <1>7 DEF new

LEMMA AdvancesKeep ==
  ASSUME TypeOK, RingFits, NEW p \in Players, NEW h, NEW last,
         NEW g \in Advances(p, h, last)
  PROVE  KeepsOwn(p, g.ring, h.ring, NextWindow(p))
<1>1. PICK saved : g = Simulate(p, h, last, current[p], current[p] + 1, saved)
  BY DEF Advances
<1>2. \A f \in current[p] .. (current[p] + 1) - 1, w \in NextWindow(p) :
        f - w < Ring /\ w - f < Ring
  BY Numbers DEF RingFits, NextWindow
<1>3. NextWindow(p) \subseteq Nat /\ current[p] \in Nat /\ current[p] + 1 \in Nat
  BY Numbers DEF NextWindow
<1> QED
  BY <1>1, <1>2, <1>3, SimulateKeeps

\* The inputs of a remote that p takes are too close to its own, in either
\* direction, to displace one it still has to send.
LEMMA RingWithKeeps ==
  ASSUME TypeOK, FlowInv, RingFits, NEW m \in net, NEW p \in Players, m.dst = p
  PROVE  KeepsOwn(p, RingWith(p, m), ring[p], SendWindow(p))
<1> DEFINE q == m.src
<1>1. /\ q \in Remotes(p) /\ p \in Remotes(q) /\ q \in Players /\ m.ack \in Int
      /\ \A f \in DOMAIN m.inputs : f \in Nat
  <2>1. PacketOK(m)
    BY DEF TypeOK
  <2> QED
    BY <2>1 DEF PacketOK, Frame, Remotes
<1>2. /\ PairFlow(p, q) /\ PairFlow(q, p) /\ PacketFlow(m)
  BY <1>1 DEF FlowInv
<1>3. confirmed[p][q] \in Int /\ confirmed[q][p] \in Int /\ Reach \in Nat
  BY <1>1, CounterTypes
<1>4. ASSUME NEW f \in Taken(p, m), NEW g \in SendWindow(p)
      PROVE  f \in Nat /\ g \in Nat /\ f - g < Ring /\ g - f < Ring
  <2>1. f \in DOMAIN m.inputs /\ f \in Nat /\ confirmed[p][q] < f
    BY <1>1, <1>4 DEF Taken
  <2>2. f <= Latest(p) + Reach
    BY <1>1, <1>2, <1>3, <2>1, Numbers DEF PacketFlow, PairFlow
  <2>3. current[p] <= f + MaxPrediction
    BY <1>2, <1>3, <2>1, Numbers DEF PairFlow
  <2>4. /\ g \in Nat /\ Latest(p) - (MaxSendInputs - 1) <= g /\ g <= Latest(p)
        /\ Reach = InputDelay + MaxPrediction
    BY DEF SendWindow, Reach
  <2> QED
    BY <2>1, <2>2, <2>3, <2>4, Numbers DEF RingFits
<1> DEFINE Cell(c) == IF \E f \in Taken(p, m) : f % Ring = c
             THEN LET f == CHOOSE g \in Taken(p, m) : g % Ring = c IN
                  WithInput(EntryFor(ring[p], f), m.src, m.inputs[f])
             ELSE ring[p][c]
<1>5. RingWith(p, m) = [c \in Cells |-> Cell(c)]
  BY DEF RingWith
<1>6. ASSUME NEW g \in SendWindow(p), Holds(ring[p], p, g)
      PROVE  LET c == g % Ring IN
             /\ c \in Cells /\ Cell(c).frame = g /\ p \in Cell(c).by
             /\ Cell(c).input[p] = ring[p][c].input[p]
  <2> DEFINE c == g % Ring
  <2>1. g \in Int /\ c \in Cells
    BY CellOf DEF SendWindow
  <2>2. CASE \E f \in Taken(p, m) : f % Ring = c
    <3> DEFINE f == CHOOSE x \in Taken(p, m) : x % Ring = c
               e == ring[p][c]
    <3>1. f \in Taken(p, m) /\ f % Ring = c
      BY <2>2
    <3>2. Cell(c) = WithInput(EntryFor(ring[p], f), q, m.inputs[f])
      BY <2>2
    <3> HIDE DEF f, Cell
    <3>3. f \in Int /\ f - g < Ring /\ g - f < Ring
      BY <1>4, <3>1
    <3>4. f = g
      BY <2>1, <3>1, <3>3, OneFramePerCell
    <3>5. EntryFor(ring[p], g) = e /\ p \in e.by /\ e.frame = g
      BY <1>6, EntryForHolds DEF Holds
    <3>6. e \in FrameEntry
      BY <2>1 DEF TypeOK
    <3> HIDE DEF c
    <3> DEFINE input == [e.input EXCEPT ![q] = m.inputs[g]]
    <3>7. Cell(c) = [frame |-> g, input |-> input, by |-> e.by \cup {q}]
      BY <3>2, <3>4, <3>5 DEF WithInput
    <3>8. input[p] = e.input[p]
      BY <1>1, <3>6 DEF FrameEntry, Inputs, Remotes
    <3> HIDE DEF e, input
    <3>9. /\ c \in Cells /\ Cell(c).frame = g /\ p \in Cell(c).by
          /\ Cell(c).input[p] = e.input[p]
      BY <2>1, <3>5, <3>7, <3>8 DEF c
    <3> QED
      BY <3>9 DEF c, e
  <2>3. CASE ~ \E f \in Taken(p, m) : f % Ring = c
    BY <1>6, <2>1, <2>3 DEF Holds
  <2> QED
    BY <2>2, <2>3
<1> HIDE DEF Cell
<1> QED
  BY <1>5, <1>6 DEF KeepsOwn, Holds

-----------------------------------------------------------------------------
(* GenuineInv is inductive. *)

\* A step that sends nothing, lets no session start, issues no input and
\* keeps every input that a peer may send.
LEMMA QuietGenuine ==
  ASSUME GenuineInv, UNCHANGED <<active, current, issued>>, net' \subseteq net,
         \A r \in Players : KeepsOwn(r, ring'[r], ring[r], SendWindow(r)),
         \A r \in Players : first_incorrect'[r] >= 0 =>
           current[r] <= first_incorrect'[r] + MaxPrediction,
         TypeOK
  PROVE  GenuineInv'
<1>1. ASSUME NEW r \in Players, active'[r] PROVE OwnInputs(r)'
  <2>1. OwnInputs(r) /\ issued'[r] = issued[r]
    BY <1>1 DEF GenuineInv
  <2>2. Latest(r)' = Latest(r) /\ Latest(r) \in Int /\ MaxSendInputs \in Nat
    BY Numbers DEF Latest
  <2>3. ASSUME NEW f \in Latest(r) - (MaxSendInputs - 1) .. Latest(r), 0 <= f
        PROVE  /\ Holds(ring'[r], r, f)
               /\ ring'[r][f % Ring].input[r] = IssuedInput(r, f)'
    <3>1. f \in SendWindow(r)
      BY <2>2, <2>3 DEF SendWindow
    <3>2. Holds(ring[r], r, f) /\ ring[r][f % Ring].input[r] = IssuedInput(r, f)
      BY <2>1, <2>3 DEF OwnInputs
    <3> QED
      BY <2>1, <3>1, <3>2 DEF KeepsOwn, IssuedInput
  <2> QED
    BY <2>1, <2>2, <2>3 DEF OwnInputs, Holds
<1>2. PacketsGenuine'
  BY DEF GenuineInv, PacketsGenuine, IssuedInput
<1> QED
  BY <1>1, <1>2 DEF GenuineInv

LEMMA SameRingGenuine ==
  ASSUME TypeOK, GenuineInv, net' \subseteq net,
         UNCHANGED <<active, current, issued, ring, first_incorrect>>
  PROVE  GenuineInv'
<1>1. \A r \in Players : KeepsOwn(r, ring'[r], ring[r], SendWindow(r))
  BY DEF KeepsOwn
<1>2. \A r \in Players : first_incorrect'[r] >= 0 =>
        current[r] <= first_incorrect'[r] + MaxPrediction
  BY DEF GenuineInv
<1> QED
  BY <1>1, <1>2, QuietGenuine

LEMMA InitGenuine == Init => GenuineInv
<1> SUFFICES ASSUME Init PROVE GenuineInv
  OBVIOUS
<1>1. /\ net = {}
      /\ \A p \in Players : ~active[p] /\ current[p] = 0 /\ issued[p] = <<>>
      /\ \A p \in Players : first_incorrect[p] = -1
  BY DEF Init
<1> QED
  BY <1>1 DEF GenuineInv, PacketsGenuine

\* start() puts the default input into the ring for the frames of the delay.
LEMMA StartGenuine ==
  ASSUME TypeOK, BuildInv, GenuineInv, NEW p \in Players, Start(p)
  PROVE  GenuineInv'
<1>1. /\ ~active[p] /\ active' = [active EXCEPT ![p] = TRUE] /\ net' = net
      /\ current' = current /\ first_incorrect' = first_incorrect
      /\ issued' = [issued EXCEPT ![p] = [i \in 1 .. InputDelay |-> 0]]
      /\ ring' = [ring EXCEPT ![p] = [c \in Cells |->
                   IF c < InputDelay THEN WithInput(Blank(c), p, 0) ELSE ring[p][c]]]
  BY DEF Start, TypeOK
<1>2. \A r \in Players : r # p =>
        active'[r] = active[r] /\ issued'[r] = issued[r] /\ ring'[r] = ring[r]
  BY <1>1 DEF TypeOK
<1>3. ASSUME NEW r \in Players, r # p, active'[r] PROVE OwnInputs(r)'
  BY <1>1, <1>2, <1>3 DEF GenuineInv, OwnInputs, Latest, Holds, IssuedInput
<1>4. OwnInputs(p)'
  <2>1. current[p] = 0 /\ InputDelay \in Nat /\ InputDelay < Ring
    BY <1>1, ConfigAssumption DEF GenuineInv
  <2>2. Latest(p)' = InputDelay - 1
    BY <1>1, <2>1 DEF Latest
  <2>3. issued'[p] = [i \in 1 .. InputDelay |-> 0]
    BY <1>1 DEF TypeOK
  <2>4. Len(issued'[p]) = InputDelay
    BY <2>1, <2>3
  <2>5. ASSUME NEW f \in 0 .. InputDelay - 1
        PROVE  /\ Holds(ring'[p], p, f)
               /\ ring'[p][f % Ring].input[p] = issued'[p][f + 1]
    <3>1. f \in Cells /\ f % Ring = f
      BY <2>1, ConfigAssumption DEF Cells
    <3>2. ring'[p][f] = WithInput(Blank(f), p, 0)
      BY <1>1, <2>1, <3>1 DEF TypeOK
    <3>3. /\ WithInput(Blank(f), p, 0).frame = f /\ p \in WithInput(Blank(f), p, 0).by
          /\ WithInput(Blank(f), p, 0).input[p] = 0
      BY DEF WithInput, Blank, NoInputs
    <3>4. issued'[p][f + 1] = 0
      BY <2>1, <2>3
    <3> QED
      BY <3>1, <3>2, <3>3, <3>4 DEF Holds
  <2>6. ASSUME NEW f \in Latest(p)' - (MaxSendInputs - 1) .. Latest(p)', 0 <= f
        PROVE  /\ Holds(ring'[p], p, f)
               /\ ring'[p][f % Ring].input[p] = issued'[p][f + 1]
    <3>1. f \in 0 .. InputDelay - 1
      BY <2>1, <2>2, <2>6, ConfigAssumption
    <3> QED
      BY <2>5, <3>1
  <2> QED
    BY <2>1, <2>2, <2>4, <2>6 DEF OwnInputs, Holds, IssuedInput
<1>5. PacketsGenuine'
  <2> SUFFICES ASSUME NEW m \in net, NEW f \in DOMAIN m.inputs
               PROVE  /\ f < Len(issued'[m.src])
                      /\ m.inputs[f] = issued'[m.src][f + 1]
    BY <1>1 DEF PacketsGenuine, IssuedInput
  <2>1. active[m.src] /\ m.src \in Players
    BY DEF BuildInv, TypeOK, PacketOK
  <2>2. issued'[m.src] = issued[m.src]
    BY <1>1, <1>2, <2>1
  <2> QED
    BY <2>2 DEF GenuineInv, PacketsGenuine, IssuedInput
<1>6. \A r \in Players : ~active'[r] => current'[r] = 0 /\ issued'[r] = <<>>
  BY <1>1, <1>2 DEF GenuineInv, TypeOK
<1>7. \A r \in Players : first_incorrect'[r] >= 0 =>
        current'[r] <= first_incorrect'[r] + MaxPrediction
  BY <1>1 DEF GenuineInv
<1> QED
  BY <1>1, <1>3, <1>4, <1>5, <1>6, <1>7 DEF GenuineInv

\* What correcting does to the pending rollback.
LEMMA CorrectClears ==
  ASSUME TypeOK, NEW p \in Players, NEW h, Correct(p, h)
  PROVE  \A r \in Players : first_incorrect'[r] >= 0 =>
           r # p /\ first_incorrect'[r] = first_incorrect[r]
BY DEF Correct, TypeOK

LEMMA IdleTickGenuine ==
  ASSUME TypeOK, GenuineInv, RingFits, NEW p \in Players,
         TickStall(p) \/ TickThrottle(p)
  PROVE  GenuineInv'
<1>1. PICK h \in Corrections(p) : Correct(p, h) /\ SetHost(p, h)
  BY DEF TickStall, TickThrottle
<1>2. UNCHANGED <<active, current, issued, net>>
  BY DEF TickStall, TickThrottle
<1>3. KeepsOwn(p, h.ring, ring[p], SendWindow(p))
  BY CorrectionsKeep
<1>4. \A r \in Players : KeepsOwn(r, ring'[r], ring[r], SendWindow(r))
  <2>1. \A r : KeepsOwn(r, ring[r], ring[r], SendWindow(r))
    BY DEF KeepsOwn
  <2>2. ring' = [ring EXCEPT ![p] = h.ring]
    BY <1>1 DEF SetHost
  <2> QED
    BY <1>3, <2>1, <2>2 DEF TypeOK
<1>5. \A r \in Players : first_incorrect'[r] >= 0 =>
        current[r] <= first_incorrect'[r] + MaxPrediction
  BY <1>1, CorrectClears DEF GenuineInv
<1> QED
  BY <1>2, <1>4, <1>5, QuietGenuine

LEMMA AdvanceGenuine ==
  ASSUME HashesTyped, TypeOK, BuildInv, GenuineInv, RingFits, NEW p \in Players,
         NEW v \in Input, TickAdvance(p, v)
  PROVE  GenuineInv'
<1> DEFINE lf == Latest(p) + 1
<1>1. PICK h \in Corrections(p) : \E last : Correct(p, h)
        /\ \E g \in Advances(p, Scheduled(p, h, v), last) : SetHost(p, g)
  BY DEF TickAdvance
<1>2. PICK last : \E g \in Advances(p, Scheduled(p, h, v), last) : SetHost(p, g)
  BY <1>1
<1>3. PICK g \in Advances(p, Scheduled(p, h, v), last) : SetHost(p, g)
  BY <1>2
<1>4. /\ active[p] /\ current' = [current EXCEPT ![p] = current[p] + 1]
      /\ issued' = [issued EXCEPT ![p] = Append(issued[p], v)]
      /\ UNCHANGED <<active, net>>
  BY DEF TickAdvance, TypeOK
<1>5. /\ current'[p] = current[p] + 1 /\ issued'[p] = Append(issued[p], v)
      /\ ring'[p] = g.ring
      /\ \A r \in Players : r # p =>
           /\ current'[r] = current[r] /\ issued'[r] = issued[r]
           /\ ring'[r] = ring[r]
  BY <1>3, <1>4 DEF SetHost, TypeOK
<1>6. ASSUME NEW r \in Players, r # p, active'[r] PROVE OwnInputs(r)'
  BY <1>4, <1>5, <1>6 DEF GenuineInv, OwnInputs, Latest, Holds, IssuedInput
<1>7. OwnInputs(p)
  BY <1>4 DEF GenuineInv
<1>8. /\ issued[p] \in Seq(Input) /\ Len(issued[p]) = lf /\ lf \in Int
      /\ Latest(p)' = lf
  <2>1. issued[p] \in Seq(Input) /\ Len(issued[p]) = lf
    BY <1>7 DEF OwnInputs, TypeOK
  <2>2. lf = current[p] + InputDelay /\ lf \in Int
    BY Numbers
  <2>3. Latest(p)' = (current[p] + 1) + InputDelay - 1
    BY <1>5 DEF Latest
  <2> HIDE DEF lf
  <2>4. Latest(p)' = lf
    BY <2>2, <2>3, Numbers
  <2> QED
    BY <2>1, <2>2, <2>4
<1>9. KeepsOwn(p, h.ring, ring[p], SendWindow(p)) /\ HostOK(h)
  BY CorrectionsKeep, CorrectionsType
<1> DEFINE new == Scheduled(p, h, v).ring
<1>10. /\ KeepsOwn(p, new, h.ring, NextWindow(p) \ {lf})
       /\ Holds(new, p, lf) /\ new[lf % Ring].input[p] = v
  BY <1>9, ScheduledKeeps
<1>11. KeepsOwn(p, ring'[p], new, NextWindow(p))
  BY <1>3, <1>5, AdvancesKeep
<1>12. NextWindow(p) \ {lf} \subseteq SendWindow(p) /\ (lf >= 0 => lf \in NextWindow(p))
  BY Numbers DEF NextWindow, SendWindow
<1> HIDE DEF new, lf
<1>13. ASSUME NEW f \in NextWindow(p)
       PROVE  Holds(ring'[p], p, f) /\ ring'[p][f % Ring].input[p] = issued'[p][f + 1]
  <2>1. CASE f = lf
    <3>1. Holds(ring'[p], p, f) /\ ring'[p][f % Ring].input[p] = v
      BY <1>10, <1>11, <2>1 DEF KeepsOwn
    <3>2. issued'[p][f + 1] = v
      BY <1>5, <1>8, <2>1
    <3> QED
      BY <3>1, <3>2
  <2>2. CASE f # lf
    <3>1. f \in SendWindow(p) /\ f \in NextWindow(p) \ {lf}
      BY <1>12, <2>2
    <3>2. Holds(ring[p], p, f) /\ ring[p][f % Ring].input[p] = issued[p][f + 1]
      BY <1>7, <3>1, Numbers DEF OwnInputs, SendWindow, IssuedInput
    <3>3. Holds(ring'[p], p, f) /\ ring'[p][f % Ring].input[p] = issued[p][f + 1]
      BY <1>9, <1>10, <1>11, <3>1, <3>2 DEF KeepsOwn
    <3>4. f \in Nat /\ f < lf
      BY <3>1, Numbers DEF SendWindow, lf
    <3>5. issued'[p][f + 1] = issued[p][f + 1]
      BY <1>5, <1>8, <3>4
    <3> QED
      BY <3>3, <3>5
  <2> QED
    BY <2>1, <2>2
<1>14. OwnInputs(p)'
  <2>1. Len(issued'[p]) = Latest(p)' + 1
    BY <1>5, <1>8
  <2>2. \A f \in Latest(p)' - (MaxSendInputs - 1) .. Latest(p)' : 0 <= f =>
          f \in NextWindow(p)
    BY <1>8, Numbers DEF NextWindow, lf
  <2> QED
    BY <1>13, <2>1, <2>2 DEF OwnInputs, IssuedInput, Holds
<1>15. PacketsGenuine'
  <2> SUFFICES ASSUME NEW m \in net, NEW f \in DOMAIN m.inputs
               PROVE  /\ f < Len(issued'[m.src])
                      /\ m.inputs[f] = issued'[m.src][f + 1]
    BY <1>4 DEF PacketsGenuine, IssuedInput
  <2>1. /\ f < Len(issued[m.src]) /\ m.inputs[f] = issued[m.src][f + 1]
        /\ m.src \in Players /\ f \in Nat
    BY DEF GenuineInv, PacketsGenuine, IssuedInput, TypeOK, PacketOK
  <2>2. CASE m.src = p
    <3>1. Len(issued'[p]) = lf + 1 /\ issued'[p][f + 1] = issued[p][f + 1]
      BY <1>5, <1>8, <2>1, <2>2
    <3> QED
      BY <1>8, <2>1, <2>2, <3>1
  <2>3. CASE m.src # p
    BY <1>5, <2>1, <2>3
  <2> QED
    BY <2>2, <2>3
<1>16. \A r \in Players : ~active'[r] => current'[r] = 0 /\ issued'[r] = <<>>
  BY <1>4, <1>5 DEF GenuineInv
<1>17. \A r \in Players : first_incorrect'[r] >= 0 =>
         current'[r] <= first_incorrect'[r] + MaxPrediction
  BY <1>1, <1>5, CorrectClears DEF GenuineInv
<1> QED
  BY <1>6, <1>14, <1>15, <1>16, <1>17 DEF GenuineInv

\* A packet is made of what the ring holds of its sender's own inputs.
LEMMA SendGenuine ==
  ASSUME TypeOK, GenuineInv, NEW p \in Players, NEW q \in Players, Send(p, q)
  PROVE  GenuineInv'
<1> DEFINE m == PacketTo(p, q)
<1>1. active[p] /\ net' = net \cup {m} /\ UNCHANGED sessionVars
  BY DEF Send
<1>2. OwnInputs(p)
  BY <1>1 DEF GenuineInv
<1>3. FirstSent(p) \in Nat /\ FirstSent(p) >= Latest(p) - (MaxSendInputs - 1)
  <2> DEFINE a == MinRemoteAck(p) + 1
             b == Latest(p) - (MaxSendInputs - 1)
             z == 0
  <2>1. a \in Int /\ b \in Int /\ z \in Int
    BY MinConfirmedType, Numbers DEF Frame
  <2>2. FirstSent(p) = Max({a, b, z})
    BY DEF FirstSent
  <2> HIDE DEF a, b
  <2>3. Max({a, b, z}) \in {a, b, z} /\ b <= Max({a, b, z}) /\ z <= Max({a, b, z})
    BY <2>1, MaxOfThree
  <2> QED
    BY <2>1, <2>2, <2>3 DEF b
<1>4. /\ m.src = p /\ DOMAIN m.inputs = FirstSent(p) .. Latest(p)
      /\ \A f \in FirstSent(p) .. Latest(p) : m.inputs[f] =
           IF ring[p][f % Ring].frame = f THEN ring[p][f % Ring].input[p] ELSE 0
  BY DEF PacketTo
<1> HIDE DEF m
<1>5. ASSUME NEW f \in DOMAIN m.inputs
      PROVE  f < Len(issued[m.src]) /\ m.inputs[f] = IssuedInput(m.src, f)
  <2>1. /\ f \in Latest(p) - (MaxSendInputs - 1) .. Latest(p) /\ 0 <= f
        /\ f \in FirstSent(p) .. Latest(p)
    BY <1>3, <1>4, Numbers
  <2>2. Holds(ring[p], p, f) /\ ring[p][f % Ring].input[p] = IssuedInput(p, f)
    BY <1>2, <2>1 DEF OwnInputs
  <2>3. f < Len(issued[p])
    BY <1>2, <2>1, Numbers DEF OwnInputs
  <2> QED
    BY <1>4, <2>1, <2>2, <2>3 DEF Holds
<1>6. PacketsGenuine'
  BY <1>1, <1>5 DEF GenuineInv, PacketsGenuine, IssuedInput, sessionVars
<1> QED
  BY <1>1, <1>6 DEF GenuineInv, OwnInputs, Latest, Holds, IssuedInput, sessionVars

\* Taking a packet keeps the receiver's own inputs and finds mispredictions
\* only within max_prediction frames.
LEMMA IngestGenuine ==
  ASSUME TypeOK, FlowInv, GenuineInv, RingFits, NEW m \in net, NEW p \in Players,
         Ingest(p, m)
  PROVE  GenuineInv'
<1> DEFINE q == m.src
           wrong == Mispredicted(p, m)
           incorrect == IF wrong = {} THEN first_incorrect[p]
                        ELSE IF first_incorrect[p] < 0 THEN Min(wrong)
                        ELSE Min(wrong \cup {first_incorrect[p]})
<1>1. /\ m.dst = p /\ net' \subseteq net /\ UNCHANGED <<active, current, issued>>
      /\ ring' = [ring EXCEPT ![p] = RingWith(p, m)]
      /\ first_incorrect' = [first_incorrect EXCEPT ![p] = incorrect]
  BY DEF Ingest, Deliver
<1>2. \A r \in Players : KeepsOwn(r, ring'[r], ring[r], SendWindow(r))
  <2>1. \A r : KeepsOwn(r, ring[r], ring[r], SendWindow(r))
    BY DEF KeepsOwn
  <2>2. KeepsOwn(p, RingWith(p, m), ring[p], SendWindow(p))
    BY <1>1, RingWithKeeps
  <2> QED
    BY <1>1, <2>1, <2>2 DEF TypeOK
<1>3. wrong \subseteq Nat /\ \A f \in wrong : current[p] <= f + MaxPrediction
  <2>1. PacketOK(m)
    BY DEF TypeOK
  <2>2. q \in Remotes(p) /\ q \in Players
    BY <1>1, <2>1 DEF PacketOK, Remotes
  <2>3. current[p] <= confirmed[p][q] + 1 + MaxPrediction /\ confirmed[p][q] \in Int
    BY <2>2, CounterTypes DEF FlowInv, PairFlow
  <2>4. wrong \subseteq Taken(p, m) /\ Taken(p, m) \subseteq Nat
    BY <2>1, TakenType
  <2>5. \A f \in wrong : confirmed[p][q] < f
    BY <2>4 DEF Taken
  <2> HIDE DEF wrong
  <2> QED
    BY <2>3, <2>4, <2>5, Numbers
<1>4. incorrect >= 0 => current[p] <= incorrect + MaxPrediction
  <2>1. first_incorrect[p] >= 0 => current[p] <= first_incorrect[p] + MaxPrediction
    BY DEF GenuineInv
  <2> HIDE DEF wrong
  <2>2. CASE wrong = {}
    BY <2>1, <2>2
  <2>3. CASE wrong # {} /\ first_incorrect[p] < 0
    BY <1>3, <2>3, NatMin
  <2>4. CASE wrong # {} /\ ~(first_incorrect[p] < 0)
    <3> DEFINE S == wrong \cup {first_incorrect[p]}
    <3>1. S \subseteq Nat /\ S # {} /\ \A f \in S : current[p] <= f + MaxPrediction
      <4>1. first_incorrect[p] \in Nat
        BY <2>4, Numbers
      <4>2. S \subseteq Nat /\ S # {}
        BY <1>3, <4>1
      <4> QED
        BY <1>3, <2>1, <4>1, <4>2
    <3> HIDE DEF S
    <3>2. Min(S) \in S
      BY <3>1, NatMin
    <3>3. current[p] <= Min(S) + MaxPrediction
      BY <3>1, <3>2
    <3> QED
      BY <2>4, <3>3 DEF S
  <2> QED
    BY <2>2, <2>3, <2>4
<1> HIDE DEF incorrect
<1>5. \A r \in Players : first_incorrect'[r] >= 0 =>
        current[r] <= first_incorrect'[r] + MaxPrediction
  BY <1>1, <1>4 DEF GenuineInv, TypeOK
<1> QED
  BY <1>1, <1>2, <1>5, QuietGenuine

\* When the ring is large enough, a peer's ring holds what it may send.
THEOREM GenuineInvariant ==
  ASSUME HashesTyped, RingFits PROVE Spec => []GenuineInv
<1>1. Init => GenuineInv
  BY InitGenuine
<1>2. TypeOK /\ FlowInv /\ BuildInv /\ GenuineInv /\ [Next]_vars => GenuineInv'
  <2> SUFFICES ASSUME TypeOK, FlowInv, BuildInv, GenuineInv, [Next]_vars
               PROVE  GenuineInv'
    OBVIOUS
  <2>1. ASSUME NEW p \in Players, Start(p) PROVE GenuineInv'
    BY <2>1, StartGenuine
  <2>2. ASSUME NEW p \in Players, TickStall(p) PROVE GenuineInv'
    BY <2>2, IdleTickGenuine
  <2>3. ASSUME NEW p \in Players, TickThrottle(p) PROVE GenuineInv'
    BY <2>3, IdleTickGenuine
  <2>4. ASSUME NEW p \in Players, NEW v \in Plays[p], TickAdvance(p, v)
        PROVE  GenuineInv'
    BY <2>4, AdvanceGenuine, ConfigAssumption
  <2>5. ASSUME NEW p \in Players, SimDies(p) PROVE GenuineInv'
    BY <2>5, SameRingGenuine DEF SimDies
  <2>6. ASSUME NEW p \in Players, SetInputCount(p) PROVE GenuineInv'
    BY <2>6, SameRingGenuine DEF SetInputCount
  <2>7. ASSUME NEW p \in Players, NEW q \in Players, Send(p, q) PROVE GenuineInv'
    BY <2>7, SendGenuine
  <2>8. ASSUME NEW m \in net, Lose(m) PROVE GenuineInv'
    BY <2>8, SameRingGenuine DEF Lose, sessionVars
  <2>9. ASSUME NEW m \in net, NEW p \in Players, Ingest(p, m) PROVE GenuineInv'
    BY <2>9, IngestGenuine
  <2>10. ASSUME NEW m \in net, NEW p \in Players, IngestIncompatible(p, m)
         PROVE  GenuineInv'
    BY <2>10, SameRingGenuine DEF IngestIncompatible, Deliver
  <2>11. CASE UNCHANGED vars
    BY <2>11, SameRingGenuine DEF vars
  <2> QED
    BY <2>1, <2>2, <2>3, <2>4, <2>5, <2>6, <2>7, <2>8, <2>9, <2>10, <2>11 DEF Next
<1> QED
  BY <1>1, <1>2, TypeCorrect, FlowInvariant, BuildInvariant, PTL DEF Spec

\* Every packet in flight carries the inputs its sender issued, however long
\* ago and whatever rollbacks and remote inputs went through its ring since.
THEOREM PacketsAlwaysGenuine ==
  ASSUME HashesTyped, RingFits PROVE Spec => []PacketsGenuine
<1>1. GenuineInv => PacketsGenuine
  BY DEF GenuineInv
<1> QED
  BY <1>1, GenuineInvariant, PTL

=============================================================================
