------------------------- MODULE RollbackFlowProofs ------------------------
(***************************************************************************)
(* The flow control of RollbackSession, for any number of players and any  *)
(* configuration: the window between the peers, that the resend window of  *)
(* get_packet covers it when it is large enough, and that peers of         *)
(* different builds never simulate together.                               *)
(***************************************************************************)
EXTENDS RollbackSessionProofs, FiniteSetTheorems

\* The resend window holds twice the input delay and the prediction.
\* configure() does not ensure it.
WindowFits == 2 * (InputDelay + MaxPrediction) <= MaxSendInputs

\* The ring holds the inputs of all frames between the oldest that may
\* still be corrected and the newest that may have been received.
\* configure() does not ensure it either, but WindowFits does.
HistoryFits == 2 * (InputDelay + MaxPrediction) <= Ring

LEMMA WindowWithinRing == WindowFits => HistoryFits
BY ConfigAssumption DEF WindowFits, HistoryFits

-----------------------------------------------------------------------------
(* What a tick does to the ring of its peer. *)

\* The table new of peer p knows no remote input that old did not.
KnowsNoMore(p, new, old) ==
  \A c \in Cells : \A q \in Remotes(p) :
    q \in new[c].by => q \in old[c].by /\ new[c].frame = old[c].frame

LEMMA KnowsNoMoreTransitive ==
  ASSUME NEW p, NEW a, NEW b, NEW c, KnowsNoMore(p, a, b), KnowsNoMore(p, b, c)
  PROVE  KnowsNoMore(p, a, c)
BY DEF KnowsNoMore

\* entry_for keeps what the cell knows of its own frame and forgets the rest.
LEMMA EntryForKnows ==
  ASSUME NEW cells, NEW f, NEW q, q \in EntryFor(cells, f).by
  PROVE  q \in cells[f % Ring].by /\ cells[f % Ring].frame = f
BY DEF EntryFor, Blank

LEMMA SimulateKnows ==
  ASSUME NEW p, NEW h, NEW last, NEW from, NEW to, NEW saved
  PROVE  KnowsNoMore(p, Simulate(p, h, last, from, to, saved).ring, h.ring)
<1> DEFINE run == from .. to - 1
           Cell(c) == IF \E f \in run : f % Ring = c
             THEN LET f == CHOOSE g \in run : g % Ring = c IN
                  [frame |-> f, input |-> InputsFor(h.ring, last, f),
                   by |-> EntryFor(h.ring, f).by]
             ELSE h.ring[c]
           new == Simulate(p, h, last, from, to, saved).ring
<1>1. new = [c \in Cells |-> Cell(c)]
  BY DEF Simulate
<1>2. ASSUME NEW c \in Cells, NEW q \in Remotes(p), q \in Cell(c).by
      PROVE  q \in h.ring[c].by /\ Cell(c).frame = h.ring[c].frame
  <2>1. CASE \E f \in run : f % Ring = c
    <3> DEFINE f == CHOOSE g \in run : g % Ring = c
    <3>1. f \in run /\ f % Ring = c
      BY <2>1
    <3> HIDE DEF f
    <3>2. Cell(c).by = EntryFor(h.ring, f).by /\ Cell(c).frame = f
      BY <2>1 DEF f
    <3> QED
      BY <1>2, <3>1, <3>2, EntryForKnows
  <2>2. CASE ~ \E f \in run : f % Ring = c
    BY <1>2, <2>2
  <2> QED
    BY <2>1, <2>2
<1> HIDE DEF Cell, new
<1> QED
  BY <1>1, <1>2 DEF KnowsNoMore, new

LEMMA CorrectionsKnow ==
  ASSUME NEW p, NEW h \in Corrections(p)
  PROVE  KnowsNoMore(p, h.ring, ring[p])
<1>1. PICK saved \in SaveOutcomes(p, Resaved(p)), loads \in LoadOutcomes(p) :
        h = Corrected(p, saved, loads)
  BY DEF Corrections
<1>2. \A s : HostAt(p, s).ring = ring[p]
  BY DEF HostAt
<1>3. \A s, to : KnowsNoMore(p, Simulate(p, HostAt(p, s), last_input[p],
                   first_incorrect[p], to, saved).ring, ring[p])
  BY <1>2, SimulateKnows
<1>4. KnowsNoMore(p, HostAt(p, sim[p]).ring, ring[p])
  BY <1>2 DEF KnowsNoMore
<1> QED
  BY <1>1, <1>3, <1>4 DEF Corrected

\* Scheduling p's own input in a cell tells p nothing about a remote.
LEMMA ScheduledKnows ==
  ASSUME TypeOK, NEW p \in Players, NEW h, HostOK(h), NEW v
  PROVE  KnowsNoMore(p, Scheduled(p, h, v).ring, h.ring)
<1> DEFINE f == current[p] + InputDelay
           e == WithInput(EntryFor(h.ring, f), p, v)
           new == Scheduled(p, h, v)
<1>1. f \in Nat
  BY ConfigAssumption DEF TypeOK
<1>2. new.ring = [h.ring EXCEPT ![f % Ring] = e]
  BY DEF HostOK, Scheduled
<1>3. ASSUME NEW q \in Remotes(p), q \in e.by
      PROVE  q \in h.ring[f % Ring].by /\ e.frame = h.ring[f % Ring].frame
  <2>1. q \in EntryFor(h.ring, f).by /\ e.frame = EntryFor(h.ring, f).frame
    BY <1>3 DEF WithInput, Remotes
  <2>2. EntryFor(h.ring, f).frame = f
    BY <1>1, EntryForType DEF HostOK
  <2> QED
    BY <2>1, <2>2, EntryForKnows
<1> HIDE DEF e, new
<1>4. h.ring \in [Cells -> FrameEntry]
  BY DEF HostOK
<1>5. KnowsNoMore(p, new.ring, h.ring)
  BY <1>2, <1>3, <1>4 DEF KnowsNoMore
<1> QED
  BY <1>5 DEF new

\* A tick of p, whatever it does, only ever forgets what p knows of remotes.
LEMMA TickKnows ==
  ASSUME HashesTyped, TypeOK, NEW p \in Players,
         \/ TickStall(p) \/ TickThrottle(p) \/ \E v \in Input : TickAdvance(p, v)
  PROVE  /\ KnowsNoMore(p, ring'[p], ring[p])
         /\ \A q \in Players \ {p} : ring'[q] = ring[q]
<1>1. ASSUME NEW h, SetHost(p, h), KnowsNoMore(p, h.ring, ring[p])
      PROVE  /\ KnowsNoMore(p, ring'[p], ring[p])
             /\ \A q \in Players \ {p} : ring'[q] = ring[q]
  BY <1>1 DEF SetHost, TypeOK
<1>2. CASE TickStall(p) \/ TickThrottle(p)
  <2>1. PICK h \in Corrections(p) : SetHost(p, h)
    BY <1>2 DEF TickStall, TickThrottle
  <2> QED
    BY <2>1, <1>1, CorrectionsKnow
<1>3. ASSUME NEW v \in Input, TickAdvance(p, v)
      PROVE  /\ KnowsNoMore(p, ring'[p], ring[p])
             /\ \A q \in Players \ {p} : ring'[q] = ring[q]
  <2>1. PICK h \in Corrections(p) : \E last :
          \E g \in Advances(p, Scheduled(p, h, v), last) : SetHost(p, g)
    BY <1>3 DEF TickAdvance
  <2>2. PICK last : \E g \in Advances(p, Scheduled(p, h, v), last) : SetHost(p, g)
    BY <2>1
  <2>3. PICK g \in Advances(p, Scheduled(p, h, v), last) : SetHost(p, g)
    BY <2>2
  <2>4. KnowsNoMore(p, h.ring, ring[p]) /\ HostOK(h)
    BY CorrectionsKnow, CorrectionsType
  <2>5. KnowsNoMore(p, Scheduled(p, h, v).ring, h.ring)
    BY <2>4, ScheduledKnows
  <2>6. KnowsNoMore(p, g.ring, Scheduled(p, h, v).ring)
    BY SimulateKnows DEF Advances
  <2>7. KnowsNoMore(p, g.ring, ring[p])
    BY <2>4, <2>5, <2>6, KnowsNoMoreTransitive
  <2> QED
    BY <2>3, <2>7, <1>1
<1> QED
  BY <1>2, <1>3

-----------------------------------------------------------------------------
(* FlowInv is inductive. *)

\* The types of what the flow control counts.
LEMMA CounterTypes ==
  ASSUME TypeOK
  PROVE  /\ \A p \in Players : current[p] \in Nat /\ Latest(p) \in Int
         /\ \A p, q \in Players : /\ confirmed[p][q] \in Int
                                  /\ remote_ack[p][q] \in Int
                                  /\ -1 <= confirmed[p][q]
         /\ \A p \in Players, c \in Cells : ring[p][c].frame \in Int
         /\ Reach \in Nat /\ MaxPrediction \in Nat /\ InputDelay \in Nat
<1>1. \A p \in Players : current[p] \in Nat
  BY DEF TypeOK
<1>2. \A p, q \in Players : confirmed[p][q] \in Frame /\ remote_ack[p][q] \in Frame
  BY DEF TypeOK
<1>3. \A p \in Players, c \in Cells : ring[p][c] \in FrameEntry
  BY DEF TypeOK
<1> QED
  BY <1>1, <1>2, <1>3, ConfigAssumption DEF Frame, FrameEntry, Latest, Reach

\* A step that confirms, acknowledges and delivers nothing keeps FlowInv if
\* peers only get ahead of what they had issued, within the stall guard, and
\* forget what they knew of remotes.
LEMMA LocalStepFlow ==
  ASSUME TypeOK, TypeOK', FlowInv,
         \A p \in Players : current'[p] >= current[p],
         \A p \in Players : \A q \in Remotes(p) :
           /\ current'[p] <= confirmed[p][q] + 1 + MaxPrediction
           /\ confirmed'[p][q] = confirmed[p][q],
         \A p \in Players : KnowsNoMore(p, ring'[p], ring[p]),
         remote_ack' = remote_ack,
         net' \subseteq net
  PROVE  FlowInv'
<1>1. ASSUME NEW p \in Players
      PROVE  Latest(p) \in Int /\ Latest(p)' \in Int /\ Latest(p)' >= Latest(p)
  <2>1. current[p] \in Nat /\ current'[p] \in Nat /\ current'[p] >= current[p]
    BY DEF TypeOK
  <2> QED
    BY <2>1, ConfigAssumption DEF Latest
<1>2. ASSUME NEW p \in Players, NEW q \in Remotes(p)
      PROVE  PairFlow(p, q)' /\ RingFlow(p, q)'
  <2>1. q \in Players /\ p \in Remotes(q)
    BY DEF Remotes
  <2>2. PairFlow(p, q) /\ RingFlow(p, q)
    BY DEF FlowInv
  <2>3. PairFlow(p, q)'
    <3>1. Latest(q) \in Int /\ Latest(q)' \in Int /\ Latest(q)' >= Latest(q)
      BY <1>1, <2>1
    <3> QED
      BY <2>1, <2>2, <3>1, CounterTypes DEF PairFlow, Reach
  <2>4. RingFlow(p, q)'
    <3> SUFFICES ASSUME NEW c \in Cells, q \in ring'[p][c].by
                 PROVE  /\ ring'[p][c].frame <= Latest(q)'
                        /\ ring'[p][c].frame <= remote_ack'[p][q] + Reach
      BY DEF RingFlow, Reach
    <3>1. q \in ring[p][c].by /\ ring'[p][c].frame = ring[p][c].frame
      BY DEF KnowsNoMore
    <3>2. ring[p][c].frame <= Latest(q) /\ ring[p][c].frame <= remote_ack[p][q] + Reach
      BY <2>2, <3>1 DEF RingFlow
    <3>3. Latest(q) \in Int /\ Latest(q)' \in Int /\ Latest(q)' >= Latest(q)
      BY <1>1, <2>1
    <3>4. ring[p][c].frame \in Int
      BY CounterTypes
    <3> QED
      BY <3>1, <3>2, <3>3, <3>4
  <2> QED
    BY <2>3, <2>4
<1>3. ASSUME NEW m \in net' PROVE PacketFlow(m)'
  <2>1. m \in net /\ m.src \in Players /\ m.dst \in Remotes(m.src)
        /\ \A f \in DOMAIN m.inputs : f \in Nat
    BY DEF TypeOK, PacketOK
  <2>2. PacketFlow(m)
    BY <2>1 DEF FlowInv
  <2>3. /\ Latest(m.src) \in Int /\ Latest(m.src)' \in Int
        /\ Latest(m.src)' >= Latest(m.src)
    BY <1>1, <2>1
  <2> QED
    BY <2>1, <2>2, <2>3 DEF PacketFlow, Reach
<1> QED
  BY <1>2, <1>3 DEF FlowInv, Remotes

LEMMA InitFlow == Init => FlowInv
<1> SUFFICES ASSUME Init PROVE FlowInv
  OBVIOUS
<1>1. ASSUME NEW p \in Players, NEW q \in Remotes(p)
      PROVE  PairFlow(p, q) /\ RingFlow(p, q)
  <2>1. q \in Players
    BY DEF Remotes
  <2>2. /\ current[p] = 0 /\ current[q] = 0 /\ confirmed[p][q] = -1
        /\ confirmed[q][p] = -1 /\ remote_ack[p][q] = -1
        /\ \A c \in Cells : ring[p][c].by = {}
    BY <2>1 DEF Init, Blank
  <2> QED
    BY <2>2, ConfigAssumption DEF PairFlow, RingFlow, Latest, Reach
<1>2. net = {}
  BY DEF Init
<1> QED
  BY <1>1, <1>2 DEF FlowInv

LEMMA StartFlow ==
  ASSUME TypeOK, TypeOK', FlowInv, NEW p \in Players, Start(p)
  PROVE  FlowInv'
<1>1. \A r \in Players : KnowsNoMore(r, ring'[r], ring[r])
  <2> SUFFICES ASSUME NEW r \in Players, NEW c \in Cells, NEW q \in Remotes(r),
                      q \in ring'[r][c].by
               PROVE  q \in ring[r][c].by /\ ring'[r][c].frame = ring[r][c].frame
    BY DEF KnowsNoMore
  <2>1. CASE r # p
    BY <2>1 DEF Start, TypeOK
  <2>2. CASE r = p /\ c < InputDelay
    <3>1. ring'[p][c] = WithInput(Blank(c), p, 0)
      BY <2>2 DEF Start, TypeOK
    <3>2. ring'[p][c].by = {p}
      BY <3>1 DEF WithInput, Blank
    <3> QED
      BY <2>2, <3>2 DEF Remotes
  <2>3. CASE r = p /\ ~(c < InputDelay)
    BY <2>3 DEF Start, TypeOK
  <2> QED
    BY <2>1, <2>2, <2>3
<1>2. \A r \in Players : \A q \in Remotes(r) : confirmed'[r][q] = confirmed[r][q]
  BY DEF Start, TypeOK, Remotes
<1>3. \A r \in Players : \A q \in Remotes(r) :
        current[r] <= confirmed[r][q] + 1 + MaxPrediction
  BY DEF FlowInv, PairFlow
<1>4. current' = current /\ remote_ack' = remote_ack /\ net' = net
  BY DEF Start
<1> QED
  BY <1>1, <1>2, <1>3, <1>4, CounterTypes, LocalStepFlow

LEMMA TickFlow ==
  ASSUME HashesTyped, TypeOK, TypeOK', FlowInv, NEW p \in Players,
         \/ TickStall(p) \/ TickThrottle(p) \/ \E v \in Input : TickAdvance(p, v)
  PROVE  FlowInv'
<1>1. \A r \in Players : KnowsNoMore(r, ring'[r], ring[r])
  <2>1. KnowsNoMore(p, ring'[p], ring[p]) /\ \A r \in Players \ {p} : ring'[r] = ring[r]
    BY TickKnows
  <2>2. \A r : KnowsNoMore(r, ring[r], ring[r])
    BY DEF KnowsNoMore
  <2> QED
    BY <2>1, <2>2
<1>2. remote_ack' = remote_ack /\ net' = net
  BY DEF TickStall, TickThrottle, TickAdvance
<1>3. \A r \in Players : \A q \in Remotes(r) : confirmed'[r][q] = confirmed[r][q]
  <2>1. CASE confirmed' = confirmed
    BY <2>1
  <2>2. CASE \E n : confirmed' = [confirmed EXCEPT ![p][p] = n]
    <3>1. confirmed \in [Players -> [Players -> Frame]]
      BY DEF TypeOK
    <3> QED
      BY <2>2, <3>1 DEF Remotes
  <2> QED
    BY <2>1, <2>2 DEF TickStall, TickThrottle, TickAdvance
<1>4. \A r \in Players : \/ current'[r] = current[r]
                         \/ r = p /\ current'[r] = current[r] + 1 /\ ~Stalls(r)
  <2>1. CASE current' = current
    BY <2>1
  <2>2. CASE current' = [current EXCEPT ![p] = current[p] + 1] /\ ~Stalls(p)
    <3>1. current \in [Players -> Nat]
      BY DEF TypeOK
    <3> QED
      BY <2>2, <3>1
  <2> QED
    BY <2>1, <2>2 DEF TickStall, TickThrottle, TickAdvance
<1>5. \A r \in Players : current'[r] >= current[r]
  BY <1>4, CounterTypes
<1>6. ASSUME NEW r \in Players, NEW q \in Remotes(r)
      PROVE  current'[r] <= confirmed[r][q] + 1 + MaxPrediction
  <2>1. current[r] <= confirmed[r][q] + 1 + MaxPrediction
    BY DEF FlowInv, PairFlow
  <2>2. q \in Players
    BY DEF Remotes
  <2>3. ~Stalls(r) => current[r] - (confirmed[r][q] + 1) < MaxPrediction
    BY <2>2, CounterTypes DEF Stalls
  <2> QED
    BY <1>4, <2>1, <2>2, <2>3, CounterTypes
<1> QED
  BY <1>1, <1>2, <1>3, <1>5, <1>6, LocalStepFlow

\* A step that leaves the counters and tables of the flow control alone.
LEMMA QuietFlow ==
  ASSUME TypeOK, TypeOK', FlowInv,
         UNCHANGED <<current, confirmed, ring, remote_ack>>, net' \subseteq net
  PROVE  FlowInv'
<1>1. \A r \in Players : KnowsNoMore(r, ring'[r], ring[r])
  BY DEF KnowsNoMore
<1>2. \A r \in Players : \A q \in Remotes(r) :
        current[r] <= confirmed[r][q] + 1 + MaxPrediction
  BY DEF FlowInv, PairFlow
<1> QED
  BY <1>1, <1>2, CounterTypes, LocalStepFlow

\* A peer's latest input reaches no further than Reach beyond any remote.
LEMMA LatestReaches ==
  ASSUME TypeOK, FlowInv, NEW p \in Players, NEW q \in Remotes(p)
  PROVE  Latest(p) <= confirmed[p][q] + Reach
<1>1. PairFlow(p, q) /\ q \in Players
  BY DEF FlowInv, Remotes
<1> QED
  BY <1>1, CounterTypes DEF PairFlow, Latest, Reach

\* The ack a peer sends is what it confirmed of its slowest remote.
LEMMA MinConfirmed ==
  ASSUME TypeOK, NEW p \in Players, Remotes(p) # {}
  PROVE  /\ \E q \in Remotes(p) : MinRemoteConfirmed(p) = confirmed[p][q]
         /\ \A q \in Remotes(p) : MinRemoteConfirmed(p) <= confirmed[p][q]
<1> DEFINE S == {confirmed[p][q] : q \in Remotes(p)}
           b == -1
<1>1. \A q \in Remotes(p) : confirmed[p][q] \in Int /\ b <= confirmed[p][q]
  BY CounterTypes DEF Remotes
<1>2. S \subseteq Int /\ S # {} /\ b \in Int /\ \A x \in S : b <= x
  BY <1>1
<1>3. MinRemoteConfirmed(p) = Min(S)
  BY DEF MinRemoteConfirmed
<1> HIDE DEF b
<1>4. Min(S) \in S /\ \A x \in S : Min(S) <= x
  BY <1>2, BoundedMin
<1> QED
  BY <1>3, <1>4

\* What a peer believes acknowledged is what its slowest remote acknowledged.
LEMMA MinAck ==
  ASSUME TypeOK, NEW p \in Players, Remotes(p) # {}
  PROVE  /\ \E q \in Remotes(p) : MinRemoteAck(p) = remote_ack[p][q]
         /\ \A q \in Remotes(p) : MinRemoteAck(p) <= remote_ack[p][q]
<1> DEFINE S == {remote_ack[p][q] : q \in Remotes(p)}
           b == -1
<1>1. \A q \in Remotes(p) : remote_ack[p][q] \in Int /\ b <= remote_ack[p][q]
  BY DEF Remotes, TypeOK, Frame
<1>2. S \subseteq Int /\ S # {} /\ b \in Int /\ \A x \in S : b <= x
  BY <1>1
<1>3. MinRemoteAck(p) = Min(S)
  BY DEF MinRemoteAck
<1> HIDE DEF b
<1>4. Min(S) \in S /\ \A x \in S : Min(S) <= x
  BY <1>2, BoundedMin
<1> QED
  BY <1>3, <1>4

\* A packet of p starts within the resend window, and no later than with the
\* first frame p has no input for.
LEMMA FirstSentBounds ==
  ASSUME TypeOK, FlowInv, NEW p \in Players, Remotes(p) # {}
  PROVE  /\ FirstSent(p) \in Int /\ FirstSent(p) <= Latest(p) + 1
         /\ Latest(p) - (MaxSendInputs - 1) <= FirstSent(p)
<1>1. PICK q \in Remotes(p) : MinRemoteAck(p) = remote_ack[p][q]
  BY MinAck
<1>2. q \in Players /\ p \in Remotes(q)
  BY DEF Remotes
<1>3. PairFlow(p, q) /\ PairFlow(q, p)
  BY <1>2 DEF FlowInv
<1> DEFINE a == MinRemoteAck(p) + 1
           b == Latest(p) - (MaxSendInputs - 1)
           z == 0
<1>4. a \in Int /\ a <= Latest(p) + 1
  BY <1>1, <1>2, <1>3, CounterTypes DEF PairFlow
<1>5. b \in Int /\ b <= Latest(p) + 1 /\ z \in Int /\ z <= Latest(p) + 1
  BY ConfigAssumption, CounterTypes DEF Latest
<1>6. FirstSent(p) = Max({a, b, z})
  BY DEF FirstSent
<1> HIDE DEF a, b, z
<1>7. FirstSent(p) \in {a, b, z}
  BY <1>4, <1>5, <1>6, MaxOfThree
<1>8. b <= FirstSent(p)
  BY <1>4, <1>5, <1>6, MaxOfThree
<1> QED
  BY <1>4, <1>5, <1>7, <1>8 DEF b

LEMMA SendFlow ==
  ASSUME TypeOK, FlowInv, NEW p \in Players, NEW q \in Players, Send(p, q)
  PROVE  FlowInv'
<1> DEFINE m == PacketTo(p, q)
<1>1. q \in Remotes(p) /\ net' = net \cup {m} /\ UNCHANGED sessionVars
  BY DEF Send
<1>2. /\ m.src = p /\ m.dst = q /\ m.ack = MinRemoteConfirmed(p)
      /\ m.frame = current[p] /\ m.start = FirstSent(p)
      /\ DOMAIN m.inputs = FirstSent(p) .. Latest(p)
  BY DEF PacketTo
<1>3. PacketFlow(m)
  <2>1. m.ack <= confirmed[p][q]
    BY <1>1, <1>2, MinConfirmed
  <2>2. PICK r \in Remotes(p) : m.ack = confirmed[p][r]
    BY <1>1, <1>2, MinConfirmed
  <2>3. Latest(p) <= m.ack + Reach
    BY <2>2, LatestReaches
  <2>4. m.ack \in Int /\ Reach \in Int /\ Latest(p) \in Int
    BY <2>2, CounterTypes DEF Remotes
  <2>5. \A f \in DOMAIN m.inputs : f \in Int /\ f <= Latest(p)
    BY <1>2, <2>4
  <2>6. m.frame <= m.ack + 1 + MaxPrediction
    <3>1. PairFlow(p, r)
      BY DEF FlowInv
    <3> QED
      BY <1>2, <2>2, <3>1 DEF PairFlow
  <2>7. /\ FirstSent(p) \in Int /\ FirstSent(p) <= Latest(p) + 1
        /\ Latest(p) - (MaxSendInputs - 1) <= FirstSent(p)
    BY <1>1, FirstSentBounds
  <2>8. Cardinality(DOMAIN m.inputs) <= MaxSendInputs
    <3>1. Cardinality(FirstSent(p) .. Latest(p)) =
            IF FirstSent(p) > Latest(p) THEN 0 ELSE Latest(p) - FirstSent(p) + 1
      BY <2>4, <2>7, FS_Interval
    <3>2. Cardinality(FirstSent(p) .. Latest(p)) <= MaxSendInputs
      BY <2>4, <2>7, <3>1, ConfigAssumption
    <3> QED
      BY <1>2, <3>2
  <2> HIDE DEF m
  <2> QED
    BY <1>2, <2>1, <2>3, <2>4, <2>5, <2>6, <2>7, <2>8 DEF PacketFlow
<1> HIDE DEF m
<1>4. \A x \in net' : PacketFlow(x)
  BY <1>1, <1>3 DEF FlowInv
<1> QED
  BY <1>1, <1>4 DEF FlowInv, PairFlow, RingFlow, PacketFlow, Latest, Reach, sessionVars

\* What the ring of p knows of the sender of m once m is in it.
LEMMA RingWithKnows ==
  ASSUME TypeOK, FlowInv, NEW m \in net, NEW p \in Players, m.dst = p,
         NEW s \in Remotes(p), NEW c \in Cells, s \in RingWith(p, m)[c].by,
         NEW limit \in Int,
         remote_ack[p][s] + Reach <= limit,
         s = m.src => m.ack + Reach <= limit
  PROVE  RingWith(p, m)[c].frame <= Latest(s) /\ RingWith(p, m)[c].frame <= limit
<1> DEFINE e == RingWith(p, m)[c]
<1>1. /\ \A f \in DOMAIN m.inputs : f \in Nat
      /\ m.ack \in Int /\ s \in Players /\ m.src \in Players
  BY DEF TypeOK, PacketOK, Frame, Remotes
<1>2. RingFlow(p, s) /\ PacketFlow(m)
  BY DEF FlowInv
<1>3. /\ ring[p][c].frame \in Int /\ Latest(s) \in Int /\ Reach \in Int
      /\ remote_ack[p][s] \in Int
  BY <1>1, CounterTypes
<1>4. s \in ring[p][c].by
        => ring[p][c].frame <= Latest(s) /\ ring[p][c].frame <= limit
  BY <1>2, <1>3 DEF RingFlow
<1>5. CASE \E f \in Taken(p, m) : f % Ring = c
  <2> DEFINE f == CHOOSE g \in Taken(p, m) : g % Ring = c
  <2>1. f \in DOMAIN m.inputs /\ f % Ring = c /\ f \in Nat
    BY <1>1, <1>5 DEF Taken
  <2>2. e = WithInput(EntryFor(ring[p], f), m.src, m.inputs[f])
    BY <1>5 DEF RingWith
  <2> HIDE DEF f, e
  <2>3. /\ e.frame = EntryFor(ring[p], f).frame
        /\ e.by = EntryFor(ring[p], f).by \cup {m.src}
    BY <2>2 DEF WithInput
  <2>4. e.frame = f
    BY <2>1, <2>3, EntryForType DEF TypeOK
  <2>5. CASE s = m.src
    BY <1>1, <1>2, <1>3, <2>1, <2>4, <2>5 DEF PacketFlow, e
  <2>6. CASE s # m.src
    <3>1. s \in EntryFor(ring[p], f).by
      BY <2>3, <2>6 DEF e
    <3>2. s \in ring[p][c].by /\ ring[p][c].frame = f
      BY <2>1, <3>1, EntryForKnows
    <3> QED
      BY <1>4, <2>4, <3>2 DEF e
  <2> QED
    BY <2>5, <2>6
<1>6. CASE ~ \E f \in Taken(p, m) : f % Ring = c
  <2>1. e = ring[p][c]
    BY <1>6 DEF RingWith
  <2> QED
    BY <1>4, <2>1
<1> QED
  BY <1>5, <1>6

LEMMA IngestFlow ==
  ASSUME TypeOK, TypeOK', FlowInv, NEW m \in net, NEW p \in Players, Ingest(p, m)
  PROVE  FlowInv'
<1> DEFINE q == m.src
           cells == RingWith(p, m)
           ack == remote_ack'[p][q]
<1>1. /\ m.dst = p /\ net' \subseteq net /\ current' = current
      /\ ring' = [ring EXCEPT ![p] = cells]
      /\ remote_ack' = IF m.ack <= Latest(p) /\ m.ack > remote_ack[p][q]
                       THEN [remote_ack EXCEPT ![p][q] = m.ack]
                       ELSE remote_ack
  BY DEF Ingest, Deliver
<1>2. PICK n \in confirmed[p][q] .. confirmed[p][q] + Ring :
        /\ ContiguousUpTo(cells, q, confirmed[p][q], n)
        /\ confirmed' = [confirmed EXCEPT ![p] = [confirmed[p] EXCEPT ![q] = n]]
  BY DEF Ingest
<1>3. /\ q \in Remotes(p) /\ q \in Players /\ p \in Remotes(q) /\ m.ack \in Int
  <2>1. PacketOK(m)
    BY DEF TypeOK
  <2> QED
    BY <1>1, <2>1 DEF PacketOK, Frame, Remotes
<1>4. PacketFlow(m) /\ \A r \in Players : \A s \in Remotes(r) : PairFlow(r, s) /\ RingFlow(r, s)
  BY DEF FlowInv
<1>5. \A r, s \in Players :
        confirmed'[r][s] = IF r = p /\ s = q THEN n ELSE confirmed[r][s]
  BY <1>2, <1>3 DEF TypeOK
<1>6. \A r, s \in Players :
        ~(r = p /\ s = q) => remote_ack'[r][s] = remote_ack[r][s]
  BY <1>1, <1>3 DEF TypeOK
<1>7. confirmed[p][q] \in Int /\ n \in Int /\ confirmed[p][q] <= n
  BY <1>2, <1>3, CounterTypes
<1>8. m.ack <= confirmed[q][p] /\ m.ack <= Latest(p)
  <2>1. m.ack <= confirmed[q][p]
    BY <1>1, <1>4 DEF PacketFlow
  <2>2. confirmed[q][p] <= Latest(p)
    BY <1>3, <1>4 DEF PairFlow
  <2> QED
    BY <1>3, <2>1, <2>2, CounterTypes
<1>9. /\ ack \in Int /\ remote_ack[p][q] <= ack /\ m.ack <= ack
      /\ ack <= confirmed[q][p]
  <2>1. ack = IF m.ack > remote_ack[p][q] THEN m.ack ELSE remote_ack[p][q]
    BY <1>1, <1>3, <1>8 DEF TypeOK
  <2>2. remote_ack[p][q] <= confirmed[q][p]
    BY <1>3, <1>4 DEF PairFlow
  <2>3. remote_ack[p][q] \in Int
    BY <1>3, CounterTypes
  <2> HIDE DEF ack
  <2> QED
    BY <1>3, <1>8, <2>1, <2>2, <2>3
<1> HIDE DEF ack, cells
<1>10. \A s \in Remotes(p), c \in Cells : s \in cells[c].by =>
         cells[c].frame <= Latest(s) /\ cells[c].frame <= remote_ack'[p][s] + Reach
  <2> SUFFICES ASSUME NEW s \in Remotes(p), NEW c \in Cells, s \in cells[c].by
               PROVE  /\ cells[c].frame <= Latest(s)
                      /\ cells[c].frame <= remote_ack'[p][s] + Reach
    OBVIOUS
  <2> DEFINE limit == remote_ack'[p][s] + Reach
  <2>1. /\ s \in Players /\ Reach \in Int /\ remote_ack[p][s] \in Int
        /\ remote_ack'[p][s] \in Int
    BY <1>6, <1>9, CounterTypes DEF Remotes, ack
  <2>2. remote_ack[p][s] + Reach <= limit /\ (s = q => m.ack + Reach <= limit)
    BY <1>3, <1>6, <1>9, <2>1 DEF ack
  <2>3. limit \in Int
    BY <2>1
  <2> HIDE DEF limit
  <2> QED
    BY <1>1, <2>2, <2>3, RingWithKnows DEF cells, limit
<1>11. n <= Latest(q) /\ n <= ack + Reach
  <2>1. CASE n = confirmed[p][q]
    <3>1. confirmed[p][q] <= Latest(q) /\ confirmed[p][q] <= remote_ack[p][q] + Reach
      BY <1>3, <1>4 DEF PairFlow
    <3> QED
      BY <1>3, <1>9, <2>1, <3>1, CounterTypes
  <2>2. CASE n > confirmed[p][q]
    <3>1. cells[n % Ring].frame = n /\ q \in cells[n % Ring].by
      BY <1>2, <1>7, <2>2 DEF ContiguousUpTo, Holds
    <3>2. n % Ring \in Cells
      BY <1>7, CellOf
    <3> QED
      BY <1>3, <1>10, <3>1, <3>2 DEF ack
  <2> QED
    BY <1>7, <2>1, <2>2
<1>12. ASSUME NEW r \in Players, NEW s \in Remotes(r)
       PROVE  PairFlow(r, s)'
  <2>1. PairFlow(r, s) /\ s \in Players /\ Latest(s)' = Latest(s) /\ Reach' = Reach
    BY <1>1, <1>4 DEF Remotes, Latest, Reach
  <2>2. CASE r = p /\ s = q
    BY <1>1, <1>5, <1>7, <1>9, <1>11, <2>1, <2>2, CounterTypes
       DEF PairFlow, ack, Remotes
  <2>3. CASE r = q /\ s = p
    BY <1>1, <1>5, <1>6, <1>7, <2>1, <2>3, CounterTypes DEF PairFlow, Remotes
  <2>4. CASE ~(r = p /\ s = q) /\ ~(r = q /\ s = p)
    BY <1>1, <1>5, <1>6, <2>1, <2>4 DEF PairFlow
  <2> QED
    BY <2>2, <2>3, <2>4
<1>13. ASSUME NEW r \in Players, NEW s \in Remotes(r)
       PROVE  RingFlow(r, s)'
  <2>1. RingFlow(r, s) /\ s \in Players /\ Latest(s)' = Latest(s) /\ Reach' = Reach
    BY <1>1, <1>4 DEF Remotes, Latest, Reach
  <2>2. CASE r = p
    <3>1. ring'[p] = cells
      BY <1>1 DEF TypeOK
    <3> QED
      BY <1>10, <2>1, <2>2, <3>1 DEF RingFlow, Reach
  <2>3. CASE r # p
    <3>1. ring'[r] = ring[r]
      BY <1>1, <2>3 DEF TypeOK
    <3> QED
      BY <1>6, <2>1, <2>3, <3>1 DEF RingFlow
  <2> QED
    BY <2>2, <2>3
<1>14. ASSUME NEW x \in net' PROVE PacketFlow(x)'
  <2>1. x \in net /\ PacketFlow(x) /\ Latest(x.src)' = Latest(x.src)
    BY <1>1, <1>4 DEF FlowInv, Latest
  <2>2. x.src \in Players /\ x.dst \in Players /\ x.ack \in Int
    <3>1. PacketOK(x)
      BY <2>1 DEF TypeOK
    <3> QED
      BY <3>1 DEF PacketOK, Frame, Remotes
  <2>3. confirmed[x.src][x.dst] <= confirmed'[x.src][x.dst]
    BY <1>5, <1>7, <2>2, CounterTypes
  <2>4. confirmed[x.src][x.dst] \in Int /\ confirmed'[x.src][x.dst] \in Int
    BY <1>5, <1>7, <2>2, CounterTypes
  <2> QED
    BY <2>1, <2>2, <2>3, <2>4 DEF PacketFlow, Reach
<1> QED
  BY <1>12, <1>13, <1>14 DEF FlowInv, Remotes

-----------------------------------------------------------------------------
(* The theorems. *)

\* The flow control invariant: the peers' tables, and the packets between
\* them, keep within one window of each other, whatever is lost or late.
THEOREM FlowInvariant == ASSUME HashesTyped PROVE Spec => []FlowInv
<1>1. Init => FlowInv
  BY InitFlow
<1>2. TypeOK /\ TypeOK' /\ FlowInv /\ [Next]_vars => FlowInv'
  <2> SUFFICES ASSUME TypeOK, TypeOK', FlowInv, [Next]_vars PROVE FlowInv'
    OBVIOUS
  <2>1. ASSUME NEW p \in Players, Start(p) PROVE FlowInv'
    BY <2>1, StartFlow
  <2>2. ASSUME NEW p \in Players, TickStall(p) PROVE FlowInv'
    BY <2>2, TickFlow
  <2>3. ASSUME NEW p \in Players, TickThrottle(p) PROVE FlowInv'
    BY <2>3, TickFlow
  <2>4. ASSUME NEW p \in Players, NEW v \in Plays[p], TickAdvance(p, v)
        PROVE  FlowInv'
    <3>1. v \in Input
      BY ConfigAssumption
    <3> QED
      BY <2>4, <3>1, TickFlow
  <2>5. ASSUME NEW p \in Players, SimDies(p) PROVE FlowInv'
    BY <2>5, QuietFlow DEF SimDies
  <2>6. ASSUME NEW p \in Players, NEW q \in Players, Send(p, q) PROVE FlowInv'
    BY <2>6, SendFlow
  <2>7. ASSUME NEW m \in net, Lose(m) PROVE FlowInv'
    BY <2>7, QuietFlow DEF Lose, sessionVars
  <2>8. ASSUME NEW m \in net, NEW p \in Players, Ingest(p, m) PROVE FlowInv'
    BY <2>8, IngestFlow
  <2>9. ASSUME NEW m \in net, NEW p \in Players, IngestIncompatible(p, m)
        PROVE  FlowInv'
    BY <2>9, QuietFlow DEF IngestIncompatible, Deliver
  <2>10. ASSUME NEW p \in Players, SetInputCount(p) PROVE FlowInv'
    BY <2>10, QuietFlow DEF SetInputCount
  <2>11. CASE UNCHANGED vars
    BY <2>11, QuietFlow DEF vars
  <2> QED
    BY <2>1, <2>2, <2>3, <2>4, <2>5, <2>6, <2>7, <2>8, <2>9, <2>10, <2>11 DEF Next
<1> QED
  BY <1>1, <1>2, TypeCorrect, PTL DEF Spec

\* No peer runs further ahead of a remote than max_prediction allows, takes
\* an input the remote has not issued, or an ack the remote has not earned.
THEOREM FlowControlHolds == ASSUME HashesTyped PROVE Spec => []FlowControl
<1>1. FlowInv => FlowControl
  BY DEF FlowInv, PairFlow, FlowControl
<1> QED
  BY <1>1, FlowInvariant, PTL

\* The resend window reaches back to the first frame some remote lacks.
LEMMA WindowCovers ==
  ASSUME WindowFits, TypeOK, FlowInv, NEW p \in Players, Remotes(p) # {}
  PROVE  FirstSent(p) <= MinRemoteAck(p) + 1
<1>1. PICK q \in Remotes(p) : MinRemoteAck(p) = remote_ack[p][q]
  BY MinAck
<1>2. PairFlow(p, q) /\ q \in Players
  BY DEF FlowInv, Remotes
<1> DEFINE a == MinRemoteAck(p) + 1
           b == Latest(p) - (MaxSendInputs - 1)
           z == 0
<1>3. a \in Int /\ b \in Int /\ z \in Int /\ z <= a
  <2>1. remote_ack[p][q] \in Nat \cup {-1}
    BY <1>2 DEF TypeOK, Frame
  <2>2. Latest(p) \in Int /\ MaxSendInputs \in Int
    BY CounterTypes, ConfigAssumption
  <2> QED
    BY <1>1, <2>1, <2>2
<1>4. b <= a
  <2>1. Latest(p) <= remote_ack[p][q] + 2 * Reach
    BY <1>2, LatestReaches, CounterTypes DEF PairFlow
  <2>2. 2 * Reach <= MaxSendInputs /\ MaxSendInputs \in Nat
    BY ConfigAssumption DEF WindowFits, Reach
  <2> QED
    BY <1>1, <1>2, <2>1, <2>2, CounterTypes
<1>5. FirstSent(p) = Max({a, b, z})
  BY DEF FirstSent
<1> HIDE DEF a, b, z
<1>6. FirstSent(p) \in {a, b, z}
  BY <1>3, <1>5, MaxOfThree
<1>7. FirstSent(p) <= a
  BY <1>3, <1>4, <1>6
<1> QED
  BY <1>7 DEF a

\* With a resend window of twice the delay and the prediction, every packet
\* reaches back to the first input that some remote has not acknowledged.
THEOREM ResendCovered ==
  ASSUME HashesTyped, WindowFits PROVE Spec => []ResendCovers
<1>1. TypeOK /\ FlowInv => ResendCovers
  BY WindowCovers DEF ResendCovers
<1> QED
  BY <1>1, FlowInvariant, TypeCorrect, PTL

\* When the ring holds twice the delay and the prediction, the size tests of
\* ingest_packet drop no packet of a peer, and the horizon cuts none short.
THEOREM NothingEverRefused ==
  ASSUME HashesTyped, HistoryFits PROVE Spec => []NothingRefused
<1>1. TypeOK /\ FlowInv => NothingRefused
  <2> SUFFICES ASSUME TypeOK, FlowInv, NEW m \in net
               PROVE  /\ WithinHorizon(m.dst, m)
                      /\ \A f \in DOMAIN m.inputs : f <= FarHorizon(m.dst)
    BY DEF NothingRefused
  <2> DEFINE p == m.src
             q == m.dst
  <2>1. /\ p \in Players /\ q \in Players /\ q \in Remotes(p)
        /\ m.ack \in Int /\ m.start \in Int /\ m.frame \in Int
        /\ \A f \in DOMAIN m.inputs : f \in Int
    <3>1. PacketOK(m)
      BY DEF TypeOK
    <3> QED
      BY <3>1 DEF PacketOK, Frame, Remotes
  <2>2. PacketFlow(m) /\ PairFlow(p, q)
    BY <2>1 DEF FlowInv
  <2>3. m.ack <= Latest(q)
    BY <2>1, <2>2, CounterTypes DEF PacketFlow, PairFlow
  <2>4. /\ Ring \in Nat /\ Ring \div 2 \in Nat /\ Reach <= Ring \div 2
        /\ MaxPrediction <= Ring /\ InputDelay + MaxPrediction = Reach
    <3>1. /\ Ring \in Nat /\ InputDelay \in Nat /\ MaxPrediction \in Nat
          /\ MaxPrediction <= Ring
      BY ConfigAssumption
    <3> QED
      BY <3>1 DEF HistoryFits, Reach
  <2>5. /\ FarHorizon(q) = Latest(q) + 1 + Ring \div 2 /\ Latest(q) \in Int
        /\ MaxPrediction \in Nat /\ Reach \in Nat
    BY <2>1, <2>4, CounterTypes DEF FarHorizon, Latest
  <2> HIDE DEF p, q
  <2>6. m.start <= FarHorizon(q)
    BY <2>1, <2>2, <2>3, <2>4, <2>5 DEF PacketFlow
  <2>7. m.frame <= FarHorizon(q) + Ring
    BY <2>1, <2>2, <2>3, <2>4, <2>5 DEF PacketFlow
  <2>8. \A f \in DOMAIN m.inputs : f <= FarHorizon(q)
    BY <2>1, <2>2, <2>3, <2>4, <2>5 DEF PacketFlow
  <2>9. Cardinality(DOMAIN m.inputs) <= MaxSendInputs
    BY <2>2 DEF PacketFlow
  <2> QED
    BY <2>6, <2>7, <2>8, <2>9 DEF WithinHorizon, q
<1> QED
  BY <1>1, FlowInvariant, TypeCorrect, PTL

\* A confirmed frame stays confirmed.
LEMMA ConfirmedGrows ==
  ASSUME TypeOK, Next
  PROVE  \A p \in Players : \A q \in Remotes(p) : confirmed[p][q] <= confirmed'[p][q]
<1>1. CASE UNCHANGED confirmed
  BY <1>1, CounterTypes DEF Remotes
<1>2. ASSUME NEW r \in Players, NEW n, confirmed' = [confirmed EXCEPT ![r][r] = n]
      PROVE  \A p \in Players : \A q \in Remotes(p) : confirmed[p][q] <= confirmed'[p][q]
  <2>1. \A p \in Players : \A q \in Remotes(p) : confirmed'[p][q] = confirmed[p][q]
    BY <1>2 DEF TypeOK, Remotes
  <2> QED
    BY <2>1, CounterTypes DEF Remotes
<1>3. ASSUME NEW m \in net, NEW r \in Players, Ingest(r, m)
      PROVE  \A p \in Players : \A q \in Remotes(p) : confirmed[p][q] <= confirmed'[p][q]
  <2>1. m.src \in Players
    BY DEF TypeOK, PacketOK
  <2>2. PICK n \in confirmed[r][m.src] .. confirmed[r][m.src] + Ring :
          confirmed' = [confirmed EXCEPT ![r] = [confirmed[r] EXCEPT ![m.src] = n]]
    BY <1>3 DEF Ingest
  <2>3. \A p, q \in Players :
          confirmed'[p][q] = IF p = r /\ q = m.src THEN n ELSE confirmed[p][q]
    BY <2>1, <2>2 DEF TypeOK
  <2>4. confirmed[r][m.src] <= n
    BY <2>1, <2>2, CounterTypes
  <2> QED
    BY <2>1, <2>3, <2>4, CounterTypes DEF Remotes
<1>4. ASSUME NEW p \in Players, Start(p)
      PROVE  \E n : confirmed' = [confirmed EXCEPT ![p][p] = n]
  BY <1>4 DEF Start
<1>5. ASSUME NEW p \in Players, TickStall(p) \/ TickThrottle(p) PROVE UNCHANGED confirmed
  BY <1>5 DEF TickStall, TickThrottle
<1>6. ASSUME NEW p \in Players, NEW v \in Plays[p], TickAdvance(p, v)
      PROVE  UNCHANGED confirmed \/ \E n : confirmed' = [confirmed EXCEPT ![p][p] = n]
  BY <1>6 DEF TickAdvance
<1>7. ASSUME NEW p \in Players, SimDies(p) \/ SetInputCount(p) PROVE UNCHANGED confirmed
  BY <1>7 DEF SimDies, SetInputCount
<1>8. ASSUME NEW p \in Players, NEW q \in Players, Send(p, q) PROVE UNCHANGED confirmed
  BY <1>8 DEF Send, sessionVars
<1>9. ASSUME NEW m \in net, Lose(m) PROVE UNCHANGED confirmed
  BY <1>9 DEF Lose, sessionVars
<1>10. ASSUME NEW m \in net, NEW p \in Players, IngestIncompatible(p, m)
       PROVE  UNCHANGED confirmed
  BY <1>10 DEF IngestIncompatible
<1> QED
  BY <1>1, <1>2, <1>3, <1>4, <1>5, <1>6, <1>7, <1>8, <1>9, <1>10 DEF Next

\* Only get_packet puts a packet into the network.
LEMMA OnlySendAdds ==
  ASSUME Next
  PROVE  net' \subseteq net \/ \E p, q \in Players : Send(p, q)
<1>1. ASSUME NEW p \in Players,
             Start(p) \/ TickStall(p) \/ TickThrottle(p) \/ SimDies(p) \/ SetInputCount(p)
      PROVE  net' = net
  BY <1>1 DEF Start, TickStall, TickThrottle, SimDies, SetInputCount
<1>2. ASSUME NEW p \in Players, NEW v \in Plays[p], TickAdvance(p, v) PROVE net' = net
  BY <1>2 DEF TickAdvance
<1>3. ASSUME NEW m \in net, Lose(m) PROVE net' \subseteq net
  BY <1>3 DEF Lose
<1>4. ASSUME NEW m \in net, NEW p \in Players, Ingest(p, m) \/ IngestIncompatible(p, m)
      PROVE  net' \subseteq net
  BY <1>4 DEF Ingest, IngestIncompatible, Deliver
<1> QED
  BY <1>1, <1>2, <1>3, <1>4 DEF Next

\* A packet that is sent starts no later than where its receiver stopped.
LEMMA SendJoins ==
  ASSUME WindowFits, TypeOK, FlowInv, NEW p \in Players, NEW q \in Remotes(p)
  PROVE  PacketJoins(PacketTo(p, q))
<1> DEFINE m == PacketTo(p, q)
<1>1. /\ m.src = p /\ m.dst = q /\ m.start = FirstSent(p)
      /\ DOMAIN m.inputs = FirstSent(p) .. Latest(p)
  BY DEF PacketTo
<1>2. FirstSent(p) \in Int /\ Latest(p) \in Int
  BY FirstSentBounds, CounterTypes
<1>3. m.start <= confirmed[q][p] + 1
  <2>1. FirstSent(p) <= MinRemoteAck(p) + 1
    BY WindowCovers
  <2>2. MinRemoteAck(p) \in Int /\ MinRemoteAck(p) <= remote_ack[p][q]
    BY MinAck, CounterTypes DEF Remotes
  <2>3. remote_ack[p][q] <= confirmed[q][p]
    BY DEF FlowInv, PairFlow
  <2>4. remote_ack[p][q] \in Int /\ confirmed[q][p] \in Int
    BY CounterTypes DEF Remotes
  <2> QED
    BY <1>1, <1>2, <2>1, <2>2, <2>3, <2>4
<1>4. \A f \in DOMAIN m.inputs : m.start <= f /\ m.start .. f \subseteq DOMAIN m.inputs
  BY <1>1, <1>2
<1> HIDE DEF m
<1>5. PacketJoins(m)
  BY <1>1, <1>3, <1>4 DEF PacketJoins
<1> QED
  BY <1>5 DEF m

\* With the resend window of ResendCovered no packet in flight, however old,
\* starts beyond the first frame that its receiver misses.
THEOREM PacketsAlwaysJoin ==
  ASSUME HashesTyped, WindowFits PROVE Spec => []JoinInv
<1>1. Init => JoinInv
  BY DEF Init, JoinInv
<1>2. TypeOK /\ TypeOK' /\ FlowInv /\ JoinInv /\ [Next]_vars => JoinInv'
  <2> SUFFICES ASSUME TypeOK, TypeOK', FlowInv, JoinInv, [Next]_vars, NEW m \in net'
               PROVE  PacketJoins(m)'
    BY DEF JoinInv
  <2>1. /\ m.src \in Players /\ m.dst \in Players /\ m.src \in Remotes(m.dst)
        /\ m.start \in Int
    <3>1. PacketOK(m)
      BY DEF TypeOK, PacketOK, Frame, HashEntry
    <3> QED
      BY <3>1 DEF PacketOK, Remotes
  <2>2. PacketJoins(m)
    <3>1. CASE m \in net
      BY <3>1 DEF JoinInv
    <3>2. CASE m \notin net
      <4>1. PICK p \in Players, q \in Players : Send(p, q)
        BY <3>2, OnlySendAdds DEF vars
      <4>2. q \in Remotes(p) /\ net' = net \cup {PacketTo(p, q)}
        BY <4>1 DEF Send
      <4> QED
        BY <3>2, <4>2, SendJoins
    <3> QED
      BY <3>1, <3>2
  <2>3. confirmed[m.dst][m.src] <= confirmed'[m.dst][m.src]
    <3>1. CASE Next
      BY <2>1, <3>1, ConfirmedGrows
    <3>2. CASE UNCHANGED vars
      BY <2>1, <3>2, CounterTypes DEF vars
    <3> QED
      BY <3>1, <3>2
  <2>4. confirmed[m.dst][m.src] \in Int /\ confirmed'[m.dst][m.src] \in Int
    <3>1. confirmed'[m.dst][m.src] \in Frame
      BY <2>1 DEF TypeOK
    <3> QED
      BY <2>1, <3>1, CounterTypes DEF Frame
  <2> QED
    BY <2>1, <2>2, <2>3, <2>4 DEF PacketJoins
<1> QED
  BY <1>1, <1>2, FlowInvariant, TypeCorrect, PTL DEF Spec

-----------------------------------------------------------------------------
(* Builds. *)

\* A step after which the sessions are those of before, of the same builds,
\* and know no inputs of a remote they knew none of.
LEMMA QuietBuild ==
  ASSUME BuildInv, UNCHANGED <<active, local_fingerprint>>, net' \subseteq net,
         \A p \in Players : \A q \in Remotes(p) :
           confirmed'[p][q] # -1 => confirmed[p][q] # -1
  PROVE  BuildInv'
BY DEF BuildInv, Remotes

LEMMA InitBuild == Init => BuildInv
<1> SUFFICES ASSUME Init PROVE BuildInv
  OBVIOUS
<1>1. net = {}
  BY DEF Init
<1>2. \A p \in Players : \A q \in Remotes(p) : confirmed[p][q] = -1
  BY DEF Init, Remotes
<1> QED
  BY <1>1, <1>2 DEF BuildInv

\* A session that starts was not active, so that nobody knew it.
LEMMA StartBuild ==
  ASSUME TypeOK, BuildInv, NEW p \in Players, Start(p)
  PROVE  BuildInv'
<1>1. ~active[p] /\ active' = [active EXCEPT ![p] = TRUE] /\ net' = net
  BY DEF Start
<1>2. PICK b \in Builds[p] :
        local_fingerprint' = [local_fingerprint EXCEPT ![p] = b]
  BY DEF Start
<1>3. \A r \in Players : \A q \in Remotes(r) : confirmed'[r][q] = confirmed[r][q]
  BY DEF Start, TypeOK, Remotes
<1>4. \A r \in Players : r # p =>
        active'[r] = active[r] /\ local_fingerprint'[r] = local_fingerprint[r]
  BY <1>1, <1>2 DEF TypeOK
<1>5. ASSUME NEW m \in net'
      PROVE  active'[m.src] /\ m.fingerprint = local_fingerprint'[m.src]
  <2>1. m \in net /\ m.src \in Players
    BY <1>1 DEF TypeOK, PacketOK
  <2>2. active[m.src] /\ m.fingerprint = local_fingerprint[m.src]
    BY <2>1 DEF BuildInv
  <2> QED
    BY <1>1, <1>4, <2>1, <2>2
<1>6. ASSUME NEW r \in Players, NEW q \in Remotes(r), confirmed'[r][q] # -1
      PROVE  /\ active'[r] /\ active'[q]
             /\ local_fingerprint'[r] = local_fingerprint'[q]
  <2>1. q \in Players /\ active[r] /\ active[q]
        /\ local_fingerprint[r] = local_fingerprint[q]
    BY <1>3, <1>6 DEF BuildInv, Remotes
  <2> QED
    BY <1>1, <1>4, <2>1
<1> QED
  BY <1>5, <1>6 DEF BuildInv, Remotes

LEMMA TickBuild ==
  ASSUME TypeOK, BuildInv, NEW p \in Players,
         \/ TickStall(p) \/ TickThrottle(p) \/ \E v \in Input : TickAdvance(p, v)
  PROVE  BuildInv'
<1>1. UNCHANGED <<active, local_fingerprint, net>>
  BY DEF TickStall, TickThrottle, TickAdvance
<1>2. \A r \in Players : \A q \in Remotes(r) : confirmed'[r][q] = confirmed[r][q]
  <2>1. CASE confirmed' = confirmed
    BY <2>1
  <2>2. CASE \E n : confirmed' = [confirmed EXCEPT ![p][p] = n]
    BY <2>2 DEF TypeOK, Remotes
  <2> QED
    BY <2>1, <2>2 DEF TickStall, TickThrottle, TickAdvance
<1> QED
  BY <1>1, <1>2, QuietBuild

LEMMA SendBuild ==
  ASSUME BuildInv, NEW p \in Players, NEW q \in Players, Send(p, q)
  PROVE  BuildInv'
<1>1. /\ active[p] /\ net' = net \cup {PacketTo(p, q)}
      /\ UNCHANGED <<active, local_fingerprint, confirmed>>
  BY DEF Send, sessionVars
<1>2. PacketTo(p, q).src = p /\ PacketTo(p, q).fingerprint = local_fingerprint[p]
  BY DEF PacketTo
<1> QED
  BY <1>1, <1>2 DEF BuildInv, Remotes

\* The fingerprint test lets in only packets of the receiver's own build,
\* and what it lets in is all that a peer learns.
LEMMA IngestBuild ==
  ASSUME TypeOK, BuildInv, NEW m \in net, NEW p \in Players, Ingest(p, m)
  PROVE  BuildInv'
<1>1. /\ active[p] /\ m.fingerprint = local_fingerprint[p] /\ net' \subseteq net
      /\ UNCHANGED <<active, local_fingerprint>>
  BY DEF Ingest, SameBuild, Deliver
<1>2. active[m.src] /\ local_fingerprint[m.src] = local_fingerprint[p]
  BY <1>1 DEF BuildInv
<1>3. PICK n : confirmed' = [confirmed EXCEPT ![p] = [confirmed[p] EXCEPT ![m.src] = n]]
  BY DEF Ingest
<1>4. ASSUME NEW r \in Players, NEW q \in Remotes(r)
      PROVE  \/ confirmed'[r][q] = confirmed[r][q]
             \/ r = p /\ q = m.src
  BY <1>3 DEF TypeOK, Remotes
<1> QED
  BY <1>1, <1>2, <1>4 DEF BuildInv, Remotes

\* What a packet says of its sender's build is true for as long as it is in
\* flight, and sessions that know each other's inputs have the same build.
THEOREM BuildInvariant == ASSUME HashesTyped PROVE Spec => []BuildInv
<1>1. Init => BuildInv
  BY InitBuild
<1>2. TypeOK /\ BuildInv /\ [Next]_vars => BuildInv'
  <2> SUFFICES ASSUME TypeOK, BuildInv, [Next]_vars PROVE BuildInv'
    OBVIOUS
  <2>1. ASSUME NEW p \in Players, Start(p) PROVE BuildInv'
    BY <2>1, StartBuild
  <2>2. ASSUME NEW p \in Players, TickStall(p) PROVE BuildInv'
    BY <2>2, TickBuild
  <2>3. ASSUME NEW p \in Players, TickThrottle(p) PROVE BuildInv'
    BY <2>3, TickBuild
  <2>4. ASSUME NEW p \in Players, NEW v \in Plays[p], TickAdvance(p, v)
        PROVE  BuildInv'
    BY <2>4, TickBuild, ConfigAssumption
  <2>5. ASSUME NEW p \in Players, SimDies(p) PROVE BuildInv'
    BY <2>5, QuietBuild DEF SimDies
  <2>6. ASSUME NEW p \in Players, SetInputCount(p) PROVE BuildInv'
    BY <2>6, QuietBuild DEF SetInputCount
  <2>7. ASSUME NEW p \in Players, NEW q \in Players, Send(p, q) PROVE BuildInv'
    BY <2>7, SendBuild
  <2>8. ASSUME NEW m \in net, Lose(m) PROVE BuildInv'
    BY <2>8, QuietBuild DEF Lose, sessionVars
  <2>9. ASSUME NEW m \in net, NEW p \in Players, Ingest(p, m) PROVE BuildInv'
    BY <2>9, IngestBuild
  <2>10. ASSUME NEW m \in net, NEW p \in Players, IngestIncompatible(p, m)
         PROVE  BuildInv'
    BY <2>10, QuietBuild DEF IngestIncompatible, Deliver
  <2>11. CASE UNCHANGED vars
    BY <2>11, QuietBuild DEF vars
  <2> QED
    BY <2>1, <2>2, <2>3, <2>4, <2>5, <2>6, <2>7, <2>8, <2>9, <2>10, <2>11 DEF Next
<1> QED
  BY <1>1, <1>2, TypeCorrect, PTL DEF Spec

\* Two sessions of different builds never learn an input of each other, and
\* neither gets further than the frames it may predict from the start.
THEOREM BuildsKeptApart == ASSUME HashesTyped PROVE Spec => []BuildsNeverMix
<1>1. TypeOK /\ FlowInv /\ BuildInv => BuildsNeverMix
  <2> SUFFICES ASSUME TypeOK, FlowInv, BuildInv, NEW p \in Players,
                      NEW q \in Remotes(p),
                      local_fingerprint[p] # local_fingerprint[q]
               PROVE  current[p] <= MaxPrediction /\ confirmed[p][q] = -1
    BY DEF BuildsNeverMix
  <2>1. confirmed[p][q] = -1
    BY DEF BuildInv
  <2>2. current[p] <= confirmed[p][q] + 1 + MaxPrediction
    BY DEF FlowInv, PairFlow
  <2> QED
    BY <2>1, <2>2, CounterTypes
<1> QED
  BY <1>1, FlowInvariant, BuildInvariant, TypeCorrect, PTL
=============================================================================
