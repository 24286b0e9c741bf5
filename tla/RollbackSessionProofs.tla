----------------------- MODULE RollbackSessionProofs -----------------------
(***************************************************************************)
(* Theorems about RollbackSession for any number of players, any inputs    *)
(* and any ring sizes that ConfigAssumption allows.                        *)
(***************************************************************************)
EXTENDS RollbackSession, SequenceTheorems, WellFoundedInduction, TLAPS

\* get_state_hash returns a hash for every state a session can reach.
HashesTyped == \A p \in Players : \A s \in SimState : Hash(p, s) \in HashValue

-----------------------------------------------------------------------------
(* Minima, maxima and remainders: std::min and std::max over players and   *)
(* frames, and the addressing of the tables by frame % size.               *)

\* A nonempty set of natural numbers has a least element.
LEMMA NatMin ==
  ASSUME NEW S, S \subseteq Nat, S # {}
  PROVE  Min(S) \in S /\ \A y \in S : Min(S) <= y
<1>1. \E x \in S : \A y \in S : ~(<<y, x>> \in OpToRel(<, Nat))
  BY NatLessThanWellFounded, WFMin
<1>2. \A x, y \in Nat : x < y => <<x, y>> \in OpToRel(<, Nat)
  BY Zenon DEF OpToRel
<1>3. \E x \in S : \A y \in S : ~(y < x)
  BY <1>1, <1>2, Zenon
<1>4. \E x \in S : \A y \in S : x <= y
  BY <1>3, SMT
<1> QED
  BY <1>4 DEF Min

\* So has a nonempty set of integers that is bounded from below.
LEMMA BoundedMin ==
  ASSUME NEW S, S \subseteq Int, S # {}, NEW b \in Int, \A x \in S : b <= x
  PROVE  Min(S) \in S /\ \A y \in S : Min(S) <= y
<1> DEFINE T == {x - b : x \in S}
<1> HIDE DEF T
<1>1. T \subseteq Nat /\ T # {}
  <2>1. \A x \in S : x - b \in Nat
    OBVIOUS
  <2> QED
    BY <2>1 DEF T
<1>2. Min(T) \in T /\ \A y \in T : Min(T) <= y
  BY <1>1, NatMin
<1>3. PICK x \in S : Min(T) = x - b
  BY <1>2 DEF T
<1>4. \A y \in S : x <= y
  <2> TAKE y \in S
  <2>1. y - b \in T
    BY DEF T
  <2> QED
    BY <2>1, <1>2, <1>3
<1> QED
  BY <1>4 DEF Min

\* A nonempty set of integers bounded from above has a greatest element.
LEMMA BoundedMax ==
  ASSUME NEW S, S \subseteq Int, S # {}, NEW b \in Int, \A x \in S : x <= b
  PROVE  Max(S) \in S /\ \A y \in S : y <= Max(S)
<1> DEFINE T == {b - x : x \in S}
<1> HIDE DEF T
<1>1. T \subseteq Nat /\ T # {}
  <2>1. \A x \in S : b - x \in Nat
    OBVIOUS
  <2> QED
    BY <2>1 DEF T
<1>2. Min(T) \in T /\ \A y \in T : Min(T) <= y
  BY <1>1, NatMin
<1>3. PICK x \in S : Min(T) = b - x
  BY <1>2 DEF T
<1>4. \A y \in S : x >= y
  <2> TAKE y \in S
  <2>1. b - y \in T
    BY DEF T
  <2> QED
    BY <2>1, <1>2, <1>3
<1> QED
  BY <1>4 DEF Max

\* The greatest of two and of three integers.
LEMMA MaxOfTwo ==
  ASSUME NEW a \in Int, NEW b \in Int
  PROVE  Max({a, b}) = IF a >= b THEN a ELSE b
BY DEF Max

LEMMA MaxOfThree ==
  ASSUME NEW a \in Int, NEW b \in Int, NEW c \in Int
  PROVE  /\ Max({a, b, c}) \in {a, b, c}
         /\ a <= Max({a, b, c}) /\ b <= Max({a, b, c}) /\ c <= Max({a, b, c})
<1>1. \E x \in {a, b, c} : \A y \in {a, b, c} : x >= y
  OBVIOUS
<1> QED
  BY <1>1 DEF Max

\* A remainder addresses a cell of the table.
LEMMA RemainderIsCell ==
  ASSUME NEW n \in Nat \ {0}, NEW f \in Int
  PROVE  f % n \in 0 .. n - 1
OBVIOUS

\* Two frames less than a table's length apart have different cells.
LEMMA CellsDiffer ==
  ASSUME NEW n \in Nat \ {0}, NEW f \in Int, NEW g \in Int,
         f # g, f - g < n, g - f < n
  PROVE  f % n # g % n
<1>1. \A a, b \in Int : a < b /\ b - a < n => a % n # b % n
  <2> SUFFICES ASSUME NEW a \in Int, NEW b \in Int, a < b, b - a < n,
                      a % n = b % n
               PROVE  FALSE
    OBVIOUS
  <2>1. a = (n * (a \div n)) + (a % n) /\ b = (n * (b \div n)) + (b % n)
    OBVIOUS
  <2>2. a \div n \in Int /\ b \div n \in Int
    OBVIOUS
  <2> DEFINE d == (b \div n) - (a \div n)
  <2>3. b - a = n * d
    BY <2>1, <2>2
  <2>4. d > 0
    BY <2>2, <2>3
  <2>5. n * d >= n
    BY <2>2, <2>4
  <2> QED
    BY <2>3, <2>5
<1>2. CASE f < g
  BY <1>1, <1>2
<1>3. CASE g < f
  BY <1>1, <1>3
<1> QED
  BY <1>2, <1>3

-----------------------------------------------------------------------------
(* Types of the operators. *)

SlotTable == [0 .. SnapshotSlots - 1 -> {NoSnapshot} \cup SimState]

HostOK(h) ==
  h \in [ring : [Cells -> FrameEntry], sim : SimState, slots : SlotTable,
         hashes : [Cells -> HashEntry]]

LEMMA CellOf == \A f \in Int : f % Ring \in Cells
BY ConfigAssumption, RemainderIsCell DEF Cells

LEMMA SlotOf == \A f \in Int : f % SnapshotSlots \in 0 .. SnapshotSlots - 1
<1>1. SnapshotSlots \in Nat \ {0}
  BY ConfigAssumption
<1> QED
  BY <1>1, RemainderIsCell

LEMMA BlankType == \A f \in Frame : Blank(f) \in FrameEntry
BY ConfigAssumption DEF Blank, FrameEntry, NoInputs, Inputs

LEMMA EntryForType ==
  ASSUME NEW cells \in [Cells -> FrameEntry], NEW f \in Nat
  PROVE  EntryFor(cells, f) \in FrameEntry /\ EntryFor(cells, f).frame = f
<1>1. f % Ring \in Cells
  BY CellOf
<1>2. Blank(f) \in FrameEntry /\ Blank(f).frame = f
  BY BlankType DEF Frame, Blank
<1> QED
  BY <1>1, <1>2 DEF EntryFor

LEMMA InputsForType ==
  ASSUME NEW cells \in [Cells -> FrameEntry], NEW last \in Inputs,
         NEW f \in Nat
  PROVE  InputsFor(cells, last, f) \in Inputs
<1>1. EntryFor(cells, f) \in FrameEntry
  BY EntryForType
<1>2. EntryFor(cells, f).input \in Inputs
  BY <1>1 DEF FrameEntry
<1> QED
  BY <1>2 DEF InputsFor, Inputs

LEMMA SimulateType ==
  ASSUME HashesTyped, NEW p \in Players, NEW h, HostOK(h), NEW last \in Inputs,
         NEW from \in Nat, NEW to \in Nat, from <= to, NEW saved
  PROVE  HostOK(Simulate(p, h, last, from, to, saved))
<1> DEFINE Used(f) == InputsFor(h.ring, last, f)
           Steps(f) == [i \in 1 .. f - from |-> Used(from + i - 1)]
           After(f) == IF stepping[p] THEN h.sim \o Steps(f) ELSE h.sim
           run == from .. to - 1
           reached == from + 1 .. to
<1>1. \A f \in Nat : Used(f) \in Inputs
  BY InputsForType DEF HostOK
<1>2. \A f \in from .. to : After(f) \in SimState
  <2> TAKE f \in from .. to
  <2>1. f - from \in Nat
    OBVIOUS
  <2>2. \A i \in 1 .. f - from : Used(from + i - 1) \in Inputs
    <3> TAKE i \in 1 .. f - from
    <3>1. from + i - 1 \in Nat
      OBVIOUS
    <3> QED
      BY <3>1, <1>1
  <2> HIDE DEF Used
  <2>3. Steps(f) \in Seq(Inputs)
    BY <2>1, <2>2
  <2> HIDE DEF Steps
  <2>4. h.sim \in Seq(Inputs)
    BY DEF HostOK, SimState
  <2>5. h.sim \o Steps(f) \in Seq(Inputs)
    BY <2>3, <2>4, ConcatProperties
  <2> QED
    BY <2>4, <2>5 DEF SimState
<1> HIDE DEF Used, Steps, After
<1> DEFINE res == Simulate(p, h, last, from, to, saved)
<1>3. res.ring \in [Cells -> FrameEntry]
  <2> DEFINE Cell(c) == IF \E f \in run : f % Ring = c
        THEN LET f == CHOOSE g \in run : g % Ring = c IN
             [frame |-> f, input |-> Used(f), by |-> EntryFor(h.ring, f).by]
        ELSE h.ring[c]
  <2>1. ASSUME NEW c \in Cells PROVE Cell(c) \in FrameEntry
    <3>1. CASE \E f \in run : f % Ring = c
      <4> DEFINE f == CHOOSE g \in run : g % Ring = c
      <4>1. f \in run
        BY <3>1
      <4>2. f \in Nat
        BY <4>1
      <4> HIDE DEF f
      <4>3. [frame |-> f, input |-> Used(f), by |-> EntryFor(h.ring, f).by] \in FrameEntry
        BY <4>2, <1>1, EntryForType DEF HostOK, FrameEntry
      <4> QED
        BY <4>3, <3>1 DEF f
    <3>2. CASE ~ \E f \in run : f % Ring = c
      BY <3>2 DEF HostOK
    <3> QED
      BY <3>1, <3>2
  <2>2. res.ring = [c \in Cells |-> Cell(c)]
    BY DEF Simulate, Used
  <2> HIDE DEF Cell
  <2> QED
    BY <2>1, <2>2
<1>4. res.sim \in SimState
  BY <1>2 DEF Simulate, After, Steps, Used
<1>5. res.slots \in SlotTable
  <2> DEFINE Hits(s) == {f \in reached : f % SnapshotSlots = s}
             Slot(s) == IF Hits(s) = {} THEN h.slots[s]
                        ELSE IF Max(Hits(s)) \in saved THEN After(Max(Hits(s)))
                        ELSE NoSnapshot
  <2>1. ASSUME NEW s \in 0 .. SnapshotSlots - 1
        PROVE  Slot(s) \in {NoSnapshot} \cup SimState
    <3>1. CASE Hits(s) # {}
      <4>1. Hits(s) \subseteq Int /\ Hits(s) # {} /\ \A x \in Hits(s) : x <= to
        BY <3>1
      <4> HIDE DEF Hits
      <4>2. Max(Hits(s)) \in Hits(s)
        BY <4>1, BoundedMax
      <4>3. Max(Hits(s)) \in from .. to
        BY <4>2 DEF Hits
      <4> QED
        BY <4>3, <3>1, <1>2
    <3>2. CASE Hits(s) = {}
      BY <3>2 DEF HostOK, SlotTable
    <3> QED
      BY <3>1, <3>2
  <2>2. res.slots = [s \in 0 .. SnapshotSlots - 1 |-> Slot(s)]
    BY DEF Simulate, After, Steps, Used
  <2> HIDE DEF Slot
  <2> QED
    BY <2>1, <2>2 DEF SlotTable
<1>6. res.hashes \in [Cells -> HashEntry]
  <2> DEFINE Entry(c) == IF \E f \in reached : f % Ring = c
        THEN LET f == CHOOSE g \in reached : g % Ring = c IN
             [frame |-> f, hash |-> Hash(p, After(f))]
        ELSE h.hashes[c]
  <2>1. ASSUME NEW c \in Cells PROVE Entry(c) \in HashEntry
    <3>1. CASE \E f \in reached : f % Ring = c
      <4> DEFINE f == CHOOSE g \in reached : g % Ring = c
      <4>1. f \in reached
        BY <3>1
      <4>2. f \in from .. to /\ f \in Frame
        BY <4>1 DEF Frame
      <4> HIDE DEF f
      <4>3. Hash(p, After(f)) \in HashValue
        BY <4>2, <1>2 DEF HashesTyped
      <4>4. [frame |-> f, hash |-> Hash(p, After(f))] \in HashEntry
        BY <4>2, <4>3 DEF HashEntry
      <4> QED
        BY <4>4, <3>1 DEF f
    <3>2. CASE ~ \E f \in reached : f % Ring = c
      BY <3>2 DEF HostOK
    <3> QED
      BY <3>1, <3>2
  <2>2. res.hashes = [c \in Cells |-> Entry(c)]
    BY DEF Simulate, After, Steps, Used
  <2> HIDE DEF Entry
  <2> QED
    BY <2>1, <2>2
<1>7. res = [ring |-> res.ring, sim |-> res.sim, slots |-> res.slots,
             hashes |-> res.hashes]
  BY Zenon DEF Simulate
<1> HIDE DEF res
<1>8. HostOK(res)
  BY <1>3, <1>4, <1>5, <1>6, <1>7 DEF HostOK
<1> QED
  BY <1>8 DEF res

\* A remote hash that check_remote_hash may report is for a real frame.
LEMMA MismatchesType ==
  ASSUME NEW p \in Players, NEW safe,
         NEW pending \in [Players -> HashEntry], NEW table
  PROVE  Mismatches(p, safe, pending, table) \subseteq Nat
BY DEF Mismatches, HashEntry, Frame, Remotes

LEMMA CheckRemoteHashType ==
  ASSUME NEW p \in Players, NEW incorrect, NEW safe, NEW table,
         NEW pending \in [Players -> HashEntry],
         desync \in [Players -> Frame],
         CheckRemoteHash(p, incorrect, safe, pending, table)
  PROVE  desync' \in [Players -> Frame]
<1>1. Mismatches(p, safe, pending, table) \subseteq Frame
  BY MismatchesType DEF Frame
<1> QED
  BY <1>1 DEF CheckRemoteHash

LEMMA CorrectType ==
  ASSUME TypeOK, NEW p \in Players, NEW h, Correct(p, h)
  PROVE  /\ first_incorrect' \in [Players -> Frame]
         /\ mispredicted' \in [Players -> SUBSET Players]
         /\ desync' \in [Players -> Frame]
<1>1. remote_hash[p] \in [Players -> HashEntry]
  BY DEF TypeOK
<1>2. desync' \in [Players -> Frame]
  BY <1>1, CheckRemoteHashType DEF Correct, TypeOK
<1> QED
  BY <1>2 DEF Correct, TypeOK, Frame

LEMMA SetHostType ==
  ASSUME TypeOK, NEW p \in Players, NEW h, HostOK(h), SetHost(p, h)
  PROVE  /\ ring' \in [Players -> [Cells -> FrameEntry]]
         /\ sim' \in [Players -> SimState]
         /\ slots' \in [Players -> SlotTable]
         /\ hashes' \in [Players -> [Cells -> HashEntry]]
BY DEF TypeOK, HostOK, SetHost, SlotTable

LEMMA WithInputType ==
  ASSUME NEW e \in FrameEntry, NEW q \in Players, NEW v \in Input
  PROVE  WithInput(e, q, v) \in FrameEntry
BY DEF WithInput, FrameEntry, Inputs

LEMMA CorrectedType ==
  ASSUME HashesTyped, TypeOK, NEW p \in Players, NEW saved, NEW loads
  PROVE  HostOK(Corrected(p, saved, loads))
<1> DEFINE target == first_incorrect[p]
           snapshot == slots[p][target % SnapshotSlots]
<1>1. \A s \in SimState : HostOK(HostAt(p, s))
  BY DEF TypeOK, HostAt, HostOK, SlotTable
<1>2. CASE MustRollback(p) /\ snapshot # NoSnapshot /\ loads
  <2>1. target \in Nat /\ current[p] \in Nat /\ target <= current[p]
    BY <1>2 DEF MustRollback, TypeOK, Frame
  <2>2. target % SnapshotSlots \in 0 .. SnapshotSlots - 1
    BY <2>1, SlotOf
  <2>3. HostOK(HostAt(p, snapshot))
    <3>1. slots[p] \in [0 .. SnapshotSlots - 1 -> {NoSnapshot} \cup SimState]
      BY DEF TypeOK
    <3>2. snapshot \in {NoSnapshot} \cup SimState
      BY <3>1, <2>2
    <3> QED
      BY <3>2, <1>1, <1>2
  <2>4. last_input[p] \in Inputs
    BY DEF TypeOK
  <2>5. HostOK(Simulate(p, HostAt(p, snapshot), last_input[p], target,
                        current[p], saved))
    BY <2>1, <2>3, <2>4, SimulateType
  <2> QED
    BY <2>5, <1>2 DEF Corrected
<1>3. CASE ~(MustRollback(p) /\ snapshot # NoSnapshot /\ loads)
  <2>1. sim[p] \in SimState
    BY DEF TypeOK
  <2> QED
    BY <1>1, <1>3, <2>1 DEF Corrected
<1> QED
  BY <1>2, <1>3

\* Whatever is saved and loaded on the way, correcting leaves a host, and so
\* do scheduling an input and simulating a frame.
LEMMA CorrectionsType ==
  ASSUME HashesTyped, TypeOK, NEW p \in Players, NEW h \in Corrections(p)
  PROVE  HostOK(h)
BY CorrectedType DEF Corrections

LEMMA ScheduledType ==
  ASSUME TypeOK, NEW p \in Players, NEW h, HostOK(h), NEW v \in Input
  PROVE  HostOK(Scheduled(p, h, v))
<1> DEFINE lf == current[p] + InputDelay
           e == WithInput(EntryFor(h.ring, lf), p, v)
<1>1. lf \in Nat
  BY ConfigAssumption DEF TypeOK
<1>2. e \in FrameEntry
  BY <1>1, EntryForType, WithInputType DEF HostOK
<1>3. Scheduled(p, h, v) = [h EXCEPT !.ring[lf % Ring] = e]
  BY DEF Scheduled
<1> HIDE DEF e, lf
<1> QED
  BY <1>2, <1>3 DEF HostOK

LEMMA AdvancesType ==
  ASSUME HashesTyped, TypeOK, NEW p \in Players, NEW h, HostOK(h),
         NEW last \in Inputs, NEW g \in Advances(p, h, last)
  PROVE  HostOK(g)
<1>1. current[p] \in Nat
  BY DEF TypeOK
<1> QED
  BY <1>1, SimulateType DEF Advances

\* The frames of a player's own tables that get_packet reads.
LEMMA MinConfirmedType ==
  ASSUME TypeOK, NEW p \in Players
  PROVE  MinRemoteConfirmed(p) \in Frame /\ MinRemoteAck(p) \in Frame
<1>1. CASE Remotes(p) = {}
  BY <1>1 DEF MinRemoteConfirmed, MinRemoteAck, TypeOK, Frame
<1>2. CASE Remotes(p) # {}
  <2> DEFINE S == {confirmed[p][q] : q \in Remotes(p)}
             T == {remote_ack[p][q] : q \in Remotes(p)}
  <2>1. /\ S \subseteq Frame /\ S # {}
        /\ T \subseteq Frame /\ T # {}
    BY <1>2 DEF TypeOK, Remotes
  <2>2. \A F : F \subseteq Frame /\ F # {} => Min(F) \in F
    <3> TAKE F
    <3> HAVE F \subseteq Frame /\ F # {}
    <3> DEFINE b == -1
    <3>1. F \subseteq Int /\ b \in Int /\ \A x \in F : b <= x
      BY DEF Frame
    <3> HIDE DEF b
    <3> QED
      BY <3>1, BoundedMin
  <2> HIDE DEF S, T
  <2>3. Min(S) \in Frame /\ Min(T) \in Frame
    BY <2>1, <2>2
  <2> QED
    BY <1>2, <2>3 DEF S, T, MinRemoteConfirmed, MinRemoteAck
<1> QED
  BY <1>1, <1>2

LEMMA SafeFrameType ==
  ASSUME TypeOK, NEW p \in Players
  PROVE  SafeFrame(current[p], confirmed[p]) \in Nat
<1> DEFINE S == {current[p]} \cup {confirmed[p][q] + 1 : q \in Players}
<1>1. S \subseteq Nat /\ S # {}
  <2>1. current[p] \in Nat /\ confirmed[p] \in [Players -> Frame]
    BY DEF TypeOK
  <2>2. \A q \in Players : confirmed[p][q] + 1 \in Nat
    BY <2>1 DEF Frame
  <2> QED
    BY <2>1, <2>2
<1> HIDE DEF S
<1>2. Min(S) \in Nat
  BY <1>1, NatMin
<1>3. Max({0, Min(S)}) \in Nat
  BY <1>2, MaxOfTwo
<1> QED
  BY <1>3 DEF S, SafeFrame

LEMMA PacketType ==
  ASSUME TypeOK, NEW p \in Players, NEW q \in Remotes(p)
  PROVE  PacketOK(PacketTo(p, q))
<1> DEFINE safe == SafeFrame(current[p], confirmed[p])
           m == PacketTo(p, q)
<1>1. safe \in Nat /\ safe % Ring \in Cells
  BY SafeFrameType, CellOf
<1>2. MinRemoteConfirmed(p) \in Frame /\ MinRemoteAck(p) \in Frame
  BY MinConfirmedType
<1>3. FirstSent(p) \in Nat
  <2> DEFINE a == MinRemoteAck(p) + 1
             b == Latest(p) - (MaxSendInputs - 1)
  <2>1. a \in Nat /\ a \in Int /\ b \in Int /\ 0 \in Int
    BY <1>2, ConfigAssumption DEF Frame, Latest, TypeOK
  <2>2. FirstSent(p) = Max({a, b, 0})
    BY DEF FirstSent
  <2> HIDE DEF a, b
  <2>3. Max({a, b, 0}) \in {a, b, 0} /\ 0 <= Max({a, b, 0})
    BY <2>1, MaxOfThree
  <2> QED
    BY <2>1, <2>2, <2>3
<1>4. m.hash \in HashEntry
  <2>1. hashes[p][safe % Ring] \in HashEntry
    BY <1>1 DEF TypeOK
  <2>2. NoHash \in HashEntry
    BY HashAssumption DEF NoHash, HashEntry, Frame
  <2> QED
    BY <2>1, <2>2 DEF PacketTo
<1>5. \A f \in DOMAIN m.inputs : f \in Nat /\ m.inputs[f] \in Input
  <2>1. Latest(p) \in Int
    BY ConfigAssumption DEF Latest, TypeOK
  <2> DEFINE LocalInput(f) == IF ring[p][f % Ring].frame = f
                              THEN ring[p][f % Ring].input[p] ELSE 0
  <2>2. ASSUME NEW f \in FirstSent(p) .. Latest(p)
        PROVE  f \in Nat /\ LocalInput(f) \in Input
    <3>1. f \in Nat
      BY <1>3, <2>1
    <3>2. ring[p][f % Ring] \in FrameEntry
      BY <3>1, CellOf DEF TypeOK
    <3> QED
      BY <3>1, <3>2, ConfigAssumption DEF FrameEntry, Inputs
  <2>3. m.inputs = [f \in FirstSent(p) .. Latest(p) |-> LocalInput(f)]
    BY DEF PacketTo
  <2> HIDE DEF LocalInput, m
  <2> QED
    BY <2>2, <2>3
<1>6. m.src = p /\ m.dst = q /\ m.frame = current[p]
      /\ m.ack = MinRemoteConfirmed(p) /\ m.start = FirstSent(p)
      /\ m.fingerprint = local_fingerprint[p]
  BY DEF PacketTo
<1>7. current[p] \in Nat /\ local_fingerprint[p] \in Nat
  BY DEF TypeOK
<1> HIDE DEF m
<1> QED
  BY <1>2, <1>3, <1>4, <1>5, <1>6, <1>7 DEF PacketOK, m

-----------------------------------------------------------------------------
(* Type correctness, action by action. *)

LEMMA InitType == Init => TypeOK
<1> SUFFICES ASSUME Init PROVE TypeOK
  OBVIOUS
<1>1. /\ NoInputs \in Inputs /\ Blank(-1) \in FrameEntry
      /\ NoHash \in HashEntry /\ -1 \in Frame /\ <<>> \in Seq(Input)
      /\ <<>> \in SimState
  BY ConfigAssumption, HashAssumption, BlankType
     DEF NoInputs, Inputs, NoHash, HashEntry, Frame, SimState
<1> QED
  BY <1>1 DEF Init, TypeOK

LEMMA StartType ==
  ASSUME HashesTyped, TypeOK, NEW p \in Players, Start(p)
  PROVE  TypeOK'
<1>1. slots' \in [Players -> SlotTable]
  BY ConfigAssumption DEF Start, TypeOK, SlotTable
<1>2. hashes' \in [Players -> [Cells -> HashEntry]]
  <2>1. Hash(p, sim[p]) \in HashValue
    BY DEF TypeOK, HashesTyped
  <2>2. [frame |-> 0, hash |-> Hash(p, sim[p])] \in HashEntry
    BY <2>1 DEF HashEntry, Frame
  <2> QED
    BY <2>2 DEF Start, TypeOK
<1>3. ring' \in [Players -> [Cells -> FrameEntry]]
  <2>1. \A c \in Cells : WithInput(Blank(c), p, 0) \in FrameEntry
    BY BlankType, WithInputType, ConfigAssumption DEF Cells, Frame
  <2> QED
    BY <2>1 DEF Start, TypeOK
<1>4. confirmed' \in [Players -> [Players -> Frame]]
  BY ConfigAssumption DEF Start, TypeOK, Frame
<1>5. issued' \in [Players -> Seq(Input)]
  <2>1. [i \in 1 .. InputDelay |-> 0] \in Seq(Input)
    BY ConfigAssumption
  <2> QED
    BY <2>1 DEF Start, TypeOK
<1>6. active' \in [Players -> BOOLEAN]
  BY DEF Start, TypeOK
<1>7. local_fingerprint' \in [Players -> Nat]
  <2>1. PICK b \in Builds[p] :
          local_fingerprint' = [local_fingerprint EXCEPT ![p] = b]
    BY DEF Start
  <2>2. b \in Nat
    BY ConfigAssumption
  <2> QED
    BY <2>1, <2>2 DEF TypeOK
<1> QED
  BY <1>1, <1>2, <1>3, <1>4, <1>5, <1>6, <1>7 DEF Start, TypeOK, SlotTable

LEMMA StallType ==
  ASSUME HashesTyped, TypeOK, NEW p \in Players, TickStall(p)
  PROVE  TypeOK'
<1>1. PICK h \in Corrections(p) : Correct(p, h) /\ SetHost(p, h)
  BY DEF TickStall
<1>2. HostOK(h)
  BY CorrectionsType
<1>3. /\ first_incorrect' \in [Players -> Frame]
      /\ mispredicted' \in [Players -> SUBSET Players]
      /\ desync' \in [Players -> Frame]
  BY <1>1, CorrectType
<1>4. /\ ring' \in [Players -> [Cells -> FrameEntry]]
      /\ sim' \in [Players -> SimState]
      /\ slots' \in [Players -> SlotTable]
      /\ hashes' \in [Players -> [Cells -> HashEntry]]
  BY <1>1, <1>2, SetHostType
<1> QED
  BY <1>3, <1>4 DEF TickStall, TypeOK, SlotTable

LEMMA ThrottleType ==
  ASSUME HashesTyped, TypeOK, NEW p \in Players, TickThrottle(p)
  PROVE  TypeOK'
<1>1. PICK h \in Corrections(p) : Correct(p, h) /\ SetHost(p, h)
  BY DEF TickThrottle
<1>2. HostOK(h)
  BY CorrectionsType
<1>3. /\ first_incorrect' \in [Players -> Frame]
      /\ mispredicted' \in [Players -> SUBSET Players]
      /\ desync' \in [Players -> Frame]
  BY <1>1, CorrectType
<1>4. /\ ring' \in [Players -> [Cells -> FrameEntry]]
      /\ sim' \in [Players -> SimState]
      /\ slots' \in [Players -> SlotTable]
      /\ hashes' \in [Players -> [Cells -> HashEntry]]
  BY <1>1, <1>2, SetHostType
<1>5. last_throttle' \in [Players -> Frame]
  BY DEF TickThrottle, TypeOK, Frame
<1> QED
  BY <1>3, <1>4, <1>5 DEF TickThrottle, TypeOK, SlotTable

LEMMA AdvanceType ==
  ASSUME HashesTyped, TypeOK, NEW p \in Players, NEW v \in Input,
         TickAdvance(p, v)
  PROVE  TypeOK'
<1> DEFINE f == current[p]
           lf == f + InputDelay
           last == IF confirmed[p][p] = lf - 1
                   THEN [last_input[p] EXCEPT ![p] = v] ELSE last_input[p]
<1>1. f \in Nat /\ lf \in Nat /\ last \in Inputs
  BY ConfigAssumption DEF TypeOK, Inputs
<1>2. PICK h \in Corrections(p) :
        /\ Correct(p, h)
        /\ \E g \in Advances(p, Scheduled(p, h, v), last) : SetHost(p, g)
  BY DEF TickAdvance
<1>3. PICK g \in Advances(p, Scheduled(p, h, v), last) : SetHost(p, g)
  BY <1>2
<1>4. /\ first_incorrect' \in [Players -> Frame]
      /\ mispredicted' \in [Players -> SUBSET Players]
      /\ desync' \in [Players -> Frame]
  BY <1>2, CorrectType
<1>5. HostOK(g)
  BY <1>1, CorrectionsType, ScheduledType, AdvancesType
<1>6. /\ ring' \in [Players -> [Cells -> FrameEntry]]
      /\ sim' \in [Players -> SimState]
      /\ slots' \in [Players -> SlotTable]
      /\ hashes' \in [Players -> [Cells -> HashEntry]]
  BY <1>5, <1>3, SetHostType
<1>7. last_input' \in [Players -> Inputs]
  BY <1>1 DEF TickAdvance, TypeOK
<1>8. confirmed' \in [Players -> [Players -> Frame]]
  BY <1>1 DEF TickAdvance, TypeOK, Frame
<1>9. current' \in [Players -> Nat]
  BY <1>1 DEF TickAdvance, TypeOK
<1>10. issued' \in [Players -> Seq(Input)]
  BY DEF TickAdvance, TypeOK
<1> QED
  BY <1>4, <1>6, <1>7, <1>8, <1>9, <1>10 DEF TickAdvance, TypeOK, SlotTable

LEMMA SimDiesType ==
  ASSUME TypeOK, NEW p \in Players, SimDies(p)
  PROVE  TypeOK'
BY DEF SimDies, TypeOK

LEMMA SetInputCountType ==
  ASSUME TypeOK, NEW p \in Players, SetInputCount(p)
  PROVE  TypeOK'
BY DEF SetInputCount, TypeOK

LEMMA SendType ==
  ASSUME TypeOK, NEW p \in Players, NEW q \in Players, Send(p, q)
  PROVE  TypeOK'
<1>1. q \in Remotes(p) /\ net' = net \cup {PacketTo(p, q)}
  BY DEF Send
<1>2. PacketOK(PacketTo(p, q))
  BY <1>1, PacketType
<1>3. \A m \in net' : PacketOK(m)
  BY <1>1, <1>2 DEF TypeOK
<1>4. \A m : PacketOK(m)' <=> PacketOK(m)
  BY DEF PacketOK
<1> QED
  BY <1>3, <1>4 DEF Send, sessionVars, TypeOK

LEMMA LoseType ==
  ASSUME TypeOK, NEW m \in net, Lose(m)
  PROVE  TypeOK'
<1>1. \A x \in net' : PacketOK(x)
  BY DEF Lose, TypeOK
<1>2. \A x : PacketOK(x)' <=> PacketOK(x)
  BY DEF PacketOK
<1> QED
  BY <1>1, <1>2 DEF Lose, sessionVars, TypeOK

LEMMA IncompatibleType ==
  ASSUME TypeOK, NEW m \in net, NEW p \in Players, IngestIncompatible(p, m)
  PROVE  TypeOK'
<1>1. \A x \in net' : PacketOK(x)
  BY DEF IngestIncompatible, Deliver, TypeOK
<1>2. \A x : PacketOK(x)' <=> PacketOK(x)
  BY DEF PacketOK
<1>3. m.src \in Players
  BY DEF TypeOK, PacketOK
<1>4. incompatible' \in [Players -> SUBSET Players]
  BY <1>3 DEF IngestIncompatible, TypeOK
<1> QED
  BY <1>1, <1>2, <1>4 DEF IngestIncompatible, TypeOK

LEMMA TakenType ==
  ASSUME NEW m, PacketOK(m), NEW p \in Players
  PROVE  /\ Taken(p, m) \subseteq Nat
         /\ \A f \in Taken(p, m) : m.inputs[f] \in Input
         /\ Mispredicted(p, m) \subseteq Taken(p, m)
BY DEF Taken, Mispredicted, PacketOK

LEMMA RingWithType ==
  ASSUME TypeOK, NEW m, PacketOK(m), NEW p \in Players
  PROVE  RingWith(p, m) \in [Cells -> FrameEntry]
<1> DEFINE Cell(c) == IF \E f \in Taken(p, m) : f % Ring = c
        THEN LET f == CHOOSE g \in Taken(p, m) : g % Ring = c IN
             WithInput(EntryFor(ring[p], f), m.src, m.inputs[f])
        ELSE ring[p][c]
<1>1. ASSUME NEW c \in Cells PROVE Cell(c) \in FrameEntry
  <2>1. ring[p] \in [Cells -> FrameEntry]
    BY DEF TypeOK
  <2>2. CASE \E f \in Taken(p, m) : f % Ring = c
    <3> DEFINE f == CHOOSE g \in Taken(p, m) : g % Ring = c
    <3>1. f \in Taken(p, m)
      BY <2>2
    <3> HIDE DEF f
    <3>2. f \in Nat /\ m.inputs[f] \in Input /\ m.src \in Players
      BY <3>1, TakenType DEF PacketOK
    <3>3. EntryFor(ring[p], f) \in FrameEntry
      BY <2>1, <3>2, EntryForType
    <3>4. WithInput(EntryFor(ring[p], f), m.src, m.inputs[f]) \in FrameEntry
      BY <3>2, <3>3, WithInputType
    <3> QED
      BY <2>2, <3>4 DEF f
  <2>3. CASE ~ \E f \in Taken(p, m) : f % Ring = c
    BY <2>1, <2>3
  <2> QED
    BY <2>2, <2>3
<1>2. RingWith(p, m) = [c \in Cells |-> Cell(c)]
  BY DEF RingWith
<1> HIDE DEF Cell
<1> QED
  BY <1>1, <1>2

LEMMA IngestType ==
  ASSUME TypeOK, NEW m \in net, NEW p \in Players, Ingest(p, m)
  PROVE  TypeOK'
<1> DEFINE q == m.src
           cells == RingWith(p, m)
           wrong == Mispredicted(p, m)
           incorrect == IF wrong = {} THEN first_incorrect[p]
                        ELSE IF first_incorrect[p] < 0 THEN Min(wrong)
                        ELSE Min(wrong \cup {first_incorrect[p]})
           pending == IF m.hash.frame > remote_hash[p][q].frame
                         /\ m.hash.frame <= m.frame
                      THEN [remote_hash[p] EXCEPT ![q] = m.hash]
                      ELSE remote_hash[p]
<1>1. PacketOK(m) /\ q \in Players /\ m.hash \in HashEntry /\ m.ack \in Frame
  BY DEF TypeOK, PacketOK
<1>2. net' \subseteq net /\ \A x \in net' : PacketOK(x)'
  BY DEF Ingest, Deliver, TypeOK, PacketOK
<1>3. cells \in [Cells -> FrameEntry]
  BY <1>1, RingWithType
<1>4. incorrect \in Frame
  <2>1. first_incorrect[p] \in Frame
    BY DEF TypeOK
  <2>2. wrong \subseteq Nat
    BY <1>1, TakenType
  <2>3. CASE wrong = {}
    BY <2>1, <2>3
  <2>4. CASE wrong # {} /\ first_incorrect[p] < 0
    BY <2>2, <2>4, NatMin DEF Frame
  <2>5. CASE wrong # {} /\ ~(first_incorrect[p] < 0)
    <3> DEFINE S == wrong \cup {first_incorrect[p]}
    <3>1. S \subseteq Nat /\ S # {}
      BY <2>1, <2>2, <2>5 DEF Frame
    <3> HIDE DEF S
    <3>2. Min(S) \in Nat
      BY <3>1, NatMin
    <3> QED
      BY <2>5, <3>2 DEF S, Frame
  <2> QED
    BY <2>3, <2>4, <2>5
<1>5. pending \in [Players -> HashEntry]
  BY <1>1 DEF TypeOK
<1>6. PICK n \in confirmed[p][q] .. confirmed[p][q] + Ring :
        LET conf == [confirmed[p] EXCEPT ![q] = n] IN
        /\ ContiguousUpTo(cells, q, confirmed[p][q], n)
        /\ confirmed' = [confirmed EXCEPT ![p] = conf]
        /\ last_input' = IF n > confirmed[p][q]
                         THEN [last_input EXCEPT ![p][q] =
                                cells[n % Ring].input[q]]
                         ELSE last_input
        /\ CheckRemoteHash(p, incorrect, SafeFrame(current[p], conf),
                           pending, hashes[p])
  BY DEF Ingest
<1>7. /\ remote_ack' = IF m.ack <= Latest(p) /\ m.ack > remote_ack[p][q]
                       THEN [remote_ack EXCEPT ![p][q] = m.ack]
                       ELSE remote_ack
      /\ remote_hash' = [remote_hash EXCEPT ![p] = pending]
      /\ ring' = [ring EXCEPT ![p] = cells]
      /\ first_incorrect' = [first_incorrect EXCEPT ![p] = incorrect]
      /\ mispredicted' = IF wrong = {} THEN mispredicted
                         ELSE [mispredicted EXCEPT ![p] = @ \cup {q}]
      /\ UNCHANGED <<active, alive, current, hashes, last_throttle,
                     incompatible, local_fingerprint, stepping, sim, slots,
                     issued>>
  BY DEF Ingest, MaskWith
<1> HIDE DEF q, cells, wrong, incorrect, pending
<1>8. n \in Frame /\ n \in Int
  <2>1. confirmed[p][q] \in Frame
    BY <1>1 DEF TypeOK
  <2> QED
    BY <2>1, <1>6, ConfigAssumption DEF Frame
<1>9. confirmed' \in [Players -> [Players -> Frame]]
  BY <1>1, <1>6, <1>8 DEF TypeOK
<1>10. last_input' \in [Players -> Inputs]
  <2>1. cells[n % Ring] \in FrameEntry
    BY <1>3, <1>8, CellOf
  <2>2. cells[n % Ring].input[q] \in Input
    BY <2>1, <1>1 DEF FrameEntry, Inputs
  <2> QED
    BY <1>1, <1>6, <2>2 DEF TypeOK, Inputs
<1>11. desync' \in [Players -> Frame]
  <2>1. desync \in [Players -> Frame]
    BY DEF TypeOK
  <2> QED
    BY <1>5, <1>6, <2>1, CheckRemoteHashType
<1>12. remote_ack' \in [Players -> [Players -> Frame]]
  BY <1>1, <1>7 DEF TypeOK
<1>13. /\ ring' \in [Players -> [Cells -> FrameEntry]]
       /\ remote_hash' \in [Players -> [Players -> HashEntry]]
       /\ first_incorrect' \in [Players -> Frame]
       /\ mispredicted' \in [Players -> SUBSET Players]
  BY <1>1, <1>3, <1>4, <1>5, <1>7 DEF TypeOK
<1> QED
  BY <1>2, <1>7, <1>9, <1>10, <1>11, <1>12, <1>13 DEF TypeOK

\* The type invariant holds throughout, for every number of players, every
\* set of inputs and all sizes of the session's tables.
THEOREM TypeCorrect == ASSUME HashesTyped PROVE Spec => []TypeOK
<1>1. Init => TypeOK
  BY InitType
<1>2. TypeOK /\ [Next]_vars => TypeOK'
  <2> SUFFICES ASSUME TypeOK, [Next]_vars PROVE TypeOK'
    OBVIOUS
  <2>1. ASSUME NEW p \in Players, Start(p) PROVE TypeOK'
    BY <2>1, StartType
  <2>2. ASSUME NEW p \in Players, TickStall(p) PROVE TypeOK'
    BY <2>2, StallType
  <2>3. ASSUME NEW p \in Players, TickThrottle(p) PROVE TypeOK'
    BY <2>3, ThrottleType
  <2>4. ASSUME NEW p \in Players, NEW v \in Plays[p], TickAdvance(p, v)
        PROVE  TypeOK'
    <3>1. v \in Input
      BY ConfigAssumption
    <3> QED
      BY <2>4, <3>1, AdvanceType
  <2>5. ASSUME NEW p \in Players, SimDies(p) PROVE TypeOK'
    BY <2>5, SimDiesType
  <2>6. ASSUME NEW p \in Players, NEW q \in Players, Send(p, q) PROVE TypeOK'
    BY <2>6, SendType
  <2>7. ASSUME NEW m \in net, Lose(m) PROVE TypeOK'
    BY <2>7, LoseType
  <2>8. ASSUME NEW m \in net, NEW p \in Players, Ingest(p, m) PROVE TypeOK'
    BY <2>8, IngestType
  <2>9. ASSUME NEW m \in net, NEW p \in Players, IngestIncompatible(p, m)
        PROVE  TypeOK'
    BY <2>9, IncompatibleType
  <2>10. ASSUME NEW p \in Players, SetInputCount(p) PROVE TypeOK'
    BY <2>10, SetInputCountType
  <2>11. CASE UNCHANGED vars
    BY <2>11 DEF vars, TypeOK, PacketOK
  <2> QED
    BY <2>1, <2>2, <2>3, <2>4, <2>5, <2>6, <2>7, <2>8, <2>9, <2>10, <2>11 DEF Next
<1> QED
  BY <1>1, <1>2, PTL DEF Spec

=============================================================================
