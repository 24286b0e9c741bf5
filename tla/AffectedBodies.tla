--------------------------- MODULE AffectedBodies ---------------------------
(***************************************************************************)
(* compute_affected_bodies of core/src/rb_world.cpp: the bodies that a     *)
(* rollback may affect, found by a worklist from the bodies declared for   *)
(* the mispredicted players over contacts, joints and swept proximity.     *)
(*                                                                         *)
(* The world does not change while the set is computed.  touches[b] is     *)
(* what Box3D reports for b: the bodies of its joints, of its contacts,    *)
(* and of the shapes its swept box overlaps; that box depends on b's own   *)
(* speed and on the window, so that the relation need not be symmetric.    *)
(* The order in which the queue is worked off is left open, because the    *)
(* order in which Box3D reports bodies is.                                 *)
(***************************************************************************)
EXTENDS Naturals, FiniteSets, TLAPS

CONSTANT Body

VARIABLES
  declared,  \* the bodies declared for the players in the mask
  mobile,    \* the traversable bodies: valid and not static
  touches,   \* the bodies reached from each body
  visited,   \* visited, which is also what queue holds
  done,      \* the part of queue before cursor
  returned   \* whether the function has returned

world == <<declared, mobile, touches>>
vars == <<declared, mobile, touches, visited, done, returned>>

\* Mutant of Visit: static bodies join too.
VisitAll(found) == visited \cup found

\* affected_visit of every body in found.
Visit(found) == visited \cup (found \cap mobile)

\* The queue before the loop holds what may be traversed of declared.
\* (Without a world the function returns at once: nothing is mobile.)
Init ==
  /\ declared \in SUBSET Body
  /\ mobile \in SUBSET Body
  /\ touches \in [Body -> SUBSET Body]
  /\ visited = declared \cap mobile
  /\ done = {}
  /\ returned = FALSE

\* One iteration: a body of the queue and everything it touches.
Scan(b) ==
  /\ ~returned /\ b \in visited \ done
  /\ visited' = Visit(touches[b])
  /\ done' = done \cup {b}
  /\ UNCHANGED <<world, returned>>

\* Mutant of Exhausted: the loop ends with one body left in the queue.
NearlyExhausted == Cardinality(visited \ done) <= 1

Exhausted == visited = done

\* The queue is exhausted: it is sorted and returned.
Return ==
  /\ ~returned /\ Exhausted
  /\ returned' = TRUE
  /\ UNCHANGED <<world, visited, done>>

Next == Return \/ \E b \in Body : Scan(b)

Spec == Init /\ [][Next]_vars
-----------------------------------------------------------------------------
(* Properties. *)

\* S holds the declared bodies and everything its bodies touch, static
\* bodies apart.
Closed(S) ==
  /\ declared \cap mobile \subseteq S
  /\ \A b \in S : touches[b] \cap mobile \subseteq S

\* The result is the least closed set: no body that the mispredicted
\* players may reach is missing, none is there without a chain of mobile
\* bodies to it, and the order of the queue does not matter.
ResultIsClosure ==
  returned => /\ Closed(visited)
              /\ \A S \in SUBSET Body : Closed(S) => visited \subseteq S

\* Why: at every moment all that the scanned bodies touch is in the queue,
\* and only what every closed set must hold.
ScanInv ==
  /\ declared \in SUBSET Body /\ mobile \in SUBSET Body
  /\ touches \in [Body -> SUBSET Body]
  /\ visited \in SUBSET Body /\ done \in SUBSET visited
  /\ returned \in BOOLEAN
  /\ declared \cap mobile \subseteq visited
  /\ \A b \in done : touches[b] \cap mobile \subseteq visited
  /\ \A S \in SUBSET Body : Closed(S) => visited \subseteq S
  /\ returned => visited = done

-----------------------------------------------------------------------------
(* The affected set is the least closed set, whatever the bodies are. *)

LEMMA InitScan == Init => ScanInv
BY DEF Init, ScanInv, Closed

LEMMA ScanStep ==
  ASSUME ScanInv, NEW b \in Body, Scan(b)
  PROVE  ScanInv'
<1>1. /\ b \in visited /\ visited' = visited \cup (touches[b] \cap mobile)
      /\ done' = done \cup {b} /\ UNCHANGED <<declared, mobile, touches, returned>>
      /\ ~returned
  BY DEF Scan, Visit, world
<1>2. visited' \in SUBSET Body /\ done' \in SUBSET visited'
  BY <1>1 DEF ScanInv
<1>3. \A c \in done' : touches'[c] \cap mobile' \subseteq visited'
  BY <1>1 DEF ScanInv
<1>4. \A S \in SUBSET Body : Closed(S)' => visited' \subseteq S
  <2> SUFFICES ASSUME NEW S \in SUBSET Body, Closed(S)' PROVE visited' \subseteq S
    OBVIOUS
  <2>1. Closed(S)
    BY <1>1 DEF Closed
  <2>2. visited \subseteq S
    BY <2>1 DEF ScanInv
  <2>3. touches[b] \cap mobile \subseteq S
    BY <1>1, <2>1, <2>2 DEF Closed
  <2> QED
    BY <1>1, <2>2, <2>3
<1> QED
  BY <1>1, <1>2, <1>3, <1>4 DEF ScanInv

\* The loop's invariant holds at every iteration, for any set of bodies and
\* any relation between them.
THEOREM ScanInvariant == Spec => []ScanInv
<1>1. ScanInv /\ [Next]_vars => ScanInv'
  <2> SUFFICES ASSUME ScanInv, [Next]_vars PROVE ScanInv'
    OBVIOUS
  <2>1. ASSUME NEW b \in Body, Scan(b) PROVE ScanInv'
    BY <2>1, ScanStep
  <2>2. CASE Return
    BY <2>2 DEF Return, Exhausted, world, ScanInv, Closed
  <2>3. CASE UNCHANGED vars
    BY <2>3 DEF vars, ScanInv, Closed
  <2> QED
    BY <2>1, <2>2, <2>3 DEF Next
<1> QED
  BY <1>1, InitScan, PTL DEF Spec

\* compute_affected_bodies returns the least closed set.
THEOREM AffectedIsClosure == Spec => []ResultIsClosure
<1>1. ScanInv => ResultIsClosure
  BY DEF ScanInv, ResultIsClosure, Closed
<1> QED
  BY <1>1, ScanInvariant, PTL
=============================================================================
