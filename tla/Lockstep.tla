------------------------------ MODULE Lockstep ------------------------------
(***************************************************************************)
(* What a rollback session promises the game: the final part of a peer's   *)
(* simulation is the one a lockstep game would compute, in which a frame   *)
(* is simulated only once the inputs of all players for it are known.      *)
(* Prediction, rollback, packets and the ring tables are hidden; what      *)
(* remains is the inputs issued so far, the frame up to which each peer's  *)
(* simulation is final, and the hash it publishes for that frame.  All     *)
(* players give inputs; only the peers whose simulation works simulate.    *)
(***************************************************************************)
EXTENDS Integers, Sequences, SequencesExt

CONSTANTS
  Players,
  Simulating,  \* the players whose peers simulate
  Hash(_, _)

VARIABLES
  issued,     \* the inputs each player has issued, frame by frame
  settled,    \* the frame up to which each peer's simulation is final
  published   \* the hash of its state at that frame

vars == <<issued, settled, published>>

\* The state after n frames of the inputs in log.
StateAfter(log, n) == [i \in 1 .. n |-> [q \in Players |-> log[q][i]]]

Init ==
  /\ issued = [p \in Players |-> <<>>]
  /\ settled = [p \in Simulating |-> 0]
  /\ published = [p \in Simulating |-> Hash(p, <<>>)]

\* Player p issues some inputs, or none.
Play(p) ==
  /\ \A q \in Players \ {p} : issued'[q] = issued[q]
  /\ IsPrefix(issued[p], issued'[p])

\* Peer p simulates some more frames for good, or none: only frames every
\* player has an input for.
Simulate(p) ==
  /\ settled'[p] >= settled[p]
  /\ \A q \in Players : settled'[p] <= Len(issued'[q])
  /\ published'[p] = Hash(p, StateAfter(issued', settled'[p]))

\* A step of player p and its peer; all others stay where they are.
Proceed(p) ==
  /\ Play(p)
  /\ p \in Simulating => Simulate(p)
  /\ \A q \in Simulating \ {p} :
       settled'[q] = settled[q] /\ published'[q] = published[q]

Next == \E p \in Players : Proceed(p)

Spec == Init /\ [][Next]_vars

=============================================================================
