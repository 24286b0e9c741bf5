------------------------- MODULE SimulationContract -------------------------
(***************************************************************************)
(* What IRollbackSimulation promises a session, with everything that makes *)
(* up a simulation's state in one value: an operation extends the state's  *)
(* past, a slot keeps the state it was given until it is given another or  *)
(* is lost, and loading a slot brings back exactly that state.             *)
(***************************************************************************)
EXTENDS Sequences

CONSTANTS
  NoState,   \* there is no simulation, or nothing in a slot
  Op         \* what can happen to a simulation

VARIABLES
  state,     \* its state: [past, view], where view is all a past determines
  slots      \* what load_state would restore from each slot

vars == <<state, slots>>

Init == state = NoState /\ slots = <<>>

\* A new simulation starts with an empty past and no snapshots; when it is
\* destroyed, its snapshots go with it.
Create ==
  /\ state = NoState /\ state' # NoState /\ state'.past = <<>>
  /\ slots' = <<>>
Destroy == state' = NoState /\ slots' = <<>>

Operate ==
  /\ state # NoState /\ state' # NoState
  /\ \E op \in Op : state'.past = Append(state.past, op)
  /\ UNCHANGED slots

\* init_snapshots: new slots, all empty.
Prepare ==
  /\ state # NoState
  /\ \A s \in DOMAIN slots' : slots'[s] = NoState
  /\ UNCHANGED state

Save ==
  \E s \in DOMAIN slots :
    /\ slots' \in {[slots EXCEPT ![s] = state], [slots EXCEPT ![s] = NoState]}
    /\ UNCHANGED state

Load ==
  \E s \in DOMAIN slots :
    /\ slots[s] # NoState /\ state' = slots[s]
    /\ UNCHANGED slots

Next == Create \/ Destroy \/ Operate \/ Prepare \/ Save \/ Load

Spec == Init /\ [][Next]_vars
=============================================================================
