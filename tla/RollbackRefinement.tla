------------------------ MODULE RollbackRefinement -------------------------
(***************************************************************************)
(* RollbackSession implements Lockstep: the settled frame of a peer is     *)
(* read off its confirmed_frame table and first_incorrect, and the hash it *)
(* publishes for that frame off its table of hashes.                       *)
(***************************************************************************)
EXTENDS RollbackSession

SettledFrame == [p \in Reliable |-> Settled(p)]

PublishedHash ==
  [p \in Reliable |-> IF active[p] THEN hashes[p][Settled(p) % Ring].hash
                      ELSE Hash(p, <<>>)]

L == INSTANCE Lockstep
       WITH Simulating <- Reliable, settled <- SettledFrame, published <- PublishedHash

\* Every step of a session, of the network or of its simulation either
\* leaves the final history of every peer alone or extends the one of a
\* single peer as lockstep would, whatever fails at peers not Reliable.
ImplementsLockstep == L!Spec
=============================================================================
