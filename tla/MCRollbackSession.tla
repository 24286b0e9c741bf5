------------------------- MODULE MCRollbackSession -------------------------
(***************************************************************************)
(* Instances of RollbackSession for TLC.  A hash is the state itself, so   *)
(* that two hashes are equal only when every frame had the same inputs.    *)
(* The peers in Divergent compute another state than the others from frame *)
(* DivergeFrom on, as the DesyncSim of tests/ does.                        *)
(***************************************************************************)
EXTENDS RollbackRefinement, TLC

CONSTANTS Divergent, DivergeFrom

MCHash(p, s) == <<s, p \in Divergent /\ Len(s) > DivergeFrom>>
MCZeroHash == <<>>
MCHashValue == {MCZeroHash} \cup (SimState \X BOOLEAN)

OneBuild == [p \in Players |-> {1}]

\* The players in Divergent may also have another build.
TwoBuilds == [p \in Players |-> IF p \in Divergent THEN {1, 2} ELSE {1}]

\* Which inputs the players choose from.  A remote player is predicted to
\* play 0 until its first input arrives, so one that always plays 1 is
\* mispredicted at first, and one that plays freely at any time.
First == CHOOSE p \in Players : TRUE
PlaysOf(first, others) == [p \in Players |-> IF p = First THEN first ELSE others]

OnePlays == PlaysOf(Input, {1})
FirstPlays == PlaysOf(Input, {0})
NonePlays == PlaysOf({0}, {0})
FirstMispredicted == PlaysOf({1}, {0})
OthersMispredicted == PlaysOf({0}, {1})

\* Bound of the instance with three players: packets in flight on all links,
\* none of them without an input.
FewInFlight == Cardinality(net) <= 1 /\ \A m \in net : DOMAIN m.inputs # {}

\* Bound of the instance whose rings wrap: a player changes its input once,
\* and late.
LateChange == \A p \in Players : \A i \in DOMAIN issued[p] :
  /\ issued[p][i] # 0 => i >= Ring
  /\ i > 1 => issued[p][i] >= issued[p][i - 1]

\* Bound of the instance whose saves and loads fail.  Every peer but the
\* first mispredicts the frame InputDelay, at which the first one plays
\* something else than the default input, and never corrects it, because the
\* load fails or because the save of that frame did.  A desync is the end of
\* the match: once set it stays, so that beyond it DifferenceReported holds.
Uncorrected ==
  \A p \in Players :
    /\ desync[p] = -1
    /\ p # First /\ current[p] > InputDelay => sim[p][InputDelay + 1][First] = 0
    /\ active[p] => \A f \in Recent(p) \ {InputDelay} :
                       slots[p][f % SnapshotSlots] # NoSnapshot

\* All players but the first are alike.
Peers == Permutations(Players \ {First})
=============================================================================
