--------------------------- MODULE PendingHashes ---------------------------
(***************************************************************************)
(* RollbackSession with a record of every state hash a peer was sent.  A   *)
(* session keeps one pending hash per remote (remote_hash_frame); this     *)
(* module asks whether every hash it was sent is compared in time.         *)
(***************************************************************************)
EXTENDS MCRollbackSession

VARIABLE heard  \* history: [at, frame, hash] of each hash ingested

HInit == Init /\ heard = {}

HNext ==
  \/ \E m \in net, p \in Players :
       /\ Ingest(p, m)
       /\ heard' = IF m.hash.frame < 0 THEN heard
                   ELSE heard \cup {[at |-> p, frame |-> m.hash.frame,
                                     hash |-> m.hash.hash]}
  \/ /\ \/ \E p \in Players :
             \/ Start(p) \/ Tick(p)
             \/ \E q \in Players : Send(p, q)
        \/ \E m \in net : Lose(m)
     /\ UNCHANGED heard

HSpec == HInit /\ [][HNext]_<<vars, heard>>

\* "A peer compares that hash once its own same frame is safe"
\* (docs/network-rollback.md): when a peer advances, with no correction
\* pending, every hash it was sent for a frame that is safe has been
\* compared, so that a differing one has been reported.
HashesCompared ==
  [][ \A h \in heard :
        LET p == h.at
            own == hashes[p][h.frame % Ring] IN
        /\ current'[p] # current[p]
        /\ first_incorrect[p] < 0
        /\ h.frame <= SafeFrame(current[p], confirmed[p])
        /\ own.frame = h.frame /\ own.hash # h.hash
        => desync'[p] # -1 ]_<<vars, heard>>
=============================================================================
