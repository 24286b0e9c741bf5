-------------------------- MODULE MCRollbackWorld ---------------------------
(***************************************************************************)
(* The instance of RollbackWorld for TLC.                                  *)
(***************************************************************************)
EXTENDS WorldRefinement

\* Arguments on both sides of every bound.
MCSlots == -1 .. 2
=============================================================================
