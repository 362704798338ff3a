-------------------------- MODULE MCCollectSession --------------------------
(***************************************************************************)
(* CollectSession with a pool that a few failures use up, and room for     *)
(* contexts beyond it.                                                     *)
(***************************************************************************)
EXTENDS CollectSession

Pool == 4
ContextRoom == 6
=============================================================================
