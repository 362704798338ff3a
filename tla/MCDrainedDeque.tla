--------------------------- MODULE MCDrainedDeque ---------------------------
(***************************************************************************)
(* DrainedDeque with interchangeable threads and records.                  *)
(***************************************************************************)
EXTENDS DrainedDeque, TLC

Threads == Permutations(Drainer)
=============================================================================
