---------------------------- MODULE MCHeartbeat ----------------------------
(***************************************************************************)
(* Heartbeat with the devices as interchangeable model values.             *)
(***************************************************************************)
EXTENDS Heartbeat, TLC

Devices == Permutations(Device)
=============================================================================
