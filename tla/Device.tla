------------------------------- MODULE Device -------------------------------
(***************************************************************************)
(* A device as a whole: kauditd with TA-Collect (CollectSession), and the  *)
(* watchdog with the programs the heartbeat runs (Watchdog).  A reset by   *)
(* the watchdog ends every call in the middle and takes what the kernel    *)
(* and the secure world hold back to what it is at boot.                   *)
(***************************************************************************)
EXTENDS CollectSession, Watchdog

deviceVars == <<vars, wdVars>>

DeviceInit == Init /\ WdInit

Reset ==
  /\ WdReset
  /\ tee_ctx' = "NULL" /\ kpc' = "idle" /\ rc' = "ok"
  /\ contexts' = 0 /\ shm' = 0
  /\ ta' = [c \in Client |-> FALSE]
  /\ sockets' = [c \in Client |-> 0]
  /\ h' = [c \in Client |-> "none"]
  /\ ab' = [c \in Client |-> 0]
  /\ hostpc' = "idle"
  /\ booted' = FALSE
  /\ UNCHANGED reachable

DeviceNext ==
  \/ Next /\ UNCHANGED wdVars
  \/ \E c \in WdClient : (WdOpenSession(c) /\ booted) /\ UNCHANGED vars
  \/ \E c \in WdClient : (WdCommand(c) \/ WdExit(c) \/ WriteWdog(c) \/ WriteRstc(c)) /\ UNCHANGED vars
  \/ WdTick /\ UNCHANGED vars
  \/ Reset

DeviceSpec == DeviceInit /\ [][DeviceNext]_deviceVars

\* Calls of kauditd go on, and OP-TEE comes up again after a reset.  Client
\* programs need not go on.
FairDevice ==
  /\ DeviceSpec
  /\ WF_deviceVars(Kauditd /\ UNCHANGED wdVars)
  /\ WF_deviceVars(Boot /\ UNCHANGED wdVars)
-----------------------------------------------------------------------------
\* A reset in the middle of a call is the only thing that kauditd's side of the
\* protocol with TA-Collect does not foresee.
BatchesAcrossResets ==
  Batch!BatchInit /\ [][Batch!BatchNext \/ Reset]_(Batch!batchVars)
=============================================================================
