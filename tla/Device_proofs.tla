--------------------------- MODULE Device_proofs ----------------------------
(***************************************************************************)
(* The watchdog for every timeout and every set of client programs, and    *)
(* the device as a whole.  A count that is loaded and the time since then  *)
(* make up the whole timeout, from before the reset is configured: WdInv.  *)
(* The invariants of the two halves of a device hold of the whole, where   *)
(* the watchdog's reset ends kauditd's call anywhere.                      *)
(***************************************************************************)
EXTENDS Device, CollectSession_proofs, SequenceTheorems

Timed == (Armed \/ \E c \in WdClient : wdpc[c] = "armed") => pm_wdog + since >= TIMEOUT

\* The client program has another call to make just when one is left.
LEMMA TailEmpty ==
  ASSUME NEW S, NEW q \in Seq(S), q # <<>>
  PROVE  Len(q) > 1 <=> Tail(q) # <<>>
<1>1. Tail(q) \in Seq(S) /\ Len(Tail(q)) = Len(q) - 1
  BY HeadTailProperties
<1>2. Tail(q) # <<>> => Len(Tail(q)) \in Nat \ {0}
  BY <1>1, EmptySeq
<1>3. Len(<<>>) = 0 /\ Len(q) \in Nat
  OBVIOUS
<1>4. ASSUME Tail(q) = <<>> PROVE Len(q) = 1
  <2>1. Len(q) - 1 = 0
    BY <1>1, <1>3, <1>4
  <2>2. QED
    BY <1>3, <2>1
<1>5. ASSUME Tail(q) # <<>> PROVE Len(q) > 1
  BY <1>1, <1>2, <1>3, <1>5
<1>6. QED
  BY <1>4, <1>5

\* At boot the timer is not armed, and no client program runs.
LEMMA WdInitHolds == WdInit => WdInv
<1> SUFFICES ASSUME WdInit PROVE WdInv
  OBVIOUS
<1> USE WatchdogAssumption DEF WdInit, Armed
<1>1. WdTypeOK
  BY DEF WdTypeOK, WatchdogAssumption
<1>2. QED
  BY <1>1 DEF WdInv, PtaBusy

\* Every step of a client program, of the PTA and of the timer keeps the types.
LEMMA WdStepTyped == WdInv /\ [WdNext]_wdVars => WdTypeOK'
<1> SUFFICES ASSUME WdInv, [WdNext]_wdVars PROVE WdTypeOK'
  OBVIOUS
<1> USE WatchdogAssumption
    DEF WdInv, PtaBusy, WdTypeOK, WatchdogAssumption, GPIO_ON, GPIO_OFF, PM_START, TEST_PSEUDO_TA
<1>1. ASSUME NEW c \in WdClient, WdCommand(c) PROVE WdTypeOK'
  BY <1>1 DEF WdCommand
<1>2. ASSUME NEW c \in WdClient, WdOpenSession(c) PROVE WdTypeOK'
  BY <1>2 DEF WdOpenSession
<1>3. ASSUME NEW c \in WdClient, WdExit(c) PROVE WdTypeOK'
  BY <1>3 DEF WdExit
<1>4. ASSUME NEW c \in WdClient, WriteWdog(c) PROVE WdTypeOK'
  BY <1>4 DEF WriteWdog
<1>5. ASSUME NEW c \in WdClient, WriteRstc(c) PROVE WdTypeOK'
  <2>1. wdcmds[c] \in Seq({0, 1, 2}) /\ wdcmds[c] # <<>>
    BY <1>5 DEF WriteRstc
  <2>2. Tail(wdcmds[c]) \in Seq({0, 1, 2})
    BY <2>1
  <2>3. Len(wdcmds[c]) > 1 <=> Tail(wdcmds[c]) # <<>>
    BY <2>1, TailEmpty
  <2>4. QED
    BY <1>5, <2>2, <2>3 DEF WriteRstc
<1>6. CASE WdTick
  BY <1>6 DEF WdTick, Expired, Armed
<1>7. CASE WdReset
  BY <1>7 DEF WdReset
<1>8. CASE UNCHANGED wdVars
  BY <1>8 DEF wdVars
<1>9. QED
  BY <1>1, <1>2, <1>3, <1>4, <1>5, <1>6, <1>7, <1>8 DEF WdNext, WdProgram

\* A step leaves count and time adding up: writing the count starts the time
\* anew, configuring the reset comes after it, and a tick moves one to the other.
LEMMA WdStepTimed == WdInv /\ [WdNext]_wdVars => Timed'
<1> SUFFICES ASSUME WdInv, [WdNext]_wdVars PROVE Timed'
  OBVIOUS
<1> USE WatchdogAssumption DEF WdInv, PtaBusy, WdTypeOK, WatchdogAssumption, Timed, Armed
<1>1. ASSUME NEW c \in WdClient, WdCommand(c) PROVE Timed'
  BY <1>1 DEF WdCommand
<1>2. ASSUME NEW c \in WdClient, WdOpenSession(c) PROVE Timed'
  BY <1>2 DEF WdOpenSession
<1>3. ASSUME NEW c \in WdClient, WdExit(c) PROVE Timed'
  BY <1>3 DEF WdExit
<1>4. ASSUME NEW c \in WdClient, WriteWdog(c) PROVE Timed'
  BY <1>4 DEF WriteWdog
<1>5. ASSUME NEW c \in WdClient, WriteRstc(c) PROVE Timed'
  BY <1>5 DEF WriteRstc
<1>6. CASE WdTick
  BY <1>6 DEF WdTick, Expired
<1>7. CASE WdReset
  BY <1>7 DEF WdReset
<1>8. CASE UNCHANGED wdVars
  BY <1>8 DEF wdVars
<1>9. QED
  BY <1>1, <1>2, <1>3, <1>4, <1>5, <1>6, <1>7, <1>8 DEF WdNext, WdProgram

\* So the invariant is kept.
LEMMA WdStepHolds == WdInv /\ [WdNext]_wdVars => WdInv'
<1> SUFFICES ASSUME WdInv, [WdNext]_wdVars PROVE WdInv'
  OBVIOUS
<1>1. WdTypeOK'
  BY WdStepTyped
<1>2. Timed'
  BY WdStepTimed
<1>3. QED
  BY <1>1, <1>2 DEF WdInv, PtaBusy, Timed

\* The invariant holds throughout every behaviour of the watchdog.
THEOREM WdInvariance == WdSpec => []WdInv
  BY WdInitHolds, WdStepHolds, PTL DEF WdSpec

\* A count that has gone down to zero has taken all of the timeout to do so.
LEMMA WdInvSilent == WdInv => ResetOnlyWhenSilent
  BY WatchdogAssumption
     DEF WdInv, PtaBusy, WdTypeOK, ResetOnlyWhenSilent, Expired, Armed, WatchdogAssumption

\* However client programs overlap and wherever they end, testWDTOn() writes the
\* registers so that the timer resets the device only after TIMEOUT without a load.
THEOREM NeverResetsEarly == WdSpec => []ResetOnlyWhenSilent
<1>1. WdInv => ResetOnlyWhenSilent
  BY WdInvSilent
<1>2. QED
  BY <1>1, WdInvariance, PTL
-----------------------------------------------------------------------------
\* A reset leaves the kernel and the secure world as at boot, but for the
\* network, which it does not touch.
LEMMA ResetHolds == SessionInv /\ Reset => SessionInv'
<1> SUFFICES ASSUME SessionInv, Reset PROVE SessionInv'
  OBVIOUS
<1> USE SessionAssumption DEF Reset, Client, Invoking
<1>1. TypeOK'
  <2>1. contexts' \in 0..CONTEXTS /\ shm' \in 0..SHM_POOL
    BY DEF SessionAssumption
  <2>2. sockets' \in [Client -> Nat] /\ ab' \in [Client -> Nat]
    OBVIOUS
  <2>3. ta' \in [Client -> BOOLEAN]
    BY Zenon
  <2>4. h' \in [Client -> {"none", "open", "closed"}]
    OBVIOUS
  <2>5. booted' \in BOOLEAN /\ reachable' \in BOOLEAN
    BY Zenon DEF SessionInv, TypeOK
  <2>6. QED
    BY <2>1, <2>2, <2>3, <2>4, <2>5 DEF TypeOK
<1>2. SocketsBounded' /\ SendsOnOpenSocket' /\ ContextHasSession'
  BY DEF SocketsBounded, SendsOnOpenSocket, ContextHasSession
<1>3. KernelHolds' /\ InstanceHolds' /\ HostHolds'
  BY DEF KernelHolds, InstanceHolds, HostHolds
<1>4. Leaks'
  BY DEF Leaks
<1>5. QED
  BY <1>1, <1>2, <1>3, <1>4 DEF SessionInv

\* A step of a device is a step of one half, or the reset.
LEMMA DeviceSteps ==
  ASSUME [DeviceNext]_deviceVars
  PROVE  /\ [Next]_vars \/ Reset
         /\ [WdNext]_wdVars
  BY DEF DeviceNext, deviceVars, WdNext, WdProgram, Reset

\* Both halves keep their invariants when they run side by side.
THEOREM DeviceInvariance == DeviceSpec => [](SessionInv /\ WdInv)
<1>1. DeviceInit => SessionInv /\ WdInv
  BY InitHolds, WdInitHolds DEF DeviceInit
<1>2. SessionInv /\ WdInv /\ [DeviceNext]_deviceVars => (SessionInv /\ WdInv)'
  BY DeviceSteps, StepHolds, ResetHolds, WdStepHolds
<1>3. QED
  BY <1>1, <1>2, PTL DEF DeviceSpec

\* On the whole device, too, the timer expires only when nobody has loaded it for
\* TIMEOUT.
THEOREM DeviceNeverResetsEarly == DeviceSpec => []ResetOnlyWhenSilent
<1>1. WdInv => ResetOnlyWhenSilent
  BY WdInvSilent
<1>2. QED
  BY <1>1, DeviceInvariance, PTL

\* Whatever a reset interrupts, kauditd never invokes a command in a session that
\* is closed, and never forgets one that is open.
THEOREM SessionAcrossResets == DeviceSpec => []ContextHasSession
<1>1. SessionInv => ContextHasSession
  BY DEF SessionInv
<1>2. QED
  BY <1>1, DeviceInvariance, PTL

\* kauditd's side of the session follows the protocol of batches but for resets.
THEOREM DeviceBatches == DeviceSpec => BatchesAcrossResets
<1>1. DeviceInit => Batch!BatchInit
  BY DEF DeviceInit, Init, Client, Batch!BatchInit
<1>2. SessionInv /\ [DeviceNext]_deviceVars => [Batch!BatchNext \/ Reset]_(Batch!batchVars)
  BY DeviceSteps, StepIsBatchStep
<1>3. QED
  BY <1>1, <1>2, DeviceInvariance, PTL DEF DeviceSpec, BatchesAcrossResets
=============================================================================
