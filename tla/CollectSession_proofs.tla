----------------------- MODULE CollectSession_proofs ------------------------
(***************************************************************************)
(* Proofs about CollectSession for every size of the shared-memory pool    *)
(* and every number of contexts.  SessionInv records what kauditd, the TA  *)
(* and the client program hold at each point of a call; the invariants of  *)
(* the runs follow from it.                                                *)
(***************************************************************************)
EXTENDS CollectSession, TLAPS

\* Nothing is held before the first call.
LEMMA InitHolds == Init => SessionInv
<1> SUFFICES ASSUME Init PROVE SessionInv
  OBVIOUS
<1> USE SessionAssumption DEF Init, Client, Invoking
<1>1. TypeOK
  <2>1. contexts \in 0..CONTEXTS /\ shm \in 0..SHM_POOL
    BY DEF SessionAssumption
  <2>2. sockets \in [Client -> Nat] /\ ab \in [Client -> Nat]
    OBVIOUS
  <2>3. ta \in [Client -> BOOLEAN]
    BY Zenon
  <2>4. h \in [Client -> {"none", "open", "closed"}]
    OBVIOUS
  <2>5. booted \in BOOLEAN /\ reachable \in BOOLEAN
    BY Zenon
  <2>6. QED
    BY <2>1, <2>2, <2>3, <2>4, <2>5 DEF TypeOK
<1>2. SocketsBounded /\ SendsOnOpenSocket /\ ContextHasSession
  BY DEF SocketsBounded, SendsOnOpenSocket, ContextHasSession
<1>3. KernelHolds /\ InstanceHolds /\ HostHolds
  BY DEF KernelHolds, InstanceHolds, HostHolds
<1>4. Leaks
  BY DEF Leaks
<1>5. QED
  BY <1>1, <1>2, <1>3, <1>4 DEF SessionInv

\* Every step of kauditd, of the TA in its session, of the client program and of
\* the environment keeps the invariant.
LEMMA StepHolds == SessionInv /\ [Next]_vars => SessionInv'
<1> SUFFICES ASSUME SessionInv, [Next]_vars PROVE SessionInv'
  OBVIOUS
<1> USE SessionAssumption
    DEF SessionInv, TypeOK, SocketsBounded, SendsOnOpenSocket, ContextHasSession,
        KernelHolds, InstanceHolds, HostHolds, Leaks, Invoking, Client
<1>1. CASE SendBatch
  BY <1>1 DEF SendBatch, taVars, envVars
<1>2. CASE OpenContext
  BY <1>2 DEF OpenContext, taVars, envVars
<1>3. CASE OpenSession
  BY <1>3 DEF OpenSession, OpenInstance, envVars
<1>4. CASE SessionFails
  BY <1>4 DEF SessionFails, taVars, envVars
<1>5. CASE AllocShm
  BY <1>5 DEF AllocShm, taVars, envVars
<1>6. CASE InvokeReturns
  BY <1>6 DEF InvokeReturns, taVars, envVars
<1>7. CASE InvokeFails
  BY <1>7 DEF InvokeFails, CloseInstance, envVars
<1>8. CASE TaOpenSocket
  BY <1>8 DEF TaOpenSocket, envVars
<1>9. CASE TaSend
  BY <1>9 DEF TaSend, taVars, envVars
<1>10. CASE TaCloseSocket
  BY <1>10 DEF TaCloseSocket, envVars
<1>11. CASE HostOpenSession
  BY <1>11 DEF HostOpenSession, OpenInstance, kernelVars, envVars
<1>12. CASE HostTestOpen
  BY <1>12 DEF HostTestOpen, kernelVars, envVars
<1>13. CASE HostTestClose
  BY <1>13 DEF HostTestClose, kernelVars, envVars
<1>14. CASE HostExit
  BY <1>14 DEF HostExit, CloseInstance, kernelVars, envVars
<1>15. CASE Boot
  BY <1>15 DEF Boot, kernelVars, taVars
<1>16. CASE Network
  BY <1>16 DEF Network, kernelVars, taVars
<1>17. CASE UNCHANGED vars
  BY <1>17 DEF vars, kernelVars, taVars, envVars
<1>18. QED
  BY <1>1, <1>2, <1>3, <1>4, <1>5, <1>6, <1>7, <1>8, <1>9, <1>10, <1>11, <1>12,
     <1>13, <1>14, <1>15, <1>16, <1>17
     DEF Next, Kauditd, Host

\* The invariant holds throughout every behaviour of the specification.
THEOREM SessionInvariance == Spec => []SessionInv
  BY InitHolds, StepHolds, PTL DEF Spec

\* Counts stay natural and within their pools, whatever fails and in which order.
THEOREM SessionTypeCorrect == Spec => []TypeOK
<1>1. SessionInv => TypeOK
  BY DEF SessionInv
<1>2. QED
  BY <1>1, SessionInvariance, PTL

\* However many batches a session of kauditd sends, and whatever fails, TA-Collect
\* holds at most two sockets and one buffer, and one socket between batches.
THEOREM SocketsStayBounded == Spec => []SocketsBounded
<1>1. SessionInv => SocketsBounded
  BY DEF SessionInv
<1>2. QED
  BY <1>1, SessionInvariance, PTL

\* send_event_log() never uses a socket that is closed.
THEOREM NeverSendsOnClosedSocket == Spec => []SendsOnOpenSocket
<1>1. SessionInv => SendsOnOpenSocket
  BY DEF SessionInv
<1>2. QED
  BY <1>1, SessionInvariance, PTL

\* kauditd never invokes a command in a session that has been closed.
THEOREM NeverInvokesClosedSession == Spec => []ContextHasSession
<1>1. SessionInv => ContextHasSession
  BY DEF SessionInv
<1>2. QED
  BY <1>1, SessionInvariance, PTL

\* A context is lost only together with the buffer of a batch that failed, as
\* long as there are buffers left.
THEOREM LeaksOnlyWithBatch == Spec => []LeakOnlyByFailedBatch
<1>1. SessionInv => LeakOnlyByFailedBatch
  BY DEF SessionInv, Leaks, LeakOnlyByFailedBatch
<1>2. QED
  BY <1>1, SessionInvariance, PTL

\* A step of kauditd begins, opens or ends a call as the protocol says, and the
\* steps of the TA, of the client program and of the environment do not show.
LEMMA StepIsBatchStep ==
  SessionInv /\ [Next]_vars => [Batch!BatchNext]_(Batch!batchVars)
<1> SUFFICES ASSUME SessionInv, [Next]_vars
             PROVE  [Batch!BatchNext]_(Batch!batchVars)
  OBVIOUS
<1> USE DEF SessionInv, TypeOK, ContextHasSession, KernelHolds, Invoking, Client,
            Batch!BatchNext, Batch!batchVars, taVars, envVars
<1>1. CASE SendBatch
  BY <1>1 DEF SendBatch, Batch!Begin
<1>2. CASE OpenContext
  BY <1>2 DEF OpenContext, Batch!NotOpened
<1>3. CASE OpenSession
  BY <1>3 DEF OpenSession, OpenInstance, Batch!Opened
<1>4. CASE SessionFails
  BY <1>4 DEF SessionFails, Batch!NotOpened
<1>5. CASE AllocShm
  BY <1>5 DEF AllocShm
<1>6. CASE InvokeReturns
  BY <1>6 DEF InvokeReturns, Batch!Delivered
<1>7. CASE InvokeFails
  BY <1>7 DEF InvokeFails, CloseInstance, Batch!Failed
<1>8. CASE TaOpenSocket
  BY <1>8 DEF TaOpenSocket
<1>9. CASE TaSend
  BY <1>9 DEF TaSend
<1>10. CASE TaCloseSocket
  BY <1>10 DEF TaCloseSocket
<1>11. CASE HostOpenSession
  BY <1>11 DEF HostOpenSession, OpenInstance, kernelVars
<1>12. CASE HostTestOpen
  BY <1>12 DEF HostTestOpen, kernelVars
<1>13. CASE HostTestClose
  BY <1>13 DEF HostTestClose, kernelVars
<1>14. CASE HostExit
  BY <1>14 DEF HostExit, CloseInstance, kernelVars
<1>15. CASE Boot
  BY <1>15 DEF Boot, kernelVars
<1>16. CASE Network
  BY <1>16 DEF Network, kernelVars
<1>17. CASE UNCHANGED vars
  BY <1>17 DEF vars, kernelVars
<1>18. QED
  BY <1>1, <1>2, <1>3, <1>4, <1>5, <1>6, <1>7, <1>8, <1>9, <1>10, <1>11, <1>12,
     <1>13, <1>14, <1>15, <1>16, <1>17
     DEF Next, Kauditd, Host

\* kauditd, the driver and TA-Collect together implement the protocol of batches
\* that AuditQueue relies on: no session is kept after a failure or lost without.
THEOREM SessionImplementsBatch == Spec => ImplementsBatch
<1>1. Init => Batch!BatchInit
  BY DEF Init, Client, Batch!BatchInit
<1>2. QED
  BY <1>1, StepIsBatchStep, SessionInvariance, PTL DEF Spec, ImplementsBatch, Batch!BatchSpec
=============================================================================
