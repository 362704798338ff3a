--------------------------- MODULE CollectSession ---------------------------
(***************************************************************************)
(* The way of a batch from the kernel to the Log Receiver: the session     *)
(* handling of send_eventlog_ta_collect() (audit_qemu.patch), TA-Collect   *)
(* (ta_collect.c), and the client program that tests it (host/main.c).     *)
(*                                                                         *)
(* TA-Collect has no single-instance flag: each session has an instance    *)
(* of its own, with its own global h, heap and sockets, and OP-TEE takes   *)
(* all of them back when the session is closed.  Tee contexts and shared   *)
(* memory belong to the kernel and stay until they are released.  What the *)
(* batch holds is AuditQueue's matter.                                     *)
(***************************************************************************)
EXTENDS Naturals

CONSTANTS
  SHM_POOL,   \* shared buffers that can be allocated at a time
  CONTEXTS    \* tee contexts that can be open at a time

ASSUME SessionAssumption ==
  /\ SHM_POOL \in Nat \ {0}
  /\ CONTEXTS \in Nat /\ CONTEXTS > SHM_POOL

\* Each of the two has at most one session at a time.
Client == {"kauditd", "host"}

VARIABLES
  tee_ctx,    \* "NULL", or "open"
  kpc,        \* where kauditd is in send_eventlog_ta_collect()
  rc,         \* "running", or what the last call has returned
  contexts,   \* open tee contexts of the kernel
  shm,        \* shared buffers in use
  ta,         \* ta[c]: c has a session, so an instance of the TA
  sockets,    \* sockets[c]: open sockets of the instance
  h,          \* h[c]: the socket the instance's global h refers to
  ab,         \* ab[c]: buffers on the instance's heap
  hostpc,     \* where the client program is
  booted,     \* OP-TEE is up
  reachable   \* the Log Receiver can be reached

kernelVars == <<tee_ctx, kpc, rc, contexts, shm>>
taVars == <<ta, sockets, h, ab>>
envVars == <<booted, reachable>>
vars == <<kernelVars, taVars, hostpc, envVars>>

Init ==
  /\ tee_ctx = "NULL" /\ kpc = "idle" /\ rc = "ok"
  /\ contexts = 0 /\ shm = 0
  /\ ta = [c \in Client |-> FALSE]
  /\ sockets = [c \in Client |-> 0]
  /\ h = [c \in Client |-> "none"]
  /\ ab = [c \in Client |-> 0]
  /\ hostpc = "idle"
  /\ booted = FALSE /\ reachable = FALSE
-----------------------------------------------------------------------------
(***************************************************************************)
(* TA_OpenSessionEntryPoint, and the end of a session.                     *)
(***************************************************************************)
OpenInstance(c) ==
  /\ reachable
  /\ ta' = [ta EXCEPT ![c] = TRUE]
  /\ sockets' = [sockets EXCEPT ![c] = 1]
  /\ h' = [h EXCEPT ![c] = "open"]
  /\ UNCHANGED ab

\* TA_CloseSessionEntryPoint releases nothing; OP-TEE destroys the instance.
CloseInstance(c) ==
  /\ ta' = [ta EXCEPT ![c] = FALSE]
  /\ sockets' = [sockets EXCEPT ![c] = 0]
  /\ h' = [h EXCEPT ![c] = "none"]
  /\ ab' = [ab EXCEPT ![c] = 0]
-----------------------------------------------------------------------------
(***************************************************************************)
(* send_eventlog_ta_collect, ta_create_session, ta_invoke.                 *)
(***************************************************************************)
SendBatch ==
  /\ kpc = "idle"
  /\ rc' = "running"
  /\ kpc' = IF tee_ctx = "NULL" THEN "context" ELSE "shm"
  /\ UNCHANGED <<tee_ctx, contexts, shm, taVars, hostpc, envVars>>

OpenContext ==
  /\ kpc = "context"
  /\ IF booted /\ contexts < CONTEXTS
       THEN /\ contexts' = contexts + 1
            /\ tee_ctx' = "open" /\ kpc' = "session" /\ rc' = rc
       ELSE /\ kpc' = "idle" /\ rc' = "failed"
            /\ UNCHANGED <<tee_ctx, contexts>>
  /\ UNCHANGED <<shm, taVars, hostpc, envVars>>

OpenSession ==
  /\ kpc = "session"
  /\ OpenInstance("kauditd")
  /\ kpc' = "shm"
  /\ UNCHANGED <<tee_ctx, rc, contexts, shm, hostpc, envVars>>

\* Slip: the context is not closed.
SessionFails_slip ==
  /\ kpc = "session"
  /\ ~reachable
  /\ tee_ctx' = "NULL" /\ kpc' = "idle" /\ rc' = "failed"
  /\ UNCHANGED <<contexts, shm, taVars, hostpc, envVars>>

SessionFails ==
  /\ kpc = "session"
  /\ ~reachable
  /\ contexts' = contexts - 1
  /\ tee_ctx' = "NULL" /\ kpc' = "idle" /\ rc' = "failed"
  /\ UNCHANGED <<shm, taVars, hostpc, envVars>>

\* Slip: one buffer more than there are.
AllocShm_slip ==
  /\ kpc = "shm"
  /\ IF shm <= SHM_POOL THEN shm' = shm + 1 /\ kpc' = "open"
                        ELSE shm' = shm /\ kpc' = "failed"
  /\ UNCHANGED <<tee_ctx, rc, contexts, taVars, hostpc, envVars>>

AllocShm ==
  /\ kpc = "shm"
  /\ IF shm < SHM_POOL THEN shm' = shm + 1 /\ kpc' = "open"
                       ELSE shm' = shm /\ kpc' = "failed"
  /\ UNCHANGED <<tee_ctx, rc, contexts, taVars, hostpc, envVars>>

InvokeReturns ==
  /\ kpc = "return"
  /\ shm' = shm - 1
  /\ kpc' = "idle" /\ rc' = "ok"
  /\ UNCHANGED <<tee_ctx, contexts, taVars, hostpc, envVars>>

\* Slip: tee_ctx is not reset.
InvokeFails_slip ==
  /\ kpc = "failed"
  /\ CloseInstance("kauditd")
  /\ kpc' = "idle" /\ rc' = "failed"
  /\ UNCHANGED <<tee_ctx, contexts, shm, hostpc, envVars>>

\* The session is closed; device_shm and the context are not released.
InvokeFails ==
  /\ kpc = "failed"
  /\ CloseInstance("kauditd")
  /\ tee_ctx' = "NULL" /\ kpc' = "idle" /\ rc' = "failed"
  /\ UNCHANGED <<contexts, shm, hostpc, envVars>>
-----------------------------------------------------------------------------
(***************************************************************************)
(* show_recv_msg and send_event_log, in the instance of kauditd's session. *)
(***************************************************************************)
\* Slip: the socket of the session is used.
TaOpenSocket_slip ==
  /\ kpc = "open"
  /\ ab' = [ab EXCEPT !["kauditd"] = @ + 1]
  /\ IF reachable /\ ta["kauditd"] THEN kpc' = "send" ELSE kpc' = "failed"
  /\ UNCHANGED <<tee_ctx, rc, contexts, shm, ta, sockets, h, hostpc, envVars>>

\* ab is allocated and filled; h is overwritten with a new socket.
TaOpenSocket ==
  /\ kpc = "open"
  /\ ab' = [ab EXCEPT !["kauditd"] = @ + 1]
  /\ IF reachable /\ ta["kauditd"]
       THEN /\ sockets' = [sockets EXCEPT !["kauditd"] = @ + 1]
            /\ h' = [h EXCEPT !["kauditd"] = "open"]
            /\ kpc' = "send"
       ELSE /\ kpc' = "failed"
            /\ UNCHANGED <<sockets, h>>
  /\ UNCHANGED <<tee_ctx, rc, contexts, shm, ta, hostpc, envVars>>

TaSend ==
  /\ kpc = "send"
  /\ kpc' = IF reachable /\ h["kauditd"] = "open" THEN "close" ELSE "failed"
  /\ UNCHANGED <<tee_ctx, rc, contexts, shm, taVars, hostpc, envVars>>

\* Slip: the socket is left open.
TaCloseSocket_slip ==
  /\ kpc = "close"
  /\ ab' = [ab EXCEPT !["kauditd"] = @ - 1]
  /\ kpc' = "return"
  /\ UNCHANGED <<tee_ctx, rc, contexts, shm, ta, sockets, h, hostpc, envVars>>

TaCloseSocket ==
  /\ kpc = "close"
  /\ sockets' = [sockets EXCEPT !["kauditd"] = @ - 1]
  /\ h' = [h EXCEPT !["kauditd"] = "closed"]
  /\ ab' = [ab EXCEPT !["kauditd"] = @ - 1]
  /\ kpc' = "return"
  /\ UNCHANGED <<tee_ctx, rc, contexts, shm, ta, hostpc, envVars>>
-----------------------------------------------------------------------------
(***************************************************************************)
(* The client program: a session, test_tcp_connect, and the end.  It exits *)
(* when a call fails, and the driver closes what it has left open.         *)
(***************************************************************************)
HostOpenSession ==
  /\ hostpc = "idle"
  /\ booted
  /\ OpenInstance("host")
  /\ hostpc' = "invoke"
  /\ UNCHANGED <<kernelVars, envVars>>

\* test_tcp_connect has an h of its own; the result of send is ignored.
HostTestOpen ==
  /\ hostpc = "invoke"
  /\ IF reachable
       THEN sockets' = [sockets EXCEPT !["host"] = @ + 1] /\ hostpc' = "close"
       ELSE sockets' = sockets /\ hostpc' = "exit"
  /\ UNCHANGED <<kernelVars, ta, h, ab, envVars>>

HostTestClose ==
  /\ hostpc = "close"
  /\ sockets' = [sockets EXCEPT !["host"] = @ - 1]
  /\ hostpc' = "exit"
  /\ UNCHANGED <<kernelVars, ta, h, ab, envVars>>

HostExit ==
  /\ hostpc = "exit"
  /\ CloseInstance("host")
  /\ hostpc' = "idle"
  /\ UNCHANGED <<kernelVars, envVars>>
-----------------------------------------------------------------------------
\* OP-TEE comes up once; the Log Receiver comes and goes.
Boot ==
  /\ ~booted
  /\ booted' = TRUE
  /\ UNCHANGED <<kernelVars, taVars, hostpc, reachable>>

Network ==
  /\ reachable' = ~reachable
  /\ UNCHANGED <<kernelVars, taVars, hostpc, booted>>

Kauditd ==
  \/ OpenContext \/ OpenSession \/ SessionFails \/ AllocShm
  \/ InvokeReturns \/ InvokeFails
  \/ TaOpenSocket \/ TaSend \/ TaCloseSocket

Host == HostOpenSession \/ HostTestOpen \/ HostTestClose \/ HostExit

Next == SendBatch \/ Kauditd \/ Host \/ Boot \/ Network

Spec == Init /\ [][Next]_vars

\* A call that has begun goes on: TEE calls return, in the end send() too.
FairSpec == Spec /\ WF_vars(Kauditd)
-----------------------------------------------------------------------------
\* Type correctness: counts are natural and within their pools.
TypeOK ==
  /\ tee_ctx \in {"NULL", "open"}
  /\ kpc \in {"idle", "context", "session", "shm", "open", "send", "close",
              "return", "failed"}
  /\ rc \in {"running", "ok", "failed"}
  /\ contexts \in 0..CONTEXTS
  /\ shm \in 0..SHM_POOL
  /\ ta \in [Client -> BOOLEAN]
  /\ sockets \in [Client -> Nat]
  /\ h \in [Client -> {"none", "open", "closed"}]
  /\ ab \in [Client -> Nat]
  /\ hostpc \in {"idle", "invoke", "close", "exit"}
  /\ booted \in BOOLEAN /\ reachable \in BOOLEAN

Invoking == kpc \in {"open", "send", "close", "return"}

\* h.ctx is overwritten by every batch and the session's own socket is never
\* closed; yet an instance has no more than that one and the one it sends on,
\* and between batches only the first, however many batches a session sends.
\* Its heap holds one batch at most, though a failed one is never freed.
SocketsBounded ==
  /\ \A c \in Client : sockets[c] <= 2 /\ ab[c] <= 1
  /\ kpc \in {"idle", "shm", "open", "return"} =>
       sockets["kauditd"] = IF ta["kauditd"] THEN 1 ELSE 0

\* send_event_log() sends on a socket that is open, although the socket that h
\* referred to before was closed at the end of the last batch.
SendsOnOpenSocket == kpc \in {"send", "close"} => h["kauditd"] = "open"

\* tee_ctx is set just when there is a session: a batch is never invoked on a
\* session that an earlier failure has closed, and no session is forgotten.
ContextHasSession ==
  kpc \notin {"context", "session"} => (tee_ctx = "open" <=> ta["kauditd"])

\* Until the pool is used up, the contexts left open and the buffers left
\* allocated are as many: one of each for a batch that failed in the TA, and
\* none for a session that could not be opened.
LeakOnlyByFailedBatch ==
  shm < SHM_POOL =>
    contexts + (IF Invoking \/ kpc = "failed" THEN 1 ELSE 0) =
      shm + (IF tee_ctx = "open" THEN 1 ELSE 0)

(***************************************************************************)
(* The inductive invariant: what each holds at each point of its call.     *)
(***************************************************************************)
KernelHolds ==
  /\ kpc = "context" => tee_ctx = "NULL" /\ ~ta["kauditd"]
  /\ kpc = "session" => tee_ctx = "open" /\ ~ta["kauditd"]
  /\ Invoking \/ kpc \in {"shm", "failed"} => tee_ctx = "open" /\ ta["kauditd"]
  /\ tee_ctx = "open" => contexts > 0
  /\ Invoking => shm > 0

InstanceHolds ==
  /\ ~ta["kauditd"] => sockets["kauditd"] = 0
  /\ kpc \in {"send", "close"} => sockets["kauditd"] = 2 /\ ab["kauditd"] = 1
  /\ kpc \in {"idle", "context", "session", "shm", "open", "return"} => ab["kauditd"] = 0

HostHolds ==
  /\ sockets["host"] = CASE hostpc = "idle" -> 0 [] hostpc = "close" -> 2 [] OTHER -> 1
  /\ ab["host"] = 0

Leaks ==
  shm < SHM_POOL \/ Invoking =>
    contexts + (IF Invoking \/ kpc = "failed" THEN 1 ELSE 0) =
      shm + (IF tee_ctx = "open" THEN 1 ELSE 0)

\* The state between any two steps of kauditd, the TA and the client program:
\* strong enough to be kept by every step, and to imply the invariants above.
SessionInv ==
  /\ TypeOK
  /\ SocketsBounded
  /\ SendsOnOpenSocket
  /\ ContextHasSession
  /\ KernelHolds
  /\ InstanceHolds
  /\ HostHolds
  /\ Leaks

Batch == INSTANCE BatchProtocol WITH
  open <- ta["kauditd"],
  call <- CASE kpc = "idle" -> "none"
            [] kpc \in {"context", "session"} -> "opening"
            [] OTHER -> "sending"

\* kauditd, the driver and the TA together do what AuditQueue takes a call of
\* send_eventlog_ta_collect() to do.
ImplementsBatch == Batch!BatchSpec

\* Once the Log Receiver can be reached, and while the failures before have left
\* a shared buffer to allocate, the batches that Linux goes on sending arrive.
Recovers ==
  [](([](booted /\ reachable) /\ kpc = "idle" /\ shm < SHM_POOL /\ []<>(rc = "running"))
       => <>(rc = "ok"))

\* When the Log Receiver can be reached again, batches arrive again.
LogsArrive ==
  (<>[](booted /\ reachable) /\ []<>(rc = "running")) => []<>(rc = "ok")
=============================================================================
