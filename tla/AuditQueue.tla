----------------------------- MODULE AuditQueue -----------------------------
(***************************************************************************)
(* The ring buffer that audit_qemu.patch adds to kernel/audit.c, and the   *)
(* two sides that use it without a lock: every task that ends an audit     *)
(* record (audit_log_end -> enqueue) and the kauditd thread                *)
(* (kauditd_thread -> send_eventlog_ta_collect -> dequeue, ta_invoke).     *)
(*                                                                         *)
(* One action is one access to the shared words queue_head, queue_num and  *)
(* test_queue, so that calls on different CPUs interleave as they can in   *)
(* the kernel.  Copying a record into or out of a slot is one action.      *)
(* A record that does not fit its slot is written past it, which nothing   *)
(* in the patch prevents: what the kernel does then is not defined, and    *)
(* the model stops there (EnqueueOverrun).                                 *)
(***************************************************************************)
EXTENDS Integers, Sequences

CONSTANTS
  Task,            \* the tasks whose system calls are audited
  QUEUE_SIZE,      \* slots of test_queue (15000)
  SEND_THRESHOLD,  \* queue_num that makes kauditd send (500)
  SUMMARY_LIMIT,   \* strlen(summary_log) that ends a batch (10000)
  SUMMARY_SIZE,    \* sizeof(summary_log) (12000)
  DATA_SIZE,       \* sizeof(data) of a slot and sizeof(event_log) (1024)
  RecLen,          \* the lengths a record's text can have
  MaxSerial,       \* bound: records logged in a behaviour
  Overlap          \* TRUE: calls overlap freely; FALSE: one call at a time

ASSUME QueueAssumption ==
  /\ QUEUE_SIZE \in Nat \ {0}
  /\ SEND_THRESHOLD \in Nat \ {0}
  /\ SUMMARY_LIMIT \in Nat
  /\ SUMMARY_SIZE \in Nat
  /\ DATA_SIZE \in Nat \ {0}
  /\ RecLen \subseteq Nat /\ RecLen # {}
  /\ MaxSerial \in Nat
  /\ Overlap \in BOOLEAN

\* The constants of the code: summary_log has room for the longest record that
\* fits a slot (DATA_SIZE - 1), its newline and the final NUL after the batch
\* limit has just not been passed (10000 + 1024 + 1 <= 12000).
ASSUME SummaryAssumption == SUMMARY_LIMIT + DATA_SIZE + 1 <= SUMMARY_SIZE

\* A batch passes the limit before it has used up the records whose number
\* triggered it (499 records of at least 20 characters exceed 10000).
ASSUME ThresholdAssumption ==
  \A l \in RecLen : (SEND_THRESHOLD - 1) * (l + 1) > SUMMARY_LIMIT

VARIABLES
  test_queue,     \* slots of the ring buffer
  queue_head,     \* index of the oldest record
  queue_num,      \* number of records, the word both sides update
  pc,             \* where each task is in audit_log_end
  reg,            \* queue_num as each task has last loaded it
  slot,           \* the slot each task writes
  log_msg,        \* the record each task logs
  serial,         \* serial number of the next record
  audit_pending,  \* the audit skb queue is not empty: kauditd must run
  kpc,            \* where kauditd is
  kreg,           \* queue_num as kauditd has last seen it
  event_log,      \* the record dequeued last
  summary_log,    \* the records of the batch being built
  log_msg_len,    \* strlen(summary_log), or NoLen while it is not assigned
  tee_ctx,        \* TRUE iff the session with TA-Collect is open
  accepted,       \* history: serials for which enqueue has counted the record
  sent,           \* history: serials handed over to TA-Collect
  failed          \* history: serials of batches whose invocation failed

taskVars  == <<pc, reg, slot, log_msg, serial>>
ringVars  == <<test_queue, queue_head, queue_num>>
batchVars == <<event_log, summary_log, log_msg_len>>
histVars  == <<accepted, sent, failed>>
vars == <<taskVars, ringVars, batchVars, histVars, audit_pending, kpc, kreg, tee_ctx>>

Record == [id : 1..MaxSerial, len : RecLen]
Blank  == [id |-> 0, len |-> 0]     \* a slot, or a local, that was never written
Stored == {r \in Record : r.len < DATA_SIZE} \cup {Blank}
NoLen  == -1                        \* log_msg_len before its first assignment
Slot   == 0..QUEUE_SIZE - 1

\* A task has written past its slot; nobody takes a step in the model after it.
Overrun == \E t \in Task : pc[t] = "overrun"

KauditdAt(l) == kpc = l /\ ~Overrun

InEnqueue(t) == pc[t] \in {"index", "copy", "load", "store"}
InDequeue    == kpc \in {"copy", "head", "load", "store"}

\* With Overlap = FALSE a call starts only when no other call is under way.
MayEnter == Overlap \/ (~InDequeue /\ \A t \in Task : ~InEnqueue(t))

Init ==
  /\ test_queue = [s \in Slot |-> Blank]
  /\ queue_head = 0
  /\ queue_num = 0
  /\ pc = [t \in Task |-> "idle"]
  /\ reg = [t \in Task |-> 0]
  /\ slot = [t \in Task |-> 0]
  /\ log_msg = [t \in Task |-> Blank]
  /\ serial = 1
  /\ audit_pending = FALSE
  /\ kpc = "wait"
  /\ kreg = 0
  /\ event_log = Blank
  /\ summary_log = <<>>
  /\ log_msg_len = NoLen
  /\ tee_ctx = FALSE
  /\ accepted = {}
  /\ sent = {}
  /\ failed = {}
-----------------------------------------------------------------------------
(***************************************************************************)
(* The conditions and indices of the code, each after the slips of it that *)
(* the properties are shown to catch (names ending in _slip).              *)
(***************************************************************************)
HasRoom_slip == queue_num <= QUEUE_SIZE
HasRoom == queue_num < QUEUE_SIZE

TailSlot_slip(n) == (queue_head + n + 1) % QUEUE_SIZE
TailSlot(n) == (queue_head + n) % QUEUE_SIZE

NextHead_nowrap_slip == queue_head + 1
NextHead_stays_slip == queue_head
NextHead == (queue_head + 1) % QUEUE_SIZE

MustSend_empty_slip == TRUE
MustSend_early_slip == queue_num > 0
MustSend == queue_num >= SEND_THRESHOLD

BatchFull_slip(len) == log_msg_len > SUMMARY_LIMIT
BatchFull(len) == len > SUMMARY_LIMIT
-----------------------------------------------------------------------------
(***************************************************************************)
(* enqueue(), called by audit_log_end() in any task.                       *)
(***************************************************************************)
EnqueueCheck(t) ==
  /\ pc[t] = "idle"
  /\ serial <= MaxSerial
  /\ MayEnter
  /\ \E l \in RecLen : log_msg' = [log_msg EXCEPT ![t] = [id |-> serial, len |-> l]]
  /\ serial' = serial + 1
  /\ reg' = [reg EXCEPT ![t] = queue_num]
  /\ pc' = [pc EXCEPT ![t] = IF HasRoom THEN "index" ELSE "wake"]
  /\ UNCHANGED <<slot, ringVars, batchVars, histVars, audit_pending, kpc, kreg, tee_ctx>>

\* The build may keep the value just compared or load queue_num again.
EnqueueIndex(t) ==
  /\ pc[t] = "index"
  /\ \E n \in {reg[t], queue_num} :
       slot' = [slot EXCEPT ![t] = TailSlot(n)]
  /\ pc' = [pc EXCEPT ![t] = "copy"]
  /\ UNCHANGED <<reg, log_msg, serial, ringVars, batchVars, histVars,
                 audit_pending, kpc, kreg, tee_ctx>>

EnqueueCopy(t) ==
  /\ pc[t] = "copy"
  /\ log_msg[t].len < DATA_SIZE
  /\ test_queue' = [test_queue EXCEPT ![slot[t]] = log_msg[t]]
  /\ pc' = [pc EXCEPT ![t] = "load"]
  /\ UNCHANGED <<reg, slot, log_msg, serial, queue_head, queue_num, batchVars,
                 histVars, audit_pending, kpc, kreg, tee_ctx>>

\* strcpy() does not look at the size of data, and the len that enqueue() has
\* computed is not used: the text runs on into what lies behind the slot.
EnqueueOverrun(t) ==
  /\ pc[t] = "copy"
  /\ log_msg[t].len >= DATA_SIZE
  /\ pc' = [u \in Task |-> "overrun"]
  /\ UNCHANGED <<reg, slot, log_msg, serial, ringVars, batchVars, histVars,
                 audit_pending, kpc, kreg, tee_ctx>>

\* queue_num++ is a load (or the value already loaded) and, later, a store.
EnqueueLoad(t) ==
  /\ pc[t] = "load"
  /\ \E n \in {reg[t], queue_num} : reg' = [reg EXCEPT ![t] = n]
  /\ pc' = [pc EXCEPT ![t] = "store"]
  /\ UNCHANGED <<slot, log_msg, serial, ringVars, batchVars, histVars,
                 audit_pending, kpc, kreg, tee_ctx>>

EnqueueStore(t) ==
  /\ pc[t] = "store"
  /\ queue_num' = reg[t] + 1
  /\ accepted' = accepted \cup {log_msg[t].id}
  /\ pc' = [pc EXCEPT ![t] = "wake"]
  /\ UNCHANGED <<reg, slot, log_msg, serial, test_queue, queue_head, batchVars,
                 sent, failed, audit_pending, kpc, kreg, tee_ctx>>

\* After enqueue(), whatever it returned, audit_log_end() queues the skb and
\* wakes kauditd.
AuditLogWake(t) ==
  /\ pc[t] = "wake"
  /\ audit_pending' = TRUE
  /\ pc' = [pc EXCEPT ![t] = "idle"]
  /\ UNCHANGED <<reg, slot, log_msg, serial, ringVars, batchVars, histVars,
                 kpc, kreg, tee_ctx>>
-----------------------------------------------------------------------------
(***************************************************************************)
(* kauditd_thread() and send_eventlog_ta_collect().                        *)
(***************************************************************************)
KauditdWake ==
  /\ KauditdAt("wait")
  /\ audit_pending
  /\ audit_pending' = FALSE
  /\ kpc' = "check"
  /\ UNCHANGED <<taskVars, ringVars, batchVars, histVars, kreg, tee_ctx>>

KauditdCheck ==
  /\ KauditdAt("check")
  /\ kpc' = IF MustSend THEN "session" ELSE "wait"
  /\ UNCHANGED <<taskVars, ringVars, batchVars, histVars, audit_pending, kreg, tee_ctx>>

\* The session is there, or ta_create_session() opens it.  Of the locals of
\* send_eventlog_ta_collect(), memset empties summary_log, log_msg_len has no
\* value yet, and event_log holds what the stack held, here its last value:
\* DequeueNeverEmpty says that it is written before it is read.
StartBatch ==
  /\ KauditdAt("session")
  /\ tee_ctx' = TRUE
  /\ kpc' = "dequeue"
  /\ summary_log' = <<>>
  /\ log_msg_len' = NoLen
  /\ UNCHANGED <<taskVars, ringVars, event_log, histVars, audit_pending, kreg>>

\* Slip: tee_ctx keeps the error pointer.
SessionFails_slip ==
  /\ KauditdAt("session")
  /\ ~tee_ctx
  /\ kpc' = "wait"
  /\ tee_ctx' = TRUE
  /\ UNCHANGED <<taskVars, ringVars, batchVars, histVars, audit_pending, kreg>>

\* ta_create_session() fails: tee_ctx = NULL, nothing is dequeued.
SessionFails ==
  /\ KauditdAt("session")
  /\ ~tee_ctx
  /\ kpc' = "wait"
  /\ UNCHANGED <<taskVars, ringVars, batchVars, histVars, audit_pending, kreg, tee_ctx>>

\* dequeue() returns -1 on an empty queue, which the caller takes as success.
DequeueCheck ==
  /\ KauditdAt("dequeue")
  /\ MayEnter
  /\ kreg' = queue_num
  /\ kpc' = IF queue_num > 0 THEN "copy" ELSE "loop"
  /\ UNCHANGED <<taskVars, ringVars, batchVars, histVars, audit_pending, tee_ctx>>

DequeueCopy ==
  /\ KauditdAt("copy")
  /\ event_log' = test_queue[queue_head]
  /\ kpc' = "head"
  /\ UNCHANGED <<taskVars, ringVars, summary_log, log_msg_len, histVars,
                 audit_pending, kreg, tee_ctx>>

DequeueHead ==
  /\ KauditdAt("head")
  /\ queue_head' = NextHead
  /\ kpc' = "load"
  /\ UNCHANGED <<taskVars, test_queue, queue_num, batchVars, histVars,
                 audit_pending, kreg, tee_ctx>>

DequeueLoad ==
  /\ KauditdAt("load")
  /\ kreg' \in {kreg, queue_num}
  /\ kpc' = "store"
  /\ UNCHANGED <<taskVars, ringVars, batchVars, histVars, audit_pending, tee_ctx>>

DequeueStore ==
  /\ KauditdAt("store")
  /\ queue_num' = kreg - 1
  /\ kreg' = kreg - 1
  /\ kpc' = "loop"
  /\ UNCHANGED <<taskVars, test_queue, queue_head, batchVars, histVars,
                 audit_pending, tee_ctx>>

\* strlen(summary_log) once the dequeued record and a newline are appended.
NewLen == (IF log_msg_len = NoLen THEN 0 ELSE log_msg_len) + event_log.len + 1

\* The loop condition looks at queue_num after the record has been taken, and
\* may use the value dequeue() has just stored or load it again.
LoopAppend ==
  /\ KauditdAt("loop")
  /\ \E n \in {kreg, queue_num} : n > 0
  /\ summary_log' = Append(summary_log, event_log)
  /\ log_msg_len' = NewLen
  /\ kpc' = IF BatchFull(NewLen) THEN "invoke" ELSE "dequeue"
  /\ UNCHANGED <<taskVars, ringVars, event_log, histVars, audit_pending, kreg, tee_ctx>>

\* The queue has become empty: the loop ends without the record just taken.
LoopEnd ==
  /\ KauditdAt("loop")
  /\ \E n \in {kreg, queue_num} : n <= 0
  /\ kpc' = "invoke"
  /\ UNCHANGED <<taskVars, ringVars, batchVars, histVars, audit_pending, kreg, tee_ctx>>

BatchIds == {summary_log[i].id : i \in DOMAIN summary_log}

\* Slip: a wakeup that came during the batch is forgotten when it is over.
InvokeSucceeds_slip ==
  /\ KauditdAt("invoke")
  /\ sent' = sent \cup BatchIds
  /\ kpc' = "wait"
  /\ audit_pending' = FALSE
  /\ UNCHANGED <<taskVars, ringVars, batchVars, accepted, failed, kreg, tee_ctx>>

InvokeSucceeds ==
  /\ KauditdAt("invoke")
  /\ sent' = sent \cup BatchIds
  /\ kpc' = "wait"
  /\ UNCHANGED <<taskVars, ringVars, batchVars, accepted, failed, audit_pending,
                 kreg, tee_ctx>>

\* ta_invoke() fails: the session is closed, the batch is gone.
InvokeFails ==
  /\ KauditdAt("invoke")
  /\ failed' = failed \cup BatchIds
  /\ tee_ctx' = FALSE
  /\ kpc' = "wait"
  /\ UNCHANGED <<taskVars, ringVars, batchVars, accepted, sent, audit_pending, kreg>>
-----------------------------------------------------------------------------
AuditLogEnd(t) ==
  \/ EnqueueCheck(t) \/ EnqueueIndex(t) \/ EnqueueCopy(t) \/ EnqueueOverrun(t)
  \/ EnqueueLoad(t)  \/ EnqueueStore(t) \/ AuditLogWake(t)

Kauditd ==
  \/ KauditdWake \/ KauditdCheck \/ StartBatch \/ SessionFails
  \/ DequeueCheck \/ DequeueCopy \/ DequeueHead \/ DequeueLoad \/ DequeueStore
  \/ LoopAppend \/ LoopEnd \/ InvokeSucceeds \/ InvokeFails

Next == Kauditd \/ \E t \in Task : AuditLogEnd(t)

Spec == Init /\ [][Next]_vars

\* kauditd is a kernel thread that is scheduled whenever it can run, and a task
\* that has entered audit_log_end() runs on to its end; no task has to log.
InsideCall(t) ==
  \/ EnqueueIndex(t) \/ EnqueueCopy(t) \/ EnqueueOverrun(t) \/ EnqueueLoad(t)
  \/ EnqueueStore(t) \/ AuditLogWake(t)

FairSpec ==
  /\ Spec
  /\ WF_vars(Kauditd)
  /\ \A t \in Task : WF_vars(InsideCall(t))
-----------------------------------------------------------------------------
(***************************************************************************)
(* Properties that hold however the calls overlap.                         *)
(***************************************************************************)
\* Type correctness.  That queue_num stays a natural number is more than a
\* type: enqueue() and dequeue() update it without a lock from values they may
\* have loaded long before.
TypeOK ==
  /\ test_queue \in [Slot -> Stored]
  /\ queue_head \in Slot
  /\ queue_num \in Nat
  /\ pc \in [Task -> {"idle", "index", "copy", "load", "store", "wake", "overrun"}]
  /\ reg \in [Task -> Nat]
  /\ slot \in [Task -> Slot]
  /\ log_msg \in [Task -> Record \cup {Blank}]
  /\ serial \in 1..MaxSerial + 1
  /\ audit_pending \in BOOLEAN
  /\ kpc \in {"wait", "check", "session", "dequeue", "copy", "head", "load",
              "store", "loop", "invoke"}
  /\ kreg \in Nat
  /\ event_log \in Stored
  /\ summary_log \in Seq(Record \cup {Blank})
  /\ log_msg_len \in Nat \cup {NoLen}
  /\ tee_ctx \in BOOLEAN

\* send_eventlog_ta_collect() tests dequeue() against 1 where dequeue() reports
\* an empty queue by -1: the test never fails, and an empty queue would append
\* the indeterminate event_log.  It is never called on an empty queue: records
\* are there when the batch starts, the loop goes on only if some remain, and
\* no lost update of queue_num can bring it down to zero in between.
DequeueNeverEmpty == kpc = "dequeue" => queue_num > 0

\* The records appended to summary_log by the two strcat() calls, with the
\* final NUL, never pass the end of summary_log[12000], although the length is
\* compared with the limit only after appending.  It rests on the records having
\* fitted their slots: one that has not (EnqueueOverrun, which enqueue() does
\* not prevent) may be too long for event_log and summary_log as well.
SummaryFits == log_msg_len < SUMMARY_SIZE

\* A task that has logged a record while the queue holds at least the number
\* that triggers a batch gets kauditd to start one (or a lost update takes the
\* number below it): the wakeup that audit_log_end() sends after enqueue() is
\* not lost when kauditd is busy, nor between its check and its sleep.  (Nothing
\* is said of a kernel in which a record has been written past its slot.)
ThresholdServed ==
  ((\E t \in Task : pc[t] = "wake") /\ MustSend)
    ~> (kpc = "session" \/ ~MustSend \/ Overrun)

Batch == INSTANCE BatchProtocol WITH
  open <- tee_ctx,
  call <- CASE kpc \in {"wait", "check"} -> "none"
            [] kpc = "session" -> IF tee_ctx THEN "sending" ELSE "opening"
            [] OTHER -> "sending"

\* The session as kauditd sees it: there is one when a batch is sent, and none is
\* kept from an attempt that failed.  CollectSession keeps the same protocol.
ImplementsBatch == Batch!BatchSpec
-----------------------------------------------------------------------------
(***************************************************************************)
(* Properties that hold when calls do not overlap.                         *)
(***************************************************************************)
\* The queue as enqueue() and dequeue() leave it once they have returned: a
\* record is taken when it is copied out, one is put when it is counted.
OutHead == IF kpc = "head" THEN NextHead ELSE queue_head
InQueue == IF kpc \in {"head", "load", "store"} THEN queue_num - 1 ELSE queue_num

Fifo == INSTANCE BoundedFifo WITH
  Capacity <- QUEUE_SIZE,
  None     <- Blank,
  contents <- [i \in 1..InQueue |-> test_queue[(OutHead + i - 1) % QUEUE_SIZE]],
  taken    <- event_log

\* The ring buffer implements a bounded first-in first-out queue.
ImplementsFifo == Fifo!FifoSpec

\* The records enqueue() has accepted and that are not yet in a batch.
Waiting == {test_queue[(OutHead + i) % QUEUE_SIZE].id : i \in 0..InQueue - 1}

\* The records kauditd holds: the one dequeued last until it is appended, and
\* those of the batch until ta_invoke() returns.
InHand ==
  (IF kpc \in {"head", "load", "store", "loop"} THEN {event_log.id} ELSE {})
    \cup (IF kpc \in {"wait", "check", "session"} THEN {} ELSE BatchIds)

\* Every record that enqueue() accepted is in the ring buffer, in the batch
\* being built, has been handed over to TA-Collect, or was in a batch that
\* ta_invoke() failed to hand over (those are not kept for another try).
Accounted == accepted \subseteq Waiting \cup InHand \cup sent \cup failed

\* A batch holds its records in the order they were logged, none twice, and
\* none that an earlier batch had.
InOrder ==
  (kpc \in {"dequeue", "loop", "invoke"}) =>
    /\ \A i, j \in DOMAIN summary_log : i < j => summary_log[i].id < summary_log[j].id
    /\ BatchIds \cap (sent \cup failed) = {}

\* log_msg_len, which ta_invoke() allocates shared memory by, has been assigned
\* when the loop is over: the limit is passed before the queue runs empty.
LengthAssigned == kpc = "invoke" => log_msg_len # NoLen
=============================================================================
