------------------------- MODULE AuditQueue_proofs -------------------------
(***************************************************************************)
(* What holds of the audit queue for any number of tasks and any size of   *)
(* the ring buffer and of the batch: however the calls overlap (RaceInv),  *)
(* and as long as they do not (SerialInv, RingInv, SerialRingInv).         *)
(***************************************************************************)
EXTENDS AuditQueue, NaturalsInduction, WellFoundedInduction, SequenceTheorems, TLAPS

USE DEF KauditdAt

\* A batch in the making: from its start until the loop is left.
InBatch == kpc \in {"dequeue", "copy", "head", "load", "store", "loop"}

\* kauditd has seen the queue non-empty and nobody can have emptied it since:
\* only kauditd stores a queue_num that is one less, and what it stores is one
\* less than a positive value it has loaded.
SeenNonEmpty ==
  /\ kpc \in {"session", "dequeue", "copy", "head", "load"} => queue_num > 0
  /\ kpc \in {"copy", "head", "load", "store"} => kreg > 0
  /\ (kpc = "loop" /\ kreg > 0) => queue_num > 0

\* While a batch grows, its length has not passed the limit.
BelowLimit == InBatch => log_msg_len <= SUMMARY_LIMIT

RaceInv == TypeOK /\ SeenNonEmpty /\ BelowLimit /\ SummaryFits
-----------------------------------------------------------------------------
\* The bounds on the batch, for the lengths the records in the slots can have.
LEMMA AppendFits ==
  ASSUME NEW e \in Stored, NEW n \in Nat, n <= SUMMARY_LIMIT
  PROVE  /\ e.len \in Nat
         /\ n + e.len + 1 \in Nat
         /\ n + e.len + 1 < SUMMARY_SIZE
<1>1. e.len \in RecLen \cup {0} /\ e.len < DATA_SIZE
  BY QueueAssumption DEF Stored, Record, Blank
<1>2. \A l \in RecLen \cup {0} : l \in Nat
  BY QueueAssumption
<1>3. e.len \in Nat
  BY <1>1, <1>2
<1>4. QED
  BY <1>1, <1>3, SummaryAssumption, QueueAssumption

\* What a slot holds is a record or blank.
LEMMA StoredRecords == Stored \subseteq Record \cup {Blank}
  BY DEF Stored

\* The start: nothing is queued and no batch is being built.
LEMMA InitRace == Init => RaceInv
<1> SUFFICES ASSUME Init PROVE RaceInv
  OBVIOUS
<1> USE QueueAssumption
<1>1. 0 \in Slot
  BY DEF Slot
<1>2. TypeOK
  BY <1>1 DEF Init, TypeOK, NoLen, Stored
<1>3. SeenNonEmpty /\ BelowLimit
  BY DEF Init, SeenNonEmpty, BelowLimit, InBatch
<1>4. SummaryFits
  BY SummaryAssumption DEF Init, SummaryFits, NoLen
<1>5. QED
  BY <1>2, <1>3, <1>4 DEF RaceInv

\* A step of enqueue() or audit_log_end() in any task.
LEMMA TaskRace ==
  ASSUME RaceInv, NEW t \in Task, AuditLogEnd(t)
  PROVE  RaceInv'
<1> USE QueueAssumption DEF RaceInv
<1>1. CASE EnqueueCheck(t)
  <2>1. PICK l \in RecLen : log_msg' = [log_msg EXCEPT ![t] = [id |-> serial, len |-> l]]
    BY <1>1 DEF EnqueueCheck
  <2>2. [id |-> serial, len |-> l] \in Record
    BY <1>1, <2>1 DEF EnqueueCheck, TypeOK, Record
  <2>3. TypeOK'
    BY <1>1, <2>1, <2>2
    DEF EnqueueCheck, TypeOK, ringVars, batchVars
  <2>4. QED
    BY <1>1, <2>3
    DEF EnqueueCheck, SeenNonEmpty, BelowLimit, InBatch, SummaryFits, ringVars, batchVars
<1>2. CASE EnqueueIndex(t)
  <2>1. \A n \in Nat : TailSlot(n) \in Slot
    BY DEF TailSlot, Slot, TypeOK
  <2>2. slot' \in [Task -> Slot]
    BY <1>2, <2>1 DEF EnqueueIndex, TypeOK
  <2>3. TypeOK'
    BY <1>2, <2>2 DEF EnqueueIndex, TypeOK, ringVars, batchVars
  <2>4. QED
    BY <1>2, <2>3
    DEF EnqueueIndex, SeenNonEmpty, BelowLimit, InBatch, SummaryFits, ringVars, batchVars
<1>3. CASE EnqueueCopy(t)
  <2>1. log_msg[t] \in Stored
    BY <1>3 DEF EnqueueCopy, TypeOK, Stored
  <2>2. TypeOK'
    BY <1>3, <2>1 DEF EnqueueCopy, TypeOK, batchVars
  <2>3. QED
    BY <1>3, <2>2
    DEF EnqueueCopy, SeenNonEmpty, BelowLimit, InBatch, SummaryFits, batchVars
<1>4. CASE EnqueueLoad(t)
  <2>1. TypeOK'
    BY <1>4 DEF EnqueueLoad, TypeOK, ringVars, batchVars
  <2>2. QED
    BY <1>4, <2>1
    DEF EnqueueLoad, SeenNonEmpty, BelowLimit, InBatch, SummaryFits, ringVars, batchVars
<1>5. CASE EnqueueStore(t)
  <2>1. queue_num' \in Nat /\ queue_num' > 0
    BY <1>5 DEF EnqueueStore, TypeOK
  <2>2. TypeOK'
    BY <1>5, <2>1 DEF EnqueueStore, TypeOK, batchVars
  <2>3. QED
    BY <1>5, <2>1, <2>2
    DEF EnqueueStore, SeenNonEmpty, BelowLimit, InBatch, SummaryFits, batchVars
<1>6. CASE AuditLogWake(t)
  <2>1. TypeOK'
    BY <1>6 DEF AuditLogWake, TypeOK, ringVars, batchVars
  <2>2. QED
    BY <1>6, <2>1
    DEF AuditLogWake, SeenNonEmpty, BelowLimit, InBatch, SummaryFits, ringVars, batchVars
<1>7. CASE EnqueueOverrun(t)
  BY <1>7
  DEF EnqueueOverrun, TypeOK, SeenNonEmpty, BelowLimit, InBatch, SummaryFits, ringVars, batchVars
<1>8. QED
  BY <1>1, <1>2, <1>3, <1>4, <1>5, <1>6, <1>7 DEF AuditLogEnd

\* A step of kauditd.
LEMMA KauditdRace ==
  ASSUME RaceInv, Kauditd
  PROVE  RaceInv'
<1> USE QueueAssumption DEF RaceInv, taskVars, ringVars, batchVars
<1>1. CASE KauditdWake
  BY <1>1 DEF KauditdWake, TypeOK, SeenNonEmpty, BelowLimit, InBatch, SummaryFits
<1>2. CASE KauditdCheck
  BY <1>2
  DEF KauditdCheck, MustSend, TypeOK, SeenNonEmpty, BelowLimit, InBatch, SummaryFits
<1>3. CASE StartBatch
  BY <1>3, SummaryAssumption
  DEF StartBatch, TypeOK, SeenNonEmpty, BelowLimit, InBatch, SummaryFits, NoLen
<1>4. CASE SessionFails
  BY <1>4 DEF SessionFails, TypeOK, SeenNonEmpty, BelowLimit, InBatch, SummaryFits
<1>5. CASE DequeueCheck
  BY <1>5 DEF DequeueCheck, TypeOK, SeenNonEmpty, BelowLimit, InBatch, SummaryFits
<1>6. CASE DequeueCopy
  BY <1>6 DEF DequeueCopy, TypeOK, SeenNonEmpty, BelowLimit, InBatch, SummaryFits
<1>7. CASE DequeueHead
  <2>1. NextHead \in Slot
    BY DEF NextHead, Slot, TypeOK
  <2>2. QED
    BY <1>7, <2>1 DEF DequeueHead, TypeOK, SeenNonEmpty, BelowLimit, InBatch, SummaryFits
<1>8. CASE DequeueLoad
  BY <1>8 DEF DequeueLoad, TypeOK, SeenNonEmpty, BelowLimit, InBatch, SummaryFits
<1>9. CASE DequeueStore
  <2>1. queue_num' \in Nat /\ kreg' \in Nat /\ queue_num' = kreg'
    BY <1>9 DEF DequeueStore, TypeOK, SeenNonEmpty
  <2>2. QED
    BY <1>9, <2>1 DEF DequeueStore, TypeOK, SeenNonEmpty, BelowLimit, InBatch, SummaryFits
<1>10. CASE LoopAppend
  <2>1. NewLen \in Nat /\ NewLen < SUMMARY_SIZE
    BY <1>10, AppendFits DEF LoopAppend, NewLen, BelowLimit, InBatch, TypeOK, NoLen
  <2>2. queue_num > 0
    BY <1>10 DEF LoopAppend, SeenNonEmpty, TypeOK
  <2>3. summary_log' \in Seq(Record \cup {Blank})
    BY <1>10, StoredRecords DEF LoopAppend, TypeOK
  <2>4. TypeOK'
    BY <1>10, <2>1, <2>3 DEF LoopAppend, TypeOK
  <2>5. kpc' = "dequeue" => log_msg_len' <= SUMMARY_LIMIT
    BY <1>10, <2>1 DEF LoopAppend, BatchFull
  <2>6. QED
    BY <1>10, <2>1, <2>2, <2>4, <2>5
    DEF LoopAppend, SeenNonEmpty, BelowLimit, InBatch, SummaryFits
<1>11. CASE LoopEnd
  BY <1>11 DEF LoopEnd, TypeOK, SeenNonEmpty, BelowLimit, InBatch, SummaryFits
<1>12. CASE InvokeSucceeds
  BY <1>12 DEF InvokeSucceeds, TypeOK, SeenNonEmpty, BelowLimit, InBatch, SummaryFits
<1>13. CASE InvokeFails
  BY <1>13 DEF InvokeFails, TypeOK, SeenNonEmpty, BelowLimit, InBatch, SummaryFits
<1>14. QED
  BY <1>1, <1>2, <1>3, <1>4, <1>5, <1>6, <1>7, <1>8, <1>9, <1>10, <1>11, <1>12,
     <1>13
  DEF Kauditd

\* A step that leaves every variable alone.
LEMMA StutterRace ==
  ASSUME RaceInv, UNCHANGED vars
  PROVE  RaceInv'
  BY DEF RaceInv, TypeOK, SeenNonEmpty, BelowLimit, InBatch, SummaryFits, vars,
         taskVars, ringVars, batchVars

\* RaceInv is an invariant of the queue under every interleaving.
THEOREM RaceInvariance == Spec => []RaceInv
<1>1. RaceInv /\ [Next]_vars => RaceInv'
  BY TaskRace, KauditdRace, StutterRace DEF Next
<1>2. QED
  BY InitRace, <1>1, PTL DEF Spec

\* The unlocked updates of queue_num never make it negative, and no index of
\* the ring buffer leaves it.
THEOREM TypeCorrect == Spec => []TypeOK
<1>1. RaceInv => TypeOK
  BY DEF RaceInv
<1>2. QED
  BY RaceInvariance, <1>1, PTL

\* kauditd calls dequeue() only on a queue that holds a record, so that the
\* return value it misreads never matters.
THEOREM NeverDequeuesEmpty == Spec => []DequeueNeverEmpty
<1>1. RaceInv => DequeueNeverEmpty
  BY DEF RaceInv, SeenNonEmpty, DequeueNeverEmpty
<1>2. QED
  BY RaceInvariance, <1>1, PTL

\* A batch never outgrows summary_log.
THEOREM SummaryNeverOverflows == Spec => []SummaryFits
<1>1. RaceInv => SummaryFits
  BY DEF RaceInv
<1>2. QED
  BY RaceInvariance, <1>1, PTL

\* A step of kauditd begins, opens or ends a call as the protocol says; the rest
\* of the batch, and what the tasks do, does not show.
LEMMA StepIsBatchStep ==
  TypeOK /\ [Next]_vars => [Batch!BatchNext]_(Batch!batchVars)
<1> SUFFICES ASSUME TypeOK, [Next]_vars
             PROVE  [Batch!BatchNext]_(Batch!batchVars)
  OBVIOUS
<1> USE DEF TypeOK, Batch!BatchNext, Batch!batchVars
<1>1. CASE KauditdWake
  BY <1>1 DEF KauditdWake
<1>2. CASE KauditdCheck
  BY <1>2 DEF KauditdCheck, Batch!Begin
<1>3. CASE StartBatch
  BY <1>3 DEF StartBatch, Batch!Opened
<1>4. CASE SessionFails
  BY <1>4 DEF SessionFails, Batch!NotOpened
<1>5. CASE \/ DequeueCheck \/ DequeueCopy \/ DequeueHead \/ DequeueLoad \/ DequeueStore
           \/ LoopAppend \/ LoopEnd
  BY <1>5 DEF DequeueCheck, DequeueCopy, DequeueHead, DequeueLoad, DequeueStore,
              LoopAppend, LoopEnd
<1>6. CASE InvokeSucceeds
  BY <1>6 DEF InvokeSucceeds, Batch!Delivered
<1>7. CASE InvokeFails
  BY <1>7 DEF InvokeFails, Batch!Failed
<1>8. CASE \E t \in Task : AuditLogEnd(t)
  BY <1>8 DEF AuditLogEnd, EnqueueCheck, EnqueueIndex, EnqueueCopy, EnqueueOverrun, EnqueueLoad,
              EnqueueStore, AuditLogWake
<1>9. CASE UNCHANGED vars
  BY <1>9 DEF vars
<1>10. QED
  BY <1>1, <1>2, <1>3, <1>4, <1>5, <1>6, <1>7, <1>8, <1>9 DEF Next, Kauditd

\* However tasks and kauditd overlap, kauditd follows the protocol of batches:
\* no batch without a session, and no session kept from an attempt that failed.
THEOREM QueueImplementsBatch == Spec => ImplementsBatch
<1>1. Init => Batch!BatchInit
  BY DEF Init, Batch!BatchInit
<1>2. QED
  BY <1>1, StepIsBatchStep, TypeCorrect, PTL DEF Spec, ImplementsBatch, Batch!BatchSpec
-----------------------------------------------------------------------------
(***************************************************************************)
(* When calls do not overlap: each call sees the queue as it will update   *)
(* it, and the first record of a batch leaves others in the queue.         *)
(***************************************************************************)
OneCall ==
  /\ \A t \in Task : InEnqueue(t) => ~InDequeue /\ reg[t] = queue_num
  /\ \A t, u \in Task : InEnqueue(t) /\ InEnqueue(u) => t = u
  /\ InDequeue => kreg = queue_num

FirstOfMany ==
  /\ kpc = "session" => queue_num >= SEND_THRESHOLD
  /\ log_msg_len = NoLen =>
       /\ kpc = "dequeue" \/ InDequeue => queue_num >= SEND_THRESHOLD
       /\ kpc = "loop" => kreg >= SEND_THRESHOLD - 1 /\ queue_num >= SEND_THRESHOLD - 1

SerialInv == OneCall /\ FirstOfMany /\ LengthAssigned

\* A batch is triggered by two records at least.
LEMMA TwoRecords == SEND_THRESHOLD \in Nat /\ SEND_THRESHOLD >= 2
<1>1. PICK l \in RecLen : TRUE
  BY QueueAssumption DEF QueueAssumption
<1>2. l \in Nat /\ (SEND_THRESHOLD - 1) * (l + 1) > SUMMARY_LIMIT /\ SUMMARY_LIMIT \in Nat
  BY QueueAssumption, ThresholdAssumption DEF QueueAssumption, ThresholdAssumption
<1>3. SEND_THRESHOLD # 1
  BY <1>2
<1>4. QED
  BY <1>3, QueueAssumption DEF QueueAssumption

\* A step of a task: it enters only when nobody is inside, and adds to the queue.
LEMMA TaskSerial ==
  ASSUME ~Overlap, TypeOK, SerialInv, NEW t \in Task, AuditLogEnd(t)
  PROVE  SerialInv'
<1> USE DEF TypeOK, SerialInv, OneCall, FirstOfMany, LengthAssigned, InEnqueue, InDequeue,
            ringVars, batchVars
<1>1. CASE EnqueueCheck(t)
  BY <1>1 DEF EnqueueCheck, MayEnter
<1>2. CASE EnqueueIndex(t)
  BY <1>2 DEF EnqueueIndex
<1>3. CASE EnqueueCopy(t)
  BY <1>3 DEF EnqueueCopy
<1>4. CASE EnqueueLoad(t)
  BY <1>4 DEF EnqueueLoad
<1>5. CASE EnqueueStore(t)
  BY <1>5, TwoRecords DEF EnqueueStore
<1>6. CASE AuditLogWake(t)
  BY <1>6 DEF AuditLogWake
<1>7. CASE EnqueueOverrun(t)
  BY <1>7 DEF EnqueueOverrun
<1>8. QED
  BY <1>1, <1>2, <1>3, <1>4, <1>5, <1>6, <1>7 DEF AuditLogEnd

\* A step of kauditd: the first dequeue() of a batch finds SEND_THRESHOLD records,
\* so that the loop goes round once at least.
LEMMA KauditdSerial ==
  ASSUME ~Overlap, TypeOK, SerialInv, Kauditd
  PROVE  SerialInv'
<1> USE TwoRecords
    DEF TypeOK, SerialInv, OneCall, FirstOfMany, LengthAssigned, InEnqueue, InDequeue,
        taskVars, ringVars, batchVars
<1>1. CASE KauditdWake
  BY <1>1 DEF KauditdWake
<1>2. CASE KauditdCheck
  BY <1>2 DEF KauditdCheck, MustSend
<1>3. CASE StartBatch
  BY <1>3 DEF StartBatch
<1>4. CASE SessionFails
  BY <1>4 DEF SessionFails
<1>5. CASE DequeueCheck
  BY <1>5 DEF DequeueCheck, MayEnter
<1>6. CASE DequeueCopy
  BY <1>6 DEF DequeueCopy
<1>7. CASE DequeueHead
  BY <1>7 DEF DequeueHead
<1>8. CASE DequeueLoad
  BY <1>8 DEF DequeueLoad
<1>9. CASE DequeueStore
  BY <1>9 DEF DequeueStore
<1>10. CASE LoopAppend
  <2>1. NewLen \in Nat /\ NewLen # NoLen
    <3>1. event_log.len \in RecLen \cup {0}
      BY DEF Stored, Record, Blank
    <3>2. \A l \in RecLen \cup {0} : l \in Nat
      BY QueueAssumption
    <3>3. event_log.len \in Nat
      BY <3>1, <3>2
    <3>4. QED
      BY <3>3 DEF NewLen, NoLen
  <2>2. QED
    BY <1>10, <2>1 DEF LoopAppend
<1>11. CASE LoopEnd
  BY <1>11 DEF LoopEnd
<1>12. CASE InvokeSucceeds
  BY <1>12 DEF InvokeSucceeds
<1>13. CASE InvokeFails
  BY <1>13 DEF InvokeFails
<1>14. QED
  BY <1>1, <1>2, <1>3, <1>4, <1>5, <1>6, <1>7, <1>8, <1>9, <1>10, <1>11, <1>12, <1>13
  DEF Kauditd

\* As long as calls do not overlap, log_msg_len has a value when ta_invoke() uses
\* it, for every threshold and every size that satisfy the assumptions.
THEOREM SerialLengthAssigned ==
  ASSUME ~Overlap
  PROVE  Spec => []LengthAssigned
<1>1. Init => SerialInv
  BY DEF Init, SerialInv, OneCall, FirstOfMany, LengthAssigned, InEnqueue, InDequeue
<1>2. TypeOK /\ SerialInv /\ [Next]_vars => SerialInv'
  <2>1. ASSUME SerialInv, UNCHANGED vars PROVE SerialInv'
    BY <2>1 DEF SerialInv, OneCall, FirstOfMany, LengthAssigned, InEnqueue, InDequeue,
                vars, taskVars, ringVars, batchVars
  <2>2. QED
    BY <2>1, TaskSerial, KauditdSerial DEF Next
<1>3. SerialInv => LengthAssigned
  BY DEF SerialInv
<1>4. QED
  BY <1>1, <1>2, <1>3, TypeCorrect, PTL DEF Spec
-----------------------------------------------------------------------------
(***************************************************************************)
(* The ring.                                                               *)
(***************************************************************************)
\* Slots of the ring: going on from the last slot leads to the first.
LEMMA Wrap ==
  ASSUME NEW N \in Nat \ {0}, NEW h \in 0..N - 1, NEW i \in 0..N
  PROVE  (h + i) % N = IF h + i < N THEN h + i ELSE h + i - N
<1>1. CASE h + i < N
  BY <1>1
<1>2. CASE h + i >= N
  BY <1>2
<1>3. QED
  BY <1>1, <1>2

\* Different places among at most N are different slots.
LEMMA SlotsDiffer ==
  ASSUME NEW N \in Nat \ {0}, NEW h \in 0..N - 1, NEW i \in 0..N - 1, NEW j \in 0..N - 1, i # j
  PROVE  (h + i) % N # (h + j) % N
<1>1. i \in 0..N /\ j \in 0..N
  OBVIOUS
<1>2. (h + i) % N = IF h + i < N THEN h + i ELSE h + i - N
  BY <1>1, Wrap
<1>3. (h + j) % N = IF h + j < N THEN h + j ELSE h + j - N
  BY <1>1, Wrap
<1>4. QED
  BY <1>2, <1>3

\* A place counted from the slot after h.
LEMMA NextSlot ==
  ASSUME NEW N \in Nat \ {0}, NEW h \in 0..N - 1, NEW i \in 0..N - 1
  PROVE  /\ (h + 1) % N \in 0..N - 1
         /\ (((h + 1) % N) + i) % N = (h + (i + 1)) % N
<1>1. CASE h + 1 < N
  <2>1. (h + 1) % N = h + 1
    BY <1>1
  <2>2. QED
    BY <1>1, <2>1
<1>2. CASE h + 1 = N
  <2>1. (h + 1) % N = 0
    BY <1>2, Wrap
  <2>2. (0 + i) % N = i
    BY Wrap
  <2>3. (h + (i + 1)) % N = i
    BY <1>2, Wrap
  <2>4. QED
    BY <2>1, <2>2, <2>3
<1>3. QED
  BY <1>1, <1>2

\* The n records of the ring q from slot h on.
Ring(q, h, n) == [i \in 1..n |-> q[(h + i - 1) % QUEUE_SIZE]]
Contents == Ring(test_queue, OutHead, InQueue)

Slots == [Slot -> Stored]

\* The records of a ring are a sequence.
LEMMA RingSeq ==
  ASSUME NEW q \in Slots, NEW h \in Slot, NEW n \in 0..QUEUE_SIZE
  PROVE  /\ Ring(q, h, n) \in Seq(Record \cup {Blank})
         /\ Len(Ring(q, h, n)) = n
         /\ \A i \in 1..n : Ring(q, h, n)[i] = q[(h + i - 1) % QUEUE_SIZE]
<1> USE QueueAssumption
<1>1. n \in Nat
  BY DEF Slot
<1>2. \A i \in 1..n : (h + i - 1) % QUEUE_SIZE \in Slot
  BY DEF Slot
<1>3. \A i \in 1..n : q[(h + i - 1) % QUEUE_SIZE] \in Record \cup {Blank}
  BY <1>2, StoredRecords DEF Slots
<1>4. QED
  BY <1>1, <1>3 DEF Ring

\* strcpy() into the slot behind the last record does not change the others.
LEMMA RingWrite ==
  ASSUME NEW q \in Slots, NEW h \in Slot, NEW n \in 0..QUEUE_SIZE - 1, NEW r
  PROVE  Ring([q EXCEPT ![(h + n) % QUEUE_SIZE] = r], h, n) = Ring(q, h, n)
<1> DEFINE p == [q EXCEPT ![(h + n) % QUEUE_SIZE] = r]
<1> USE QueueAssumption
<1>1. ASSUME NEW i \in 1..n PROVE p[(h + i - 1) % QUEUE_SIZE] = q[(h + i - 1) % QUEUE_SIZE]
  <2>1. i - 1 \in 0..QUEUE_SIZE - 1 /\ i - 1 # n /\ n \in 0..QUEUE_SIZE - 1
    OBVIOUS
  <2>2. (h + (i - 1)) % QUEUE_SIZE # (h + n) % QUEUE_SIZE
    BY <2>1, SlotsDiffer DEF Slot
  <2>3. h + (i - 1) = h + i - 1
    BY DEF Slot
  <2>4. QED
    BY <2>2, <2>3 DEF Slots
<1>2. QED
  BY <1>1 DEF Ring

\* Counting the record behind the last one adds it at the end.
LEMMA RingGrow ==
  ASSUME NEW q \in Slots, NEW h \in Slot, NEW n \in 0..QUEUE_SIZE - 1
  PROVE  Ring(q, h, n + 1) = Append(Ring(q, h, n), q[(h + n) % QUEUE_SIZE])
<1> USE QueueAssumption
<1> DEFINE r == q[(h + n) % QUEUE_SIZE]
           s == Ring(q, h, n + 1)
           u == Append(Ring(q, h, n), r)
<1>1. (h + n) % QUEUE_SIZE \in Slot /\ r \in Record \cup {Blank}
  BY StoredRecords DEF Slot, Slots
<1>2. n \in 0..QUEUE_SIZE /\ n + 1 \in 0..QUEUE_SIZE /\ n \in Nat
  OBVIOUS
<1>3. s \in Seq(Record \cup {Blank}) /\ Len(s) = n + 1
      /\ \A i \in 1..n + 1 : s[i] = q[(h + i - 1) % QUEUE_SIZE]
  BY <1>2, RingSeq
<1>4. Ring(q, h, n) \in Seq(Record \cup {Blank}) /\ Len(Ring(q, h, n)) = n
      /\ \A i \in 1..n : Ring(q, h, n)[i] = q[(h + i - 1) % QUEUE_SIZE]
  BY <1>2, RingSeq
<1>5. u \in Seq(Record \cup {Blank}) /\ Len(u) = n + 1
      /\ (\A i \in 1..n : u[i] = Ring(q, h, n)[i]) /\ u[n + 1] = r
  BY <1>1, <1>4, AppendProperties
<1>6. ASSUME NEW i \in 1..n + 1 PROVE s[i] = u[i]
  <2>1. CASE i \in 1..n
    BY <2>1, <1>3, <1>4, <1>5
  <2>2. CASE i = n + 1
    <3>1. h + i - 1 = h + n
      BY <2>2, <1>2 DEF Slot
    <3>2. s[i] = q[(h + i - 1) % QUEUE_SIZE] /\ u[i] = r
      BY <2>2, <1>3, <1>5
    <3>3. QED
      BY <3>1, <3>2
  <2>3. i \in 1..n \/ i = n + 1
    BY <1>2
  <2>4. QED
    BY <2>1, <2>2, <2>3
<1>7. QED
  BY <1>3, <1>5, <1>6, SeqEqual

\* Going on from the next slot takes the first record away.
LEMMA RingShrink ==
  ASSUME NEW q \in Slots, NEW h \in Slot, NEW n \in 1..QUEUE_SIZE
  PROVE  /\ Ring(q, h, n) # <<>>
         /\ Head(Ring(q, h, n)) = q[h]
         /\ Ring(q, (h + 1) % QUEUE_SIZE, n - 1) = Tail(Ring(q, h, n))
<1> USE QueueAssumption
<1> DEFINE s == Ring(q, h, n)
           u == Ring(q, (h + 1) % QUEUE_SIZE, n - 1)
<1>1. n \in 0..QUEUE_SIZE /\ n - 1 \in 0..QUEUE_SIZE /\ (h + 1) % QUEUE_SIZE \in Slot
  BY DEF Slot
<1>2. s \in Seq(Record \cup {Blank}) /\ Len(s) = n
      /\ \A i \in 1..n : s[i] = q[(h + i - 1) % QUEUE_SIZE]
  BY <1>1, RingSeq
<1>3. u \in Seq(Record \cup {Blank}) /\ Len(u) = n - 1
      /\ \A i \in 1..n - 1 : u[i] = q[(((h + 1) % QUEUE_SIZE) + i - 1) % QUEUE_SIZE]
  BY <1>1, RingSeq
<1>4. s # <<>>
  BY <1>2
<1>5. Head(s) = q[h]
  <2>1. h + 1 - 1 = h /\ h % QUEUE_SIZE = h
    BY DEF Slot
  <2>2. s[1] = q[h]
    BY <1>2, <2>1
  <2>3. QED
    BY <1>2, <1>4, <2>2
<1>6. Tail(s) \in Seq(Record \cup {Blank}) /\ Len(Tail(s)) = n - 1
      /\ \A i \in 1..n - 1 : Tail(s)[i] = s[i + 1]
  BY <1>2, <1>4, HeadTailProperties
<1>7. ASSUME NEW i \in 1..n - 1 PROVE u[i] = Tail(s)[i]
  <2>1. i - 1 \in 0..QUEUE_SIZE - 1 /\ i + 1 \in 1..n
    OBVIOUS
  <2>2. (((h + 1) % QUEUE_SIZE) + (i - 1)) % QUEUE_SIZE = (h + ((i - 1) + 1)) % QUEUE_SIZE
    BY <2>1, NextSlot DEF Slot
  <2>3. ((h + 1) % QUEUE_SIZE) + (i - 1) = ((h + 1) % QUEUE_SIZE) + i - 1
    BY <1>1 DEF Slot
  <2>4. h + ((i - 1) + 1) = h + (i + 1) - 1
    BY DEF Slot
  <2>5. u[i] = q[(((h + 1) % QUEUE_SIZE) + i - 1) % QUEUE_SIZE]
    BY <1>3
  <2>6. Tail(s)[i] = s[i + 1] /\ s[i + 1] = q[(h + (i + 1) - 1) % QUEUE_SIZE]
    BY <1>2, <1>6, <2>1
  <2>7. QED
    BY <2>2, <2>3, <2>4, <2>5, <2>6
<1>8. QED
  BY <1>3, <1>4, <1>5, <1>6, <1>7, SeqEqual
-----------------------------------------------------------------------------
(***************************************************************************)
(* What a call shows in the queue, when calls do not overlap.              *)
(***************************************************************************)
\* What a call of enqueue() under way has found and done.
SlotInv ==
  /\ queue_num <= QUEUE_SIZE
  /\ \A t \in Task : InEnqueue(t) =>
       /\ queue_num < QUEUE_SIZE
       /\ log_msg[t] \in Record
       /\ pc[t] = "copy" => slot[t] = TailSlot(queue_num)
       /\ pc[t] \in {"load", "store"} => test_queue[TailSlot(queue_num)] = log_msg[t]

\* A step of a task keeps it: the slot written is the one behind the last record.
LEMMA TaskSlots ==
  ASSUME ~Overlap, TypeOK, SerialInv, SlotInv, NEW t \in Task, AuditLogEnd(t)
  PROVE  SlotInv'
<1> USE QueueAssumption DEF TypeOK, SerialInv, OneCall, SlotInv, InEnqueue, TailSlot, ringVars
<1>1. CASE EnqueueCheck(t)
  <2>1. PICK l \in RecLen : log_msg' = [log_msg EXCEPT ![t] = [id |-> serial, len |-> l]]
    BY <1>1 DEF EnqueueCheck
  <2>2. log_msg'[t] \in Record
    BY <1>1, <2>1 DEF EnqueueCheck, Record
  <2>3. QED
    BY <1>1, <2>1, <2>2 DEF EnqueueCheck, MayEnter, HasRoom
<1>2. CASE EnqueueIndex(t)
  BY <1>2 DEF EnqueueIndex
<1>3. CASE EnqueueCopy(t)
  BY <1>3 DEF EnqueueCopy
<1>4. CASE EnqueueLoad(t)
  BY <1>4 DEF EnqueueLoad
<1>5. CASE EnqueueStore(t)
  BY <1>5 DEF EnqueueStore
<1>6. CASE AuditLogWake(t)
  BY <1>6 DEF AuditLogWake
<1>7. CASE EnqueueOverrun(t)
  BY <1>7 DEF EnqueueOverrun
<1>8. QED
  BY <1>1, <1>2, <1>3, <1>4, <1>5, <1>6, <1>7 DEF AuditLogEnd

\* A step of kauditd keeps it: no call of enqueue() is under way when it moves
\* queue_head or queue_num.
LEMMA KauditdSlots ==
  ASSUME TypeOK, SerialInv, SlotInv, Kauditd
  PROVE  SlotInv'
<1> USE DEF TypeOK, SerialInv, OneCall, SlotInv, InEnqueue, InDequeue, TailSlot,
            taskVars, ringVars
<1>1. CASE DequeueHead
  BY <1>1 DEF DequeueHead
<1>2. CASE DequeueStore
  BY <1>2, QueueAssumption DEF DequeueStore
<1>3. CASE UNCHANGED <<taskVars, ringVars>>
  BY <1>3
<1>4. QED
  BY <1>1, <1>2, <1>3
  DEF Kauditd, KauditdWake, KauditdCheck, StartBatch, SessionFails, DequeueCheck,
      DequeueCopy, DequeueLoad, LoopAppend, LoopEnd, InvokeSucceeds, InvokeFails

\* Of what a task does, only the store to queue_num is seen in the queue.
LEMMA TaskContents ==
  ASSUME ~Overlap, TypeOK, SerialInv, SlotInv, NEW t \in Task, AuditLogEnd(t)
  PROVE  IF pc[t] = "store" THEN Contents' = Append(Contents, log_msg[t])
                            ELSE Contents' = Contents
<1> USE QueueAssumption DEF TypeOK
<1>1. InEnqueue(t) => OutHead = queue_head /\ InQueue = queue_num
  BY DEF SerialInv, OneCall, InDequeue, OutHead, InQueue
<1>2. CASE EnqueueCopy(t)
  <2>1. /\ OutHead = queue_head /\ InQueue = queue_num
        /\ slot[t] = (queue_head + queue_num) % QUEUE_SIZE
    BY <1>1, <1>2 DEF EnqueueCopy, InEnqueue, SlotInv, TailSlot
  <2>2. OutHead' = queue_head /\ InQueue' = queue_num
    BY <1>2, <2>1 DEF EnqueueCopy, OutHead, InQueue, NextHead
  <2>3. test_queue \in Slots /\ queue_head \in Slot /\ queue_num \in 0..QUEUE_SIZE - 1
        /\ log_msg[t] \in Record \cup {Blank}
    BY <1>2 DEF EnqueueCopy, InEnqueue, SlotInv, Slots
  <2>4. Contents' = Contents
    <3>1. test_queue' = [test_queue EXCEPT ![(queue_head + queue_num) % QUEUE_SIZE] = log_msg[t]]
      BY <1>2, <2>1 DEF EnqueueCopy
    <3>2. Ring(test_queue', queue_head, queue_num) = Ring(test_queue, queue_head, queue_num)
      BY <3>1, <2>3, RingWrite
    <3>3. QED
      BY <2>1, <2>2, <3>2 DEF Contents
  <2>5. QED
    BY <1>2, <2>4 DEF EnqueueCopy
<1>3. CASE EnqueueStore(t)
  <2>1. /\ OutHead = queue_head /\ InQueue = queue_num
        /\ test_queue[(queue_head + queue_num) % QUEUE_SIZE] = log_msg[t]
        /\ reg[t] = queue_num /\ ~InDequeue
    BY <1>1, <1>3 DEF EnqueueStore, InEnqueue, SlotInv, TailSlot, SerialInv, OneCall
  <2>2. OutHead' = queue_head /\ InQueue' = queue_num + 1
    BY <1>3, <2>1 DEF EnqueueStore, OutHead, InQueue, NextHead, InDequeue
  <2>3. test_queue \in Slots /\ queue_head \in Slot /\ queue_num \in 0..QUEUE_SIZE - 1
    BY <1>3 DEF EnqueueStore, InEnqueue, SlotInv, Slots
  <2>4. Contents' = Append(Contents, log_msg[t])
    BY <1>3, <2>1, <2>2, <2>3, RingGrow DEF EnqueueStore, Contents
  <2>5. QED
    BY <1>3, <2>4 DEF EnqueueStore
<1>4. CASE EnqueueCheck(t) \/ EnqueueIndex(t) \/ EnqueueOverrun(t) \/ EnqueueLoad(t)
           \/ AuditLogWake(t)
  <2>1. pc[t] # "store" /\ UNCHANGED <<ringVars, kpc>>
    BY <1>4 DEF EnqueueCheck, EnqueueIndex, EnqueueOverrun, EnqueueLoad, AuditLogWake
  <2>2. QED
    BY <2>1 DEF Contents, OutHead, InQueue, NextHead, ringVars
<1>5. QED
  BY <1>2, <1>3, <1>4 DEF AuditLogEnd

\* Of what kauditd does, only the copy out of a slot is seen in the queue.
LEMMA KauditdContents ==
  ASSUME RaceInv, SerialInv, SlotInv, Kauditd
  PROVE  IF kpc = "copy"
           THEN Contents # <<>> /\ Contents' = Tail(Contents) /\ event_log' = Head(Contents)
           ELSE Contents' = Contents /\ event_log' = event_log
<1> USE QueueAssumption DEF TypeOK
<1>0. TypeOK
  BY DEF RaceInv
<1>1. CASE DequeueCopy
  <2>1. OutHead = queue_head /\ InQueue = queue_num /\ OutHead' = (queue_head + 1) % QUEUE_SIZE
        /\ InQueue' = queue_num - 1
    BY <1>1 DEF DequeueCopy, OutHead, InQueue, NextHead, ringVars
  <2>2. test_queue \in Slots /\ queue_head \in Slot /\ queue_num \in 1..QUEUE_SIZE
    BY <1>0, <1>1 DEF DequeueCopy, RaceInv, SeenNonEmpty, SlotInv, Slots
  <2>3. Contents # <<>> /\ Contents' = Tail(Contents) /\ event_log' = Head(Contents)
    BY <1>1, <2>1, <2>2, RingShrink DEF DequeueCopy, Contents, ringVars
  <2>4. QED
    BY <1>1, <2>3 DEF DequeueCopy
<1>2. CASE DequeueHead
  BY <1>2 DEF DequeueHead, Contents, OutHead, InQueue, NextHead, batchVars
<1>3. CASE DequeueStore
  <2>1. InQueue' = InQueue /\ OutHead' = OutHead
    BY <1>0, <1>3 DEF DequeueStore, SerialInv, OneCall, InDequeue, InQueue, OutHead
  <2>2. QED
    BY <1>3, <2>1 DEF DequeueStore, Contents, batchVars
<1>4. CASE UNCHANGED <<ringVars, event_log>> /\ kpc \notin {"copy", "head", "store"}
           /\ (kpc = "load" <=> kpc' = "store") /\ kpc' \notin {"head", "load"}
  BY <1>4 DEF Contents, OutHead, InQueue, NextHead, ringVars
<1>5. QED
  BY <1>1, <1>2, <1>3, <1>4
  DEF Kauditd, KauditdWake, KauditdCheck, StartBatch, SessionFails, DequeueCheck,
      DequeueLoad, LoopAppend, LoopEnd, InvokeSucceeds, InvokeFails, batchVars

RingInv == RaceInv /\ SerialInv /\ SlotInv

\* These are invariants as long as calls do not overlap.
LEMMA RingInvariance ==
  ASSUME ~Overlap
  PROVE  Spec => []RingInv
<1>1. Init => SerialInv /\ SlotInv
  BY QueueAssumption
  DEF Init, SerialInv, OneCall, FirstOfMany, LengthAssigned, SlotInv, InEnqueue, InDequeue
<1>2. RaceInv => TypeOK
  BY DEF RaceInv
<1>3. RingInv /\ [Next]_vars => RingInv'
  <2>1. ASSUME RingInv, UNCHANGED vars PROVE RingInv'
    <3>1. RaceInv'
      BY <2>1, StutterRace DEF RingInv
    <3>2. SerialInv'
      BY <2>1 DEF RingInv, SerialInv, OneCall, FirstOfMany, LengthAssigned, InEnqueue,
                  InDequeue, vars, taskVars, ringVars, batchVars
    <3>3. SlotInv'
      BY <2>1 DEF RingInv, SlotInv, InEnqueue, TailSlot, vars, taskVars, ringVars
    <3>4. QED
      BY <3>1, <3>2, <3>3 DEF RingInv
  <2>2. QED
    BY <2>1, <1>2, TaskRace, KauditdRace, TaskSerial, KauditdSerial, TaskSlots, KauditdSlots
    DEF Next, RingInv
<1>4. QED
  BY InitRace, <1>1, <1>3, PTL DEF Spec, RingInv

\* Every step of the ring buffer puts a record, takes one, or does not show.
LEMMA StepIsFifoStep ==
  ASSUME ~Overlap, RingInv, [Next]_vars
  PROVE  [Fifo!FifoNext]_(Fifo!fifoVars)
<1> USE DEF Fifo!FifoNext, Fifo!fifoVars
<1>1. TypeOK /\ RaceInv /\ SerialInv /\ SlotInv
  BY DEF RingInv, RaceInv
<1>2. CASE \E t \in Task : AuditLogEnd(t)
  <2>1. PICK t \in Task : AuditLogEnd(t)
    BY <1>2
  <2>2. event_log' = event_log
    BY <2>1 DEF AuditLogEnd, EnqueueCheck, EnqueueIndex, EnqueueCopy, EnqueueOverrun, EnqueueLoad,
                EnqueueStore, AuditLogWake, batchVars
  <2>3. CASE pc[t] = "store"
    <3>1. Contents' = Append(Contents, log_msg[t])
      BY <1>1, <2>1, <2>3, TaskContents
    <3>2. log_msg[t] \in Record /\ queue_num < QUEUE_SIZE /\ InQueue = queue_num
      BY <1>1, <2>3 DEF SlotInv, InEnqueue, SerialInv, OneCall, InDequeue, InQueue
    <3>3. Len(Contents) = queue_num
      BY <1>1, <3>2 DEF Contents, Ring, TypeOK
    <3>4. Fifo!Put
      BY <2>2, <3>1, <3>2, <3>3 DEF Fifo!Put, Contents, Ring
    <3>5. QED
      BY <3>4
  <2>4. CASE pc[t] # "store"
    BY <1>1, <2>1, <2>2, <2>4, TaskContents DEF Contents, Ring
  <2>5. QED
    BY <2>3, <2>4
<1>3. CASE Kauditd
  <2>1. CASE kpc = "copy"
    <3>1. Contents # <<>> /\ Contents' = Tail(Contents) /\ event_log' = Head(Contents)
      BY <1>1, <1>3, <2>1, KauditdContents
    <3>2. Fifo!Take
      BY <3>1 DEF Fifo!Take, Contents, Ring
    <3>3. QED
      BY <3>2
  <2>2. CASE kpc # "copy"
    BY <1>1, <1>3, <2>2, KauditdContents DEF Contents, Ring
  <2>3. QED
    BY <2>1, <2>2
<1>4. CASE UNCHANGED vars
  BY <1>4 DEF vars, ringVars, batchVars, OutHead, InQueue, NextHead
<1>5. QED
  BY <1>2, <1>3, <1>4 DEF Next

\* As long as calls do not overlap, test_queue with queue_head and queue_num is a
\* first-in first-out queue of QUEUE_SIZE records, for every size: the indices
\* wrap, enqueue() refuses a record only when it is full, and dequeue() gives the
\* oldest.
THEOREM RingIsFifo ==
  ASSUME ~Overlap
  PROVE  Spec => ImplementsFifo
<1>1. Init => Fifo!FifoInit
  BY DEF Init, Fifo!FifoInit, InQueue
<1>2. RingInv /\ [Next]_vars => [Fifo!FifoNext]_(Fifo!fifoVars)
  BY StepIsFifoStep
<1>3. QED
  BY <1>1, <1>2, RingInvariance, PTL DEF Spec, ImplementsFifo, Fifo!FifoSpec
-----------------------------------------------------------------------------
(***************************************************************************)
(* The loop of a batch ends by the limit and not by an empty queue, so     *)
(* that no record is dropped at its end.                                   *)
(***************************************************************************)
\* The records waiting, and the one in kauditd's hand, have been written.
Holding == kpc \in {"head", "load", "store", "loop"}

WrittenInv == Contents \in Seq(Record) /\ (Holding => event_log \in Record)

\* Only records are put, and what is taken was put.
LEMMA StepWritten ==
  ASSUME ~Overlap, RingInv, WrittenInv, [Next]_vars
  PROVE  WrittenInv'
<1>1. TypeOK /\ RaceInv /\ SerialInv /\ SlotInv
  BY DEF RingInv, RaceInv
<1>2. CASE \E t \in Task : AuditLogEnd(t)
  <2>1. PICK t \in Task : AuditLogEnd(t)
    BY <1>2
  <2>2. UNCHANGED <<event_log, kpc>>
    BY <2>1 DEF AuditLogEnd, EnqueueCheck, EnqueueIndex, EnqueueCopy, EnqueueOverrun, EnqueueLoad,
                EnqueueStore, AuditLogWake, batchVars
  <2>3. pc[t] = "store" => log_msg[t] \in Record
    BY <1>1 DEF SlotInv, InEnqueue
  <2>4. Contents' \in Seq(Record)
    BY <1>1, <2>1, <2>3, TaskContents, AppendProperties DEF WrittenInv
  <2>5. QED
    BY <2>2, <2>4 DEF WrittenInv, Holding
<1>3. CASE Kauditd
  <2>1. CASE kpc = "copy"
    <3>1. Contents # <<>> /\ Contents' = Tail(Contents) /\ event_log' = Head(Contents)
      BY <1>1, <1>3, <2>1, KauditdContents
    <3>2. Contents' \in Seq(Record) /\ event_log' \in Record
      BY <3>1, HeadTailProperties DEF WrittenInv
    <3>3. QED
      BY <3>2 DEF WrittenInv
  <2>2. CASE kpc # "copy"
    <3>1. Contents' = Contents /\ event_log' = event_log
      BY <1>1, <1>3, <2>2, KauditdContents
    <3>2. Holding' => Holding
      BY <1>1, <1>3, <2>2
      DEF Kauditd, KauditdWake, KauditdCheck, StartBatch, SessionFails, DequeueCheck,
          DequeueCopy, DequeueHead, DequeueLoad, DequeueStore, LoopAppend, LoopEnd,
          InvokeSucceeds, InvokeFails, Holding, RaceInv, SeenNonEmpty
    <3>3. QED
      BY <3>1, <3>2 DEF WrittenInv
  <2>3. QED
    BY <2>1, <2>2
<1>4. CASE UNCHANGED vars
  BY <1>4 DEF WrittenInv, Holding, Contents, OutHead, InQueue, NextHead, vars, ringVars, batchVars
<1>5. QED
  BY <1>2, <1>3, <1>4 DEF Next

\* The length of the shortest record.
MinLen == CHOOSE m \in RecLen : \A l \in RecLen : m <= l

\* There is one.
LEMMA ShortestRecord == MinLen \in Nat /\ MinLen \in RecLen /\ \A l \in RecLen : MinLen <= l
<1>1. RecLen \subseteq Nat /\ RecLen # {}
  BY QueueAssumption
<1>2. \E a \in RecLen : \A y \in RecLen : ~(<<y, a>> \in OpToRel(<, Nat))
  BY <1>1, NatLessThanWellFounded, WFMin
<1>3. PICK a \in RecLen : \A y \in RecLen : ~(y < a)
  BY <1>1, <1>2 DEF OpToRel
<1>4. \A y \in RecLen : a <= y
  BY <1>1, <1>3
<1>5. QED
  BY <1>1, <1>4 DEF MinLen

\* The records of a batch are at least as long as as many of the shortest, and
\* with those still in the queue they make up the number that triggered it.
GrowsInv ==
  InBatch =>
    /\ log_msg_len = NoLen <=> Len(summary_log) = 0
    /\ Len(summary_log) > 0 => log_msg_len >= Len(summary_log) * (MinLen + 1)
    /\ kpc # "loop" => queue_num + Len(summary_log) >= SEND_THRESHOLD
    /\ kpc = "loop" => /\ kreg + Len(summary_log) + 1 >= SEND_THRESHOLD
                       /\ queue_num + Len(summary_log) + 1 >= SEND_THRESHOLD

\* The loop is not left because the queue is empty: so many records pass the limit.
LEMMA LimitPassedFirst ==
  ASSUME RingInv, GrowsInv, kpc = "loop"
  PROVE  kreg > 0 /\ queue_num > 0
<1> DEFINE k == Len(summary_log)
<1>1. kreg \in Nat /\ queue_num \in Nat /\ k \in Nat /\ log_msg_len \in Nat \cup {NoLen}
  BY DEF RingInv, RaceInv, TypeOK
<1>2. SUFFICES ASSUME k + 1 >= SEND_THRESHOLD PROVE FALSE
  BY <1>1, QueueAssumption DEF GrowsInv, InBatch
<1>3. k > 0 /\ log_msg_len >= k * (MinLen + 1)
  BY <1>1, <1>2, TwoRecords DEF GrowsInv, InBatch
<1>4. log_msg_len <= SUMMARY_LIMIT
  BY DEF RingInv, RaceInv, BelowLimit, InBatch
<1>5. (SEND_THRESHOLD - 1) * (MinLen + 1) > SUMMARY_LIMIT
  BY ShortestRecord, ThresholdAssumption
<1>6. \A a, b, c \in Nat : a <= b => a * c <= b * c
  OBVIOUS
<1>7. (SEND_THRESHOLD - 1) * (MinLen + 1) <= k * (MinLen + 1)
  <2>1. SEND_THRESHOLD - 1 \in Nat /\ MinLen + 1 \in Nat /\ SEND_THRESHOLD - 1 <= k
    BY <1>1, <1>2, TwoRecords, ShortestRecord
  <2>2. QED
    BY <1>1, <1>6, <2>1
<1>8. (SEND_THRESHOLD - 1) * (MinLen + 1) \in Int /\ k * (MinLen + 1) \in Int
      /\ SUMMARY_LIMIT \in Int /\ log_msg_len \in Int
  BY <1>1, TwoRecords, ShortestRecord, QueueAssumption DEF NoLen
<1>9. QED
  BY <1>3, <1>4, <1>5, <1>7, <1>8

\* Each round takes one record from the queue and adds it to the batch.
LEMMA StepGrows ==
  ASSUME ~Overlap, RingInv, WrittenInv, GrowsInv, [Next]_vars
  PROVE  GrowsInv'
<1>1. TypeOK /\ RaceInv /\ SerialInv
  BY DEF RingInv, RaceInv
<1>2. Len(summary_log) \in Nat
  BY <1>1 DEF TypeOK
<1> USE <1>1, <1>2, QueueAssumption DEF TypeOK, InBatch
<1>3. ASSUME NEW t \in Task, AuditLogEnd(t) PROVE GrowsInv'
  <2>1. UNCHANGED <<batchVars, kpc, kreg>>
    BY <1>3 DEF AuditLogEnd, EnqueueCheck, EnqueueIndex, EnqueueCopy, EnqueueOverrun, EnqueueLoad,
                EnqueueStore, AuditLogWake
  <2>2. queue_num' \in Nat /\ queue_num' >= queue_num
    BY <1>3 DEF AuditLogEnd, EnqueueCheck, EnqueueIndex, EnqueueCopy, EnqueueOverrun, EnqueueLoad,
                EnqueueStore, AuditLogWake, ringVars, SerialInv, OneCall, InEnqueue
  <2>3. QED
    BY <2>1, <2>2 DEF GrowsInv, batchVars
<1>4. CASE StartBatch
  BY <1>4 DEF StartBatch, GrowsInv, SerialInv, FirstOfMany, ringVars
<1>5. CASE DequeueCheck
  BY <1>5 DEF DequeueCheck, GrowsInv, RaceInv, SeenNonEmpty, ringVars, batchVars
<1>6. CASE DequeueCopy \/ DequeueHead \/ DequeueLoad
  BY <1>6 DEF DequeueCopy, DequeueHead, DequeueLoad, GrowsInv, ringVars, batchVars
<1>7. CASE DequeueStore
  BY <1>7 DEF DequeueStore, GrowsInv, SerialInv, OneCall, InDequeue, batchVars
<1>8. CASE LoopAppend
  <2> DEFINE k == Len(summary_log)
  <2>1. Len(summary_log') = k + 1
    BY <1>8 DEF LoopAppend
  <2>2. event_log.len \in Nat /\ event_log.len >= MinLen /\ MinLen \in Nat
    BY <1>8, ShortestRecord DEF LoopAppend, WrittenInv, Holding, Record
  <2>3. NewLen \in Nat /\ NewLen >= (k + 1) * (MinLen + 1)
    <3>1. CASE k = 0
      BY <1>8, <2>2, <3>1 DEF NewLen, LoopAppend, GrowsInv
    <3>2. CASE k > 0
      <4>1. log_msg_len \in Nat /\ log_msg_len # NoLen /\ log_msg_len >= k * (MinLen + 1)
        BY <1>8, <3>2 DEF LoopAppend, GrowsInv
      <4>2. k * (MinLen + 1) \in Int
            /\ (k + 1) * (MinLen + 1) = k * (MinLen + 1) + (MinLen + 1)
        BY <2>2
      <4>3. QED
        BY <2>2, <4>1, <4>2 DEF NewLen
    <3>3. QED
      BY <3>1, <3>2
  <2>4. queue_num' = queue_num /\ queue_num + k + 1 >= SEND_THRESHOLD
    BY <1>8 DEF LoopAppend, GrowsInv, ringVars
  <2>5. QED
    BY <1>8, <2>1, <2>3, <2>4 DEF LoopAppend, GrowsInv, NoLen
<1>9. CASE ~InBatch'
  BY <1>9 DEF GrowsInv
<1>10. CASE UNCHANGED vars
  BY <1>10 DEF GrowsInv, vars, ringVars, batchVars
<1>11. QED
  BY <1>3, <1>4, <1>5, <1>6, <1>7, <1>8, <1>9, <1>10
  DEF Next, Kauditd, KauditdWake, KauditdCheck, SessionFails, LoopEnd,
      InvokeSucceeds, InvokeFails
-----------------------------------------------------------------------------
(***************************************************************************)
(* The order of the records.                                               *)
(***************************************************************************)
IdsOf(q) == {q[i].id : i \in DOMAIN q}
Increasing(q) == \A i, j \in DOMAIN q : i < j => q[i].id < q[j].id
Below(S, T) == \A x \in S, y \in T : x < y

AnyRecord == Record \cup {Blank}

\* Appending a record that is later than all of a sequence.
LEMMA AppendIds ==
  ASSUME NEW q \in Seq(AnyRecord), NEW r \in AnyRecord
  PROVE  /\ IdsOf(Append(q, r)) = IdsOf(q) \cup {r.id}
         /\ Increasing(q) /\ Below(IdsOf(q), {r.id}) => Increasing(Append(q, r))
<1> DEFINE a == Append(q, r)
<1>1. /\ Len(q) \in Nat /\ DOMAIN q = 1..Len(q) /\ DOMAIN a = 1..Len(q) + 1
      /\ (\A i \in 1..Len(q) : a[i] = q[i]) /\ a[Len(q) + 1] = r
  BY AppendProperties, LenProperties
<1>2. IdsOf(a) = IdsOf(q) \cup {r.id}
  BY <1>1 DEF IdsOf
<1>3. ASSUME Increasing(q), Below(IdsOf(q), {r.id}), NEW i \in DOMAIN a, NEW j \in DOMAIN a, i < j
      PROVE  a[i].id < a[j].id
  <2>1. i \in 1..Len(q) /\ a[i] = q[i] /\ q[i].id \in IdsOf(q)
    BY <1>1, <1>3 DEF IdsOf
  <2>2. CASE j \in 1..Len(q)
    BY <1>1, <1>3, <2>1, <2>2 DEF Increasing
  <2>3. CASE j = Len(q) + 1
    BY <1>1, <1>3, <2>1, <2>3 DEF Below
  <2>4. QED
    BY <1>1, <2>2, <2>3
<1>4. QED
  BY <1>2, <1>3 DEF Increasing

\* Taking the first of an increasing sequence.
LEMMA TailIds ==
  ASSUME NEW q \in Seq(AnyRecord), q # <<>>
  PROVE  /\ IdsOf(q) = IdsOf(Tail(q)) \cup {Head(q).id}
         /\ Increasing(q) => Increasing(Tail(q)) /\ Below({Head(q).id}, IdsOf(Tail(q)))
<1> DEFINE u == Tail(q)
<1>1. /\ Len(q) \in Nat \ {0} /\ DOMAIN q = 1..Len(q) /\ DOMAIN u = 1..Len(q) - 1
      /\ \A i \in 1..Len(q) - 1 : u[i] = q[i + 1]
  BY HeadTailProperties, LenProperties, EmptySeq
<1>2. Head(q) = q[1]
  OBVIOUS
<1>3. IdsOf(q) = IdsOf(u) \cup {q[1].id}
  <2>1. ASSUME NEW i \in 1..Len(q) PROVE q[i].id \in IdsOf(u) \cup {q[1].id}
    <3>1. CASE i = 1
      BY <3>1
    <3>2. CASE i # 1
      <4>1. i - 1 \in 1..Len(q) - 1 /\ u[i - 1] = q[i]
        BY <1>1, <3>2
      <4>2. QED
        BY <1>1, <4>1 DEF IdsOf
    <3>3. QED
      BY <3>1, <3>2
  <2>2. ASSUME NEW i \in 1..Len(q) - 1 PROVE u[i].id \in IdsOf(q)
    BY <1>1 DEF IdsOf
  <2>3. q[1].id \in IdsOf(q)
    BY <1>1 DEF IdsOf
  <2>4. QED
    BY <1>1, <2>1, <2>2, <2>3 DEF IdsOf
<1>4. ASSUME Increasing(q) PROVE Increasing(u)
  BY <1>1, <1>4 DEF Increasing
<1>5. ASSUME Increasing(q) PROVE Below({q[1].id}, IdsOf(u))
  BY <1>1, <1>5 DEF Increasing, Below, IdsOf
<1>6. QED
  BY <1>2, <1>3, <1>4, <1>5

(***************************************************************************)
(* A record goes from the new ones (N) to those waiting (W), to kauditd's  *)
(* hand (H), to the batch (B) and to the past (P), and each of these is    *)
(* later than the ones after it on this way.                               *)
(***************************************************************************)
Chain(P, B, H, W, N) ==
  /\ P \subseteq Nat /\ B \subseteq Nat /\ H \subseteq Nat /\ W \subseteq Nat /\ N \subseteq Nat
  /\ Below(P, B) /\ Below(P, H) /\ Below(P, W) /\ Below(P, N)
  /\ Below(B, H) /\ Below(B, W) /\ Below(B, N)
  /\ Below(H, W) /\ Below(H, N)
  /\ Below(W, N)

\* A chain stays one when new records are later than the newest, and when a
\* record moves on.
LEMMA ChainMoves ==
  ASSUME NEW P, NEW B, NEW H, NEW W, NEW N, Chain(P, B, H, W, N)
  PROVE  /\ \A s \in N, M \in SUBSET Nat : (\A y \in M : s <= y) => Chain(P, B, H, W, M)
         /\ \A s, x \in N : x < s => Chain(P, B, H, W \cup {x}, {s})
         /\ \A x \in W : \A V \in SUBSET W : H = {} /\ Below({x}, V) => Chain(P, B, {x}, V, N)
         /\ Chain(P, B \cup H, {}, W, N)
         /\ H = {} => Chain(P \cup B, {}, {}, W, N)
<1> USE DEF Chain, Below
<1>1. ASSUME NEW s \in N, NEW M \in SUBSET Nat, \A y \in M : s <= y
      PROVE  Chain(P, B, H, W, M)
  BY <1>1
<1>2. ASSUME NEW s \in N, NEW x \in N, x < s PROVE Chain(P, B, H, W \cup {x}, {s})
  BY <1>2
<1>3. ASSUME NEW x \in W, NEW V \in SUBSET W, H = {}, Below({x}, V)
      PROVE  Chain(P, B, {x}, V, N)
  BY <1>3
<1>4. Chain(P, B \cup H, {}, W, N)
  OBVIOUS
<1>5. ASSUME H = {} PROVE Chain(P \cup B, {}, {}, W, N)
  BY <1>5
<1>6. QED
  BY <1>1, <1>2, <1>3, <1>4, <1>5

\* The five sets.  Every accepted record is in one of the last four.
Past     == sent \cup failed
Batching == kpc \notin {"wait", "check", "session"}
BatchNow == IF Batching THEN BatchIds ELSE {}
HandNow  == IF Holding THEN {event_log.id} ELSE {}
WaitNow  == IdsOf(Contents)
NewNow   == {serial} \cup {log_msg[t].id : t \in {u \in Task : InEnqueue(u)}}

OrderInv ==
  /\ Chain(Past, BatchNow, HandNow, WaitNow, NewNow)
  /\ \A t \in Task : InEnqueue(t) => log_msg[t].id < serial
  /\ Increasing(Contents)
  /\ Batching => Increasing(summary_log)
  /\ accepted \subseteq Past \cup BatchNow \cup HandNow \cup WaitNow

SerialRingInv == RingInv /\ WrittenInv /\ GrowsInv /\ OrderInv

\* A task puts a record at the end, later than all that came before.
LEMMA TaskOrder ==
  ASSUME ~Overlap, RingInv, WrittenInv, OrderInv, NEW t \in Task, AuditLogEnd(t)
  PROVE  OrderInv'
<1>1. TypeOK /\ RaceInv /\ SerialInv /\ SlotInv
  BY DEF RingInv, RaceInv
<1>2. UNCHANGED <<Past, BatchNow, HandNow, Batching, summary_log>>
  <2>1. UNCHANGED <<sent, failed, kpc, summary_log, event_log>>
    BY DEF AuditLogEnd, EnqueueCheck, EnqueueIndex, EnqueueCopy, EnqueueOverrun, EnqueueLoad,
           EnqueueStore, AuditLogWake, batchVars, histVars
  <2>2. QED
    BY <2>1 DEF Past, BatchNow, HandNow, Batching, Holding, BatchIds
<1>3. CASE EnqueueStore(t)
  <2> DEFINE x == log_msg[t].id
  <2>1. Contents' = Append(Contents, log_msg[t])
    BY <1>1, <1>3, TaskContents DEF EnqueueStore
  <2>2. InEnqueue(t) /\ \A u \in Task : InEnqueue(u) => u = t
    BY <1>1, <1>3 DEF EnqueueStore, InEnqueue, SerialInv, OneCall
  <2>3. log_msg[t] \in AnyRecord /\ Contents \in Seq(AnyRecord)
    BY <1>1, SeqMonotonic DEF TypeOK, AnyRecord, WrittenInv
  <2>4. x \in NewNow /\ serial \in NewNow /\ x < serial
    BY <2>2 DEF NewNow, OrderInv
  <2>5. NewNow' = {serial} /\ ~InEnqueue(t)' /\ UNCHANGED <<log_msg, serial>>
    BY <1>1, <1>3, <2>2 DEF EnqueueStore, NewNow, InEnqueue, TypeOK
  <2>6. Below(WaitNow, {x})
    BY <2>4 DEF OrderInv, Chain, Below
  <2>7. WaitNow' = WaitNow \cup {x} /\ Increasing(Contents')
    BY <2>1, <2>3, <2>6, AppendIds DEF WaitNow, OrderInv
  <2>8. Chain(Past, BatchNow, HandNow, WaitNow \cup {x}, {serial})
    BY <2>4, ChainMoves DEF OrderInv
  <2>9. accepted' = accepted \cup {x}
    BY <1>3 DEF EnqueueStore
  <2>10. \A u \in Task : ~InEnqueue(u)'
    BY <1>1, <1>3, <2>2 DEF EnqueueStore, InEnqueue, TypeOK
  <2>11. QED
    BY <1>2, <2>5, <2>7, <2>8, <2>9, <2>10 DEF OrderInv
<1>4. CASE EnqueueCheck(t)
  <2>1. Contents' = Contents /\ accepted' = accepted
    BY <1>1, <1>4, TaskContents DEF EnqueueCheck, histVars
  <2>2. \A u \in Task : ~InEnqueue(u)
    BY <1>4 DEF EnqueueCheck, MayEnter
  <2>3. serial \in Nat /\ serial' = serial + 1 /\ log_msg'[t].id = serial
    BY <1>1, <1>4 DEF EnqueueCheck, TypeOK
  <2>4. \A u \in Task : InEnqueue(u)' => u = t
    BY <1>1, <1>4, <2>2 DEF EnqueueCheck, InEnqueue, TypeOK
  <2>5. NewNow' \in SUBSET Nat /\ \A y \in NewNow' : serial <= y
    BY <2>3, <2>4 DEF NewNow
  <2>6. Chain(Past, BatchNow, HandNow, WaitNow, NewNow')
    <3>1. serial \in NewNow
      BY DEF NewNow
    <3>2. \A M \in SUBSET Nat : (\A y \in M : serial <= y) => Chain(Past, BatchNow, HandNow, WaitNow, M)
      BY <3>1, ChainMoves DEF OrderInv
    <3>3. QED
      BY <2>5, <3>2
  <2>7. QED
    BY <1>2, <2>1, <2>3, <2>4, <2>6 DEF OrderInv, WaitNow
<1>5. CASE EnqueueIndex(t) \/ EnqueueCopy(t) \/ EnqueueLoad(t) \/ AuditLogWake(t)
  <2>1. pc[t] # "store" /\ UNCHANGED <<accepted, log_msg, serial>>
    BY <1>5 DEF EnqueueIndex, EnqueueCopy, EnqueueOverrun, EnqueueLoad, AuditLogWake, histVars
  <2>2. Contents' = Contents
    BY <1>1, <2>1, TaskContents
  <2>3. \A u \in Task : InEnqueue(u)' <=> InEnqueue(u)
    BY <1>1, <1>5 DEF EnqueueIndex, EnqueueCopy, EnqueueOverrun, EnqueueLoad, AuditLogWake, InEnqueue, TypeOK
  <2>4. NewNow' = NewNow
    BY <2>1, <2>3 DEF NewNow
  <2>5. QED
    BY <1>2, <2>1, <2>2, <2>3, <2>4 DEF OrderInv, WaitNow
<1>6. CASE EnqueueOverrun(t)
  <2>1. pc[t] # "store" /\ UNCHANGED <<accepted, log_msg, serial>>
        /\ \A u \in Task : ~InEnqueue(u)'
    BY <1>6 DEF EnqueueOverrun, InEnqueue, histVars
  <2>2. Contents' = Contents
    BY <1>1, <2>1, TaskContents
  <2>3. serial \in Nat /\ serial \in NewNow /\ NewNow' = {serial}
    BY <1>1, <2>1 DEF NewNow, TypeOK
  <2>4. Chain(Past, BatchNow, HandNow, WaitNow, {serial})
    <3>1. \A M \in SUBSET Nat : (\A y \in M : serial <= y) => Chain(Past, BatchNow, HandNow, WaitNow, M)
      BY <2>3, ChainMoves DEF OrderInv
    <3>2. QED
      BY <2>3, <3>1
  <2>5. QED
    BY <1>2, <2>1, <2>2, <2>3, <2>4 DEF OrderInv, WaitNow
<1>7. QED
  BY <1>3, <1>4, <1>5, <1>6 DEF AuditLogEnd

\* kauditd moves records on, each of them to its next place.
LEMMA KauditdOrder ==
  ASSUME RingInv, WrittenInv, GrowsInv, OrderInv, Kauditd
  PROVE  OrderInv'
<1>1. TypeOK /\ RaceInv /\ SerialInv /\ SlotInv
  BY DEF RingInv, RaceInv
<1>2. UNCHANGED <<taskVars, accepted>>
  BY DEF Kauditd, KauditdWake, KauditdCheck, StartBatch, SessionFails, DequeueCheck,
         DequeueCopy, DequeueHead, DequeueLoad, DequeueStore, LoopAppend, LoopEnd,
         InvokeSucceeds, InvokeFails, histVars
<1>3. NewNow' = NewNow /\ \A t \in Task : InEnqueue(t)' => log_msg'[t].id < serial'
  BY <1>2 DEF NewNow, InEnqueue, taskVars, OrderInv
<1>4. CASE DequeueCopy
  <2> DEFINE x == event_log'.id
  <2>1. Contents # <<>> /\ Contents' = Tail(Contents) /\ event_log' = Head(Contents)
    BY <1>1, <1>4, KauditdContents DEF DequeueCopy
  <2>2. Contents \in Seq(AnyRecord)
    BY SeqMonotonic DEF WrittenInv, AnyRecord
  <2>3. WaitNow = WaitNow' \cup {x} /\ Increasing(Contents') /\ Below({x}, WaitNow')
    BY <2>1, <2>2, TailIds DEF WaitNow, OrderInv
  <2>4. HandNow = {} /\ HandNow' = {x} /\ BatchNow' = BatchNow /\ Past' = Past
        /\ summary_log' = summary_log /\ Batching
    BY <1>4 DEF DequeueCopy, HandNow, BatchNow, Past, Holding, Batching, BatchIds, histVars
  <2>5. Chain(Past, BatchNow, {x}, WaitNow', NewNow)
    <3>1. x \in WaitNow /\ WaitNow' \in SUBSET WaitNow
      BY <2>3
    <3>2. QED
      BY <2>3, <2>4, <3>1, ChainMoves DEF OrderInv
  <2>6. QED
    BY <1>2, <1>3, <2>3, <2>4, <2>5 DEF OrderInv
<1>5. CASE LoopAppend
  <2>1. Contents' = Contents /\ event_log' = event_log
    BY <1>1, <1>5, KauditdContents DEF LoopAppend
  <2>2. event_log \in AnyRecord /\ summary_log \in Seq(AnyRecord)
    BY <1>1, StoredRecords DEF TypeOK, AnyRecord
  <2>3. HandNow = {event_log.id} /\ HandNow' = {} /\ BatchNow = IdsOf(summary_log)
        /\ BatchNow' = IdsOf(summary_log') /\ Past' = Past /\ Batching
    BY <1>5 DEF LoopAppend, HandNow, BatchNow, Past, Holding, Batching, BatchIds, IdsOf, histVars
  <2>4. Below(IdsOf(summary_log), {event_log.id})
    BY <2>3 DEF OrderInv, Chain
  <2>5. BatchNow' = BatchNow \cup HandNow /\ Increasing(summary_log')
    BY <1>5, <2>2, <2>3, <2>4, AppendIds DEF LoopAppend, OrderInv
  <2>6. Chain(Past, BatchNow \cup HandNow, {}, WaitNow, NewNow)
    BY ChainMoves DEF OrderInv
  <2>7. QED
    BY <1>2, <1>3, <2>1, <2>3, <2>5, <2>6 DEF OrderInv, WaitNow
<1>6. CASE InvokeSucceeds \/ InvokeFails
  <2>1. Contents' = Contents
    BY <1>1, <1>6, KauditdContents DEF InvokeSucceeds, InvokeFails
  <2>2. HandNow = {} /\ HandNow' = {} /\ BatchNow' = {} /\ ~Batching' /\ Past' = Past \cup BatchNow
    BY <1>6 DEF InvokeSucceeds, InvokeFails, HandNow, BatchNow, Past, Holding, Batching
  <2>3. Chain(Past \cup BatchNow, {}, {}, WaitNow, NewNow)
    BY <2>2, ChainMoves DEF OrderInv
  <2>4. QED
    BY <1>2, <1>3, <2>1, <2>2, <2>3 DEF OrderInv, WaitNow
<1>7. CASE StartBatch
  <2>1. Contents' = Contents
    BY <1>1, <1>7, KauditdContents DEF StartBatch
  <2>2. summary_log' = <<>> /\ BatchIds' = {} /\ Increasing(summary_log')
    BY <1>7 DEF StartBatch, BatchIds, Increasing
  <2>3. UNCHANGED <<Past, BatchNow, HandNow>>
    BY <1>7, <2>2 DEF StartBatch, HandNow, BatchNow, Past, Holding, Batching, histVars
  <2>4. QED
    BY <1>2, <1>3, <2>1, <2>2, <2>3 DEF OrderInv, WaitNow
<1>8. CASE KauditdWake \/ KauditdCheck \/ SessionFails \/ DequeueCheck \/ DequeueHead
           \/ DequeueLoad \/ DequeueStore
  <2>1. kpc # "copy" /\ UNCHANGED <<summary_log, sent, failed, Holding, Batching>>
    BY <1>1, <1>8
    DEF KauditdWake, KauditdCheck, SessionFails, DequeueCheck, DequeueHead, DequeueLoad,
        DequeueStore, Holding, Batching, RaceInv, SeenNonEmpty, batchVars, histVars
  <2>2. Contents' = Contents /\ event_log' = event_log
    BY <1>1, <2>1, KauditdContents
  <2>3. UNCHANGED <<Past, BatchNow, HandNow>>
    BY <2>1, <2>2 DEF HandNow, BatchNow, Past, BatchIds
  <2>4. QED
    BY <1>2, <1>3, <2>1, <2>2, <2>3 DEF OrderInv, WaitNow
<1>9. CASE LoopEnd
  BY <1>1, <1>9, LimitPassedFirst DEF LoopEnd, TypeOK
<1>10. QED
  BY <1>4, <1>5, <1>6, <1>7, <1>8, <1>9 DEF Kauditd

\* All of this is invariant as long as calls do not overlap.
THEOREM SerialRingInvariance ==
  ASSUME ~Overlap
  PROVE  Spec => []SerialRingInv
<1>1. Init => WrittenInv /\ GrowsInv /\ OrderInv
  <2> SUFFICES ASSUME Init PROVE WrittenInv /\ GrowsInv /\ OrderInv
    OBVIOUS
  <2>1. Contents = <<>>
    BY DEF Init, Contents, Ring, InQueue
  <2>2. WrittenInv /\ GrowsInv
    BY <2>1 DEF Init, WrittenInv, Holding, GrowsInv, InBatch
  <2>3. Past = {} /\ BatchNow = {} /\ HandNow = {} /\ WaitNow = {} /\ NewNow = {1}
    BY <2>1 DEF Init, Past, BatchNow, HandNow, WaitNow, NewNow, Batching, Holding, IdsOf, InEnqueue
  <2>4. OrderInv
    BY <2>1, <2>3 DEF Init, OrderInv, Chain, Below, Increasing, InEnqueue, Batching
  <2>5. QED
    BY <2>2, <2>4
<1>2. RingInv /\ WrittenInv /\ GrowsInv /\ OrderInv /\ [Next]_vars => OrderInv'
  <2>1. ASSUME OrderInv, UNCHANGED vars PROVE OrderInv'
    BY <2>1 DEF OrderInv, Past, BatchNow, HandNow, WaitNow, NewNow, Batching, Holding, BatchIds,
                Contents, OutHead, InQueue, NextHead, InEnqueue, vars, taskVars, ringVars,
                batchVars, histVars
  <2>2. QED
    BY <2>1, TaskOrder, KauditdOrder DEF Next
<1>3. RingInv /\ WrittenInv /\ GrowsInv /\ [Next]_vars => WrittenInv' /\ GrowsInv'
  BY StepWritten, StepGrows
<1>4. QED
  BY <1>1, <1>2, <1>3, RingInvariance, PTL DEF Spec, SerialRingInv

\* As long as calls do not overlap, every record that enqueue() has accepted is in
\* the ring buffer, in kauditd's hands, or in a batch that was handed over or
\* failed: the missing lock is the only reason why a record disappears.
THEOREM NothingLost ==
  ASSUME ~Overlap
  PROVE  Spec => []Accounted
<1>1. SerialRingInv => Accounted
  <2> SUFFICES ASSUME SerialRingInv PROVE Accounted
    OBVIOUS
  <2>1. WaitNow = Waiting
    <3>1. InQueue \in Int /\ OutHead \in Int
      BY QueueAssumption
      DEF SerialRingInv, RingInv, RaceInv, TypeOK, InQueue, OutHead, NextHead, Slot
    <3>2. \A i \in 1..InQueue : i - 1 \in 0..InQueue - 1 /\ OutHead + i - 1 = OutHead + (i - 1)
      BY <3>1
    <3>3. \A i \in 0..InQueue - 1 : i + 1 \in 1..InQueue /\ OutHead + (i + 1) - 1 = OutHead + i
      BY <3>1
    <3>4. QED
      BY <3>2, <3>3 DEF WaitNow, IdsOf, Contents, Ring, Waiting
  <2>2. InHand = HandNow \cup BatchNow
    BY DEF InHand, HandNow, BatchNow, Holding, Batching
  <2>3. QED
    BY <2>1, <2>2 DEF SerialRingInv, OrderInv, Past, Accounted
<1>2. QED
  BY <1>1, SerialRingInvariance, PTL

\* As long as calls do not overlap, a batch has its records in the order in which
\* they were logged, and none that an earlier batch had.
THEOREM BatchesInOrder ==
  ASSUME ~Overlap
  PROVE  Spec => []InOrder
<1>1. SerialRingInv => InOrder
  <2> SUFFICES ASSUME SerialRingInv, kpc \in {"dequeue", "loop", "invoke"}
               PROVE  /\ Increasing(summary_log)
                      /\ BatchIds \cap (sent \cup failed) = {}
    BY DEF InOrder, Increasing
  <2>1. Increasing(summary_log) /\ BatchNow = BatchIds
    BY DEF SerialRingInv, OrderInv, Batching, BatchNow
  <2>2. Below(Past, BatchIds) /\ BatchIds \subseteq Nat
    BY <2>1 DEF SerialRingInv, OrderInv, Chain
  <2>3. ASSUME NEW x \in BatchIds, x \in Past PROVE FALSE
    <3>1. x < x /\ x \in Nat
      BY <2>2, <2>3 DEF Below
    <3>2. QED
      BY <3>1
  <2>4. QED
    BY <2>1, <2>3 DEF Past
<1>2. QED
  BY <1>1, SerialRingInvariance, PTL
=============================================================================
